----------------------- MODULE TripLifecycleInvariant -----------------------
(***************************************************************************)
(* What is true of TripLifecycle whatever fails, for any number of trips,  *)
(* runs and requests: its type, what each field of a request, a run and a  *)
(* lock means, and that it implements ApprovalGate.                        *)
(***************************************************************************)
EXTENDS TripLifecycle, TLAPS

\* A row nobody has locked has nothing uncommitted.
CleanRows == \A x \in Rows : lock[x] = None => latest[x] = db[x]

\* What the fields of a run mean.  A row of approval_requests exists exactly
\* when its run has ended by asking.
RunOK ==
  \A r \in Runs :
    /\ run[r].pc = "unborn" => run[r] = Unborn
    /\ run[r].pc # "unborn" =>
         /\ run[r].trip \in Trips
         /\ db[run[r].trip] # "absent"
         /\ latest[run[r].trip] # "absent"
    /\ run[r].pc # "asked" => db[r] = "absent" /\ latest[r] = "absent"
    /\ run[r].pc = "asked" => db[r] # "absent"

WithRun == {"plan_reset", "plan_wait", "approve_mark", "approve_resume",
            "approve_commit"}
Reserving == {"plan_reset", "approve_mark", "approve_resume"}
WithApproval == {"approve_mark", "approve_resume", "approve_commit",
                 "reject_mark", "reject_cancel"}

\* What the fields of a request mean.
ReqOK ==
  \A q \in Requests :
    /\ req[q].pc # "idle" => req[q].trip \in Trips
    /\ req[q].pc \in WithRun <=> req[q].run # None
    /\ req[q].pc \in Reserving =>
         /\ run[req[q].run].pc = "reserved"
         /\ run[req[q].run].trip = req[q].trip
         /\ run[req[q].run].appr = req[q].appr
    /\ req[q].pc \in {"plan_wait", "approve_commit"} =>
         /\ run[req[q].run].pc \in Working \union Ended
         /\ run[req[q].run].trip = req[q].trip
         /\ run[req[q].run].appr = req[q].appr
    /\ req[q].pc \in WithApproval =>
         /\ req[q].appr \in Runs
         /\ run[req[q].appr].pc = "asked"
         /\ run[req[q].appr].trip = req[q].trip
    /\ req[q].pc \in {"approve_resume", "approve_commit"} => req[q].loaded # None
    /\ \A p \in Requests :
         /\ p # q
         /\ req[p].pc \in Reserving
         /\ req[q].pc \in Reserving
         => req[p].run # req[q].run

SweepOK ==
  /\ sweep.pc \in {"mark", "cancel"} =>
       sweep.cur \in Runs /\ run[sweep.cur].pc = "asked"
  /\ \A a \in sweep.todo : run[a].pc = "asked"

\* Who holds a row, and what it wrote there.
LockOK ==
  /\ \A x \in Rows : lock[x] \notin Runs
  /\ \A t \in Trips, q \in Requests : lock[t] = q =>
       /\ req[q].trip = t
       /\ \/ req[q].pc = "plan_wait" /\ latest[t] = "pending"
          \/ req[q].pc = "approve_commit" /\ latest[t] = "planning"
  /\ \A t \in Trips : lock[t] = Sweep =>
       sweep.pc # "idle" /\ latest[t] = "cancelled"
  /\ \A a \in Runs, q \in Requests : lock[a] = q =>
       /\ req[q].appr = a
       /\ \/ req[q].pc \in {"approve_resume", "approve_commit"}
             /\ latest[a] = "approved"
          \/ req[q].pc = "reject_cancel" /\ latest[a] = "rejected"
  /\ \A a \in Runs : lock[a] = Sweep =>
       /\ sweep.pc # "idle"
       /\ latest[a] = "expired"
       /\ \/ sweep.pc = "cancel" /\ sweep.cur = a
          \/ lock[run[a].trip] = Sweep

Base == TypeOK /\ CleanRows /\ RunOK /\ ReqOK /\ SweepOK /\ LockOK

-----------------------------------------------------------------------------
\* What the steps of requests and runs make of their states.
LEMMA ReqStepType ==
  ASSUME TypeOK, NEW q \in Requests, NEW from, NEW to \in ReqPc,
         ReqStep(q, from, to)
  PROVE  req' \in [Requests -> RequestState]
BY DEF TypeOK, ReqStep, RequestState

LEMMA RunStepType ==
  ASSUME TypeOK, NEW r \in Runs, NEW from, NEW to \in RunPc,
         RunStep(r, from, to)
  PROVE  run' \in [Runs -> RunState]
BY DEF TypeOK, RunStep, RunState

LEMMA StartType ==
  ASSUME TypeOK, NEW r \in Runs, Start(r)
  PROVE  run' \in [Runs -> RunState]
BY DEF TypeOK, Start, RunState, RunPc, Working

LEMMA LoadType ==
  ASSUME TypeOK, NEW r \in Runs, NEW from, NEW to \in RunPc,
         db[run[r].trip] \in TripStatus, Load(r, from, to)
  PROVE  run' \in [Runs -> RunState]
BY ZenonT(60) DEF TypeOK, Load, RunState

LEMMA LoadedType ==
  ASSUME TypeOK, NEW q \in Requests, NEW to \in ReqPc, NEW v \in TripStatus,
         req' = [req EXCEPT ![q] = [@ EXCEPT !.pc = to, !.loaded = v]]
  PROVE  req' \in [Requests -> RequestState]
BY ZenonT(60) DEF TypeOK, RequestState

\* What a client starts keeps the base invariant.
LEMMA ClientKeepsBase ==
  ASSUME Base, NEW q \in Requests, ClientStep(q)
  PROVE  Base'
<1> USE DistinctNames
    DEF Base, TypeOK, CleanRows, RunOK, ReqOK, SweepOK, LockOK, Rows, Procs,
        TripStatus, ApprovalStatus, RequestState, RunState, ReqPc, RunPc,
        Working, Ended, WithRun, Reserving, WithApproval, ReqAt, RunAt, IdleReq, Unborn, IdleSweep,
        store, Free, Write, Commit, CommitWith, Rollback
<1>1. ASSUME NEW t \in Trips, CreateTrip(q, t)
     PROVE  Base'
  <2>1. TypeOK'
    BY <1>1, SMTT(40) DEF CreateTrip
  <2>2. CleanRows'
    BY <1>1, SMTT(40) DEF CreateTrip
  <2>3. RunOK'
    BY <1>1, SMTT(40) DEF CreateTrip
  <2>4. ReqOK'
    BY <1>1, SMTT(40) DEF CreateTrip
  <2>5. SweepOK'
    BY <1>1, SMTT(40) DEF CreateTrip
  <2>6. LockOK'
    BY <1>1, SMTT(40) DEF CreateTrip
  <2> QED  BY <2>1, <2>2, <2>3, <2>4, <2>5, <2>6
<1>2. ASSUME NEW t \in Trips, NEW r \in Runs, PlanDispatch(q, t, r)
     PROVE  Base'
  <2>1. db[t] # "absent"
    BY <1>2, PlanFromAssumption DEF PlanDispatch, PlanAllowed
  <2>2. latest[t] # "absent"
    BY <2>1
  <2>3. TypeOK'
    BY <1>2, <2>1, <2>2, SMTT(40) DEF PlanDispatch, PlanAllowed
  <2>4. CleanRows'
    BY <1>2, <2>1, <2>2, SMTT(40) DEF PlanDispatch, PlanAllowed
  <2>5. RunOK'
    BY <1>2, <2>1, <2>2, SMTT(40) DEF PlanDispatch, PlanAllowed
  <2>6. ReqOK'
    BY <1>2, <2>1, <2>2, SMTT(40) DEF PlanDispatch, PlanAllowed
  <2>7. SweepOK'
    BY <1>2, <2>1, <2>2, SMTT(40) DEF PlanDispatch, PlanAllowed
  <2>8. LockOK'
    BY <1>2, <2>1, <2>2, SMTT(40) DEF PlanDispatch, PlanAllowed
  <2> QED  BY <2>3, <2>4, <2>5, <2>6, <2>7, <2>8
<1>3. ASSUME NEW t \in Trips, NEW r \in Runs, PlanRead(q, t, r)
     PROVE  Base'
  <2>1. db[t] # "absent"
    BY <1>3, SMTT(40) DEF PlanRead, Settled
  <2>2. latest[t] # "absent"
    BY <2>1
  <2>3. TypeOK'
    BY <1>3, <2>1, <2>2, SMTT(40) DEF PlanRead, PlanAllowed, Reserve, Settled
  <2>4. CleanRows'
    BY <1>3, <2>1, <2>2, SMTT(40) DEF PlanRead, PlanAllowed, Reserve, Settled
  <2>5. RunOK'
    BY <1>3, <2>1, <2>2, SMTT(40) DEF PlanRead, PlanAllowed, Reserve, Settled
  <2>6. ReqOK'
    BY <1>3, <2>1, <2>2, SMTT(40) DEF PlanRead, PlanAllowed, Reserve, Settled
  <2>7. SweepOK'
    BY <1>3, <2>1, <2>2, SMTT(40) DEF PlanRead, PlanAllowed, Reserve, Settled
  <2>8. LockOK'
    BY <1>3, <2>1, <2>2, SMTT(40) DEF PlanRead, PlanAllowed, Reserve, Settled
  <2> QED  BY <2>3, <2>4, <2>5, <2>6, <2>7, <2>8
<1>4. ASSUME NEW t \in Trips, CancelRead(q, t)
     PROVE  Base'
  <2>1. TypeOK'
    BY <1>4, SMTT(40) DEF CancelRead
  <2>2. CleanRows'
    BY <1>4, SMTT(40) DEF CancelRead
  <2>3. RunOK'
    BY <1>4, SMTT(40) DEF CancelRead
  <2>4. ReqOK'
    BY <1>4, SMTT(40) DEF CancelRead
  <2>5. SweepOK'
    BY <1>4, SMTT(40) DEF CancelRead
  <2>6. LockOK'
    BY <1>4, SMTT(40) DEF CancelRead
  <2> QED  BY <2>1, <2>2, <2>3, <2>4, <2>5, <2>6
<1>5. ASSUME NEW a \in Runs, RejectRead(q, a)
     PROVE  Base'
  <2>1. TypeOK'
    BY <1>5, SMTT(40) DEF RejectRead, Answerable
  <2>2. CleanRows'
    BY <1>5, SMTT(40) DEF RejectRead, Answerable
  <2>3. RunOK'
    BY <1>5, SMTT(40) DEF RejectRead, Answerable
  <2>4. ReqOK'
    BY <1>5, SMTT(40) DEF RejectRead, Answerable
  <2>5. SweepOK'
    BY <1>5, SMTT(40) DEF RejectRead, Answerable
  <2>6. LockOK'
    BY <1>5, SMTT(40) DEF RejectRead, Answerable
  <2> QED  BY <2>1, <2>2, <2>3, <2>4, <2>5, <2>6
<1>6. ASSUME NEW a \in Runs, NEW r \in Runs, ApproveRead(q, a, r)
     PROVE  Base'
  <2>1. TypeOK'
    BY <1>6, SMTT(40) DEF ApproveRead, Answerable, Reserve
  <2>2. CleanRows'
    BY <1>6, SMTT(40) DEF ApproveRead, Answerable, Reserve
  <2>3. RunOK'
    BY <1>6, SMTT(40) DEF ApproveRead, Answerable, Reserve
  <2>4. ReqOK'
    BY <1>6, SMTT(40) DEF ApproveRead, Answerable, Reserve
  <2>5. SweepOK'
    BY <1>6, SMTT(40) DEF ApproveRead, Answerable, Reserve
  <2>6. LockOK'
    BY <1>6, SMTT(40) DEF ApproveRead, Answerable, Reserve
  <2> QED  BY <2>1, <2>2, <2>3, <2>4, <2>5, <2>6
<1> QED  BY <1>1, <1>2, <1>3, <1>4, <1>5, <1>6 DEF ClientStep

\* So does what a request does afterwards.
LEMMA RequestKeepsBase ==
  ASSUME Base, NEW q \in Requests, RequestStep(q)
  PROVE  Base'
<1> USE DistinctNames
    DEF Base, TypeOK, CleanRows, RunOK, ReqOK, SweepOK, LockOK, Rows, Procs,
        TripStatus, ApprovalStatus, RequestState, RunState, ReqPc, RunPc,
        Working, Ended, WithRun, Reserving, WithApproval, ReqAt, RunAt, IdleReq, Unborn, IdleSweep,
        store, Free, Write, Commit, CommitWith, Rollback
<1>1. CASE PlanReset(q)
  <2>1. req' \in [Requests -> RequestState]
    BY <1>1, ReqStepType DEF PlanReset
  <2>2. run' \in [Runs -> RunState]
    <3>1. req[q].run \in Runs
      BY <1>1 DEF PlanReset, ReqStep
    <3> QED  BY <1>1, <3>1, StartType DEF PlanReset
  <2>3. TypeOK'
    BY <1>1, <2>1, <2>2, SMTT(40) DEF PlanReset, ReqStep, Start
  <2>4. CleanRows'
    BY <1>1, <2>1, <2>2, SMTT(40) DEF PlanReset, ReqStep, Start
  <2>5. RunOK'
    BY <1>1, <2>1, <2>2, SMTT(40) DEF PlanReset, ReqStep, Start
  <2>6. ReqOK'
    BY <1>1, <2>1, <2>2, SMTT(40) DEF PlanReset, ReqStep, Start
  <2>7. SweepOK'
    BY <1>1, <2>1, <2>2, SMTT(40) DEF PlanReset, ReqStep, Start
  <2>8. LockOK'
    BY <1>1, <2>1, <2>2, SMTT(40) DEF PlanReset, ReqStep, Start
  <2> QED  BY <2>3, <2>4, <2>5, <2>6, <2>7, <2>8
<1>2. CASE PlanRefused(q)
  <2>1. TypeOK'
    BY <1>2, SMTT(40) DEF PlanRefused, ReqEnds, GiveBack
  <2>2. CleanRows'
    BY <1>2, SMTT(40) DEF PlanRefused, ReqEnds, GiveBack
  <2>3. RunOK'
    BY <1>2, SMTT(40) DEF PlanRefused, ReqEnds, GiveBack
  <2>4. ReqOK'
    BY <1>2, SMTT(40) DEF PlanRefused, ReqEnds, GiveBack
  <2>5. SweepOK'
    BY <1>2, SMTT(40) DEF PlanRefused, ReqEnds, GiveBack
  <2>6. LockOK'
    BY <1>2, SMTT(40) DEF PlanRefused, ReqEnds, GiveBack
  <2> QED  BY <2>1, <2>2, <2>3, <2>4, <2>5, <2>6
<1>3. CASE PlanEnds(q)
  <2>1. TypeOK'
    BY <1>3, SMTT(40) DEF PlanEnds, ReqEnds
  <2>2. CleanRows'
    BY <1>3, SMTT(40) DEF PlanEnds, ReqEnds
  <2>3. RunOK'
    BY <1>3, SMTT(40) DEF PlanEnds, ReqEnds
  <2>4. ReqOK'
    BY <1>3, SMTT(40) DEF PlanEnds, ReqEnds
  <2>5. SweepOK'
    BY <1>3, SMTT(40) DEF PlanEnds, ReqEnds
  <2>6. LockOK'
    BY <1>3, SMTT(40) DEF PlanEnds, ReqEnds
  <2> QED  BY <2>1, <2>2, <2>3, <2>4, <2>5, <2>6
<1>4. CASE CancelWrite(q)
  <2>1. TypeOK'
    BY <1>4, SMTT(40) DEF CancelWrite, ReqEnds
  <2>2. CleanRows'
    BY <1>4, SMTT(40) DEF CancelWrite, ReqEnds
  <2>3. RunOK'
    BY <1>4, SMTT(40) DEF CancelWrite, ReqEnds
  <2>4. ReqOK'
    BY <1>4, SMTT(40) DEF CancelWrite, ReqEnds
  <2>5. SweepOK'
    BY <1>4, SMTT(40) DEF CancelWrite, ReqEnds
  <2>6. LockOK'
    BY <1>4, SMTT(40) DEF CancelWrite, ReqEnds
  <2> QED  BY <2>1, <2>2, <2>3, <2>4, <2>5, <2>6
<1>5. CASE ApproveMark(q)
  <2>1. db[req[q].trip] \in TripStatus
    BY <1>5, SMTT(40) DEF ApproveMark
  <2>2. req' \in [Requests -> RequestState]
    BY <1>5, <2>1, LoadedType DEF ApproveMark
  <2>3. TypeOK'
    BY <1>5, <2>1, <2>2, SMTT(40) DEF ApproveMark
  <2>4. CleanRows'
    BY <1>5, <2>1, <2>2, SMTT(40) DEF ApproveMark
  <2>5. RunOK'
    BY <1>5, <2>1, <2>2, SMTT(40) DEF ApproveMark
  <2>6. ReqOK'
    BY <1>5, <2>1, <2>2, SMTT(40) DEF ApproveMark
  <2>7. SweepOK'
    BY <1>5, <2>1, <2>2, SMTT(40) DEF ApproveMark
  <2>8. LockOK'
    BY <1>5, <2>1, <2>2, SMTT(40) DEF ApproveMark
  <2> QED  BY <2>3, <2>4, <2>5, <2>6, <2>7, <2>8
<1>6. CASE ApproveResume(q)
  <2>1. req' \in [Requests -> RequestState]
    BY <1>6, ReqStepType DEF ApproveResume
  <2>2. run' \in [Runs -> RunState]
    <3>1. req[q].run \in Runs
      BY <1>6 DEF ApproveResume, ReqStep
    <3> QED  BY <1>6, <3>1, StartType DEF ApproveResume
  <2>3. TypeOK'
    <3>1. /\ db' = db /\ sweep' = sweep /\ overdue' = overdue
          /\ \/ lock' = lock /\ latest' = latest
             \/ /\ lock' = [lock EXCEPT ![req[q].trip] = q]
                /\ latest' = [latest EXCEPT ![req[q].trip] = "planning"]
      BY <1>6 DEF ApproveResume
    <3> QED  BY <2>1, <2>2, <3>1, SMTT(40)
  <2>4. CleanRows'
    BY <1>6, <2>1, <2>2, SMTT(40) DEF ApproveResume, ReqStep, Start
  <2>5. RunOK'
    BY <1>6, <2>1, <2>2, SMTT(40) DEF ApproveResume, ReqStep, Start
  <2>6. ReqOK'
    BY <1>6, <2>1, <2>2, SMTT(40) DEF ApproveResume, ReqStep, Start
  <2>7. SweepOK'
    BY <1>6, <2>1, <2>2, SMTT(40) DEF ApproveResume, ReqStep, Start
  <2>8. LockOK'
    <3> HIDE DEF TypeOK, CleanRows, RunOK, ReqOK, SweepOK, RunState, RequestState
    <3>1. /\ req[q].pc = "approve_resume"
          /\ req[q].trip \in Trips
          /\ req'[q].pc = "approve_commit"
          /\ \A p \in Requests :
               /\ req'[p].trip = req[p].trip
               /\ req'[p].appr = req[p].appr
               /\ p # q => req'[p].pc = req[p].pc
          /\ \A s \in Runs : run'[s].trip = run[s].trip
          /\ sweep' = sweep
      BY <1>6 DEF ApproveResume, ReqStep, Start, TypeOK, ReqOK, RequestState,
                  RunState
    <3>2. CASE req[q].loaded = "planning"
      <4>1. lock' = lock /\ latest' = latest
        BY <1>6, <3>2 DEF ApproveResume
      <4> QED  BY <3>1, <4>1, SMTT(40)
    <3>3. CASE req[q].loaded # "planning"
      <4>1. /\ lock[req[q].trip] \in {None, q}
            /\ lock' = [lock EXCEPT ![req[q].trip] = q]
            /\ latest' = [latest EXCEPT ![req[q].trip] = "planning"]
        BY <1>6, <3>3 DEF ApproveResume
      <4>2. \A x \in Rows : x # req[q].trip => lock'[x] = lock[x]
                                            /\ latest'[x] = latest[x]
        BY <4>1 DEF TypeOK
      <4>3. lock'[req[q].trip] = q /\ latest'[req[q].trip] = "planning"
        BY <3>1, <4>1 DEF TypeOK
      <4> HIDE DEF Write, Free, store
      <4>4. \A a \in Runs : a # req[q].trip /\ lock'[a] = lock[a]
                                           /\ latest'[a] = latest[a]
        BY <3>1, <4>2
      <4>5. q \notin Runs /\ q # Sweep
        OBVIOUS
      <4>6. \A x \in Rows : lock'[x] \notin Runs
        BY <4>2, <4>3, <4>5
      <4>7. \A t \in Trips, p \in Requests : lock'[t] = p =>
              /\ req'[p].trip = t
              /\ \/ req'[p].pc = "plan_wait" /\ latest'[t] = "pending"
                 \/ req'[p].pc = "approve_commit" /\ latest'[t] = "planning"
        <5> SUFFICES ASSUME NEW t \in Trips, NEW p \in Requests, lock'[t] = p
                     PROVE  /\ req'[p].trip = t
                            /\ \/ /\ req'[p].pc = "plan_wait"
                                  /\ latest'[t] = "pending"
                               \/ /\ req'[p].pc = "approve_commit"
                                  /\ latest'[t] = "planning"
          OBVIOUS
        <5>1. CASE t = req[q].trip
          BY <3>1, <4>3, <5>1
        <5>2. CASE t # req[q].trip
          BY <3>1, <4>2, <5>2
        <5> QED  BY <5>1, <5>2
      <4>8. \A t \in Trips : lock'[t] = Sweep =>
              sweep'.pc # "idle" /\ latest'[t] = "cancelled"
        BY <3>1, <4>2, <4>3, <4>5
      <4>9. \A a \in Runs, p \in Requests : lock'[a] = p =>
              /\ req'[p].appr = a
              /\ \/ req'[p].pc \in {"approve_resume", "approve_commit"}
                    /\ latest'[a] = "approved"
                 \/ req'[p].pc = "reject_cancel" /\ latest'[a] = "rejected"
        BY <3>1, <4>4
      <4>10. \A a \in Runs : lock'[a] = Sweep =>
              /\ sweep'.pc # "idle"
              /\ latest'[a] = "expired"
              /\ \/ sweep'.pc = "cancel" /\ sweep'.cur = a
                 \/ lock'[run'[a].trip] = Sweep
        <5> SUFFICES ASSUME NEW a \in Runs, lock'[a] = Sweep
                     PROVE  /\ sweep'.pc # "idle"
                            /\ latest'[a] = "expired"
                            /\ \/ sweep'.pc = "cancel" /\ sweep'.cur = a
                               \/ lock'[run'[a].trip] = Sweep
          OBVIOUS
        <5>1. run[a].trip \in Trips
          BY <4>4 DEF TypeOK, RunOK
        <5>2. lock[run[a].trip] = Sweep => run[a].trip # req[q].trip
          BY <4>1
        <5> QED  BY <3>1, <4>2, <4>4, <5>1, <5>2
      <4> QED  BY <4>6, <4>7, <4>8, <4>9, <4>10
    <3> QED  BY <3>2, <3>3
  <2> QED  BY <2>3, <2>4, <2>5, <2>6, <2>7, <2>8
<1>7. CASE ApproveCommit(q)
  <2>1. TypeOK'
    BY <1>7, SMTT(40) DEF ApproveCommit, ReqEnds
  <2>2. CleanRows'
    BY <1>7, SMTT(40) DEF ApproveCommit, ReqEnds
  <2>3. RunOK'
    BY <1>7, SMTT(40) DEF ApproveCommit, ReqEnds
  <2>4. ReqOK'
    BY <1>7, SMTT(40) DEF ApproveCommit, ReqEnds
  <2>5. SweepOK'
    BY <1>7, SMTT(40) DEF ApproveCommit, ReqEnds
  <2>6. LockOK'
    <3>1. /\ lock' = [x \in Rows |-> IF lock[x] = q THEN None ELSE lock[x]]
          /\ latest' = latest
          /\ req' = [req EXCEPT ![q] = IdleReq]
          /\ UNCHANGED <<run, sweep>>
      BY <1>7 DEF ApproveCommit, ReqEnds
    <3>2. \A x \in Rows : lock'[x] = lock[x] \/ (lock[x] = q /\ lock'[x] = None)
      BY <3>1
    <3>3. \A x \in Rows, p \in Requests : lock'[x] = p => p # q /\ req'[p] = req[p]
      BY <3>1
    <3> QED  BY <3>1, <3>2, <3>3
  <2> QED  BY <2>1, <2>2, <2>3, <2>4, <2>5, <2>6
<1>8. CASE ApproveCommitFails(q)
  <2>1. TypeOK'
    BY <1>8, SMTT(40) DEF ApproveCommitFails, ReqEnds
  <2>2. CleanRows'
    BY <1>8, SMTT(40) DEF ApproveCommitFails, ReqEnds
  <2>3. RunOK'
    BY <1>8, SMTT(40) DEF ApproveCommitFails, ReqEnds
  <2>4. ReqOK'
    BY <1>8, SMTT(40) DEF ApproveCommitFails, ReqEnds
  <2>5. SweepOK'
    BY <1>8, SMTT(40) DEF ApproveCommitFails, ReqEnds
  <2>6. LockOK'
    BY <1>8, SMTT(40) DEF ApproveCommitFails, ReqEnds
  <2> QED  BY <2>1, <2>2, <2>3, <2>4, <2>5, <2>6
<1>9. CASE RejectMark(q)
  <2>1. TypeOK'
    BY <1>9, SMTT(40) DEF RejectMark, ReqStep
  <2>2. CleanRows'
    BY <1>9, SMTT(40) DEF RejectMark, ReqStep
  <2>3. RunOK'
    BY <1>9, SMTT(40) DEF RejectMark, ReqStep
  <2>4. ReqOK'
    BY <1>9, SMTT(40) DEF RejectMark, ReqStep
  <2>5. SweepOK'
    BY <1>9, SMTT(40) DEF RejectMark, ReqStep
  <2>6. LockOK'
    BY <1>9, SMTT(40) DEF RejectMark, ReqStep
  <2> QED  BY <2>1, <2>2, <2>3, <2>4, <2>5, <2>6
<1>10. CASE RejectCancel(q)
  <2>1. TypeOK'
    BY <1>10, SMTT(40) DEF RejectCancel, ReqEnds
  <2>2. CleanRows'
    BY <1>10, SMTT(40) DEF RejectCancel, ReqEnds
  <2>3. RunOK'
    BY <1>10, SMTT(40) DEF RejectCancel, ReqEnds
  <2>4. ReqOK'
    BY <1>10, SMTT(40) DEF RejectCancel, ReqEnds
  <2>5. SweepOK'
    BY <1>10, SMTT(40) DEF RejectCancel, ReqEnds
  <2>6. LockOK'
    BY <1>10, SMTT(40) DEF RejectCancel, ReqEnds
  <2> QED  BY <2>1, <2>2, <2>3, <2>4, <2>5, <2>6
<1> QED  BY <1>1, <1>2, <1>3, <1>4, <1>5, <1>6, <1>7, <1>8, <1>9, <1>10
         DEF RequestStep

\* So does a planner run.
LEMMA PlannerKeepsBase ==
  ASSUME Base, NEW r \in Runs, PlannerStep(r)
  PROVE  Base'
<1> USE DistinctNames
    DEF Base, TypeOK, CleanRows, RunOK, ReqOK, SweepOK, LockOK, Rows, Procs,
        TripStatus, ApprovalStatus, RequestState, RunState, ReqPc, RunPc,
        Working, Ended, WithRun, Reserving, WithApproval, ReqAt, RunAt, IdleReq, Unborn, IdleSweep,
        store, Free, Write, Commit, CommitWith, Rollback
<1>1. CASE RunRead(r)
  <2>1. db[run[r].trip] \in TripStatus
    BY <1>1, SMTT(40) DEF RunRead, Load
  <2>2. run' \in [Runs -> RunState]
    BY <1>1, <2>1, LoadType DEF RunRead
  <2>3. TypeOK'
    BY <1>1, <2>1, <2>2, SMTT(40) DEF RunRead, Load
  <2>4. CleanRows'
    BY <1>1, <2>1, <2>2, SMTT(40) DEF RunRead, Load
  <2>5. RunOK'
    BY <1>1, <2>1, <2>2, SMTT(40) DEF RunRead, Load
  <2>6. ReqOK'
    BY <1>1, <2>1, <2>2, SMTT(40) DEF RunRead, Load
  <2>7. SweepOK'
    BY <1>1, <2>1, <2>2, SMTT(40) DEF RunRead, Load
  <2>8. LockOK'
    BY <1>1, <2>1, <2>2, SMTT(40) DEF RunRead, Load
  <2> QED  BY <2>3, <2>4, <2>5, <2>6, <2>7, <2>8
<1>2. CASE RunMark(r)
  <2>1. TypeOK'
    BY <1>2, SMTT(40) DEF RunMark, RunStep, OrmCommit
  <2>2. CleanRows'
    BY <1>2, SMTT(40) DEF RunMark, RunStep, OrmCommit
  <2>3. RunOK'
    BY <1>2, SMTT(40) DEF RunMark, RunStep, OrmCommit
  <2>4. ReqOK'
    BY <1>2, SMTT(40) DEF RunMark, RunStep, OrmCommit
  <2>5. SweepOK'
    BY <1>2, SMTT(40) DEF RunMark, RunStep, OrmCommit
  <2>6. LockOK'
    BY <1>2, SMTT(40) DEF RunMark, RunStep, OrmCommit
  <2> QED  BY <2>1, <2>2, <2>3, <2>4, <2>5, <2>6
<1>3. CASE RunGraph(r)
  <2>1. db[run[r].trip] \in TripStatus
    BY <1>3, SMTT(40) DEF RunGraph, Load
  <2>2. run' \in [Runs -> RunState]
    BY <1>3, <2>1, LoadType DEF RunGraph
  <2>3. /\ \E pc \in {"save", "ask_mark"} :
             run' = [run EXCEPT ![r] = [@ EXCEPT !.pc = pc,
                                                 !.loaded = db[run[r].trip]]]
        /\ run[r].pc = "graph"
        /\ UNCHANGED <<store, req, sweep, overdue>>
    BY <1>3, SMTT(40) DEF RunGraph, Load
  <2>4. TypeOK'
    BY <2>2, <2>3
  <2>5. CleanRows'
    BY <2>3
  <2>6. RunOK'
    BY <2>2, <2>3
  <2>7. ReqOK'
    BY <2>2, <2>3
  <2>8. SweepOK'
    BY <2>3
  <2>9. LockOK'
    BY <2>3
  <2> QED  BY <2>4, <2>5, <2>6, <2>7, <2>8, <2>9
<1>4. CASE RunGraphFails(r)
  <2>1. TypeOK'
    BY <1>4, SMTT(40) DEF RunGraphFails, RunStep
  <2>2. CleanRows'
    BY <1>4, SMTT(40) DEF RunGraphFails, RunStep
  <2>3. RunOK'
    BY <1>4, SMTT(40) DEF RunGraphFails, RunStep
  <2>4. ReqOK'
    BY <1>4, SMTT(40) DEF RunGraphFails, RunStep
  <2>5. SweepOK'
    BY <1>4, SMTT(40) DEF RunGraphFails, RunStep
  <2>6. LockOK'
    BY <1>4, SMTT(40) DEF RunGraphFails, RunStep
  <2> QED  BY <2>1, <2>2, <2>3, <2>4, <2>5, <2>6
<1>5. CASE RunFail(r)
  <2>1. TypeOK'
    BY <1>5, SMTT(40) DEF RunFail, RunStep
  <2>2. CleanRows'
    BY <1>5, SMTT(40) DEF RunFail, RunStep
  <2>3. RunOK'
    BY <1>5, SMTT(40) DEF RunFail, RunStep
  <2>4. ReqOK'
    BY <1>5, SMTT(40) DEF RunFail, RunStep
  <2>5. SweepOK'
    BY <1>5, SMTT(40) DEF RunFail, RunStep
  <2>6. LockOK'
    BY <1>5, SMTT(40) DEF RunFail, RunStep
  <2> QED  BY <2>1, <2>2, <2>3, <2>4, <2>5, <2>6
<1>6. CASE AskMark(r)
  <2>1. TypeOK'
    BY <1>6, SMTT(40) DEF AskMark, RunStep, OrmCommit
  <2>2. CleanRows'
    BY <1>6, SMTT(40) DEF AskMark, RunStep, OrmCommit
  <2>3. RunOK'
    BY <1>6, SMTT(40) DEF AskMark, RunStep, OrmCommit
  <2>4. ReqOK'
    BY <1>6, SMTT(40) DEF AskMark, RunStep, OrmCommit
  <2>5. SweepOK'
    BY <1>6, SMTT(40) DEF AskMark, RunStep, OrmCommit
  <2>6. LockOK'
    BY <1>6, SMTT(40) DEF AskMark, RunStep, OrmCommit
  <2> QED  BY <2>1, <2>2, <2>3, <2>4, <2>5, <2>6
<1>7. CASE AskCreate(r)
  <2>1. run' \in [Runs -> RunState]
    BY <1>7, SMTT(40) DEF AskCreate, RunStep
  <2>2. TypeOK'
    BY <1>7, <2>1, SMTT(40) DEF AskCreate, RunStep
  <2>3. CleanRows'
    BY <1>7, <2>1, SMTT(40) DEF AskCreate, RunStep
  <2>4. RunOK'
    BY <1>7, <2>1, SMTT(40) DEF AskCreate, RunStep
  <2>5. ReqOK'
    BY <1>7, <2>1, SMTT(40) DEF AskCreate, RunStep
  <2>6. SweepOK'
    BY <1>7, <2>1, SMTT(40) DEF AskCreate, RunStep
  <2>7. LockOK'
    BY <1>7, <2>1, SMTT(40) DEF AskCreate, RunStep
  <2> QED  BY <2>2, <2>3, <2>4, <2>5, <2>6, <2>7
<1>8. CASE RunSave(r)
  <2>1. TypeOK'
    BY <1>8, SMTT(40) DEF RunSave, RunStep, OrmCommit, OrmCommitRow
  <2>2. CleanRows'
    BY <1>8, SMTT(40) DEF RunSave, RunStep, OrmCommit, OrmCommitRow
  <2>3. RunOK'
    BY <1>8, SMTT(40) DEF RunSave, RunStep, OrmCommit, OrmCommitRow
  <2>4. ReqOK'
    BY <1>8, SMTT(40) DEF RunSave, RunStep, OrmCommit, OrmCommitRow
  <2>5. SweepOK'
    BY <1>8, SMTT(40) DEF RunSave, RunStep, OrmCommit, OrmCommitRow
  <2>6. LockOK'
    BY <1>8, SMTT(40) DEF RunSave, RunStep, OrmCommit, OrmCommitRow
  <2> QED  BY <2>1, <2>2, <2>3, <2>4, <2>5, <2>6
<1>9. CASE RunBreaks(r)
  <2>1. TypeOK'
    BY <1>9, SMTT(40) DEF RunBreaks
  <2>2. CleanRows'
    BY <1>9, SMTT(40) DEF RunBreaks
  <2>3. RunOK'
    BY <1>9, SMTT(40) DEF RunBreaks
  <2>4. ReqOK'
    BY <1>9, SMTT(40) DEF RunBreaks
  <2>5. SweepOK'
    BY <1>9, SMTT(40) DEF RunBreaks
  <2>6. LockOK'
    BY <1>9, SMTT(40) DEF RunBreaks
  <2> QED  BY <2>1, <2>2, <2>3, <2>4, <2>5, <2>6
<1>10. CASE RecoverRead(r)
  <2>1. db[run[r].trip] \in TripStatus
    BY <1>10, SMTT(40) DEF RecoverRead, Load
  <2>2. run' \in [Runs -> RunState]
    BY <1>10, <2>1, LoadType DEF RecoverRead
  <2>3. TypeOK'
    BY <1>10, <2>1, <2>2, SMTT(40) DEF RecoverRead, Load
  <2>4. CleanRows'
    BY <1>10, <2>1, <2>2, SMTT(40) DEF RecoverRead, Load
  <2>5. RunOK'
    BY <1>10, <2>1, <2>2, SMTT(40) DEF RecoverRead, Load
  <2>6. ReqOK'
    BY <1>10, <2>1, <2>2, SMTT(40) DEF RecoverRead, Load
  <2>7. SweepOK'
    BY <1>10, <2>1, <2>2, SMTT(40) DEF RecoverRead, Load
  <2>8. LockOK'
    BY <1>10, <2>1, <2>2, SMTT(40) DEF RecoverRead, Load
  <2> QED  BY <2>3, <2>4, <2>5, <2>6, <2>7, <2>8
<1>11. CASE RecoverMark(r)
  <2>1. TypeOK'
    BY <1>11, SMTT(40) DEF RecoverMark, RunStep, OrmCommit, OrmCommitRow
  <2>2. CleanRows'
    BY <1>11, SMTT(40) DEF RecoverMark, RunStep, OrmCommit, OrmCommitRow
  <2>3. RunOK'
    BY <1>11, SMTT(40) DEF RecoverMark, RunStep, OrmCommit, OrmCommitRow
  <2>4. ReqOK'
    BY <1>11, SMTT(40) DEF RecoverMark, RunStep, OrmCommit, OrmCommitRow
  <2>5. SweepOK'
    BY <1>11, SMTT(40) DEF RecoverMark, RunStep, OrmCommit, OrmCommitRow
  <2>6. LockOK'
    BY <1>11, SMTT(40) DEF RecoverMark, RunStep, OrmCommit, OrmCommitRow
  <2> QED  BY <2>1, <2>2, <2>3, <2>4, <2>5, <2>6
<1>12. CASE RecoverBreaks(r)
  <2>1. TypeOK'
    BY <1>12, SMTT(40) DEF RecoverBreaks
  <2>2. CleanRows'
    BY <1>12, SMTT(40) DEF RecoverBreaks
  <2>3. RunOK'
    BY <1>12, SMTT(40) DEF RecoverBreaks
  <2>4. ReqOK'
    BY <1>12, SMTT(40) DEF RecoverBreaks
  <2>5. SweepOK'
    BY <1>12, SMTT(40) DEF RecoverBreaks
  <2>6. LockOK'
    BY <1>12, SMTT(40) DEF RecoverBreaks
  <2> QED  BY <2>1, <2>2, <2>3, <2>4, <2>5, <2>6
<1> QED  BY <1>1, <1>2, <1>3, <1>4, <1>5, <1>6, <1>7, <1>8, <1>9, <1>10, <1>11,
            <1>12 DEF PlannerStep

\* So does the expiry sweep.
LEMMA SweepKeepsBase ==
  ASSUME Base, SweepStep
  PROVE  Base'
<1> USE DistinctNames
    DEF Base, TypeOK, CleanRows, RunOK, ReqOK, SweepOK, LockOK, Rows, Procs,
        TripStatus, ApprovalStatus, RequestState, RunState, ReqPc, RunPc,
        Working, Ended, WithRun, Reserving, WithApproval, ReqAt, RunAt, IdleReq, Unborn, IdleSweep,
        store, Free, Write, Commit, CommitWith, Rollback
<1>1. CASE SweepSelect
  <2>1. TypeOK'
    BY <1>1, SMTT(40) DEF SweepSelect, Stale
  <2>2. CleanRows'
    BY <1>1, SMTT(40) DEF SweepSelect, Stale
  <2>3. RunOK'
    BY <1>1, SMTT(40) DEF SweepSelect, Stale
  <2>4. ReqOK'
    BY <1>1, SMTT(40) DEF SweepSelect, Stale
  <2>5. SweepOK'
    BY <1>1, SMTT(40) DEF SweepSelect, Stale
  <2>6. LockOK'
    BY <1>1, SMTT(40) DEF SweepSelect, Stale
  <2> QED  BY <2>1, <2>2, <2>3, <2>4, <2>5, <2>6
<1>2. CASE SweepMark
  <2>1. TypeOK'
    BY <1>2, SMTT(40) DEF SweepMark
  <2>2. CleanRows'
    BY <1>2, SMTT(40) DEF SweepMark
  <2>3. RunOK'
    BY <1>2, SMTT(40) DEF SweepMark
  <2>4. ReqOK'
    BY <1>2, SMTT(40) DEF SweepMark
  <2>5. SweepOK'
    BY <1>2, SMTT(40) DEF SweepMark
  <2>6. LockOK'
    BY <1>2, SMTT(40) DEF SweepMark
  <2> QED  BY <2>1, <2>2, <2>3, <2>4, <2>5, <2>6
<1>3. CASE SweepCancel
  <2>1. TypeOK'
    BY <1>3, SMTT(40) DEF SweepCancel
  <2>2. CleanRows'
    BY <1>3, SMTT(40) DEF SweepCancel
  <2>3. RunOK'
    BY <1>3, SMTT(40) DEF SweepCancel
  <2>4. ReqOK'
    BY <1>3, SMTT(40) DEF SweepCancel
  <2>5. SweepOK'
    BY <1>3, SMTT(40) DEF SweepCancel
  <2>6. LockOK'
    BY <1>3, SMTT(40) DEF SweepCancel
  <2> QED  BY <2>1, <2>2, <2>3, <2>4, <2>5, <2>6
<1>4. CASE SweepCommit
  <2>1. TypeOK'
    BY <1>4, SMTT(40) DEF SweepCommit
  <2>2. CleanRows'
    BY <1>4, SMTT(40) DEF SweepCommit
  <2>3. RunOK'
    BY <1>4, SMTT(40) DEF SweepCommit
  <2>4. ReqOK'
    BY <1>4, SMTT(40) DEF SweepCommit
  <2>5. SweepOK'
    BY <1>4, SMTT(40) DEF SweepCommit
  <2>6. LockOK'
    BY <1>4, SMTT(40) DEF SweepCommit
  <2> QED  BY <2>1, <2>2, <2>3, <2>4, <2>5, <2>6
<1> QED  BY <1>1, <1>2, <1>3, <1>4 DEF SweepStep

\* So do the aborts of PostgreSQL, the clock, and a restart of the API.
LEMMA EnvironmentKeepsBase ==
  ASSUME Base,
         \/ \E q \in Requests : DeadlockBroken(q)
         \/ \E a \in Runs : Deadline(a)
         \/ Restart
         \/ UNCHANGED vars
  PROVE  Base'
<1> USE DistinctNames
    DEF Base, TypeOK, CleanRows, RunOK, ReqOK, SweepOK, LockOK, Rows, Procs,
        TripStatus, ApprovalStatus, RequestState, RunState, ReqPc, RunPc,
        Working, Ended, WithRun, Reserving, WithApproval, ReqAt, RunAt, IdleReq, Unborn, IdleSweep,
        store, Free, Write, Commit, CommitWith, Rollback
<1>1. ASSUME NEW q \in Requests, RequestAborted(q)
     PROVE  Base'
  <2>1. TypeOK'
    BY <1>1, SMTT(40) DEF RequestAborted, InCycle, ReqEnds, GiveBack
  <2>2. CleanRows'
    BY <1>1, SMTT(40) DEF RequestAborted, InCycle, ReqEnds, GiveBack
  <2>3. RunOK'
    BY <1>1, SMTT(40) DEF RequestAborted, InCycle, ReqEnds, GiveBack
  <2>4. ReqOK'
    BY <1>1, SMTT(40) DEF RequestAborted, InCycle, ReqEnds, GiveBack
  <2>5. SweepOK'
    BY <1>1, SMTT(40) DEF RequestAborted, InCycle, ReqEnds, GiveBack
  <2>6. LockOK'
    BY <1>1, SMTT(60) DEF RequestAborted, InCycle, ReqEnds, GiveBack
  <2> QED  BY <2>1, <2>2, <2>3, <2>4, <2>5, <2>6
<1>2. ASSUME NEW q \in Requests, SweepAborted(q)
     PROVE  Base'
  <2>1. TypeOK'
    BY <1>2, SMTT(40) DEF SweepAborted, InCycle
  <2>2. CleanRows'
    BY <1>2, SMTT(40) DEF SweepAborted, InCycle
  <2>3. RunOK'
    BY <1>2, SMTT(40) DEF SweepAborted, InCycle
  <2>4. ReqOK'
    BY <1>2, SMTT(40) DEF SweepAborted, InCycle
  <2>5. SweepOK'
    BY <1>2, SMTT(40) DEF SweepAborted, InCycle
  <2>6. LockOK'
    BY <1>2, SMTT(40) DEF SweepAborted, InCycle
  <2> QED  BY <2>1, <2>2, <2>3, <2>4, <2>5, <2>6
<1>3. ASSUME NEW a \in Runs, Deadline(a)
     PROVE  Base'
  <2>1. TypeOK'
    BY <1>3, SMTT(40) DEF Deadline
  <2>2. CleanRows'
    BY <1>3, SMTT(40) DEF Deadline
  <2>3. RunOK'
    BY <1>3, SMTT(40) DEF Deadline
  <2>4. ReqOK'
    BY <1>3, SMTT(40) DEF Deadline
  <2>5. SweepOK'
    BY <1>3, SMTT(40) DEF Deadline
  <2>6. LockOK'
    BY <1>3, SMTT(40) DEF Deadline
  <2> QED  BY <2>1, <2>2, <2>3, <2>4, <2>5, <2>6
<1>4. CASE Restart
  <2>1. TypeOK'
    BY <1>4, SMTT(60) DEF Restart
  <2>2. CleanRows'
    BY <1>4, SMTT(40) DEF Restart
  <2>3. RunOK'
    BY <1>4, SMTT(40) DEF Restart
  <2>4. ReqOK'
    BY <1>4, SMTT(40) DEF Restart
  <2>5. SweepOK'
    BY <1>4, SMTT(40) DEF Restart
  <2>6. LockOK'
    BY <1>4, SMTT(40) DEF Restart
  <2> QED  BY <2>1, <2>2, <2>3, <2>4, <2>5, <2>6
<1>5. CASE UNCHANGED vars
  <2>1. TypeOK'
    BY <1>5, SMTT(40) DEF vars
  <2>2. CleanRows'
    BY <1>5, SMTT(40) DEF vars
  <2>3. RunOK'
    BY <1>5, SMTT(40) DEF vars
  <2>4. ReqOK'
    BY <1>5, SMTT(40) DEF vars
  <2>5. SweepOK'
    BY <1>5, SMTT(40) DEF vars
  <2>6. LockOK'
    BY <1>5, SMTT(40) DEF vars
  <2> QED  BY <2>1, <2>2, <2>3, <2>4, <2>5, <2>6
<1> QED  BY <1>1, <1>2, <1>3, <1>4, <1>5 DEF DeadlockBroken

LEMMA InitBase == Init => Base
<1> SUFFICES ASSUME Init PROVE Base
  OBVIOUS
<1> USE DistinctNames
    DEF Init, Rows, Procs, ReqAt, RunAt, IdleReq, Unborn, IdleSweep
<1>1. TypeOK
  BY DEF TypeOK, RequestState, RunState, ReqPc, RunPc
<1>2. CleanRows
  BY DEF CleanRows
<1>3. RunOK
  BY DEF RunOK
<1>4. ReqOK
  BY DEF ReqOK, WithRun, WithApproval, Reserving
<1>5. SweepOK
  BY DEF SweepOK
<1>6. LockOK
  BY DEF LockOK
<1> QED  BY <1>1, <1>2, <1>3, <1>4, <1>5, <1>6 DEF Base

LEMMA NextBase == Base /\ [Next]_vars => Base'
BY ClientKeepsBase, RequestKeepsBase, PlannerKeepsBase, SweepKeepsBase,
   EnvironmentKeepsBase DEF Next

\* Whatever fails, the rows, the locks and the processes agree.
THEOREM BaseInvariant == Spec => []Base
<1> QED  BY InitBase, NextBase, PTL DEF Spec

\* Every variable keeps its type, under every fault.
THEOREM TypeCorrect == Spec => []TypeOK
<1>1. Base => TypeOK
  BY DEF Base
<1> QED  BY <1>1, BaseInvariant, PTL

-----------------------------------------------------------------------------
(* The gate: every step is one of ApprovalGate's, or cannot be seen there. *)

\* What else keeps decisions and trips together: the sweep holds what it is about
\* to expire, and cancels no trip but theirs.
SweepHolds ==
  /\ \A a \in Runs : lock[a] = Sweep => a \in overdue
  /\ sweep.todo \subseteq overdue
  /\ sweep.pc \in {"mark", "cancel"} => sweep.cur \in overdue
  /\ sweep.pc = "cancel" => lock[sweep.cur] = Sweep
  /\ \A t \in Trips : lock[t] = Sweep =>
       \E a \in Runs : lock[a] = Sweep /\ run[a].trip = t

\* A trip that a request cancels is there, and a request for a plan is about no
\* question.
RequestsFit ==
  \A q \in Requests :
    /\ req[q].pc = "cancel" => db[req[q].trip] # "absent"
    /\ req[q].pc = "plan_reset" => req[q].appr = None

\* The inductive invariant of the refinement.
Held == Base /\ SweepHolds /\ RequestsFit

\* The steps that tell the gate nothing of runs.
SameRuns ==
  /\ \A r \in Runs : run'[r].pc = "asked" <=> run[r].pc = "asked"
  /\ \A r \in Runs : run[r].pc = "asked" => run'[r].trip = run[r].trip
  /\ \A r, a \in Runs : run'[r].appr = a /\ run'[r].pc # "reserved"
                        <=> run[r].appr = a /\ run[r].pc # "reserved"

\* Such steps leave what the gate sees of runs.
LEMMA SameRunsSameGate ==
  ASSUME Base, Base', SameRuns
  PROVE  About' = About /\ Resumed' = Resumed
BY DEF Base, RunOK, SameRuns, About, Resumed

\* A transaction that holds no other row commits a trip.
LEMMA OneTripCommitted ==
  ASSUME Base, NEW p, NEW t \in Trips, NEW v, CommitWith(p, t, v),
         \A x \in Rows : lock[x] = p => x = t
  PROVE  db' = [db EXCEPT ![t] = v]
BY DEF Base, TypeOK, CommitWith, Rows

\* A commit that changes a trip only is a step of the gate.
LEMMA TripChanges ==
  ASSUME Base, Base', SameRuns, overdue' = overdue, NEW t \in Trips, db[t] # "absent",
         NEW v \in TripStatus, db' = [db EXCEPT ![t] = v]
  PROVE  Gate!Next
<1>1. t \in Rows /\ t \notin Runs /\ DOMAIN db = Rows
  BY DistinctNames DEF Rows, Base, TypeOK
<1>2. [a \in Runs |-> db'[a]] = [a \in Runs |-> db[a]]
  BY <1>1
<1>3. [s \in Trips |-> db'[s]] = [[s \in Trips |-> db[s]] EXCEPT ![t] = v]
  BY <1>1 DEF Rows
<1>4. Gate!Change(t)
  BY <1>2, <1>3, SameRunsSameGate DEF Gate!Change, TripStatus
<1> QED  BY <1>4 DEF Gate!Next

\* A step that commits nothing is not seen at the gate.
LEMMA NothingSeen ==
  ASSUME Base, Base', SameRuns, overdue' = overdue, db' = db
  PROVE  UNCHANGED Gate!vars
BY SameRunsSameGate DEF Gate!vars

\* Of the requests that arrive, only POST /trips commits: Gate!Create.
LEMMA ClientSimulates ==
  ASSUME Held, Base', NEW q \in Requests, ClientStep(q)
  PROVE  Gate!Next \/ UNCHANGED Gate!vars
<1>1. ASSUME NEW t \in Trips, CreateTrip(q, t) PROVE Gate!Next
  <2>1. \A x \in Rows : lock[x] # q
    BY <1>1, DistinctNames DEF Held, Base, LockOK, CreateTrip, Rows, WithApproval, TypeOK
  <2>2. db' = [db EXCEPT ![t] = "pending"]
    BY <1>1, <2>1, OneTripCommitted DEF Held, CreateTrip
  <2>3. SameRuns /\ overdue' = overdue
    BY <1>1 DEF CreateTrip, SameRuns
  <2>4. t \in Rows /\ t \notin Runs /\ DOMAIN db = Rows
    BY DistinctNames DEF Rows, Held, Base, TypeOK
  <2>5. [a \in Runs |-> db'[a]] = [a \in Runs |-> db[a]]
    BY <2>2, <2>4
  <2>6. [s \in Trips |-> db'[s]] = [[s \in Trips |-> db[s]] EXCEPT ![t] = "pending"]
    BY <2>2, <2>4 DEF Rows
  <2>7. Gate!Create(t)
    BY <1>1, <2>3, <2>5, <2>6, SameRunsSameGate DEF Gate!Create, CreateTrip, Held
  <2> QED  BY <2>7 DEF Gate!Next
<1>2. ASSUME NEW t \in Trips, CancelRead(q, t) PROVE UNCHANGED Gate!vars
  BY <1>2, NothingSeen DEF CancelRead, SameRuns, store, Held
<1>3. ASSUME NEW t \in Trips, NEW r \in Runs, PlanDispatch(q, t, r)
      PROVE  UNCHANGED Gate!vars
  <2>1. SameRuns
    BY <1>3, DistinctNames
    DEF PlanDispatch, SameRuns, Held, Base, TypeOK, RunOK, RunAt, Unborn, RunState, Rows
  <2> QED  BY <1>3, <2>1, NothingSeen DEF PlanDispatch, store, Held
<1>4. ASSUME NEW t \in Trips, NEW r \in Runs, PlanRead(q, t, r)
      PROVE  UNCHANGED Gate!vars
  <2>1. SameRuns
    BY <1>4, DistinctNames
    DEF PlanRead, Reserve, SameRuns, Held, Base, TypeOK, RunOK, RunAt, Unborn, RunState, Rows
  <2> QED  BY <1>4, <2>1, NothingSeen DEF PlanRead, store, Held
<1>5. ASSUME NEW a \in Runs, RejectRead(q, a) PROVE UNCHANGED Gate!vars
  BY <1>5, NothingSeen DEF RejectRead, SameRuns, store, Held
<1>6. ASSUME NEW a \in Runs, NEW r \in Runs, ApproveRead(q, a, r)
      PROVE  UNCHANGED Gate!vars
  <2>1. SameRuns
    BY <1>6, DistinctNames
    DEF ApproveRead, Reserve, SameRuns, Held, Base, TypeOK, RunOK, RunAt, Unborn, RunState, Rows
  <2> QED  BY <1>6, <2>1, NothingSeen DEF ApproveRead, store, Held
<1> QED  BY <1>1, <1>2, <1>3, <1>4, <1>5, <1>6 DEF ClientStep

\* A request's steps: approving is Resume, then Approve; rejecting is Reject; a
\* plan asked for anew and a cancellation are Change, or are not seen.
LEMMA RequestSimulates ==
  ASSUME Held, Base', NEW q \in Requests, RequestStep(q)
  PROVE  Gate!Next \/ UNCHANGED Gate!vars
<1>1. /\ \A x \in Rows : lock[x] = q => x = req[q].trip \/ x = req[q].appr
      /\ \A t \in Trips, a \in Runs : t # a
      /\ q # None /\ q # Sweep /\ q \notin Runs
  BY DistinctNames DEF Held, Base, LockOK, Rows, Procs
<1>2. /\ DOMAIN db = Rows /\ DOMAIN lock = Rows
      /\ \A t \in Trips : t \in Rows /\ db[t] \in TripStatus \union {"absent"}
      /\ \A a \in Runs : a \in Rows
  BY DEF Held, Base, TypeOK, Rows
<1>3. CASE PlanReset(q)
  <2>1. PICK r \in Runs : r = req[q].run
    BY <1>3 DEF PlanReset, ReqStep, Held, Base, TypeOK, ReqOK, WithRun, RequestState
  <2>2. run[r].pc = "reserved" /\ run[r].appr = req[q].appr /\ req[q].appr = None
    BY <1>3, <2>1 DEF PlanReset, ReqStep, Held, Base, ReqOK, Reserving, RequestsFit
  <2>3. run' = [run EXCEPT ![r].pc = "start"]
    BY <1>3, <2>1 DEF PlanReset, Start
  <2>4. SameRuns
    BY <2>2, <2>3, DistinctNames DEF SameRuns, Held, Base, TypeOK, RunState, Rows
  <2> QED  BY <1>3, <2>4, NothingSeen DEF PlanReset, Write, Held
<1>4. CASE PlanRefused(q)
  <2>1. SameRuns
    BY <1>4, DistinctNames
    DEF PlanRefused, GiveBack, SameRuns, Held, Base, TypeOK, ReqOK, Reserving, WithRun,
        RequestState, Unborn, RunAt, Rows
  <2> QED  BY <1>4, <2>1, NothingSeen DEF PlanRefused, store, Held
<1>5. CASE PlanEnds(q)
  <2> DEFINE t == req[q].trip
  <2>1. SameRuns /\ overdue' = overdue
    BY <1>5 DEF PlanEnds, SameRuns
  <2>2. t \in Trips /\ db[t] # "absent"
    BY <1>5 DEF PlanEnds, Held, Base, ReqOK, RunOK, WithRun, TypeOK, RequestState, Ended
  <2>3. \A x \in Rows : lock[x] = q => x = t
    BY <1>5, DistinctNames DEF PlanEnds, Held, Base, LockOK, Rows
  <2>4. CASE lock[t] = q
    <3>1. latest[t] = "pending"
      BY <1>5, <2>2, <2>4 DEF PlanEnds, Held, Base, LockOK
    <3>2. db' = [db EXCEPT ![t] = "pending"]
      BY <1>2, <1>5, <2>2, <2>3, <2>4, <3>1 DEF PlanEnds, Commit
    <3> QED  BY <2>1, <2>2, <3>2, TripChanges DEF Held, TripStatus
  <2>5. CASE lock[t] # q
    <3>1. db' = db
      BY <1>2, <1>5, <2>3, <2>5 DEF PlanEnds, Commit, Held, Base, TypeOK
    <3> QED  BY <2>1, <3>1, NothingSeen DEF Held
  <2> QED  BY <2>4, <2>5
<1>6. CASE CancelWrite(q)
  <2> DEFINE t == req[q].trip
  <2>1. SameRuns /\ overdue' = overdue
    BY <1>6 DEF CancelWrite, SameRuns
  <2>2. t \in Trips /\ db[t] # "absent"
    BY <1>6 DEF CancelWrite, Held, Base, ReqOK, RequestsFit
  <2>3. \A x \in Rows : lock[x] # q
    BY <1>6, DistinctNames DEF CancelWrite, Held, Base, LockOK, Rows
  <2>4. db' = [db EXCEPT ![t] = "cancelled"]
    BY <1>6, <2>2, <2>3, OneTripCommitted DEF CancelWrite, Held
  <2> QED  BY <2>1, <2>2, <2>4, TripChanges DEF Held, TripStatus
<1>7. CASE ApproveMark(q)
  BY <1>7, NothingSeen DEF ApproveMark, Write, SameRuns, Held
<1>8. CASE ApproveResume(q)
  <2> DEFINE a == req[q].appr
             r == req[q].run
  <2>1. /\ a \in Runs /\ run[a].pc = "asked" /\ r \in Runs
        /\ run[r].pc = "reserved" /\ run[r].appr = a
    BY <1>8 DEF ApproveResume, ReqStep, Held, Base, ReqOK, WithApproval, Reserving, WithRun,
                TypeOK, RequestState
  <2>2. run' = [run EXCEPT ![r].pc = "start"]
    BY <1>8 DEF ApproveResume, Start
  <2>3. db' = db /\ overdue' = overdue
    BY <1>8 DEF ApproveResume, Write, store
  <2>4. /\ DOMAIN run = Runs /\ run'[r].appr = a /\ run'[r].pc = "start"
        /\ \A s \in Runs \ {r} : run'[s] = run[s]
    BY <2>1, <2>2 DEF Held, Base, TypeOK, RunState
  <2>5. About' = About
    BY <2>1, <2>2, <2>3, <2>4 DEF About, Held, Base, RunOK
  <2>6. Resumed' = Resumed \union {a}
    BY <2>1, <2>4 DEF Resumed
  <2>7. db[a] # "absent"
    BY <2>1 DEF Held, Base, RunOK
  <2>8. Gate!Resume(a)
    BY <2>1, <2>3, <2>5, <2>6, <2>7 DEF Gate!Resume, Gate!Asked
  <2> QED  BY <2>1, <2>8 DEF Gate!Next
<1>9. CASE ApproveCommit(q)
  <2>0. PICK a \in Runs, t \in Trips : a = req[q].appr /\ t = req[q].trip
    BY <1>9 DEF ApproveCommit, Held, Base, ReqOK, WithApproval
  <2>1. SameRuns /\ overdue' = overdue
    BY <1>9 DEF ApproveCommit, SameRuns
  <2>2. About' = About /\ Resumed' = Resumed
    BY <2>1, SameRunsSameGate DEF Held
  <2>3. /\ run[a].pc = "asked" /\ run[a].trip = t
        /\ \E r \in Runs : run[r].appr = a /\ run[r].pc # "reserved"
    <3>1. req[q].pc = "approve_commit"
      BY <1>9 DEF ApproveCommit
    <3>2. run[a].pc = "asked" /\ run[a].trip = t
      BY <2>0, <3>1 DEF Held, Base, ReqOK, WithApproval
    <3>3. req[q].run \in Runs
      BY <3>1 DEF Held, Base, TypeOK, ReqOK, WithRun, RequestState
    <3>4. run[req[q].run].appr = a /\ run[req[q].run].pc \in Working \union Ended
      BY <2>0, <3>1 DEF Held, Base, ReqOK
    <3> QED  BY <3>2, <3>3, <3>4 DEF Working, Ended
  <2>4. db[a] # "absent" /\ db[t] # "absent" /\ About[a] = t /\ a \in Resumed
    BY <2>3 DEF Held, Base, RunOK, About, Resumed
  <2>5. /\ lock[a] = q => latest[a] = "approved"
        /\ lock[t] = q => latest[t] = "planning"
    BY <1>9, <2>0 DEF ApproveCommit, Held, Base, LockOK
  <2>6. db' = [x \in Rows |-> IF lock[x] = q THEN latest[x] ELSE db[x]]
    BY <1>2, <1>9 DEF ApproveCommit, Commit
  <2>7. CASE lock[a] = q
    <3>1. [b \in Runs |-> db'[b]] = [[b \in Runs |-> db[b]] EXCEPT ![a] = "approved"]
      BY <1>1, <1>2, <2>0, <2>5, <2>6, <2>7
    <3>2. [s \in Trips |-> db'[s]] \in {[s \in Trips |-> db[s]],
                                        [[s \in Trips |-> db[s]] EXCEPT ![t] = "planning"]}
      BY <1>1, <1>2, <2>0, <2>5, <2>6
    <3>3. Gate!Approve(a)
      BY <2>1, <2>2, <2>3, <2>4, <3>1, <3>2 DEF Gate!Approve, Gate!Asked
    <3> QED  BY <2>3, <3>3 DEF Gate!Next
  <2>8. CASE lock[a] # q /\ lock[t] = q
    <3>1. db' = [db EXCEPT ![t] = "planning"]
      BY <1>1, <1>2, <2>0, <2>5, <2>6, <2>8 DEF Held, Base, TypeOK
    <3> QED  BY <2>1, <2>3, <2>4, <3>1, TripChanges DEF Held, TripStatus
  <2>9. CASE lock[a] # q /\ lock[t] # q
    <3>1. db' = db
      BY <1>1, <1>2, <2>0, <2>6, <2>9 DEF Held, Base, TypeOK
    <3> QED  BY <2>1, <3>1, NothingSeen DEF Held
  <2> QED  BY <2>7, <2>8, <2>9
<1>10. CASE ApproveCommitFails(q)
  BY <1>10, NothingSeen DEF ApproveCommitFails, Rollback, SameRuns, Held
<1>11. CASE RejectMark(q)
  BY <1>11, NothingSeen DEF RejectMark, Write, SameRuns, Held
<1>12. CASE RejectCancel(q)
  <2>0. PICK a \in Runs, t \in Trips : a = req[q].appr /\ t = req[q].trip
    BY <1>12 DEF RejectCancel, Held, Base, ReqOK, WithApproval
  <2>1. SameRuns /\ overdue' = overdue
    BY <1>12 DEF RejectCancel, SameRuns
  <2>2. About' = About /\ Resumed' = Resumed
    BY <2>1, SameRunsSameGate DEF Held
  <2>3. run[a].pc = "asked" /\ run[a].trip = t
    BY <1>12, <2>0 DEF RejectCancel, Held, Base, ReqOK, WithApproval
  <2>4. db[a] # "absent" /\ db[t] # "absent" /\ About[a] = t
    BY <2>3 DEF Held, Base, RunOK, About
  <2>5. lock[a] = q => latest[a] = "rejected"
    BY <1>12, <2>0 DEF RejectCancel, Held, Base, LockOK
  <2>6. db' = [x \in Rows |-> IF x = t THEN "cancelled"
                              ELSE IF lock[x] = q THEN latest[x] ELSE db[x]]
    BY <1>2, <1>12, <2>0 DEF RejectCancel, CommitWith
  <2>7. [s \in Trips |-> db'[s]] = [[s \in Trips |-> db[s]] EXCEPT ![t] = "cancelled"]
    BY <1>1, <1>2, <2>0, <2>6
  <2>8. CASE lock[a] = q
    <3>1. [b \in Runs |-> db'[b]] = [[b \in Runs |-> db[b]] EXCEPT ![a] = "rejected"]
      BY <1>1, <1>2, <2>0, <2>5, <2>6, <2>8
    <3>2. Gate!Reject(a)
      BY <2>1, <2>2, <2>3, <2>4, <2>7, <3>1 DEF Gate!Reject, Gate!Asked
    <3> QED  BY <2>3, <3>2 DEF Gate!Next
  <2>9. CASE lock[a] # q
    <3>1. db' = [db EXCEPT ![t] = "cancelled"]
      BY <1>1, <1>2, <2>0, <2>6, <2>9 DEF Held, Base, TypeOK
    <3> QED  BY <2>1, <2>3, <2>4, <3>1, TripChanges DEF Held, TripStatus
  <2> QED  BY <2>8, <2>9
<1> QED  BY <1>3, <1>4, <1>5, <1>6, <1>7, <1>8, <1>9, <1>10, <1>11, <1>12 DEF RequestStep

\* A planner's steps: stopping at the gate is Ask, every other commit is Change.
LEMMA PlannerSimulates ==
  ASSUME Held, Base', NEW r \in Runs, PlannerStep(r)
  PROVE  Gate!Next \/ UNCHANGED Gate!vars
<1>1. CASE RunRead(r) \/ RunGraph(r) \/ RunGraphFails(r) \/ RunBreaks(r)
           \/ RecoverRead(r) \/ RecoverBreaks(r)
  <2>1. /\ \A s \in Runs \ {r} : run'[s] = run[s]
        /\ run[r].pc \notin {"reserved", "asked"}
        /\ run'[r].pc \notin {"reserved", "asked"}
        /\ run'[r].appr = run[r].appr
    <3>1. CASE RunRead(r) \/ RunGraph(r) \/ RecoverRead(r)
      <4> DEFINE v == db[run[r].trip]
                 At(from, to) == /\ run[r].pc = from
                                 /\ run' = [run EXCEPT ![r] = [run[r] EXCEPT !.pc = to, !.loaded = v]]
      <4>0. At("start", "mark") \/ At("graph", "save") \/ At("graph", "ask_mark")
              \/ At("recover", "recover_mark")
        BY <3>1 DEF RunRead, RunGraph, RecoverRead, Load
      <4>1. PICK to \in {"mark", "save", "ask_mark", "recover_mark"} :
              /\ run[r].pc \in {"start", "graph", "recover"}
              /\ run' = [run EXCEPT ![r] = [run[r] EXCEPT !.pc = to, !.loaded = v]]
        BY <4>0
      <4>2. run[r] \in RunState /\ DOMAIN run = Runs
        BY DEF Held, Base, TypeOK
      <4>3. /\ run'[r] = [run[r] EXCEPT !.pc = to, !.loaded = v]
            /\ \A s \in Runs \ {r} : run'[s] = run[s]
        BY <4>1, <4>2
      <4>4. run'[r].pc = to /\ run'[r].appr = run[r].appr
        BY <4>2, <4>3 DEF RunState
      <4> QED  BY <4>1, <4>3, <4>4
    <3>2. CASE RunGraphFails(r) \/ RunBreaks(r) \/ RecoverBreaks(r)
      BY <3>2 DEF RunGraphFails, RunBreaks, RecoverBreaks, RunStep, Working,
            Held, Base, TypeOK, RunState
    <3> QED  BY <1>1, <3>1, <3>2
  <2>2. db' = db /\ overdue' = overdue
    BY <1>1 DEF RunRead, RunGraph, RunGraphFails, RunBreaks, RecoverRead, RecoverBreaks, store
  <2>3. SameRuns
    BY <2>1 DEF SameRuns
  <2> QED  BY <2>2, <2>3, NothingSeen DEF Held
<1>2. CASE RunMark(r) \/ RunFail(r) \/ AskMark(r) \/ RunSave(r) \/ RecoverMark(r)
  <2>1. SameRuns /\ overdue' = overdue
    BY <1>2 DEF RunMark, RunFail, AskMark, RunSave, RecoverMark, RunStep,
                SameRuns, Held, Base, TypeOK, RunState
  <2>2. PICK t \in Trips : t = run[r].trip /\ db[t] # "absent"
    BY <1>2 DEF RunMark, RunFail, AskMark, RunSave, RecoverMark, RunStep, Held, Base, RunOK
  <2>3. PICK v \in TripStatus : CommitWith(r, t, v) \/ UNCHANGED store
    BY <1>2, <2>2 DEF RunMark, RunFail, AskMark, RunSave, RecoverMark, OrmCommit, OrmCommitRow,
                TripStatus
  <2>4. CASE CommitWith(r, t, v)
    <3>1. db' = [db EXCEPT ![t] = v]
      BY <2>2, <2>4, OneTripCommitted DEF Held, Base, LockOK
    <3> QED  BY <2>1, <2>2, <3>1, TripChanges DEF Held
  <2>5. CASE UNCHANGED store
    BY <2>1, <2>5, NothingSeen DEF Held, store
  <2> QED  BY <2>3, <2>4, <2>5
<1>3. CASE AskCreate(r)
  <2>0. PICK t \in Trips : t = run[r].trip /\ db[t] # "absent"
    BY <1>3 DEF AskCreate, RunStep, Held, Base, RunOK
  <2>1. /\ run[r].pc = "ask_create" /\ run' = [run EXCEPT ![r].pc = "asked"]
        /\ db' = [db EXCEPT ![r] = "pending", ![t] = "awaiting_approval"]
        /\ overdue' = overdue
    BY <1>3, <2>0 DEF AskCreate, RunStep
  <2>2. db[t] # "absent" /\ db[r] = "absent" /\ r # t
    BY <2>0, <2>1, DistinctNames DEF Held, Base, RunOK
  <2>3. /\ DOMAIN db = Rows /\ r \in Rows /\ t \in Rows /\ Trips \intersect Runs = {}
        /\ \A s \in Runs : s \in Rows
        /\ \A s \in Trips : s \in Rows
    BY <2>2, DistinctNames DEF Held, Base, TypeOK, Rows
  <2>4. /\ run'[r].pc = "asked" /\ run'[r].trip = t /\ run'[r].appr = run[r].appr
        /\ \A s \in Runs \ {r} : run'[s] = run[s]
    BY <2>0, <2>1 DEF Held, Base, TypeOK, RunState
  <2>5. /\ db'[r] = "pending" /\ db'[t] = "awaiting_approval"
        /\ \A x \in Rows \ {r, t} : db'[x] = db[x]
    BY <2>1, <2>2, <2>3
  <2>6. Resumed' = Resumed
    BY <2>1, <2>4 DEF Resumed
  <2>7. About' = [About EXCEPT ![r] = t]
    BY <2>2, <2>3, <2>4, <2>5 DEF About
  <2>8. [a \in Runs |-> db'[a]] = [[a \in Runs |-> db[a]] EXCEPT ![r] = "pending"]
    BY <2>2, <2>3, <2>5
  <2>9. [s \in Trips |-> db'[s]] = [[s \in Trips |-> db[s]] EXCEPT ![t] = "awaiting_approval"]
    BY <2>2, <2>3, <2>5
  <2>10. Gate!Ask(r, t)
    BY <2>1, <2>2, <2>6, <2>7, <2>8, <2>9 DEF Gate!Ask, Gate!Asked
  <2> QED  BY <2>2, <2>10 DEF Gate!Next
<1> QED  BY <1>1, <1>2, <1>3 DEF PlannerStep

\* Of the sweep only its commit is seen: Expire, with the approvals it holds.
LEMMA SweepSimulates ==
  ASSUME Held, Base', SweepStep
  PROVE  Gate!Next \/ UNCHANGED Gate!vars
<1>1. SameRuns /\ overdue' = overdue
  BY DEF SweepStep, SweepSelect, SweepMark, SweepCancel, SweepCommit, SameRuns
<1>2. CASE SweepSelect \/ SweepMark \/ SweepCancel
  BY <1>1, <1>2, NothingSeen DEF SweepSelect, SweepMark, SweepCancel, Write, store, Held
<1>3. CASE SweepCommit
  <2>0. PICK S \in SUBSET Runs : S = {a \in Runs : lock[a] = Sweep}
    OBVIOUS
  <2>1. About' = About /\ Resumed' = Resumed
    BY <1>1, SameRunsSameGate DEF Held
  <2>2. db' = [x \in Rows |-> IF lock[x] = Sweep THEN latest[x] ELSE db[x]]
    BY <1>3 DEF SweepCommit, Commit, Held, Base, TypeOK
  <2>3. \A a \in Runs : lock[a] = Sweep =>
          /\ latest[a] = "expired" /\ a \in overdue /\ About[a] = run[a].trip
          /\ run[a].trip \in Trips /\ lock[run[a].trip] = Sweep
    <3> TAKE a \in Runs
    <3> HAVE lock[a] = Sweep
    <3>1. latest[a] = "expired" /\ lock[run[a].trip] = Sweep
      BY <1>3 DEF SweepCommit, Held, Base, LockOK
    <3>2. run[a].pc = "asked"
      BY <3>1 DEF Held, Base, RunOK
    <3>3. run[a].trip \in Trips /\ db[a] # "absent"
      BY <3>2 DEF Held, Base, RunOK
    <3> QED  BY <3>1, <3>3 DEF Held, SweepHolds, About
  <2>4. \A s \in Trips : lock[s] = Sweep =>
          latest[s] = "cancelled" /\ \E a \in S : About[a] = s
    <3> TAKE s \in Trips
    <3> HAVE lock[s] = Sweep
    <3>1. latest[s] = "cancelled"
      BY DEF Held, Base, LockOK
    <3>2. PICK a \in Runs : lock[a] = Sweep /\ run[a].trip = s
      BY DEF Held, SweepHolds
    <3> QED  BY <2>0, <2>3, <3>1, <3>2
  <2>5. [a \in Runs |-> db'[a]]
        = [a \in Runs |-> IF a \in S THEN "expired" ELSE [b \in Runs |-> db[b]][a]]
    BY <2>0, <2>2, <2>3 DEF Rows
  <2>6. \A s \in Trips : lock[s] = Sweep <=> \E a \in S : About[a] = s
    BY <2>0, <2>3, <2>4
  <2>7. [s \in Trips |-> db'[s]]
        = [s \in Trips |-> IF \E a \in S : About[a] = s THEN "cancelled"
                           ELSE [u \in Trips |-> db[u]][s]]
    BY <2>2, <2>4, <2>6 DEF Rows
  <2>8. Gate!Expire(S)
    BY <1>1, <2>0, <2>1, <2>3, <2>5, <2>7 DEF Gate!Expire
  <2> QED  BY <2>8 DEF Gate!Next
<1> QED  BY <1>2, <1>3 DEF SweepStep

\* Deadlocks and restarts roll back what nobody has seen; a deadline passes.
LEMMA EnvironmentSimulates ==
  ASSUME Held, Base'
  PROVE  /\ \A q \in Requests : DeadlockBroken(q) => UNCHANGED Gate!vars
         /\ \A a \in Runs : Deadline(a) => Gate!Next
         /\ Restart => UNCHANGED Gate!vars
<1>1. ASSUME NEW q \in Requests, RequestAborted(q) PROVE UNCHANGED Gate!vars
  <2>1. CASE req[q].run = None
    BY <1>1, <2>1, NothingSeen DEF RequestAborted, Rollback, SameRuns, Held
  <2>2. CASE req[q].run # None
    <3>1. req[q].run \in Runs /\ run[req[q].run].pc = "reserved"
      <4>1. req[q].pc = "approve_resume" \/ req[q].pc = "reject_cancel"
        BY <1>1 DEF RequestAborted, InCycle
      <4>2. req[q].pc = "approve_resume"
        BY <2>2, <4>1 DEF Held, Base, ReqOK, WithRun
      <4> QED  BY <2>2, <4>2 DEF Held, Base, TypeOK, RequestState, ReqOK, Reserving
    <3>2. SameRuns
      BY <1>1, <2>2, <3>1, DistinctNames
      DEF RequestAborted, GiveBack, SameRuns, Held, Base, TypeOK, Unborn, RunAt, Rows
    <3> QED  BY <1>1, <3>2, NothingSeen DEF RequestAborted, Rollback, Held
  <2> QED  BY <2>1, <2>2
<1>2. ASSUME NEW q \in Requests, SweepAborted(q) PROVE UNCHANGED Gate!vars
  BY <1>2, NothingSeen DEF SweepAborted, Rollback, SameRuns, Held
<1>3. ASSUME NEW a \in Runs, Deadline(a) PROVE Gate!Next
  <2>1. SameRuns /\ db' = db
    BY <1>3 DEF Deadline, SameRuns, store
  <2>2. Gate!TimePasses(a)
    BY <1>3, <2>1, SameRunsSameGate DEF Deadline, Gate!TimePasses, Gate!Asked, Held
  <2> QED  BY <2>2 DEF Gate!Next
<1>4. ASSUME Restart PROVE UNCHANGED Gate!vars
  <2>1. run' = [r \in Runs |-> CASE run[r].pc \in Working -> [run[r] EXCEPT !.pc = "dead"]
                                 [] run[r].pc = "reserved" -> Unborn
                                 [] OTHER -> run[r]]
    BY <1>4 DEF Restart
  <2>2. ASSUME NEW r \in Runs
        PROVE  /\ run'[r].pc = "asked" <=> run[r].pc = "asked"
               /\ run[r].pc = "asked" => run'[r].trip = run[r].trip
               /\ \A a \in Runs : run'[r].appr = a /\ run'[r].pc # "reserved"
                              <=> run[r].appr = a /\ run[r].pc # "reserved"
    <3>1. CASE run[r].pc \in Working
      BY <2>1, <3>1 DEF Working, Held, Base, TypeOK, RunState
    <3>2. CASE run[r].pc = "reserved"
      BY <2>1, <3>2, DistinctNames DEF Working, Unborn, RunAt, Rows
    <3>3. CASE run[r].pc \notin Working \union {"reserved"}
      BY <2>1, <3>3
    <3> QED  BY <3>1, <3>2, <3>3
  <2>3. SameRuns
    BY <2>2 DEF SameRuns
  <2> QED  BY <1>4, <2>3, NothingSeen DEF Restart, Rollback, Held
<1> QED  BY <1>1, <1>2, <1>3, <1>4 DEF DeadlockBroken

\* At the gate nothing disappears, and a question stays with its trip.
LEMMA GateKeepsQuestions ==
  ASSUME Held, Base', Gate!Next \/ UNCHANGED Gate!vars
  PROVE  /\ \A t \in Trips : db[t] # "absent" => db'[t] # "absent"
         /\ \A a \in Runs : db[a] # "absent" => db'[a] # "absent" /\ run'[a].trip = run[a].trip
<1> DEFINE status == [t \in Trips |-> db[t]]
           answer == [a \in Runs |-> db[a]]
<1>1. ASSUME NEW t \in Trips, db[t] # "absent" PROVE db'[t] # "absent"
  <2>1. status'[t] # "absent"
    BY <1>1 DEF Gate!Next, Gate!vars, Gate!Create, Gate!Change, Gate!Ask, Gate!Resume,
                Gate!Approve, Gate!Reject, Gate!TimePasses, Gate!Expire
  <2> QED  BY <2>1
<1>2. ASSUME NEW a \in Runs, db[a] # "absent"
      PROVE  answer'[a] # "absent" /\ About'[a] = About[a]
  <2> DEFINE kept == answer'[a] # "absent" /\ About'[a] = About[a]
  <2>1. CASE UNCHANGED Gate!vars
    BY <1>2, <2>1 DEF Gate!vars
  <2>2. ASSUME NEW t \in Trips, Gate!Create(t) \/ Gate!Change(t) PROVE kept
    BY <1>2, <2>2 DEF Gate!Create, Gate!Change
  <2>3. ASSUME NEW b \in Runs, NEW t \in Trips, Gate!Ask(b, t) PROVE kept
    <3>1. b # a
      BY <1>2, <2>3 DEF Gate!Ask, Gate!Asked
    <3>2. answer'[a] = answer[a] /\ About'[a] = About[a]
      BY <2>3, <3>1 DEF Gate!Ask, About
    <3> QED  BY <1>2, <3>2
  <2>4. ASSUME NEW b \in Runs, Gate!Resume(b) \/ Gate!Approve(b) \/ Gate!Reject(b)
                               \/ Gate!TimePasses(b)
        PROVE  kept
    BY <1>2, <2>4 DEF Gate!Resume, Gate!Approve, Gate!Reject, Gate!TimePasses
  <2>5. ASSUME NEW S \in SUBSET Runs, Gate!Expire(S) PROVE kept
    BY <1>2, <2>5 DEF Gate!Expire
  <2> QED  BY <2>1, <2>2, <2>3, <2>4, <2>5 DEF Gate!Next
<1>3. \A a \in Runs : db[a] # "absent" => db'[a] # "absent" /\ run'[a].trip = run[a].trip
  BY <1>2 DEF About
<1> QED  BY <1>1, <1>3

\* What is not a step of the sweep leaves the sweep and its rows alone.
NotSweeping ==
  /\ sweep' = sweep
  /\ overdue \subseteq overdue'
  /\ \A x \in Rows : lock'[x] = Sweep <=> lock[x] = Sweep

LEMMA OthersDoNotSweep ==
  ASSUME Held
  PROVE  /\ \A q \in Requests : ClientStep(q) \/ RequestStep(q) \/ RequestAborted(q) => NotSweeping
         /\ \A r \in Runs : PlannerStep(r) \/ Deadline(r) => NotSweeping
         /\ Restart => NotSweeping
<1>1. /\ \A q \in Requests : q # Sweep
      /\ \A r \in Runs : r # Sweep
      /\ None # Sweep /\ DOMAIN lock = Rows
  BY DistinctNames DEF Held, Base, TypeOK, Procs
<1>2. ASSUME NEW p, p # Sweep, NEW x, NEW v, Write(p, x, v) \/ CommitWith(p, x, v)
      PROVE  \A y \in Rows : lock'[y] = Sweep <=> lock[y] = Sweep
  BY <1>1, <1>2 DEF Write, CommitWith, Free
<1>3. ASSUME NEW p, p # Sweep, Commit(p)
      PROVE  \A y \in Rows : lock'[y] = Sweep <=> lock[y] = Sweep
  BY <1>1, <1>3 DEF Commit
<1>4. ASSUME NEW P, Sweep \notin P, Rollback(P)
      PROVE  \A y \in Rows : lock'[y] = Sweep <=> lock[y] = Sweep
  BY <1>1, <1>4 DEF Rollback
<1>5. ASSUME NEW q \in Requests, ClientStep(q) PROVE NotSweeping
  BY <1>1, <1>2, <1>5 DEF ClientStep, CreateTrip, CancelRead, PlanDispatch, PlanRead,
     RejectRead, ApproveRead, store, NotSweeping
<1>6. ASSUME NEW q \in Requests, RequestStep(q) PROVE NotSweeping
  <2>1. sweep' = sweep /\ overdue' = overdue
    BY <1>6 DEF RequestStep, PlanReset, PlanRefused, PlanEnds, CancelWrite, ApproveMark,
       ApproveResume, ApproveCommit, ApproveCommitFails, RejectMark, RejectCancel
  <2>2. \/ \E x, v : Write(q, x, v) \/ CommitWith(q, x, v)
        \/ Commit(q) \/ Rollback({q}) \/ UNCHANGED store
    BY <1>6 DEF RequestStep, PlanReset, PlanRefused, PlanEnds, CancelWrite, ApproveMark,
       ApproveResume, ApproveCommit, ApproveCommitFails, RejectMark, RejectCancel
  <2> QED  BY <1>1, <1>2, <1>3, <1>4, <2>1, <2>2 DEF NotSweeping, store
<1>7. ASSUME NEW q \in Requests, RequestAborted(q) PROVE NotSweeping
  BY <1>1, <1>4, <1>7 DEF RequestAborted, NotSweeping
<1>8. ASSUME NEW r \in Runs, PlannerStep(r) PROVE NotSweeping
  <2>1. sweep' = sweep /\ overdue' = overdue
    BY <1>8 DEF PlannerStep, RunRead, RunMark, RunGraph, RunGraphFails, RunFail, AskMark,
       AskCreate, RunSave, RunBreaks, RecoverRead, RecoverMark, RecoverBreaks
  <2>2. (\E x, v : CommitWith(r, x, v)) \/ lock' = lock
    BY <1>8 DEF PlannerStep, RunRead, RunMark, RunGraph, RunGraphFails, RunFail, AskMark,
       AskCreate, RunSave, RunBreaks, RecoverRead, RecoverMark, RecoverBreaks, OrmCommit,
       OrmCommitRow, store
  <2> QED  BY <1>1, <1>2, <2>1, <2>2 DEF NotSweeping
<1>9. ASSUME NEW r \in Runs, Deadline(r) PROVE NotSweeping
  BY <1>9 DEF Deadline, NotSweeping, store
<1>10. ASSUME Restart PROVE NotSweeping
  <2>1. Sweep \notin Requests \union Runs
    BY DistinctNames
  <2> QED  BY <1>4, <1>10, <2>1 DEF Restart, NotSweeping
<1> QED  BY <1>5, <1>6, <1>7, <1>8, <1>9, <1>10

\* The sweep's own steps.
LEMMA SweepKeepsHold ==
  ASSUME Held, Base', SweepStep \/ \E q \in Requests : SweepAborted(q)
  PROVE  SweepHolds'
<1>1. run' = run /\ overdue' = overdue /\ DOMAIN lock = Rows /\ None # Sweep
  BY DistinctNames
  DEF SweepStep, SweepSelect, SweepMark, SweepCancel, SweepCommit, SweepAborted, Held, Base,
      TypeOK, Procs
<1>2. CASE SweepSelect
  BY <1>1, <1>2 DEF SweepSelect, store, Stale, Held, SweepHolds
<1>3. CASE SweepMark
  <2>1. /\ sweep.pc = "mark" /\ sweep' = [sweep EXCEPT !.pc = "cancel"]
        /\ lock' = [lock EXCEPT ![sweep.cur] = Sweep]
    BY <1>3 DEF SweepMark, Write
  <2>2. sweep.cur \in Runs /\ sweep.cur \in overdue /\ sweep.cur \in Rows
    BY <2>1 DEF Held, Base, SweepOK, SweepHolds, Rows
  <2>3. sweep'.pc = "cancel" /\ sweep'.cur = sweep.cur /\ sweep'.todo = sweep.todo
    BY <2>1 DEF Held, Base, TypeOK
  <2>4. lock'[sweep.cur] = Sweep /\ \A x \in Rows \ {sweep.cur} : lock'[x] = lock[x]
    BY <1>1, <2>1, <2>2
  <2>5. \A t \in Trips : t # sweep.cur /\ t \in Rows
    BY <2>2, DistinctNames DEF Rows
  <2>6. \A a \in Runs : a \in Rows
    BY DEF Rows
  <2>7. \A a \in Runs : lock'[a] = Sweep => a \in overdue
    BY <2>2, <2>4, <2>6 DEF Held, SweepHolds
  <2>8. \A t \in Trips : lock'[t] = Sweep => \E a \in Runs : lock'[a] = Sweep /\ run[a].trip = t
    BY <2>2, <2>4, <2>5, <2>6 DEF Held, SweepHolds
  <2> QED  BY <1>1, <2>2, <2>3, <2>4, <2>7, <2>8 DEF Held, SweepHolds
<1>4. CASE SweepCancel
  <2> DEFINE u == run[sweep.cur].trip
  <2>1. sweep.pc = "cancel" /\ lock' = [lock EXCEPT ![u] = Sweep]
    BY <1>4 DEF SweepCancel, Write
  <2>2. sweep.cur \in Runs /\ lock[sweep.cur] = Sweep /\ u \in Trips
    BY <2>1 DEF Held, Base, SweepOK, SweepHolds, RunOK
  <2>3. u \in Rows /\ u \notin Runs /\ \A x \in Runs \union Trips : x \in Rows
    BY <2>2, DistinctNames DEF Rows
  <2>4. lock'[u] = Sweep /\ \A x \in Rows \ {u} : lock'[x] = lock[x]
    BY <1>1, <2>1, <2>3
  <2>5. \A a \in Runs : lock'[a] = lock[a]
    BY <2>3, <2>4
  <2>6. \A t \in Trips : lock'[t] = Sweep => \E a \in Runs : lock'[a] = Sweep /\ run[a].trip = t
    BY <2>2, <2>3, <2>4, <2>5 DEF Held, SweepHolds
  <2>7. /\ sweep'.todo \subseteq overdue /\ sweep'.pc # "cancel"
        /\ sweep'.pc = "mark" => sweep'.cur \in overdue
    BY <1>4 DEF SweepCancel, Held, SweepHolds, Base, TypeOK
  <2> QED  BY <1>1, <2>5, <2>6, <2>7 DEF Held, SweepHolds
<1>5. CASE SweepCommit \/ \E q \in Requests : SweepAborted(q)
  <2>1. sweep' = IdleSweep
    BY <1>5 DEF SweepCommit, SweepAborted
  <2>2. \A x \in Rows : lock'[x] # Sweep
    BY <1>1, <1>5 DEF SweepCommit, SweepAborted, Commit, Rollback
  <2>3. \A x \in Runs \union Trips : x \in Rows
    BY DEF Rows
  <2> QED  BY <2>1, <2>2, <2>3 DEF SweepHolds, IdleSweep
<1> QED  BY <1>2, <1>3, <1>4, <1>5 DEF SweepStep

\* Which requests cancel or plan anew.
LEMMA RequestsKeepFit ==
  ASSUME Held, Base', [Next]_vars, \A t \in Trips : db[t] # "absent" => db'[t] # "absent"
  PROVE  RequestsFit'
<1> SUFFICES ASSUME NEW q \in Requests
             PROVE  /\ req'[q].pc = "cancel" => db'[req'[q].trip] # "absent"
                    /\ req'[q].pc = "plan_reset" => req'[q].appr = None
  BY DEF RequestsFit
<1>1. /\ DOMAIN req = Requests /\ req[q] \in RequestState
      /\ req[q].pc = "cancel" => req[q].trip \in Trips
  BY DEF Held, Base, TypeOK, ReqOK
<1>2. CASE req'[q] = req[q]
  BY <1>1, <1>2 DEF Held, RequestsFit
<1>3. CASE \E t \in Trips, r \in Runs : PlanRead(q, t, r)
  BY <1>1, <1>3 DEF PlanRead, ReqAt
<1>4. CASE \E t \in Trips : CancelRead(q, t)
  BY <1>1, <1>4 DEF CancelRead, ReqAt, store
<1>5. CASE req'[q].pc \notin {"cancel", "plan_reset"}
  BY <1>5
<1>6. ASSUME NEW p \in Requests, ClientStep(p)
      PROVE  \/ req'[q] = req[q] \/ req'[q].pc \notin {"cancel", "plan_reset"}
             \/ \E t \in Trips, r \in Runs : PlanRead(q, t, r)
             \/ \E t \in Trips : CancelRead(q, t)
  BY <1>1, <1>6 DEF ClientStep, CreateTrip, CancelRead, PlanDispatch, PlanRead, RejectRead,
     ApproveRead, ReqAt
<1>7. ASSUME NEW p \in Requests, RequestStep(p) \/ DeadlockBroken(p)
      PROVE  req'[q] = req[q] \/ req'[q].pc \notin {"cancel", "plan_reset"}
  <2>1. req[p] \in RequestState
    BY DEF Held, Base, TypeOK
  <2>2. CASE PlanReset(p) \/ ApproveResume(p) \/ RejectMark(p)
    <3>1. PICK to \in {"plan_wait", "approve_commit", "reject_cancel"} :
            req' = [req EXCEPT ![p] = [req[p] EXCEPT !.pc = to]]
      BY <2>2 DEF PlanReset, ApproveResume, RejectMark, ReqStep
    <3>2. [req[p] EXCEPT !.pc = to].pc = to
      BY <2>1 DEF RequestState
    <3> QED  BY <1>1, <3>1, <3>2
  <2>3. CASE ApproveMark(p)
    <3>1. req' = [req EXCEPT ![p] = [req[p] EXCEPT !.pc = "approve_resume",
                                                   !.loaded = db[req[p].trip]]]
      BY <2>3 DEF ApproveMark
    <3>2. [req[p] EXCEPT !.pc = "approve_resume", !.loaded = db[req[p].trip]].pc
            = "approve_resume"
      BY <2>1 DEF RequestState
    <3> QED  BY <1>1, <3>1, <3>2
  <2>4. CASE SweepAborted(p)
    BY <2>4 DEF SweepAborted
  <2>5. CASE \/ PlanRefused(p) \/ PlanEnds(p) \/ CancelWrite(p) \/ ApproveCommit(p)
             \/ ApproveCommitFails(p) \/ RejectCancel(p) \/ RequestAborted(p)
    <3>1. req' = [req EXCEPT ![p] = IdleReq]
      BY <2>5 DEF PlanRefused, PlanEnds, CancelWrite, ApproveCommit, ApproveCommitFails,
                  RejectCancel, RequestAborted, ReqEnds
    <3>2. IdleReq.pc = "idle"
      BY DEF IdleReq, ReqAt
    <3> QED  BY <1>1, <3>1, <3>2
  <2> QED  BY <1>7, <2>2, <2>3, <2>4, <2>5 DEF RequestStep, DeadlockBroken
<1>8. ASSUME NEW r \in Runs, PlannerStep(r) \/ Deadline(r) PROVE req'[q] = req[q]
  BY <1>8 DEF PlannerStep, RunRead, RunMark, RunGraph, RunGraphFails, RunFail, AskMark,
     AskCreate, RunSave, RunBreaks, RecoverRead, RecoverMark, RecoverBreaks, Deadline
<1>9. ASSUME SweepStep \/ UNCHANGED vars PROVE req'[q] = req[q]
  BY <1>9 DEF SweepStep, SweepSelect, SweepMark, SweepCancel, SweepCommit, vars
<1>10. ASSUME Restart PROVE req'[q].pc \notin {"cancel", "plan_reset"}
  BY <1>10 DEF Restart, IdleReq, ReqAt
<1> QED  BY <1>2, <1>3, <1>4, <1>5, <1>6, <1>7, <1>8, <1>9, <1>10 DEF Next

\* Every step of the requests, planners and the sweep is a step of the gate, or
\* cannot be seen there.
LEMMA NextSimulates ==
  ASSUME Held, [Next]_vars
  PROVE  Base' /\ (Gate!Next \/ UNCHANGED Gate!vars)
<1>1. Base'
  BY NextBase DEF Held
<1>2. CASE Next
  BY <1>1, <1>2, ClientSimulates, RequestSimulates, PlannerSimulates, SweepSimulates,
     EnvironmentSimulates DEF Next
<1>3. CASE UNCHANGED vars
  BY <1>1, <1>3, NothingSeen DEF vars, SameRuns, Held
<1> QED  BY <1>1, <1>2, <1>3

\* Held is inductive: what GateKeepsQuestions says of a step of the gate is what
\* the sweep's locks and the requests need.
LEMMA NextHeld == Held /\ [Next]_vars => Held'
<1> SUFFICES ASSUME Held, [Next]_vars PROVE Held'
  OBVIOUS
<1>1. Base' /\ (Gate!Next \/ UNCHANGED Gate!vars)
  BY NextSimulates
<1>2. /\ \A t \in Trips : db[t] # "absent" => db'[t] # "absent"
      /\ \A a \in Runs : db[a] # "absent" => run'[a].trip = run[a].trip
  BY <1>1, GateKeepsQuestions
<1>3. RequestsFit'
  BY <1>1, <1>2, RequestsKeepFit
<1>4. ASSUME NotSweeping PROVE SweepHolds'
  <2>1. \A x \in Runs \union Trips : x \in Rows
    BY DEF Rows
  <2>2. \A a \in Runs : lock[a] = Sweep => run'[a].trip = run[a].trip
    <3> TAKE a \in Runs
    <3> HAVE lock[a] = Sweep
    <3>1. latest[a] = "expired"
      BY DEF Held, Base, LockOK
    <3>2. db[a] # "absent"
      BY <3>1 DEF Held, Base, RunOK
    <3> QED  BY <1>2, <3>2
  <2>3. sweep.pc = "cancel" => sweep.cur \in Rows
    BY <2>1 DEF Held, Base, SweepOK
  <2> QED  BY <1>4, <2>1, <2>2, <2>3 DEF NotSweeping, Held, SweepHolds
<1>5. ASSUME UNCHANGED vars PROVE SweepHolds'
  BY <1>4, <1>5 DEF vars, NotSweeping
<1>6. ASSUME Next PROVE SweepHolds'
  <2>1. CASE SweepStep \/ \E q \in Requests : SweepAborted(q)
    BY <1>1, <2>1, SweepKeepsHold
  <2>2. CASE ~(SweepStep \/ \E q \in Requests : SweepAborted(q))
    <3>1. NotSweeping
      BY <1>6, <2>2, OthersDoNotSweep DEF Next, DeadlockBroken
    <3> QED  BY <1>4, <3>1
  <2> QED  BY <2>1, <2>2
<1> QED  BY <1>1, <1>3, <1>5, <1>6 DEF Held

\* And it holds at first.
LEMMA InitHeld == Init => Held
<1> SUFFICES ASSUME Init PROVE Held
  OBVIOUS
<1>1. None # Sweep
  BY DistinctNames DEF Procs
<1>2. SweepHolds
  BY <1>1 DEF Init, SweepHolds, IdleSweep, Rows
<1>3. RequestsFit
  BY DEF Init, RequestsFit, IdleReq, ReqAt
<1> QED  BY <1>2, <1>3, InitBase DEF Held

\* Whatever fails and however transactions overlap, what is committed of trips and
\* approvals keeps to the gate: each decision is seen with its trip, an approval not
\* before a planner has been started for it, an expiry not before its time, and
\* nothing that was asked disappears (TripLifecycle!KeepsGate).
THEOREM GateAlwaysKept == Spec => KeepsGate
<1>1. Init => Gate!Init
  BY DistinctNames
  DEF Init, Gate!Init, Rows, About, Resumed, Unborn, RunAt
<1>2. Held /\ [Next]_vars => [Gate!Next]_Gate!vars
  BY NextSimulates
<1> QED  BY <1>1, <1>2, InitHeld, NextHeld, PTL DEF Spec, KeepsGate, Gate!Spec

\* A decision at the gate reaches its trip.
LEMMA GateDecides ==
  ASSUME Held, Base', Gate!Next \/ UNCHANGED Gate!vars, NEW a \in Runs, db'[a] # db[a]
  PROVE  /\ db'[a] \in {"rejected", "expired"} => db'[run[a].trip] = "cancelled"
         /\ db'[a] = "approved" => \E r \in Runs : run'[r].appr = a /\ run'[r].pc # "reserved"
<1> DEFINE status == [t \in Trips |-> db[t]]
           answer == [b \in Runs |-> db[b]]
           goal == /\ db'[a] \in {"rejected", "expired"} => db'[run[a].trip] = "cancelled"
                   /\ db'[a] = "approved" => a \in Resumed'
<1>1. answer'[a] # answer[a]
  OBVIOUS
<1>2. db[a] # "absent" => About[a] = run[a].trip /\ run[a].trip \in Trips
  BY DEF About, Held, Base, RunOK
<1>3. ASSUME UNCHANGED Gate!vars PROVE FALSE
  BY <1>1, <1>3 DEF Gate!vars
<1>4. ASSUME NEW t \in Trips, Gate!Create(t) \/ Gate!Change(t) PROVE FALSE
  BY <1>1, <1>4 DEF Gate!Create, Gate!Change
<1>5. ASSUME NEW b \in Runs, NEW t \in Trips, Gate!Ask(b, t) PROVE goal
  <2>1. answer'[a] = "pending"
    BY <1>1, <1>5 DEF Gate!Ask
  <2> QED  BY <2>1
<1>6. ASSUME NEW b \in Runs, Gate!Resume(b) \/ Gate!TimePasses(b) PROVE FALSE
  BY <1>1, <1>6 DEF Gate!Resume, Gate!TimePasses
<1>7. ASSUME NEW b \in Runs, Gate!Approve(b) PROVE goal
  <2>1. a = b /\ answer'[a] = "approved" /\ a \in Resumed'
    BY <1>1, <1>7 DEF Gate!Approve
  <2> QED  BY <2>1
<1>8. ASSUME NEW b \in Runs, Gate!Reject(b) PROVE goal
  <2>1. a = b /\ answer'[a] = "rejected" /\ db[a] # "absent"
    BY <1>1, <1>8 DEF Gate!Reject, Gate!Asked
  <2>2. status'[run[a].trip] = "cancelled"
    BY <1>2, <1>8, <2>1 DEF Gate!Reject
  <2> QED  BY <1>2, <2>1, <2>2
<1>9. ASSUME NEW S \in SUBSET Runs, Gate!Expire(S) PROVE goal
  <2>1. a \in S /\ answer'[a] = "expired"
    BY <1>1, <1>9 DEF Gate!Expire
  <2>2. About' = About
    BY <1>9 DEF Gate!Expire
  <2>3. db'[a] = "expired"
    BY <2>1
  <2>4. db[a] # "absent"
    <3>1. run'[a].pc = "asked"
      BY <2>3 DEF Base, RunOK
    <3>2. run'[a].trip \in Trips
      BY <3>1 DEF Base, RunOK
    <3>3. About'[a] = run'[a].trip
      BY <2>3 DEF About
    <3>4. None \notin Trips
      BY DistinctNames DEF Rows
    <3> QED  BY <2>2, <3>2, <3>3, <3>4 DEF About
  <2>5. status'[run[a].trip] = "cancelled"
    BY <1>2, <1>9, <2>1, <2>4 DEF Gate!Expire
  <2> QED  BY <1>2, <2>3, <2>4, <2>5
<1>10. goal
  BY <1>3, <1>4, <1>5, <1>6, <1>7, <1>8, <1>9 DEF Gate!Next
<1> QED  BY <1>10 DEF Resumed

\* In the words of TripLifecycle!DecisionReachesTrip.
THEOREM DecisionsReachTrips == Spec => DecisionReachesTrip
<1>1. Held /\ [Next]_vars =>
        [\A a \in Runs : db'[a] # db[a] =>
           /\ db'[a] \in {"rejected", "expired"} =>
                db'[run[a].trip] = "cancelled"
           /\ db'[a] = "approved" =>
                \E r \in Runs : run'[r].appr = a /\ run'[r].pc # "reserved"]_vars
  BY NextSimulates, GateDecides
<1> QED  BY <1>1, InitHeld, NextHeld, PTL DEF Spec, DecisionReachesTrip

=============================================================================
