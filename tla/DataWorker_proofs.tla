--------------------------- MODULE DataWorker_proofs ---------------------------
(***************************************************************************)
(* Theorems about the processes that work the job queue, for every number  *)
(* of workers and jobs, every claim limit and any number of faults.        *)
(*                                                                         *)
(* The processes and the queue are proved together: a call is a step of    *)
(* the queue because of what the execution that sends it knows, and what   *)
(* it knows stays true because the queue only moves its row versions up.   *)
(***************************************************************************)
EXTENDS DataWorker, DataJobsRefinement_proofs

-----------------------------------------------------------------------------
(* The inductive invariant.                                                *)

\* Version v, held by attempt n of row r, is a version of the past, or the
\* present one of the row that this very attempt runs.
Fits(r, n, v) ==
  /\ v <= r.rowVersion
  /\ v = r.rowVersion /\ r.status = "RUNNING" => n = r.attemptCount

\* Rows are numbered from their insertion on.
Numbered(r) == r.status = Absent <=> r.rowVersion = 0

\* What the execution x of attempt n of row r knows.
GoodRun(r, n, x) ==
  /\ Fits(r, n, x.lease)
  /\ Fits(r, n, x.callVersion)
  /\ Fits(r, n, x.beatVersion)
  /\ x.beat = "done" => Fits(r, n, x.beatVersion + 1)
  /\ x.phase = "settling" => x.verdict \in SettleStatus
  /\ n > r.attemptCount => x = NoRun

ProcessesTyped ==
  /\ loop \in [Worker -> {"poll", "claim", "await", "draining", "stopped"}]
  /\ aborted \in [Worker -> BOOLEAN]
  /\ run \in [Job -> [AttemptNumber -> Run]]
  /\ faults \in 0 .. MaxFaults

GoodRuns ==
  \A j \in Job, n \in AttemptNumber : GoodRun(job[j], n, run[j][n])

WorkerInv ==
  /\ Inv
  /\ \A j \in Job : Numbered(job[j])
  /\ ProcessesTyped
  /\ GoodRuns

-----------------------------------------------------------------------------
(* The row versions.                                                       *)

\* Row r becomes q: it stays what it was, or goes on to its next version.
Moves(r, q) ==
  /\ q.attemptCount >= r.attemptCount
  /\ \/ /\ q.rowVersion = r.rowVersion
        /\ q.status = r.status
        /\ q.attemptCount = r.attemptCount
     \/ q.rowVersion = r.rowVersion + 1 /\ q.status /= Absent

RowsMove == \A i \in Job : Moves(job[i], job'[i])

LEMMA StaysPut ==
  ASSUME NEW r \in JobRow PROVE Moves(r, r)
BY TimeAssumption DEF Moves, JobRow

\* A row whose version goes up by one and that counts no attempt away.
LEMMA GoesOn ==
  ASSUME NEW r \in JobRow, NEW q, q.rowVersion = r.rowVersion + 1,
         q.status /= Absent, q.attemptCount \in {r.attemptCount, r.attemptCount + 1}
  PROVE  Moves(r, q)
<1>1. r.attemptCount \in Int
  BY DEF JobRow
<1> QED BY <1>1 DEF Moves

LEMMA CreationMoves ==
  ASSUME Inv, \A j \in Job : Numbered(job[j]),
         NEW j \in Job, NEW o \in Offset, Submit(j, o) \/ CreateAnalysis(j, o)
  PROVE  RowsMove
<1>1. job[j].status = Absent /\ job[j].rowVersion = 0 /\ job[j].attemptCount = 0
  BY DEF Inv, Good, GoodRow, GoodOperation, Numbered, Submit, CreateAnalysis, Absent,
     OperationStatus, OperationTerminal
<1>2. ASSUME NEW t
      PROVE  /\ Inserted(o, t).rowVersion = 1
             /\ Inserted(o, t).status /= Absent
             /\ Inserted(o, t).attemptCount = 0
  BY DEF Inserted, NoRow, Absent
<1>3. job'[j] = Inserted(o, Forever) \/ job'[j] = Inserted(o, o + QueueWindow)
  BY DEF Inv, Submit, CreateAnalysis
<1>4. Moves(job[j], job'[j])
  BY <1>1, <1>2, <1>3 DEF Moves
<1>5. ASSUME NEW i \in Job, i /= j
      PROVE  job'[i] = job[i] /\ job[i] \in JobRow
  BY <1>5 DEF Inv, Submit, CreateAnalysis
<1> QED BY <1>4, <1>5, StaysPut DEF RowsMove

\* The commands that write one row.
LEMMA CommandMoves ==
  ASSUME Inv, NEW j \in Job, NEW o \in Offset,
         Resume(j, o) \/ Approve(j, o) \/ Reject(j) \/ RequestCancel(j)
  PROVE  RowsMove
<1>1. job[j] \in JobRow
  BY DEF Inv
<1>2. Moves(job[j], job'[j])
  <2>1. CASE Resume(j, o)
    <3>1. job'[j] = Unexpired(job[j]) /\ job[j].status = "PENDING"
      BY <2>1 DEF Inv, Resume
    <3> QED BY <1>1, <3>1, UnexpiredRow, GoesOn DEF Absent
  <2>2. CASE Approve(j, o)
    <3>1. job'[j] = Woken(job[j], o)
      BY <2>2 DEF Inv, Approve
    <3> QED BY <1>1, <3>1, WokenRow, GoesOn DEF Absent
  <2>3. CASE Reject(j)
    <3>1. job'[j] = Rejected(job[j])
      BY <2>3 DEF Inv, Reject
    <3> QED BY <1>1, <3>1, RejectedRow, GoesOn DEF Absent
  <2>4. CASE RequestCancel(j)
    <3>1. job'[j] = CancelAsked(job[j])
      BY <2>4 DEF Inv, RequestCancel
    <3> QED BY <1>1, <3>1, CancelAskedRow, GoesOn DEF Absent
  <2> QED BY <2>1, <2>2, <2>3, <2>4
<1>3. ASSUME NEW i \in Job, i /= j
      PROVE  job'[i] = job[i] /\ job[i] \in JobRow
  BY <1>3 DEF Inv, Resume, Approve, Reject, RequestCancel
<1> QED BY <1>2, <1>3, StaysPut DEF RowsMove

LEMMA ClaimMoves ==
  ASSUME Inv, NEW w \in Worker, NEW batch \in SUBSET Job, Claim(w, batch)
  PROVE  /\ RowsMove
         /\ \A i \in batch : /\ job'[i].status = "RUNNING"
                             /\ job'[i].attemptCount = job[i].attemptCount + 1
                             /\ job'[i].attemptCount \in AttemptNumber
                             /\ job'[i].rowVersion = job[i].rowVersion + 1
         /\ \A i \in Job \ batch : job'[i] = job[i]
<1>1. ASSUME NEW i \in batch
      PROVE  /\ job'[i].status = "RUNNING"
             /\ job'[i].attemptCount = job[i].attemptCount + 1
             /\ job'[i].attemptCount \in AttemptNumber
             /\ job'[i].rowVersion = job[i].rowVersion + 1
  <2>1. Deadline(i) \in Timer
    BY Timers DEF Inv, Deadline, JobRow
  <2>2. /\ job'[i] = Claimed(job[i], w, Deadline(i))
        /\ job[i] \in JobRow
        /\ job[i].attemptCount < MaxAttempts
    BY DEF Inv, Claim, Claimable
  <2>3. /\ job'[i].status = "RUNNING"
        /\ job'[i].attemptCount = job[i].attemptCount + 1
        /\ job'[i].rowVersion = job[i].rowVersion + 1
    BY <2>1, <2>2, ClaimedRow
  <2> QED BY <2>2, <2>3, TimeAssumption DEF AttemptNumber, JobRow
<1>2. \A i \in Job \ batch : job'[i] = job[i]
  BY DEF Claim
<1>3. \A i \in Job : job[i] \in JobRow
  BY DEF Inv
<1> QED BY <1>1, <1>2, <1>3, StaysPut, GoesOn DEF RowsMove, Absent

LEMMA HeartbeatMoves ==
  ASSUME Inv, NEW w, NEW v, NEW j \in Job, NEW o \in Offset, Heartbeat(w, j, v, o)
  PROVE  /\ RowsMove
         /\ job'[j].rowVersion = job[j].rowVersion + 1
         /\ job'[j].attemptCount = job[j].attemptCount
<1>1. job[j] \in JobRow /\ job'[j] = Renewed(job[j], o) /\ job[j].status = "RUNNING"
  BY DEF Inv, Heartbeat, Holds
<1>2. /\ job'[j].rowVersion = job[j].rowVersion + 1
      /\ job'[j].attemptCount = job[j].attemptCount
      /\ job'[j].status = "RUNNING"
  BY <1>1, RenewedRow
<1>3. ASSUME NEW i \in Job, i /= j
      PROVE  job'[i] = job[i] /\ job[i] \in JobRow
  BY <1>3 DEF Inv, Heartbeat
<1> QED BY <1>1, <1>2, <1>3, StaysPut, GoesOn DEF RowsMove, Absent

LEMMA SettleMoves ==
  ASSUME Inv, NEW w, NEW v, NEW j \in Job, NEW s \in SettleStatus, Settle(w, j, v, s)
  PROVE  RowsMove
<1> DEFINE target == IF job[j].cancelRequested THEN "CANCELLED" ELSE s
<1>1. job[j] \in JobRow /\ job'[j] = Released(job[j], target)
  BY DEF Inv, Settle
<1>2. target \in JobStatus /\ target /= Absent
  BY DEF SettleStatus, JobStatus, JobTerminal, Absent
<1> HIDE DEF target
<1>3. Moves(job[j], job'[j])
  BY <1>1, <1>2, ReleasedRow, GoesOn
<1>4. ASSUME NEW i \in Job, i /= j
      PROVE  job'[i] = job[i] /\ job[i] \in JobRow
  BY <1>4 DEF Inv, Settle
<1> QED BY <1>3, <1>4, StaysPut DEF RowsMove

LEMMA FailMoves ==
  ASSUME Inv, NEW w, NEW v, NEW j \in Job, NEW retryable \in BOOLEAN,
         NEW o \in Offset, Fail(w, j, v, retryable, o)
  PROVE  RowsMove
<1> DEFINE target == FailureTarget(j, retryable)
<1>1. job[j] \in JobRow /\ job'[j] = Rescheduled(job[j], target, o)
  BY DEF Inv, Fail
<1>2. target \in JobStatus /\ target /= Absent
  BY DEF FailureTarget, JobStatus, JobTerminal, Absent
<1> HIDE DEF target
<1>3. Moves(job[j], job'[j])
  BY <1>1, <1>2, RescheduledRow, GoesOn
<1>4. ASSUME NEW i \in Job, i /= j
      PROVE  job'[i] = job[i] /\ job[i] \in JobRow
  BY <1>4 DEF Inv, Fail
<1> QED BY <1>3, <1>4, StaysPut DEF RowsMove

LEMMA RecoverMoves ==
  ASSUME Inv, NEW o \in Offset, NEW batch \in SUBSET Job, Recover(o, batch)
  PROVE  RowsMove
<1>1. ASSUME NEW i \in Job
      PROVE  Moves(job[i], job'[i])
  <2>1. CASE i \notin batch
    BY <2>1, StaysPut DEF Inv, Recover
  <2>2. CASE i \in batch
    <3> DEFINE target == RecoveryTarget(i, o)
    <3>1. job[i] \in JobRow /\ job'[i] = Rescheduled(job[i], target, o)
      BY <2>2 DEF Inv, Recover
    <3>2. target \in JobStatus /\ target /= Absent
      BY DEF RecoveryTarget, JobStatus, JobTerminal, Absent
    <3> HIDE DEF target
    <3> QED BY <3>1, <3>2, RescheduledRow, GoesOn
  <2> QED BY <2>1, <2>2
<1> QED BY <1>1 DEF RowsMove

LEMMA RowsStayPut ==
  ASSUME Inv, job' = job PROVE RowsMove
BY StaysPut DEF Inv, RowsMove

LEMMA TickMoves ==
  ASSUME Inv, Tick PROVE RowsMove
<1>1. ASSUME NEW i \in Job
      PROVE  Moves(job[i], job'[i])
  <2>1. job[i] \in JobRow /\ job'[i] = Older(job[i])
    BY DEF Inv, Tick
  <2>2. job[i].attemptCount \in Int
    BY <2>1 DEF JobRow
  <2> QED BY <2>1, <2>2, OlderRow DEF Moves
<1> QED BY <1>1 DEF RowsMove

LEMMA QueueMoves ==
  ASSUME Inv, \A j \in Job : Numbered(job[j]), [Next]_vars
  PROVE  RowsMove
<1>1. CASE Command
  <2>1. 0 \in Offset
    BY TimeAssumption DEF Offset
  <2>2. ASSUME NEW j \in Job, CancelWithoutJob(j)
        PROVE  RowsMove
    BY <2>2, RowsStayPut DEF CancelWithoutJob
  <2> QED BY <1>1, <2>1, <2>2, CreationMoves, CommandMoves DEF Command
<1>2. CASE WorkerCall
  BY <1>2, ClaimMoves, HeartbeatMoves, SettleMoves, FailMoves, RecoverMoves
     DEF WorkerCall
<1>3. CASE Tick
  BY <1>3, TickMoves
<1>4. CASE UNCHANGED vars
  BY <1>4, RowsStayPut DEF vars
<1> QED BY <1>1, <1>2, <1>3, <1>4 DEF Next

LEMMA MovesNumber ==
  ASSUME NEW r \in JobRow, NEW q \in JobRow, Numbered(r), Moves(r, q)
  PROVE  Numbered(q)
BY DEF Numbered, Moves, JobRow

-----------------------------------------------------------------------------
(* What an execution knows stays true.                                     *)

LEMMA FitsStays ==
  ASSUME NEW r \in JobRow, NEW q \in JobRow, Moves(r, q), NEW n, NEW v \in Nat,
         Fits(r, n, v)
  PROVE  Fits(q, n, v)
BY DEF Fits, Moves, JobRow

\* A version of the past fits every attempt.
LEMMA PastFits ==
  ASSUME NEW r \in JobRow, NEW n, NEW v \in Nat, v < r.rowVersion
  PROVE  Fits(r, n, v)
BY DEF Fits, JobRow

\* Version 0 is nobody's.
LEMMA NothingFits ==
  ASSUME NEW r \in JobRow, Numbered(r), NEW n
  PROVE  Fits(r, n, 0)
BY DEF Fits, Numbered, JobRow, Absent

LEMMA GoodRunStays ==
  ASSUME NEW r \in JobRow, NEW q \in JobRow, Moves(r, q), NEW n \in Nat,
         NEW x \in Run, GoodRun(r, n, x)
  PROVE  GoodRun(q, n, x)
<1>1. x.lease \in Nat /\ x.callVersion \in Nat /\ x.beatVersion \in Nat
      /\ x.beatVersion + 1 \in Nat
  BY DEF Run
<1>2. /\ Fits(q, n, x.lease)
      /\ Fits(q, n, x.callVersion)
      /\ Fits(q, n, x.beatVersion)
      /\ x.beat = "done" => Fits(q, n, x.beatVersion + 1)
  BY <1>1, FitsStays DEF GoodRun
<1>3. n > q.attemptCount => n > r.attemptCount
  BY DEF Moves, JobRow
<1> QED BY <1>2, <1>3 DEF GoodRun

LEMMA NoRunType ==
  /\ NoRun \in Run
  /\ NoRun.phase = "idle" /\ NoRun.lease = 0 /\ NoRun.call = "none"
  /\ NoRun.callVersion = 0 /\ NoRun.beat = "none" /\ NoRun.beatVersion = 0
BY DEF NoRun, Run, Calls

LEMMA NoRunIsGood ==
  ASSUME NEW r \in JobRow, Numbered(r), NEW n
  PROVE  GoodRun(r, n, NoRun)
BY NoRunType, NothingFits DEF GoodRun

\* An execution that is under way is that of an attempt that was claimed.
LEMMA RunIsOfAttempt ==
  ASSUME WorkerInv, NEW j \in Job, NEW n \in AttemptNumber, run[j][n] /= NoRun
  PROVE  n \in 1 .. job[j].attemptCount
<1>1. job[j] \in JobRow /\ n \in Nat /\ n > 0
  BY DEF WorkerInv, Inv, AttemptNumber
<1>2. ~(n > job[j].attemptCount)
  BY DEF WorkerInv, GoodRuns, GoodRun
<1> QED BY <1>1, <1>2 DEF JobRow

LEMMA AttemptNumbers ==
  ASSUME NEW n \in AttemptNumber PROVE n \in Nat /\ n > 0
BY TimeAssumption DEF AttemptNumber

\* What holds of the executions one by one holds of all.
LEMMA Assembled ==
  ASSUME run' = [j \in Job |-> run'[j]],
         \A j \in Job : run'[j] = [n \in AttemptNumber |-> run'[j][n]],
         \A j \in Job, n \in AttemptNumber :
           run'[j][n] \in Run /\ GoodRun(job'[j], n, run'[j][n])
  PROVE  run' \in [Job -> [AttemptNumber -> Run]] /\ GoodRuns'
<1>1. \A j \in Job : run'[j] \in [AttemptNumber -> Run]
  OBVIOUS
<1>2. run' \in [Job -> [AttemptNumber -> Run]]
  BY <1>1
<1> QED BY <1>2 DEF GoodRuns

\* A step that takes one execution to new, whatever the queue does.
LEMMA ProceedKeeps ==
  ASSUME WorkerInv, Inv', RowsMove, NEW j \in Job, NEW n \in AttemptNumber,
         NEW new \in Run, Proceed(j, n, new), GoodRun(job'[j], n, new)
  PROVE  run' \in [Job -> [AttemptNumber -> Run]] /\ GoodRuns'
<1>1. run \in [Job -> [AttemptNumber -> Run]]
  BY DEF WorkerInv, ProcessesTyped
<1>2. run' = [run EXCEPT ![j] = [run[j] EXCEPT ![n] = new]]
  BY <1>1 DEF Proceed
<1>3. run' \in [Job -> [AttemptNumber -> Run]]
  BY <1>1, <1>2
<1>4. ASSUME NEW i \in Job, NEW m \in AttemptNumber
      PROVE  GoodRun(job'[i], m, run'[i][m])
  <2>1. CASE i = j /\ m = n
    <3>1. run'[i][m] = new
      BY <1>1, <1>2, <2>1
    <3> QED BY <2>1, <3>1
  <2>2. CASE ~(i = j /\ m = n)
    <3>1. run'[i][m] = run[i][m]
      BY <1>1, <1>2, <2>2
    <3>2. GoodRun(job[i], m, run[i][m]) /\ run[i][m] \in Run /\ m \in Nat
      BY <1>1, AttemptNumbers DEF WorkerInv, GoodRuns
    <3>3. job[i] \in JobRow /\ job'[i] \in JobRow /\ Moves(job[i], job'[i])
      BY DEF WorkerInv, Inv, RowsMove
    <3> QED BY <3>1, <3>2, <3>3, GoodRunStays
  <2> QED BY <2>1, <2>2
<1> QED BY <1>3, <1>4 DEF GoodRuns

\* A step that leaves the executions alone.
LEMMA QueueStepKeeps ==
  ASSUME WorkerInv, Inv', RowsMove, run' = run
  PROVE  run' \in [Job -> [AttemptNumber -> Run]] /\ GoodRuns'
<1>1. run \in [Job -> [AttemptNumber -> Run]]
  BY DEF WorkerInv, ProcessesTyped
<1>2. ASSUME NEW i \in Job, NEW m \in AttemptNumber
      PROVE  GoodRun(job'[i], m, run'[i][m])
  <2>1. run[i][m] \in Run /\ m \in Nat /\ run'[i][m] = run[i][m]
    BY <1>1, AttemptNumbers
  <2>2. GoodRun(job[i], m, run[i][m])
    BY DEF WorkerInv, GoodRuns
  <2>3. job[i] \in JobRow /\ job'[i] \in JobRow /\ Moves(job[i], job'[i])
    BY DEF WorkerInv, Inv, RowsMove
  <2> QED BY <2>1, <2>2, <2>3, GoodRunStays
<1> QED BY <1>1, <1>2 DEF GoodRuns

-----------------------------------------------------------------------------
(* Steps of the queue.                                                     *)

\* Whoever holds a lease is a worker, and holds the present version.
LEMMA HolderIsWorker ==
  ASSUME Inv, NEW j \in Job, NEW w, NEW v, Holds(w, j, v)
  PROVE  w \in Worker /\ v = job[j].rowVersion
<1>1. /\ Good(job[j], attempts[j], operation[j])
      /\ job[j].status = "RUNNING" /\ job[j].leaseOwner = w
      /\ v = job[j].rowVersion
  BY DEF Inv, Holds
<1>2. /\ job[j].attemptCount \in 1 .. Len(attempts[j])
      /\ attempts[j] \in Seq(Attempt)
      /\ job[j].leaseOwner = attempts[j][job[j].attemptCount].worker
  BY <1>1 DEF Good, GoodLedger, JobRow
<1>3. attempts[j][job[j].attemptCount] \in Attempt
  BY <1>2
<1> QED BY <1>1, <1>2, <1>3 DEF Attempt

\* The fence: a call that passes it is of the attempt that runs.
LEMMA FencePasses ==
  ASSUME WorkerInv, NEW j \in Job, NEW n \in AttemptNumber, NEW w,
         NEW v \in {run[j][n].lease, run[j][n].callVersion, run[j][n].beatVersion},
         Holds(w, j, v)
  PROVE  n = job[j].attemptCount
BY DEF WorkerInv, GoodRuns, GoodRun, Fits, Holds

LEMMA CallIsQueueStep ==
  ASSUME WorkerInv, NEW j \in Job, NEW n \in AttemptNumber, NEW o \in Offset,
         CallCommits(j, n, o)
  PROVE  Next /\ RowsMove
<1> DEFINE r == run[j][n]
           w == Owner(j, n)
<1>1. CASE r.phase = "settling"
  <2>1. Settle(w, j, r.callVersion, r.verdict)
    BY <1>1 DEF CallCommits
  <2>2. r.verdict \in SettleStatus
    BY <1>1 DEF WorkerInv, GoodRuns, GoodRun
  <2>3. Inv /\ w \in Worker /\ r.callVersion = job[j].rowVersion
    BY <2>1, HolderIsWorker DEF WorkerInv, Settle
  <2>4. WorkerCall
    BY <2>1, <2>2, <2>3 DEF WorkerCall
  <2> QED BY <2>1, <2>2, <2>3, <2>4, SettleMoves DEF Next
<1>2. CASE r.phase /= "settling"
  <2>1. Fail(w, j, r.callVersion, r.verdict /= "FATAL", o)
    BY <1>2 DEF CallCommits
  <2>2. (r.verdict /= "FATAL") \in BOOLEAN
    OBVIOUS
  <2>3. Inv /\ w \in Worker /\ r.callVersion = job[j].rowVersion
    BY <2>1, HolderIsWorker DEF WorkerInv, Fail
  <2>4. WorkerCall
    BY <2>1, <2>2, <2>3 DEF WorkerCall
  <2> QED BY <2>1, <2>2, <2>3, <2>4, FailMoves DEF Next
<1> QED BY <1>1, <1>2

LEMMA BeatIsQueueStep ==
  ASSUME WorkerInv, NEW j \in Job, NEW n \in AttemptNumber, NEW o \in Offset,
         BeatCommits(j, n, o)
  PROVE  Next
<1>1. Heartbeat(Owner(j, n), j, run[j][n].beatVersion, o)
  BY DEF BeatCommits
<1>2. Owner(j, n) \in Worker /\ run[j][n].beatVersion = job[j].rowVersion
  BY <1>1, HolderIsWorker DEF WorkerInv, Heartbeat
<1> QED BY <1>1, <1>2 DEF WorkerCall, Next

\* Every step of the processes is a step of the queue, or none.
LEMMA ProcessStepsQueue ==
  ASSUME WorkerInv, [WorkerNext]_workerVars
  PROVE  [Next]_vars
<1>1. ASSUME NEW w \in Worker, LoopStep(w)
      PROVE  [Next]_vars
  <2>1. ASSUME NEW o \in Offset, PollRecovers(w, o)
        PROVE  Next
    <3>1. {j \in Job : Recoverable(j, o)} \in SUBSET Job
      OBVIOUS
    <3> QED BY <2>1, <3>1 DEF PollRecovers, Next, WorkerCall
  <2>2. ASSUME NEW batch \in SUBSET Job, PollClaims(w, batch)
        PROVE  Next
    BY <2>2 DEF PollClaims, Next, WorkerCall
  <2>3. CASE PollEnds(w) \/ Drain(w) \/ Stop(w) \/ Restart(w)
    BY <2>3 DEF PollEnds, Drain, Stop, Restart, vars
  <2> QED BY <1>1, <2>1, <2>2, <2>3 DEF LoopStep
<1>2. ASSUME NEW j \in Job, NEW n \in AttemptNumber,
             CallStep(j, n) \/ HandlerStep(j, n) \/ BeatStep(j, n)
      PROVE  [Next]_vars
  <2>1. CASE CallStep(j, n)
    <3>1. CASE \E o \in Offset : CallCommits(j, n, o)
      BY <3>1, CallIsQueueStep
    <3>2. CASE CallRefused(j, n) \/ CallSucceeds(j, n) \/ SettleThrows(j, n)
                 \/ FailThrows(j, n)
      BY <3>2 DEF CallRefused, CallSucceeds, SettleThrows, FailThrows, vars
    <3> QED BY <2>1, <3>1, <3>2 DEF CallStep
  <2>2. CASE HandlerStep(j, n)
    BY <2>2 DEF HandlerStep, HandlerEnds, vars
  <2>3. CASE BeatStep(j, n)
    <3>1. CASE \E o \in Offset : BeatCommits(j, n, o)
      BY <3>1, BeatIsQueueStep
    <3>2. CASE BeatSent(j, n) \/ (\E o \in Offset : BeatRefused(j, n, o))
                 \/ BeatAnswered(j, n)
      BY <3>2 DEF BeatSent, BeatRefused, BeatAnswered, vars
    <3> QED BY <2>3, <3>1, <3>2 DEF BeatStep
  <2> QED BY <1>2, <2>1, <2>2, <2>3
<1>3. CASE FaultStep
  <2>1. ASSUME NEW w \in Worker, NEW batch \in SUBSET Job, ClaimLost(w, batch)
        PROVE  Next
    BY <2>1 DEF ClaimLost, Next, WorkerCall
  <2>2. ASSUME NEW j \in Job, NEW n \in AttemptNumber,
               CallBreaks(j, n) \/ BeatBreaks(j, n)
        PROVE  UNCHANGED vars
    BY <2>2 DEF CallBreaks, BeatBreaks, vars
  <2>3. ASSUME NEW w \in Worker, Abort(w) \/ Crash(w)
        PROVE  UNCHANGED vars
    BY <2>3 DEF Abort, Crash, vars
  <2> QED BY <1>3, <2>1, <2>2, <2>3 DEF FaultStep
<1>4. CASE Command \/ Tick
  BY <1>4 DEF Next
<1>5. CASE UNCHANGED workerVars
  BY <1>5 DEF workerVars, vars
<1> QED BY <1>1, <1>2, <1>3, <1>4, <1>5 DEF WorkerNext

LEMMA QueueGoesOn ==
  ASSUME WorkerInv, [WorkerNext]_workerVars
  PROVE  /\ Inv'
         /\ RowsMove
         /\ \A j \in Job : Numbered(job'[j])
<1>1. [Next]_vars /\ Inv /\ \A j \in Job : Numbered(job[j])
  BY ProcessStepsQueue DEF WorkerInv
<1>2. Inv' /\ RowsMove
  BY <1>1, NextStep, QueueMoves DEF GoodStep
<1>3. \A j \in Job : Numbered(job'[j])
  BY <1>1, <1>2, MovesNumber DEF Inv, RowsMove
<1> QED BY <1>2, <1>3

-----------------------------------------------------------------------------
(* Steps of one execution.                                                 *)

\* What an execution may know next without asking the database.
LEMMA KnowsNoMore ==
  ASSUME WorkerInv, NEW j \in Job, NEW n \in AttemptNumber, run[j][n] /= NoRun,
         NEW x \in Run,
         {x.lease, x.callVersion, x.beatVersion}
           \subseteq {0, run[j][n].lease, run[j][n].callVersion, run[j][n].beatVersion},
         x.beat = "done" => /\ run[j][n].beat = "done"
                            /\ x.beatVersion = run[j][n].beatVersion,
         x.phase = "settling" => x.verdict \in SettleStatus
  PROVE  GoodRun(job[j], n, x)
<1>1. GoodRun(job[j], n, run[j][n]) /\ Numbered(job[j])
  BY DEF WorkerInv, GoodRuns
<1>2. job[j] \in JobRow
  BY DEF WorkerInv, Inv
<1>3. Fits(job[j], n, 0)
  BY <1>1, <1>2, NothingFits
<1>4. n \in 1 .. job[j].attemptCount /\ job[j].attemptCount \in Int
  BY <1>2, RunIsOfAttempt DEF JobRow
<1>5. ~(n > job[j].attemptCount)
  BY <1>4
<1> QED BY <1>1, <1>3, <1>5 DEF GoodRun

\* A step of one execution that asks the database nothing.
LEMMA PrivateStep ==
  ASSUME WorkerInv, Inv', NEW j \in Job, NEW n \in AttemptNumber,
         run[j][n] /= NoRun, NEW x \in Run, Proceed(j, n, x),
         {x.lease, x.callVersion, x.beatVersion}
           \subseteq {0, run[j][n].lease, run[j][n].callVersion, run[j][n].beatVersion},
         x.beat = "done" => /\ run[j][n].beat = "done"
                            /\ x.beatVersion = run[j][n].beatVersion,
         x.phase = "settling" => x.verdict \in SettleStatus,
         UNCHANGED <<job, loop, aborted>>,
         faults' = faults \/ Faulty
  PROVE  ProcessesTyped' /\ GoodRuns'
<1>1. GoodRun(job'[j], n, x)
  BY KnowsNoMore
<1>2. RowsMove
  BY RowsStayPut DEF WorkerInv
<1>3. run' \in [Job -> [AttemptNumber -> Run]] /\ GoodRuns'
  BY <1>1, <1>2, ProceedKeeps
<1>4. faults' \in 0 .. MaxFaults
  BY WorkerAssumption DEF WorkerInv, ProcessesTyped, Faulty
<1> QED BY <1>3, <1>4 DEF WorkerInv, ProcessesTyped

LEMMA RunFields ==
  ASSUME WorkerInv, NEW j \in Job, NEW n \in AttemptNumber
  PROVE  /\ run[j][n] \in Run
         /\ run[j][n].phase = "settling" => run[j][n].verdict \in SettleStatus
BY DEF WorkerInv, ProcessesTyped, GoodRuns, GoodRun

LEMMA SendsFields ==
  ASSUME NEW x \in Run, NEW phase \in {"settling", "failing"}
  PROVE  /\ Sends(x, phase) \in Run
         /\ Sends(x, phase).phase = phase
         /\ Sends(x, phase).verdict = x.verdict
         /\ Sends(x, phase).lease = x.lease
         /\ Sends(x, phase).callVersion = x.lease
         /\ Sends(x, phase).beat = x.beat
         /\ Sends(x, phase).beatVersion = x.beatVersion
BY DEF Sends, Run, Calls

LEMMA OverFields ==
  ASSUME NEW x \in Run
  PROVE  /\ Over(x) \in Run
         /\ Over(x).phase = "idle"
         /\ Over(x).lease = 0
         /\ Over(x).callVersion = 0
         /\ Over(x).beat = x.beat
         /\ Over(x).beatVersion = x.beatVersion
BY DEF Over, NoRun, Run, Calls

LEMMA HandlerEndsStep ==
  ASSUME WorkerInv, Inv', NEW j \in Job, NEW n \in AttemptNumber,
         NEW verdict \in HandlerResult \cup {"RETRY", "FATAL"},
         HandlerEnds(j, n, verdict)
  PROVE  ProcessesTyped' /\ GoodRuns'
<1> DEFINE r == run[j][n]
           y == [r EXCEPT !.verdict = verdict]
           phase == IF verdict \in SettleStatus THEN "settling" ELSE "failing"
           x == Sends(y, phase)
<1>1. r \in Run /\ r /= NoRun /\ Proceed(j, n, x)
  BY RunFields, NoRunType DEF HandlerEnds
<1>2. /\ y \in Run
      /\ y.verdict = verdict
      /\ y.lease = r.lease /\ y.beat = r.beat /\ y.beatVersion = r.beatVersion
  BY <1>1, WorkerAssumption DEF Run
<1> HIDE DEF y
<1>3. phase \in {"settling", "failing"}
      /\ (phase = "settling" => verdict \in SettleStatus)
  OBVIOUS
<1> HIDE DEF phase
<1>4. /\ x \in Run
      /\ x.phase = phase /\ x.verdict = verdict
      /\ x.lease = r.lease /\ x.callVersion = r.lease
      /\ x.beat = r.beat /\ x.beatVersion = r.beatVersion
  BY <1>2, <1>3, SendsFields
<1> HIDE DEF x
<1> QED BY <1>1, <1>3, <1>4, PrivateStep DEF HandlerEnds

LEMMA SettleThrowsStep ==
  ASSUME WorkerInv, Inv', NEW j \in Job, NEW n \in AttemptNumber, SettleThrows(j, n)
  PROVE  ProcessesTyped' /\ GoodRuns'
<1> DEFINE r == run[j][n]
           x == Sends(r, "failing")
<1>1. r \in Run /\ r /= NoRun /\ Proceed(j, n, x)
  BY RunFields, NoRunType DEF SettleThrows
<1>2. /\ x \in Run /\ x.phase = "failing"
      /\ x.lease = r.lease /\ x.callVersion = r.lease
      /\ x.beat = r.beat /\ x.beatVersion = r.beatVersion
  BY <1>1, SendsFields
<1> HIDE DEF x
<1> QED BY <1>1, <1>2, PrivateStep DEF SettleThrows

\* A call that is refused, or whose answer is lost.
LEMMA CallEndsStep ==
  ASSUME WorkerInv, Inv', NEW j \in Job, NEW n \in AttemptNumber,
         CallRefused(j, n) \/ CallBreaks(j, n)
  PROVE  ProcessesTyped' /\ GoodRuns'
<1> DEFINE r == run[j][n]
           x == [r EXCEPT !.call = "refused"]
<1>1. r \in Run /\ r /= NoRun /\ Proceed(j, n, x)
      /\ (r.phase = "settling" => r.verdict \in SettleStatus)
  BY RunFields, NoRunType DEF CallRefused, CallBreaks, Active
<1>2. /\ x \in Run /\ x.phase = r.phase /\ x.verdict = r.verdict
      /\ x.lease = r.lease /\ x.callVersion = r.callVersion
      /\ x.beat = r.beat /\ x.beatVersion = r.beatVersion
  BY <1>1 DEF Run, Calls
<1> HIDE DEF x
<1>3. UNCHANGED <<job, loop, aborted>> /\ (faults' = faults \/ Faulty)
  BY DEF CallRefused, CallBreaks
<1> QED BY <1>1, <1>2, <1>3, PrivateStep

LEMMA CallSucceedsStep ==
  ASSUME WorkerInv, Inv', NEW j \in Job, NEW n \in AttemptNumber, CallSucceeds(j, n)
  PROVE  ProcessesTyped' /\ GoodRuns'
<1> DEFINE r == run[j][n]
           x == Over(r)
<1>1. r \in Run /\ r /= NoRun /\ Proceed(j, n, x)
  BY RunFields, NoRunType DEF CallSucceeds
<1>2. /\ x \in Run /\ x.phase = "idle" /\ x.lease = 0 /\ x.callVersion = 0
      /\ x.beat = r.beat /\ x.beatVersion = r.beatVersion
  BY <1>1, OverFields
<1> HIDE DEF x
<1> QED BY <1>1, <1>2, PrivateStep DEF CallSucceeds

LEMMA BeatSentStep ==
  ASSUME WorkerInv, Inv', NEW j \in Job, NEW n \in AttemptNumber, BeatSent(j, n)
  PROVE  ProcessesTyped' /\ GoodRuns'
<1> DEFINE r == run[j][n]
           x == [r EXCEPT !.beat = "sent", !.beatVersion = r.lease]
<1>1. r \in Run /\ r /= NoRun /\ Proceed(j, n, x)
      /\ (r.phase = "settling" => r.verdict \in SettleStatus)
  BY RunFields, NoRunType DEF BeatSent, Active
<1>2. /\ x \in Run /\ x.phase = r.phase /\ x.verdict = r.verdict
      /\ x.lease = r.lease /\ x.callVersion = r.callVersion
      /\ x.beat = "sent" /\ x.beatVersion = r.lease
  BY <1>1 DEF Run, Calls
<1> HIDE DEF x
<1> QED BY <1>1, <1>2, PrivateStep DEF BeatSent

\* A heartbeat that is refused, or whose answer is lost.
LEMMA BeatEndsStep ==
  ASSUME WorkerInv, Inv', NEW j \in Job, NEW n \in AttemptNumber, NEW o \in Offset,
         BeatRefused(j, n, o) \/ BeatBreaks(j, n)
  PROVE  ProcessesTyped' /\ GoodRuns'
<1> DEFINE r == run[j][n]
           x == [r EXCEPT !.beat = "refused"]
<1>1. r \in Run /\ r /= NoRun /\ Proceed(j, n, x)
      /\ (r.phase = "settling" => r.verdict \in SettleStatus)
  BY RunFields, NoRunType DEF BeatRefused, BeatBreaks
<1>2. /\ x \in Run /\ x.phase = r.phase /\ x.verdict = r.verdict
      /\ x.lease = r.lease /\ x.callVersion = r.callVersion
      /\ x.beat = "refused" /\ x.beatVersion = r.beatVersion
  BY <1>1 DEF Run, Calls
<1> HIDE DEF x
<1>3. UNCHANGED <<job, loop, aborted>> /\ (faults' = faults \/ Faulty)
  BY DEF BeatRefused, BeatBreaks
<1> QED BY <1>1, <1>2, <1>3, PrivateStep

\* The answer of a heartbeat brings the version that its commit made.
LEMMA BeatAnsweredStep ==
  ASSUME WorkerInv, Inv', NEW j \in Job, NEW n \in AttemptNumber, BeatAnswered(j, n)
  PROVE  ProcessesTyped' /\ GoodRuns'
<1> DEFINE r == run[j][n]
           v == IF r.beat = "done" /\ Active(j, n) THEN r.beatVersion + 1 ELSE r.lease
           x == [r EXCEPT !.beat = "none", !.beatVersion = 0, !.lease = v]
<1>1. r \in Run /\ r /= NoRun /\ Proceed(j, n, x)
      /\ (r.phase = "settling" => r.verdict \in SettleStatus)
  BY RunFields, NoRunType DEF BeatAnswered
<1>2. v \in Nat
  BY <1>1 DEF Run
<1>3. GoodRun(job[j], n, r) /\ Numbered(job[j]) /\ job[j] \in JobRow
  BY DEF WorkerInv, GoodRuns, Inv
<1>4. Fits(job[j], n, v) /\ Fits(job[j], n, 0)
  BY <1>3, NothingFits DEF GoodRun
<1> HIDE DEF v
<1>5. /\ x \in Run /\ x.phase = r.phase /\ x.verdict = r.verdict
      /\ x.lease = v /\ x.callVersion = r.callVersion
      /\ x.beat = "none" /\ x.beatVersion = 0
  BY <1>1, <1>2 DEF Run, Calls
<1> HIDE DEF x
<1>6. ~(n > job[j].attemptCount)
  <2>1. n \in 1 .. job[j].attemptCount /\ job[j].attemptCount \in Int
    BY <1>1, <1>3, RunIsOfAttempt DEF JobRow
  <2> QED BY <2>1
<1>7. GoodRun(job[j], n, x)
  BY <1>1, <1>3, <1>4, <1>5, <1>6 DEF GoodRun
<1>8. job' = job /\ UNCHANGED <<loop, aborted, faults>>
  BY DEF BeatAnswered
<1>9. RowsMove
  BY <1>8, RowsStayPut DEF WorkerInv
<1>10. GoodRun(job'[j], n, x)
  BY <1>7, <1>8
<1>11. run' \in [Job -> [AttemptNumber -> Run]] /\ GoodRuns'
  BY <1>1, <1>5, <1>9, <1>10, ProceedKeeps
<1> QED BY <1>8, <1>11 DEF WorkerInv, ProcessesTyped

\* A heartbeat commits: the version after the one it was sent with is the
\* present one, and it is still the attempt's own.
LEMMA BeatCommitsStep ==
  ASSUME WorkerInv, Inv', NEW j \in Job, NEW n \in AttemptNumber, NEW o \in Offset,
         BeatCommits(j, n, o)
  PROVE  ProcessesTyped' /\ GoodRuns'
<1> DEFINE r == run[j][n]
           x == [r EXCEPT !.beat = "done"]
<1>1. r \in Run /\ r /= NoRun /\ Proceed(j, n, x) /\ n \in Nat
  BY RunFields, NoRunType, AttemptNumbers DEF BeatCommits
<1>2. Heartbeat(Owner(j, n), j, r.beatVersion, o) /\ Inv
  BY DEF BeatCommits, WorkerInv
<1>3. /\ RowsMove
      /\ job'[j].rowVersion = job[j].rowVersion + 1
      /\ job'[j].attemptCount = job[j].attemptCount
  BY <1>2, HeartbeatMoves
<1>4. Holds(Owner(j, n), j, r.beatVersion)
  BY <1>2 DEF Heartbeat
<1>5. n = job[j].attemptCount /\ r.beatVersion = job[j].rowVersion
  BY <1>4, FencePasses DEF Holds
<1>6. /\ x \in Run /\ x.phase = r.phase /\ x.verdict = r.verdict
      /\ x.lease = r.lease /\ x.callVersion = r.callVersion
      /\ x.beat = "done" /\ x.beatVersion = r.beatVersion
  BY <1>1 DEF Run, Calls
<1> HIDE DEF x
<1>7. job[j] \in JobRow /\ job'[j] \in JobRow /\ Moves(job[j], job'[j])
  BY <1>2, <1>3 DEF Inv, RowsMove
<1>8. GoodRun(job'[j], n, r)
  <2>1. GoodRun(job[j], n, r)
    BY DEF WorkerInv, GoodRuns
  <2> QED BY <1>1, <1>7, <2>1, GoodRunStays
<1>9. Fits(job'[j], n, r.beatVersion + 1)
  BY <1>3, <1>5, <1>7 DEF Fits, JobRow
<1>10. ~(n > job'[j].attemptCount)
  BY <1>1, <1>3, <1>5
<1>11. GoodRun(job'[j], n, x)
  BY <1>6, <1>8, <1>9, <1>10 DEF GoodRun
<1>12. run' \in [Job -> [AttemptNumber -> Run]] /\ GoodRuns'
  BY <1>1, <1>3, <1>6, <1>11, ProceedKeeps
<1> QED BY <1>12 DEF WorkerInv, ProcessesTyped, BeatCommits

LEMMA CallCommitsStep ==
  ASSUME WorkerInv, Inv', NEW j \in Job, NEW n \in AttemptNumber, NEW o \in Offset,
         CallCommits(j, n, o)
  PROVE  ProcessesTyped' /\ GoodRuns'
<1> DEFINE r == run[j][n]
           x == [r EXCEPT !.call = "done"]
<1>1. r \in Run /\ r /= NoRun /\ Proceed(j, n, x)
      /\ (r.phase = "settling" => r.verdict \in SettleStatus)
  BY RunFields, NoRunType DEF CallCommits, Active
<1>2. /\ x \in Run /\ x.phase = r.phase /\ x.verdict = r.verdict
      /\ x.lease = r.lease /\ x.callVersion = r.callVersion
      /\ x.beat = r.beat /\ x.beatVersion = r.beatVersion
  BY <1>1 DEF Run, Calls
<1> HIDE DEF x
<1>3. GoodRun(job[j], n, x)
  BY <1>1, <1>2, KnowsNoMore
<1>4. RowsMove
  BY CallIsQueueStep
<1>5. GoodRun(job'[j], n, x)
  BY <1>2, <1>3, <1>4, GoodRunStays, AttemptNumbers DEF WorkerInv, Inv, RowsMove
<1>6. run' \in [Job -> [AttemptNumber -> Run]] /\ GoodRuns'
  BY <1>1, <1>2, <1>4, <1>5, ProceedKeeps
<1> QED BY <1>6 DEF WorkerInv, ProcessesTyped, CallCommits

-----------------------------------------------------------------------------
(* Steps of many executions.                                               *)

\* What is known of an execution does not depend on who awaits it.
LEMMA AwaitedIsFree ==
  ASSUME NEW r \in JobRow, NEW n, NEW x \in Run, GoodRun(r, n, x),
         NEW b \in BOOLEAN, x.awaited = FALSE => b = FALSE
  PROVE  /\ [x EXCEPT !.awaited = b] \in Run
         /\ GoodRun(r, n, [x EXCEPT !.awaited = b])
<1> DEFINE y == [x EXCEPT !.awaited = b]
<1>1. /\ y \in Run
      /\ y.lease = x.lease /\ y.callVersion = x.callVersion
      /\ y.beat = x.beat /\ y.beatVersion = x.beatVersion
      /\ y.phase = x.phase /\ y.verdict = x.verdict
  BY DEF Run, Calls
<1>2. ASSUME x = NoRun PROVE y = NoRun
  <2>1. x.awaited = FALSE
    BY <1>2 DEF NoRun
  <2>2. b = FALSE
    BY <2>1
  <2>3. [x EXCEPT !.awaited = FALSE] = x
    BY <2>1 DEF Run
  <2> QED BY <1>2, <2>2, <2>3
<1> HIDE DEF y
<1>3. GoodRun(r, n, y)
  BY <1>1, <1>2 DEF GoodRun
<1> QED BY <1>1, <1>3 DEF y

LEMMA FailThrowsStep ==
  ASSUME WorkerInv, Inv', NEW j \in Job, NEW n \in AttemptNumber, FailThrows(j, n)
  PROVE  ProcessesTyped' /\ GoodRuns'
<1> DEFINE r == run[j][n]
           x == Over(r)
           b(i, m) == run[i][m].awaited
                        /\ ~(m <= Len(attempts[i]) /\ Owner(i, m) = Owner(j, n))
           new(i, m) == IF <<i, m>> = <<j, n>> THEN x
                        ELSE [run[i][m] EXCEPT !.awaited = b(i, m)]
<1>1. r \in Run /\ r /= NoRun /\ UNCHANGED <<job, loop, aborted, faults>>
  BY RunFields, NoRunType DEF FailThrows
<1>2. /\ x \in Run /\ x.phase = "idle" /\ x.lease = 0 /\ x.callVersion = 0
      /\ x.beat = r.beat /\ x.beatVersion = r.beatVersion
  BY <1>1, OverFields
<1>3. CASE ~r.awaited
  <2>1. Proceed(j, n, x)
    BY <1>3 DEF FailThrows
  <2> HIDE DEF x
  <2> QED BY <1>1, <1>2, <2>1, PrivateStep
<1>4. CASE r.awaited
  <2>1. run' = [i \in Job |-> [m \in AttemptNumber |-> new(i, m)]]
    BY <1>4 DEF FailThrows
  <2>2. GoodRun(job[j], n, x)
    <3> HIDE DEF x
    <3> QED BY <1>1, <1>2, KnowsNoMore
  <2> HIDE DEF x
  <2>3. ASSUME NEW i \in Job, NEW m \in AttemptNumber
        PROVE  new(i, m) \in Run /\ GoodRun(job[i], m, new(i, m))
    <3>1. run[i][m] \in Run
      BY RunFields
    <3>2. GoodRun(job[i], m, run[i][m]) /\ job[i] \in JobRow
      BY DEF WorkerInv, GoodRuns, Inv
    <3>3. b(i, m) \in BOOLEAN /\ (run[i][m].awaited = FALSE => b(i, m) = FALSE)
      BY <3>1 DEF Run
    <3> HIDE DEF b
    <3>4. CASE i = j /\ m = n
      <4>1. new(i, m) = x
        BY <3>4
      <4> QED BY <1>2, <2>2, <3>4, <4>1
    <3>5. CASE ~(i = j /\ m = n)
      <4>1. new(i, m) = [run[i][m] EXCEPT !.awaited = b(i, m)]
        BY <3>5
      <4>2. /\ [run[i][m] EXCEPT !.awaited = b(i, m)] \in Run
            /\ GoodRun(job[i], m, [run[i][m] EXCEPT !.awaited = b(i, m)])
        BY <3>1, <3>2, <3>3, AwaitedIsFree
      <4> QED BY <4>1, <4>2
    <3> QED BY <3>4, <3>5
  <2> HIDE DEF new
  <2>4. \A i \in Job, m \in AttemptNumber : run'[i][m] = new(i, m)
    BY <2>1
  <2>5. run' \in [Job -> [AttemptNumber -> Run]]
    BY <2>1, <2>3
  <2>6. GoodRuns'
    BY <1>1, <2>3, <2>4 DEF GoodRuns
  <2> QED BY <1>1, <2>5, <2>6 DEF WorkerInv, ProcessesTyped
<1> QED BY <1>3, <1>4

\* A batch starts: its executions hold the versions that the claim made.
LEMMA PollClaimsStep ==
  ASSUME WorkerInv, Inv', NEW w \in Worker, NEW batch \in SUBSET Job,
         PollClaims(w, batch)
  PROVE  ProcessesTyped' /\ GoodRuns'
<1> DEFINE c(i) == job'[i].attemptCount
<1>1. run \in [Job -> [AttemptNumber -> Run]] /\ Inv /\ Claim(w, batch)
  BY DEF WorkerInv, ProcessesTyped, PollClaims
<1>2. /\ RowsMove
      /\ \A i \in batch : /\ job'[i].status = "RUNNING"
                          /\ c(i) = job[i].attemptCount + 1
                          /\ c(i) \in AttemptNumber
                          /\ job'[i].rowVersion = job[i].rowVersion + 1
      /\ \A i \in Job \ batch : job'[i] = job[i]
  BY <1>1, ClaimMoves
<1>3. run' = [i \in Job |-> IF i \in batch
                              THEN [run[i] EXCEPT ![c(i)] = Started(i)]
                              ELSE run[i]]
  BY DEF PollClaims
<1>4. ASSUME NEW i \in batch
      PROVE  /\ Started(i) \in Run
             /\ GoodRun(job'[i], c(i), Started(i))
  <2>1. job'[i] \in JobRow /\ job'[i].rowVersion \in Nat
    BY DEF Inv, JobRow
  <2>2. Numbered(job'[i])
    BY <1>1, <1>2, MovesNumber DEF WorkerInv, Inv, RowsMove
  <2>3. /\ Started(i) \in Run
        /\ Started(i).phase = "handling"
        /\ Started(i).lease = job'[i].rowVersion
        /\ Started(i).callVersion = 0
        /\ Started(i).beat = "none"
        /\ Started(i).beatVersion = 0
    BY <2>1 DEF Started, NoRun, Run, Calls
  <2>4. Fits(job'[i], c(i), 0)
    BY <2>1, <2>2, NothingFits
  <2>5. Fits(job'[i], c(i), job'[i].rowVersion)
    BY <2>1 DEF Fits
  <2>6. ~(c(i) > job'[i].attemptCount)
    BY <1>2, AttemptNumbers
  <2> QED BY <2>3, <2>4, <2>5, <2>6 DEF GoodRun
<1>5. ASSUME NEW i \in Job, NEW m \in AttemptNumber
      PROVE  GoodRun(job'[i], m, run[i][m]) /\ run[i][m] \in Run
  <2>1. GoodRun(job[i], m, run[i][m]) /\ run[i][m] \in Run /\ m \in Nat
    BY RunFields, AttemptNumbers DEF WorkerInv, GoodRuns
  <2> QED BY <1>2, <2>1, GoodRunStays DEF WorkerInv, Inv, RowsMove
<1> HIDE DEF c
<1>6. run' \in [Job -> [AttemptNumber -> Run]]
  BY <1>1, <1>2, <1>3, <1>4
<1>7. ASSUME NEW i \in Job, NEW m \in AttemptNumber
      PROVE  GoodRun(job'[i], m, run'[i][m])
  <2>1. CASE i \in batch /\ m = c(i)
    <3>1. run'[i][m] = Started(i)
      BY <1>1, <1>2, <1>3, <2>1
    <3> QED BY <1>4, <2>1, <3>1
  <2>2. CASE ~(i \in batch /\ m = c(i))
    <3>1. run'[i][m] = run[i][m]
      BY <1>1, <1>2, <1>3, <2>2
    <3> QED BY <1>5, <3>1
  <2> QED BY <2>1, <2>2
<1>8. /\ loop' = [loop EXCEPT ![w] = "await"]
      /\ UNCHANGED <<aborted, faults>>
  BY DEF PollClaims
<1> QED BY <1>6, <1>7, <1>8 DEF WorkerInv, ProcessesTyped, GoodRuns

\* A process ends: its executions are forgotten.
LEMMA ForgottenKeeps ==
  ASSUME WorkerInv, job' = job, NEW w, Forgotten(w)
  PROVE  run' \in [Job -> [AttemptNumber -> Run]] /\ GoodRuns'
<1> DEFINE new(i, m) == IF <<i, m>> \in RunsOf(w) THEN NoRun ELSE run[i][m]
<1>1. run' = [i \in Job |-> [m \in AttemptNumber |-> new(i, m)]]
  BY DEF Forgotten
<1>2. ASSUME NEW i \in Job, NEW m \in AttemptNumber
      PROVE  new(i, m) \in Run /\ GoodRun(job[i], m, new(i, m))
  <2>1. /\ run[i][m] \in Run /\ GoodRun(job[i], m, run[i][m])
        /\ job[i] \in JobRow /\ Numbered(job[i])
    BY RunFields DEF WorkerInv, GoodRuns, Inv
  <2>2. NoRun \in Run /\ GoodRun(job[i], m, NoRun)
    BY <2>1, NoRunType, NoRunIsGood
  <2>3. CASE <<i, m>> \in RunsOf(w)
    <3>1. new(i, m) = NoRun
      BY <2>3
    <3> QED BY <2>2, <3>1
  <2>4. CASE <<i, m>> \notin RunsOf(w)
    <3>1. new(i, m) = run[i][m]
      BY <2>4
    <3> QED BY <2>1, <3>1
  <2> QED BY <2>3, <2>4
<1> HIDE DEF new
<1>3. run' \in [Job -> [AttemptNumber -> Run]]
  BY <1>1, <1>2
<1>4. \A i \in Job, m \in AttemptNumber : run'[i][m] = new(i, m)
  BY <1>1
<1>5. GoodRuns'
  BY <1>2, <1>4 DEF GoodRuns
<1> QED BY <1>3, <1>5

\* Steps of the loop that leave the executions alone.
LEMMA LoopKeeps ==
  ASSUME WorkerInv, Inv', RowsMove, run' = run,
         loop' \in [Worker -> {"poll", "claim", "await", "draining", "stopped"}],
         aborted' \in [Worker -> BOOLEAN],
         faults' = faults \/ Faulty
  PROVE  ProcessesTyped' /\ GoodRuns'
<1>1. run' \in [Job -> [AttemptNumber -> Run]] /\ GoodRuns'
  BY QueueStepKeeps
<1>2. faults' \in 0 .. MaxFaults
  BY WorkerAssumption DEF WorkerInv, ProcessesTyped, Faulty
<1> QED BY <1>1, <1>2 DEF ProcessesTyped

LEMMA LoopStepKeeps ==
  ASSUME WorkerInv, Inv', RowsMove, NEW w \in Worker, LoopStep(w)
  PROVE  ProcessesTyped' /\ GoodRuns'
<1>1. /\ loop \in [Worker -> {"poll", "claim", "await", "draining", "stopped"}]
      /\ aborted \in [Worker -> BOOLEAN]
  BY DEF WorkerInv, ProcessesTyped
<1>2. CASE (\E o \in Offset : PollRecovers(w, o)) \/ PollEnds(w) \/ Drain(w) \/ Stop(w)
  <2>1. /\ run' = run /\ aborted' = aborted /\ faults' = faults
        /\ \E p \in {"poll", "claim", "await", "draining", "stopped"} :
             loop' = [loop EXCEPT ![w] = p]
    BY <1>2 DEF PollRecovers, PollEnds, Drain, Stop
  <2> QED BY <1>1, <2>1, LoopKeeps
<1>3. CASE \E batch \in SUBSET Job : PollClaims(w, batch)
  BY <1>3, PollClaimsStep
<1>4. CASE Restart(w)
  <2>1. /\ job' = job /\ Forgotten(w) /\ faults' = faults
        /\ loop' = [loop EXCEPT ![w] = "poll"]
        /\ aborted' = [aborted EXCEPT ![w] = FALSE]
    BY <1>4 DEF Restart
  <2>2. run' \in [Job -> [AttemptNumber -> Run]] /\ GoodRuns'
    BY <2>1, ForgottenKeeps
  <2> QED BY <1>1, <2>1, <2>2 DEF WorkerInv, ProcessesTyped
<1> QED BY <1>2, <1>3, <1>4 DEF LoopStep

LEMMA FaultStepKeeps ==
  ASSUME WorkerInv, Inv', RowsMove, FaultStep
  PROVE  ProcessesTyped' /\ GoodRuns'
<1>1. /\ loop \in [Worker -> {"poll", "claim", "await", "draining", "stopped"}]
      /\ aborted \in [Worker -> BOOLEAN]
  BY DEF WorkerInv, ProcessesTyped
<1>2. ASSUME NEW j \in Job, NEW n \in AttemptNumber, CallBreaks(j, n) \/ BeatBreaks(j, n)
      PROVE  ProcessesTyped' /\ GoodRuns'
  <2>1. 0 \in Offset
    BY TimeAssumption DEF Offset
  <2> QED BY <1>2, <2>1, CallEndsStep, BeatEndsStep
<1>3. ASSUME NEW w \in Worker, NEW batch \in SUBSET Job, ClaimLost(w, batch)
      PROVE  ProcessesTyped' /\ GoodRuns'
  BY <1>1, <1>3, LoopKeeps DEF ClaimLost
<1>4. ASSUME NEW w \in Worker, Abort(w)
      PROVE  ProcessesTyped' /\ GoodRuns'
  BY <1>1, <1>4, LoopKeeps DEF Abort
<1>5. ASSUME NEW w \in Worker, Crash(w)
      PROVE  ProcessesTyped' /\ GoodRuns'
  <2>1. /\ job' = job /\ Forgotten(w) /\ Faulty
        /\ loop' = [loop EXCEPT ![w] = "poll"]
        /\ aborted' = [aborted EXCEPT ![w] = FALSE]
    BY <1>5 DEF Crash
  <2>2. run' \in [Job -> [AttemptNumber -> Run]] /\ GoodRuns'
    BY <2>1, ForgottenKeeps
  <2>3. faults' \in 0 .. MaxFaults
    BY <2>1, WorkerAssumption DEF WorkerInv, ProcessesTyped, Faulty
  <2> QED BY <1>1, <2>1, <2>2, <2>3 DEF ProcessesTyped
<1> QED BY <1>2, <1>3, <1>4, <1>5 DEF FaultStep

LEMMA ExecutionStepKeeps ==
  ASSUME WorkerInv, Inv', NEW j \in Job, NEW n \in AttemptNumber,
         CallStep(j, n) \/ HandlerStep(j, n) \/ BeatStep(j, n)
  PROVE  ProcessesTyped' /\ GoodRuns'
<1>1. CASE CallStep(j, n)
  BY <1>1, CallCommitsStep, CallEndsStep, CallSucceedsStep, SettleThrowsStep,
     FailThrowsStep DEF CallStep
<1>2. CASE HandlerStep(j, n)
  BY <1>2, HandlerEndsStep DEF HandlerStep
<1>3. CASE BeatStep(j, n)
  BY <1>3, BeatSentStep, BeatCommitsStep, BeatEndsStep, BeatAnsweredStep DEF BeatStep
<1> QED BY <1>1, <1>2, <1>3

LEMMA WorkerStep == WorkerInv /\ [WorkerNext]_workerVars => WorkerInv'
<1> SUFFICES ASSUME WorkerInv, [WorkerNext]_workerVars
             PROVE  WorkerInv'
  OBVIOUS
<1>1. Inv' /\ RowsMove /\ \A j \in Job : Numbered(job'[j])
  BY QueueGoesOn
<1>2. ProcessesTyped' /\ GoodRuns'
  <2>1. CASE \E w \in Worker : LoopStep(w)
    BY <1>1, <2>1, LoopStepKeeps
  <2>2. CASE \E j \in Job, n \in AttemptNumber :
               CallStep(j, n) \/ HandlerStep(j, n) \/ BeatStep(j, n)
    BY <1>1, <2>2, ExecutionStepKeeps
  <2>3. CASE FaultStep
    BY <1>1, <2>3, FaultStepKeeps
  <2>4. CASE UNCHANGED processVars
    BY <1>1, <2>4, LoopKeeps DEF processVars, WorkerInv, ProcessesTyped
  <2>5. CASE UNCHANGED workerVars
    BY <1>1, <2>5, LoopKeeps DEF workerVars, WorkerInv, ProcessesTyped
  <2> QED BY <2>1, <2>2, <2>3, <2>4, <2>5 DEF WorkerNext
<1> QED BY <1>1, <1>2 DEF WorkerInv

LEMMA WorkerInitGood == WorkerInit => WorkerInv
<1> SUFFICES ASSUME WorkerInit PROVE WorkerInv
  OBVIOUS
<1>1. Inv
  BY InitGood DEF WorkerInit
<1>2. ASSUME NEW j \in Job
      PROVE  job[j] \in JobRow /\ Numbered(job[j])
  BY AbsentRow DEF WorkerInit, Numbered, NoRow
<1>3. ProcessesTyped
  BY NoRunType, WorkerAssumption DEF WorkerInit, ProcessesTyped
<1>4. GoodRuns
  BY <1>2, NoRunIsGood DEF WorkerInit, GoodRuns
<1> QED BY <1>1, <1>2, <1>3, <1>4 DEF WorkerInv

-----------------------------------------------------------------------------
(* The theorems.                                                           *)

\* The inductive invariant of queue and processes together.
THEOREM WorkerInvariant == WorkerSpec => []WorkerInv
<1> QED BY WorkerInitGood, WorkerStep, PTL DEF WorkerSpec

\* Processes, executions and what they send keep their types.
THEOREM WorkerTypes == WorkerSpec => []WorkerTypeOK
<1>1. WorkerInv => WorkerTypeOK
  BY InvImplies DEF WorkerInv, ProcessesTyped, WorkerTypeOK
<1> QED BY <1>1, WorkerInvariant, PTL

\* The fence is exact: what an execution holds or has sent passes the fence of
\* the database only while its own attempt is the one that runs.
THEOREM FenceStaysExact == WorkerSpec => []FenceIsExact
<1>1. WorkerInv => FenceIsExact
  BY FencePasses DEF FenceIsExact
<1> QED BY <1>1, WorkerInvariant, PTL

\* The processes work the queue by its functions alone: whatever crashes, is
\* lost, late or repeated, what they do to the database is a behaviour of the
\* queue, so that every theorem about the queue holds of them.
THEOREM WorkersDriveTheQueue == WorkerSpec => Spec
<1>1. WorkerInit => Init
  BY DEF WorkerInit
<1>2. WorkerInv /\ [WorkerNext]_workerVars => [Next]_vars
  BY ProcessStepsQueue
<1> QED BY <1>1, <1>2, WorkerInvariant, PTL DEF WorkerSpec, Spec

\* So do those who wait for a result see a task of JobLifecycle, however the
\* processes fare.
THEOREM WorkersImplementLifecycle == WorkerSpec => ImplementsLifecycle
BY WorkersDriveTheQueue, QueueImplementsLifecycle, PTL

\* A result stands, a stop is obeyed and a success is earned although processes
\* stall, die and come back, and although their calls are lost or come late.
THEOREM WorkersKeepPromises == WorkerSpec => Lifecycle!Promises
BY WorkersDriveTheQueue, QueueKeepsPromises, PTL

\* A settle or fail that commits closes the attempt it was sent for.
LEMMA CommitCloses ==
  ASSUME WorkerInv, NEW j \in Job, NEW n \in AttemptNumber, NEW o \in Offset,
         CallCommits(j, n, o)
  PROVE  ClosesItsOwnOnly(j, n)
<1> DEFINE r == job[j]
           v == run[j][n].callVersion
<1>1. PICK target \in {"SUCCEEDED", "WAITING_INPUT", "WAITING_REVIEW", "CANCELLED",
                       "FAILED", "DEAD_LETTER", "RETRY_SCHEDULED"},
           category \in {"NONE", "HANDLER"} :
        /\ Holds(Owner(j, n), j, v)
        /\ attempts' = [attempts EXCEPT ![j] =
                          Closed(@, r.attemptCount, target, category)]
  <2>1. CASE run[j][n].phase = "settling"
    <3>1. run[j][n].verdict \in SettleStatus
      BY <2>1, RunFields
    <3> QED BY <2>1, <3>1 DEF CallCommits, Settle, SettleStatus
  <2>2. CASE run[j][n].phase /= "settling"
    BY <2>2 DEF CallCommits, Fail, FailureTarget
  <2> QED BY <2>1, <2>2
<1>2. n = r.attemptCount
  BY <1>1, FencePasses
<1>3. /\ Good(r, attempts[j], operation[j]) /\ r.status = "RUNNING"
      /\ attempts \in [Job -> Seq(Attempt)]
  BY <1>1 DEF WorkerInv, Inv, Holds
<1>4. /\ n = Len(attempts[j]) /\ n \in 1 .. Len(attempts[j])
      /\ attempts[j][n].outcome = "OPEN"
  BY <1>2, <1>3 DEF Good, GoodLedger, JobRow
<1>5. /\ attempts'[j] = Closed(attempts[j], n, target, category)
      /\ \A i \in Job \ {j} : attempts'[i] = attempts[i]
  BY <1>1, <1>2, <1>3
<1>6. attempts'[j][n].outcome = target
  BY <1>3, <1>4, <1>5 DEF Closed
<1>7. \A m \in 1 .. Len(attempts[j]) : m /= n => attempts'[j][m] = attempts[j][m]
  BY <1>3, <1>4, <1>5 DEF Closed
<1> QED BY <1>1, <1>4, <1>5, <1>6, <1>7 DEF ClosesItsOwnOnly

\* A step of execution <<i, m>> that does not end its call successfully.
LEMMA OtherCallsStay ==
  ASSUME WorkerInv, NEW j \in Job, NEW n \in AttemptNumber,
         NEW i \in Job, NEW m \in AttemptNumber, NEW x, Proceed(i, m, x),
         x.call /= "done" \/ x.call = run[i][m].call, run[j][n].call = "sent"
  PROVE  run'[j][n].call /= "done"
<1>1. run \in [Job -> [AttemptNumber -> Run]]
  BY DEF WorkerInv, ProcessesTyped
<1>2. run' = [run EXCEPT ![i] = [run[i] EXCEPT ![m] = x]]
  BY <1>1 DEF Proceed
<1>3. CASE i = j /\ m = n
  <2>1. run'[j][n] = x
    BY <1>1, <1>2, <1>3
  <2> QED BY <1>3, <2>1
<1>4. CASE ~(i = j /\ m = n)
  <2>1. run'[j][n] = run[j][n]
    BY <1>1, <1>2, <1>4
  <2> QED BY <2>1
<1> QED BY <1>3, <1>4

LEMMA PrivateCallsStay ==
  ASSUME WorkerInv, NEW j \in Job, NEW n \in AttemptNumber, run[j][n].call = "sent",
         NEW i \in Job, NEW m \in AttemptNumber, NEW o \in Offset,
         NEW verdict \in HandlerResult \cup {"RETRY", "FATAL"},
         \/ CallRefused(i, m) \/ CallSucceeds(i, m) \/ SettleThrows(i, m)
         \/ CallBreaks(i, m) \/ HandlerEnds(i, m, verdict)
         \/ BeatSent(i, m) \/ BeatCommits(i, m, o) \/ BeatRefused(i, m, o)
         \/ BeatAnswered(i, m) \/ BeatBreaks(i, m)
  PROVE  run'[j][n].call /= "done"
<1> DEFINE r == run[i][m]
<1>1. r \in Run
  BY RunFields
<1>2. CASE CallRefused(i, m) \/ CallBreaks(i, m)
  <2>1. [r EXCEPT !.call = "refused"].call = "refused"
    BY <1>1 DEF Run
  <2> QED BY <1>2, <2>1, OtherCallsStay DEF CallRefused, CallBreaks
<1>3. CASE CallSucceeds(i, m)
  <2>1. Over(r).call = "none"
    BY DEF Over, NoRun
  <2> QED BY <1>3, <2>1, OtherCallsStay DEF CallSucceeds
<1>4. CASE SettleThrows(i, m)
  <2>1. Sends(r, "failing").call = "sent"
    BY <1>1 DEF Sends, Run
  <2> QED BY <1>4, <2>1, OtherCallsStay DEF SettleThrows
<1>5. CASE HandlerEnds(i, m, verdict)
  <2> DEFINE y == [r EXCEPT !.verdict = verdict]
             phase == IF verdict \in SettleStatus THEN "settling" ELSE "failing"
  <2>1. Sends(y, phase).call = "sent"
    BY <1>1 DEF Sends, Run
  <2> QED BY <1>5, <2>1, OtherCallsStay DEF HandlerEnds
<1>6. CASE BeatSent(i, m)
  <2>1. [r EXCEPT !.beat = "sent", !.beatVersion = r.lease].call = r.call
    BY <1>1 DEF Run
  <2> QED BY <1>6, <2>1, OtherCallsStay DEF BeatSent
<1>7. CASE BeatCommits(i, m, o)
  <2>1. [r EXCEPT !.beat = "done"].call = r.call
    BY <1>1 DEF Run
  <2> QED BY <1>7, <2>1, OtherCallsStay DEF BeatCommits
<1>8. CASE BeatRefused(i, m, o) \/ BeatBreaks(i, m)
  <2>1. [r EXCEPT !.beat = "refused"].call = r.call
    BY <1>1 DEF Run
  <2> QED BY <1>8, <2>1, OtherCallsStay DEF BeatRefused, BeatBreaks
<1>9. CASE BeatAnswered(i, m)
  <2> DEFINE v == IF r.beat = "done" /\ Active(i, m) THEN r.beatVersion + 1 ELSE r.lease
  <2>1. Proceed(i, m, [r EXCEPT !.beat = "none", !.beatVersion = 0, !.lease = v])
    BY <1>9 DEF BeatAnswered
  <2>2. [r EXCEPT !.beat = "none", !.beatVersion = 0, !.lease = v].call = r.call
    BY <1>1 DEF Run
  <2> QED BY <2>1, <2>2, OtherCallsStay
<1> QED BY <1>2, <1>3, <1>4, <1>5, <1>6, <1>7, <1>8, <1>9

LEMMA SharedCallsStay ==
  ASSUME WorkerInv, NEW j \in Job, NEW n \in AttemptNumber, run[j][n].call = "sent",
         \/ \E i \in Job, m \in AttemptNumber : FailThrows(i, m)
         \/ \E w \in Worker, batch \in SUBSET Job : PollClaims(w, batch)
         \/ \E w \in Worker : Forgotten(w)
         \/ run' = run
  PROVE  run'[j][n].call /= "done"
<1>1. /\ run \in [Job -> [AttemptNumber -> Run]]
      /\ run[j][n] \in Run
  BY RunFields DEF WorkerInv, ProcessesTyped
<1>2. ASSUME NEW i \in Job, NEW m \in AttemptNumber, FailThrows(i, m)
      PROVE  run'[j][n].call /= "done"
  <2>1. Over(run[i][m]).call = "none"
    BY DEF Over, NoRun
  <2>2. \A b : [run[j][n] EXCEPT !.awaited = b].call = "sent"
    BY <1>1 DEF Run
  <2>3. CASE ~run[i][m].awaited
    BY <1>2, <2>1, <2>3, OtherCallsStay DEF FailThrows
  <2>4. CASE run[i][m].awaited
    <3> DEFINE b(h, k) == run[h][k].awaited
                            /\ ~(k <= Len(attempts[h]) /\ Owner(h, k) = Owner(i, m))
               new(h, k) == IF <<h, k>> = <<i, m>> THEN Over(run[i][m])
                            ELSE [run[h][k] EXCEPT !.awaited = b(h, k)]
    <3>1. run' = [h \in Job |-> [k \in AttemptNumber |-> new(h, k)]]
      BY <1>2, <2>4 DEF FailThrows
    <3> HIDE DEF b
    <3>2. new(j, n).call /= "done"
      BY <2>1, <2>2
    <3> HIDE DEF new
    <3> QED BY <3>1, <3>2
  <2> QED BY <2>3, <2>4
<1>3. ASSUME NEW w \in Worker, NEW batch \in SUBSET Job, PollClaims(w, batch)
      PROVE  run'[j][n].call /= "done"
  <2>1. Started(j).call = "none"
    BY DEF Started, NoRun
  <2>2. run'[j][n] \in {run[j][n], Started(j)}
    BY <1>1, <1>3 DEF PollClaims
  <2> QED BY <2>1, <2>2
<1>4. ASSUME NEW w \in Worker, Forgotten(w)
      PROVE  run'[j][n].call /= "done"
  <2>1. run'[j][n] \in {NoRun, run[j][n]}
    BY <1>4 DEF Forgotten
  <2> QED BY <2>1, NoRunType
<1> QED BY <1>2, <1>3, <1>4

\* Only a commit makes a call that was sent a call that is done.
LEMMA OnlyCommitsAreDone ==
  ASSUME WorkerInv, [WorkerNext]_workerVars, NEW j \in Job, NEW n \in AttemptNumber,
         run[j][n].call = "sent", run'[j][n].call = "done"
  PROVE  \E o \in Offset : CallCommits(j, n, o)
<1>1. ASSUME NEW i \in Job, NEW m \in AttemptNumber, NEW o \in Offset,
             CallCommits(i, m, o)
      PROVE  CallCommits(j, n, o)
  <2>1. run \in [Job -> [AttemptNumber -> Run]]
    BY DEF WorkerInv, ProcessesTyped
  <2>2. run' = [run EXCEPT ![i][m] = [run[i][m] EXCEPT !.call = "done"]]
    BY <1>1 DEF CallCommits, Proceed
  <2>3. i = j /\ m = n
    BY <2>1, <2>2
  <2> QED BY <1>1, <2>3
<1>2. 0 \in Offset /\ "FATAL" \in HandlerResult \cup {"RETRY", "FATAL"}
  BY TimeAssumption DEF Offset
<1>3. CASE \E w \in Worker : LoopStep(w)
  <2>1. PICK w \in Worker : LoopStep(w)
    BY <1>3
  <2>2. \/ run' = run \/ Forgotten(w)
        \/ \E batch \in SUBSET Job : PollClaims(w, batch)
    BY <2>1 DEF LoopStep, PollRecovers, PollEnds, Drain, Stop, Restart
  <2> QED BY <2>2, SharedCallsStay
<1>4. ASSUME NEW i \in Job, NEW m \in AttemptNumber,
             CallStep(i, m) \/ HandlerStep(i, m) \/ BeatStep(i, m)
      PROVE  \E o \in Offset : CallCommits(j, n, o)
  <2>1. CASE CallStep(i, m)
    BY <1>1, <1>2, <2>1, PrivateCallsStay, SharedCallsStay DEF CallStep
  <2>2. CASE HandlerStep(i, m) \/ BeatStep(i, m)
    BY <1>2, <2>2, PrivateCallsStay DEF HandlerStep, BeatStep
  <2> QED BY <1>4, <2>1, <2>2
<1>5. CASE FaultStep
  <2>1. ASSUME NEW i \in Job, NEW m \in AttemptNumber,
               CallBreaks(i, m) \/ BeatBreaks(i, m)
        PROVE  FALSE
    BY <1>2, <2>1, PrivateCallsStay
  <2>2. ASSUME NEW w \in Worker, NEW batch \in SUBSET Job,
               ClaimLost(w, batch) \/ Abort(w) \/ Crash(w)
        PROVE  FALSE
    BY <2>2, SharedCallsStay DEF ClaimLost, Abort, Crash
  <2> QED BY <1>5, <2>1, <2>2 DEF FaultStep
<1>6. CASE UNCHANGED processVars \/ UNCHANGED workerVars
  BY <1>6 DEF processVars, workerVars
<1> QED BY <1>3, <1>4, <1>5, <1>6 DEF WorkerNext

\* No commit of a worker ever decides about another attempt than its own.
THEOREM WorkersCloseTheirOwn == WorkerSpec => ClosesItsOwn
<1>1. WorkerInv /\ [WorkerNext]_workerVars =>
        [\A j \in Job, n \in AttemptNumber :
           run[j][n].call = "sent" /\ run'[j][n].call = "done"
             => ClosesItsOwnOnly(j, n)]_workerVars
  BY OnlyCommitsAreDone, CommitCloses
<1> QED BY <1>1, WorkerInvariant, PTL DEF WorkerSpec, ClosesItsOwn
=============================================================================
