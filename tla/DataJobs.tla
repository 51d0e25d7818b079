------------------------------- MODULE DataJobs -------------------------------
(***************************************************************************)
(* The job queue of the Data Foundation, as its PostgreSQL functions run   *)
(* it: one row of ingestion.job, its ledger of ingestion.job_attempt and   *)
(* the status of its service.operation.  Every action is one transaction.  *)
(*                                                                         *)
(* An operation has at most one job (ingestion.submit and analysis.create  *)
(* insert one each, and nothing sets depends_on_job_id), so operations are *)
(* indexed by their job and record_job_transition has no sibling to look   *)
(* at.                                                                     *)
(*                                                                         *)
(* A timestamp is kept as the time left until it on the clock of the       *)
(* database: t <= clock_timestamp() is t <= 0.  A caller whose clock is o  *)
(* ahead passes observed_at, and t <= observed_at is t <= o.  Tick lets    *)
(* time pass.  A time that no caller can tell from a later past one stays  *)
(* at -MaxSkew.  Forever is SQL's null or 'infinity': it never arrives.    *)
(***************************************************************************)
EXTENDS Integers, Sequences, FiniteSets

CONSTANTS
  Job,              \* the jobs, and with each its operation
  IngestionJob,     \* those of type data.ingestion.process
  Worker,           \* the worker ids
  NoWorker,         \* lease_owner is null
  MaxAttempts,      \* max_attempts of a job
  LeaseTime,        \* the lease a worker asks for
  ExecutionWindow,  \* execution deadline an ingestion job gets at each claim
  QueueWindow,      \* timeout of an analysis job, and of a legacy queued job
  BackoffBase,      \* backoff_base_seconds
  BackoffMax,       \* backoff_max_seconds
  MaxSkew,          \* how far a caller's clock is from the database's
  Forever,          \* a timestamp that never arrives
  MaxRowVersion     \* bound of the model on heartbeats and repeated cancels

ASSUME JobsAssumption ==
  /\ IngestionJob \subseteq Job
  /\ NoWorker \notin Worker

ASSUME TimeAssumption ==
  /\ MaxAttempts \in Nat \ {0}
  /\ LeaseTime \in Nat \ {0}
  /\ ExecutionWindow \in Nat \ {0}
  /\ QueueWindow \in Nat \ {0}
  /\ BackoffBase \in Nat \ {0}
  /\ BackoffMax \in Nat
  /\ BackoffMax >= BackoffBase
  /\ MaxSkew \in Nat
  /\ MaxRowVersion \in Nat
  /\ Forever \in Nat
  /\ Forever > LeaseTime + ExecutionWindow + QueueWindow + BackoffMax + MaxSkew

VARIABLES
  job,        \* job[j]: the row of ingestion.job
  attempts,   \* attempts[j]: its rows of ingestion.job_attempt, by number
  operation   \* operation[j]: the status of its row of service.operation

vars == <<job, attempts, operation>>

JobTerminal == {"SUCCEEDED", "FAILED", "CANCELLED", "DEAD_LETTER"}
JobStatus == {"PENDING", "RUNNING", "RETRY_SCHEDULED", "WAITING_INPUT",
              "WAITING_REVIEW"} \cup JobTerminal
OperationTerminal == {"SUCCEEDED", "FAILED", "CANCELLED"}
OperationStatus == {"RUNNING", "WAITING_INPUT", "WAITING_REVIEW"}
                     \cup OperationTerminal
SettleStatus == {"SUCCEEDED", "WAITING_INPUT", "WAITING_REVIEW", "CANCELLED"}

\* "ABSENT": the row is not inserted yet.
Absent == "ABSENT"

Timer == {t \in Int : t >= -MaxSkew}
Offset == -MaxSkew .. MaxSkew

JobRow ==
  [status : JobStatus \cup {Absent},
   leaseOwner : Worker \cup {NoWorker},
   leaseIn : Timer,            \* lease_expires_at
   heartbeatIn : Timer,        \* heartbeat_at
   attemptCount : 0 .. MaxAttempts,
   nextAttemptIn : Timer,      \* next_attempt_at
   timeoutIn : Timer,          \* timeout_at
   cancelRequested : BOOLEAN,  \* cancel_requested_at is not null
   rowVersion : Nat]

\* An attempt's outcome is null ("OPEN") until it is closed; category is the
\* error_category that tells a worker's own verdict from a recovery.
Attempt ==
  [worker : Worker,
   outcome : {"OPEN", "WAITING_INPUT", "WAITING_REVIEW", "RETRY_SCHEDULED"}
               \cup JobTerminal,
   category : {"NONE", "HANDLER", "LEASE_EXPIRED", "JOB_TIMEOUT"}]

TypeOK ==
  /\ job \in [Job -> JobRow]
  /\ attempts \in [Job -> Seq(Attempt)]
  /\ operation \in [Job -> OperationStatus \cup {Absent}]

-----------------------------------------------------------------------------
Earlier(s, t) == IF s <= t THEN s ELSE t

\* Exponential backoff, capped.
RetryDelay(n) ==
  LET grown == BackoffBase * 2^(n - 1)
  IN  IF grown \in 1 .. BackoffMax THEN grown ELSE BackoffMax

\* Mutant: a cancelled job leaves its operation running.
ReconciledUnlessCancelled(previous, status) ==
  IF previous \in OperationTerminal THEN previous
  ELSE IF status \in {"FAILED", "DEAD_LETTER"} THEN "FAILED"
  ELSE IF status \in OperationStatus \ {"CANCELLED"} THEN status
  ELSE "RUNNING"

\* The status record_job_transition gives the operation of a job.
Reconciled(previous, status) ==
  IF previous \in OperationTerminal THEN previous
  ELSE IF status \in {"FAILED", "DEAD_LETTER"} THEN "FAILED"
  ELSE IF status \in OperationStatus THEN status
  ELSE "RUNNING"

\* Mutant: only one job of a batch is recorded.
RecordOneTransition(batch) ==
  operation' = [j \in Job |-> IF j \in batch /\ j = CHOOSE k \in batch : TRUE
                                THEN Reconciled(operation[j], job'[j].status)
                                ELSE operation[j]]

RecordJobTransition(batch) ==
  operation' = [j \in Job |-> IF j \in batch
                                THEN Reconciled(operation[j], job'[j].status)
                                ELSE operation[j]]

\* Attempt n of a ledger gets its verdict.
Closed(ledger, n, outcome, category) ==
  [ledger EXCEPT ![n] = [worker |-> @.worker, outcome |-> outcome,
                         category |-> category]]

\* Mutant: the lease's columns are not cleared.
ReleasedStillLeased(row, status) ==
  [row EXCEPT !.status = status, !.rowVersion = @ + 1]

\* A row that gives up its lease for a new status.
Released(row, status) ==
  [row EXCEPT !.status = status,
              !.leaseOwner = NoWorker,
              !.leaseIn = Forever,
              !.heartbeatIn = Forever,
              !.rowVersion = @ + 1]

NoRow ==
  [status |-> Absent, leaseOwner |-> NoWorker, leaseIn |-> Forever,
   heartbeatIn |-> Forever, attemptCount |-> 0, nextAttemptIn |-> Forever,
   timeoutIn |-> Forever, cancelRequested |-> FALSE, rowVersion |-> 0]

\* A new PENDING row, due o from now.
Inserted(o, timeout) ==
  [NoRow EXCEPT !.status = "PENDING", !.nextAttemptIn = o,
                !.timeoutIn = timeout, !.rowVersion = 1]

-----------------------------------------------------------------------------
(* The commands of the API that create and wake jobs.                      *)

\* data.ingestion.submit: the operation that waited for input runs.
Submit(j, o) ==
  /\ j \in IngestionJob
  /\ job[j].status = Absent
  /\ operation[j] = "WAITING_INPUT"
  /\ job' = [job EXCEPT ![j] = Inserted(o, Forever)]
  /\ operation' = [operation EXCEPT ![j] = "RUNNING"]
  /\ UNCHANGED attempts

\* data.analysis.create: the operation is born running.
CreateAnalysis(j, o) ==
  /\ j \notin IngestionJob
  /\ operation[j] = Absent
  /\ job' = [job EXCEPT ![j] = Inserted(o, o + QueueWindow)]
  /\ operation' = [operation EXCEPT ![j] = "RUNNING"]
  /\ UNCHANGED attempts

Unexpired(row) ==
  [row EXCEPT !.timeoutIn = Forever, !.rowVersion = @ + 1]

\* data.ingestion.resume: a legacy job that expired in the queue loses its
\* timeout.  The trigger wants the timeout passed on the database's clock too.
Resume(j, o) ==
  /\ j \in IngestionJob
  /\ operation[j] = "RUNNING"
  /\ job[j].status = "PENDING"
  /\ job[j].attemptCount = 0
  /\ job[j].leaseOwner = NoWorker
  /\ ~job[j].cancelRequested
  /\ job[j].timeoutIn <= o
  /\ job[j].timeoutIn <= 0
  /\ job[j].nextAttemptIn <= o
  /\ job' = [job EXCEPT ![j] = Unexpired(@)]
  /\ UNCHANGED <<attempts, operation>>

Woken(row, o) ==
  [Released(row, "PENDING") EXCEPT !.nextAttemptIn = o, !.timeoutIn = Forever,
                                   !.cancelRequested = FALSE]

\* data.ingestion.approve: the job that waited for its review is queued again.
Approve(j, o) ==
  /\ j \in IngestionJob
  /\ operation[j] = "WAITING_REVIEW"
  /\ job[j].status = "WAITING_REVIEW"
  /\ job' = [job EXCEPT ![j] = Woken(@, o)]
  /\ operation' = [operation EXCEPT ![j] = "RUNNING"]
  /\ UNCHANGED attempts

Rejected(row) ==
  [Released(row, "CANCELLED") EXCEPT !.cancelRequested = TRUE]

\* data.ingestion.reject: the job is cancelled and its operation failed.
Reject(j) ==
  /\ j \in IngestionJob
  /\ operation[j] = "WAITING_REVIEW"
  /\ job[j].status = "WAITING_REVIEW"
  /\ job' = [job EXCEPT ![j] = Rejected(@)]
  /\ operation' = [operation EXCEPT ![j] = "FAILED"]
  /\ UNCHANGED attempts

\* data.operation.cancel of an operation that has no job yet.
CancelWithoutJob(j) ==
  /\ job[j].status = Absent
  /\ operation[j] \in OperationStatus \ OperationTerminal
  /\ operation' = [operation EXCEPT ![j] = "CANCELLED"]
  /\ UNCHANGED <<job, attempts>>

CancelAsked(row) ==
  [row EXCEPT !.cancelRequested = TRUE,
              !.status = IF @ = "RUNNING" THEN @ ELSE "CANCELLED",
              !.rowVersion = @ + 1]

\* Mutant: a job that is over is cancelled too.
RequestCancelAnyway(j) ==
  /\ job[j].status /= Absent
  /\ job[j].rowVersion < MaxRowVersion
  /\ job' = [job EXCEPT ![j] = CancelAsked(@)]
  /\ RecordJobTransition({j})
  /\ UNCHANGED attempts

\* request_job_cancellation: a running job is only asked, any other is
\* cancelled on the spot.
RequestCancel(j) ==
  /\ job[j].status \in JobStatus \ JobTerminal
  /\ job[j].cancelRequested => job[j].rowVersion < MaxRowVersion
  /\ job' = [job EXCEPT ![j] = CancelAsked(@)]
  /\ RecordJobTransition({j})
  /\ UNCHANGED attempts

-----------------------------------------------------------------------------
(* The functions a worker calls.                                           *)

\* Mutant: the retry budget is not looked at.
ClaimableForever(j) ==
  /\ job[j].status \in {"PENDING", "RETRY_SCHEDULED"}
  /\ ~job[j].cancelRequested
  /\ job[j].nextAttemptIn <= 0
  /\ operation[j] \notin OperationTerminal

\* Mutant: a retry is not due any more once its last deadline is over.
ClaimableBeforeTimeout(j) ==
  /\ job[j].status \in {"PENDING", "RETRY_SCHEDULED"}
  /\ ~job[j].cancelRequested
  /\ job[j].attemptCount < MaxAttempts
  /\ job[j].nextAttemptIn <= 0
  /\ job[j].timeoutIn > 0
  /\ operation[j] \notin OperationTerminal

Claimable(j) ==
  /\ job[j].status \in {"PENDING", "RETRY_SCHEDULED"}
  /\ ~job[j].cancelRequested
  /\ job[j].attemptCount < MaxAttempts
  /\ job[j].nextAttemptIn <= 0
  /\ \/ job[j].timeoutIn > 0
     \/ j \in IngestionJob /\ job[j].status = "RETRY_SCHEDULED"
  /\ operation[j] \notin OperationTerminal

\* The deadline of the attempt that a claim starts.
Deadline(j) == IF j \in IngestionJob THEN ExecutionWindow ELSE job[j].timeoutIn

Claimed(row, w, deadline) ==
  [row EXCEPT !.status = "RUNNING",
              !.leaseOwner = w,
              !.leaseIn = Earlier(LeaseTime, deadline),
              !.timeoutIn = deadline,
              !.heartbeatIn = 0,
              !.attemptCount = @ + 1,
              !.rowVersion = @ + 1]

\* claim_jobs_at: a batch of due jobs, whichever rows were not locked.
Claim(w, batch) ==
  /\ \A j \in batch : Claimable(j)
  /\ job' = [j \in Job |-> IF j \in batch THEN Claimed(job[j], w, Deadline(j))
                                         ELSE job[j]]
  /\ attempts' = [j \in Job |->
       IF j \in batch
         THEN Append(attempts[j],
                     [worker |-> w, outcome |-> "OPEN", category |-> "NONE"])
         ELSE attempts[j]]
  /\ RecordJobTransition(batch)

\* Mutant: the row version is not compared.
HoldsByOwner(w, j, v) ==
  /\ job[j].status = "RUNNING"
  /\ job[j].leaseOwner = w
  /\ job[j].leaseIn > 0
  /\ job[j].timeoutIn > 0

\* The fence of heartbeat_job, settle_job and fail_job: worker w holds the
\* lease it read as version v.
Holds(w, j, v) ==
  /\ job[j].status = "RUNNING"
  /\ job[j].leaseOwner = w
  /\ job[j].leaseIn > 0
  /\ job[j].timeoutIn > 0
  /\ job[j].rowVersion = v

\* Mutant: a heartbeat pushes the deadline too.
RenewedWithDeadline(row, o) ==
  [row EXCEPT !.leaseIn = LeaseTime,
              !.timeoutIn = o + ExecutionWindow,
              !.heartbeatIn = o,
              !.rowVersion = @ + 1]

Renewed(row, o) ==
  [row EXCEPT !.leaseIn = Earlier(LeaseTime, row.timeoutIn),
              !.heartbeatIn = o,
              !.rowVersion = @ + 1]

\* heartbeat_job; the trigger refuses a heartbeat_at that goes back, and a
\* heartbeat that changes nothing.
Heartbeat(w, j, v, o) ==
  /\ Holds(w, j, v)
  /\ job[j].heartbeatIn <= o
  /\ job[j].rowVersion < MaxRowVersion
  /\ job' = [job EXCEPT ![j] = Renewed(@, o)]
  /\ UNCHANGED <<attempts, operation>>

\* Mutant: the verdict of the worker overrides a cancellation.
SettleAsRequested(w, j, v, requested) ==
  /\ Holds(w, j, v)
  /\ job' = [job EXCEPT ![j] = Released(@, requested)]
  /\ attempts' = [attempts EXCEPT ![j] =
                    Closed(@, job[j].attemptCount, requested, "NONE")]
  /\ RecordJobTransition({j})

\* settle_job: a cancellation asked for meanwhile overrides the verdict.
Settle(w, j, v, requested) ==
  LET target == IF job[j].cancelRequested THEN "CANCELLED" ELSE requested
  IN  /\ Holds(w, j, v)
      /\ job' = [job EXCEPT ![j] = Released(@, target)]
      /\ attempts' = [attempts EXCEPT ![j] =
                        Closed(@, job[j].attemptCount, target, "NONE")]
      /\ RecordJobTransition({j})

\* Mutant: a failure overrides a cancellation.
FailureTargetFirst(j, retryable) ==
  IF ~retryable THEN "FAILED"
  ELSE IF job[j].attemptCount >= MaxAttempts THEN "DEAD_LETTER"
  ELSE "RETRY_SCHEDULED"

FailureTarget(j, retryable) ==
  IF job[j].cancelRequested THEN "CANCELLED"
  ELSE IF ~retryable THEN "FAILED"
  ELSE IF job[j].attemptCount >= MaxAttempts THEN "DEAD_LETTER"
  ELSE "RETRY_SCHEDULED"

\* The row that leaves RUNNING unsuccessfully; a retry is due after a backoff.
Rescheduled(row, target, o) ==
  [Released(row, target) EXCEPT
     !.nextAttemptIn = IF target = "RETRY_SCHEDULED"
                         THEN o + RetryDelay(row.attemptCount) ELSE @]

\* fail_job.
Fail(w, j, v, retryable, o) ==
  LET target == FailureTarget(j, retryable)
  IN  /\ Holds(w, j, v)
      /\ job' = [job EXCEPT ![j] = Rescheduled(@, target, o)]
      /\ attempts' = [attempts EXCEPT ![j] =
                        Closed(@, job[j].attemptCount, target, "HANDLER")]
      /\ RecordJobTransition({j})

\* Mutant: a job whose worker is gone is left to it.
RecoverableQueued(j, o) ==
  /\ job[j].status \in JobStatus \ JobTerminal
  /\ \/ job[j].cancelRequested
     \/ j \notin IngestionJob /\ job[j].timeoutIn <= o

Recoverable(j, o) ==
  /\ job[j].status \in JobStatus \ JobTerminal
  /\ \/ job[j].cancelRequested
     \/ /\ j \notin IngestionJob \/ job[j].status = "RUNNING"
        /\ job[j].timeoutIn <= o
     \/ job[j].status = "RUNNING" /\ job[j].leaseIn <= o

\* Mutant: one attempt too many.
RecoveryTargetOneMore(j, o) ==
  IF job[j].cancelRequested THEN "CANCELLED"
  ELSE IF job[j].timeoutIn <= o \/ job[j].attemptCount > MaxAttempts
    THEN "DEAD_LETTER"
  ELSE "RETRY_SCHEDULED"

RecoveryTarget(j, o) ==
  IF job[j].cancelRequested THEN "CANCELLED"
  ELSE IF job[j].timeoutIn <= o \/ job[j].attemptCount >= MaxAttempts
    THEN "DEAD_LETTER"
  ELSE "RETRY_SCHEDULED"

\* recover_jobs: cancelled, timed out and abandoned jobs, on the caller's
\* clock.
Recover(o, batch) ==
  /\ \A j \in batch : Recoverable(j, o)
  /\ job' = [j \in Job |->
       IF j \in batch THEN Rescheduled(job[j], RecoveryTarget(j, o), o)
                      ELSE job[j]]
  /\ attempts' = [j \in Job |->
       IF j \in batch /\ job[j].status = "RUNNING"
         THEN Closed(attempts[j], job[j].attemptCount, RecoveryTarget(j, o),
                     IF RecoveryTarget(j, o) = "DEAD_LETTER"
                       THEN "JOB_TIMEOUT" ELSE "LEASE_EXPIRED")
         ELSE attempts[j]]
  /\ RecordJobTransition(batch)

-----------------------------------------------------------------------------
Aged(t) == IF t = Forever \/ t = -MaxSkew THEN t ELSE t - 1

Older(row) == [row EXCEPT !.leaseIn = Aged(@),
                          !.heartbeatIn = Aged(@),
                          !.nextAttemptIn = Aged(@),
                          !.timeoutIn = Aged(@)]

\* Time passes.
Tick ==
  /\ job' = [j \in Job |-> Older(job[j])]
  /\ UNCHANGED <<attempts, operation>>

\* An ingestion operation waits for its submission, or is a legacy one that
\* was queued with a finite timeout; an analysis does not exist yet.
Init ==
  /\ job \in [Job -> {NoRow} \cup {Inserted(0, t) : t \in 1 .. QueueWindow}]
  /\ \A j \in Job \ IngestionJob : job[j] = NoRow
  /\ attempts = [j \in Job |-> <<>>]
  /\ operation = [j \in Job |-> IF j \notin IngestionJob THEN Absent
                                ELSE IF job[j] = NoRow THEN "WAITING_INPUT"
                                ELSE "RUNNING"]

Command ==
  \E j \in Job :
    \/ \E o \in Offset : Submit(j, o)
    \/ \E o \in Offset : CreateAnalysis(j, o)
    \/ \E o \in Offset : Resume(j, o)
    \/ \E o \in Offset : Approve(j, o)
    \/ Reject(j)
    \/ CancelWithoutJob(j)
    \/ RequestCancel(j)

\* A call with a stale row version changes nothing, whatever it asks for.
WorkerCall ==
  \/ \E w \in Worker, batch \in SUBSET Job : Claim(w, batch)
  \/ \E w \in Worker, j \in Job, o \in Offset :
       Heartbeat(w, j, job[j].rowVersion, o)
  \/ \E w \in Worker, j \in Job, s \in SettleStatus :
       Settle(w, j, job[j].rowVersion, s)
  \/ \E w \in Worker, j \in Job, r \in BOOLEAN, o \in Offset :
       Fail(w, j, job[j].rowVersion, r, o)
  \/ \E o \in Offset, batch \in SUBSET Job : Recover(o, batch)

Next == Command \/ WorkerCall \/ Tick

Spec == Init /\ [][Next]_vars

-----------------------------------------------------------------------------
(* The triggers that guard every update of the two tables.  Only Heartbeat *)
(* and Resume carry a trigger's condition as a guard; TriggersAgree says   *)
(* that the others need none.                                              *)

JobEdges ==
  ({"PENDING"} \X {"RUNNING", "CANCELLED", "DEAD_LETTER"})
    \cup ({"RUNNING"} \X {"WAITING_INPUT", "WAITING_REVIEW", "RETRY_SCHEDULED",
                           "SUCCEEDED", "FAILED", "CANCELLED", "DEAD_LETTER"})
    \cup ({"WAITING_INPUT", "WAITING_REVIEW"}
             \X {"PENDING", "CANCELLED", "DEAD_LETTER"})
    \cup ({"RETRY_SCHEDULED"} \X {"RUNNING", "CANCELLED", "DEAD_LETTER"})

OperationEdges ==
  ({"RUNNING"} \X {"WAITING_INPUT", "WAITING_REVIEW", "SUCCEEDED", "FAILED",
                   "CANCELLED"})
    \cup ({"WAITING_INPUT"} \X {"RUNNING", "WAITING_REVIEW", "FAILED",
                                 "CANCELLED"})
    \cup ({"WAITING_REVIEW"} \X {"RUNNING", "WAITING_INPUT", "SUCCEEDED",
                                  "FAILED", "CANCELLED"})

IsClaim(old, new) ==
  old.status \in {"PENDING", "RETRY_SCHEDULED"} /\ new.status = "RUNNING"

IsExpiredQueueRecovery(j, old, new) ==
  /\ j \in IngestionJob
  /\ old.attemptCount = 0
  /\ old.timeoutIn <= 0
  /\ old.status = "PENDING"
  /\ new = [old EXCEPT !.timeoutIn = Forever, !.rowVersion = @ + 1]

TimeoutMayChange(j, old, new) ==
  \/ old.status \in {"WAITING_INPUT", "WAITING_REVIEW"} /\ new.status = "PENDING"
  \/ j \in IngestionJob /\ IsClaim(old, new) /\ new.timeoutIn > 0
  \/ IsExpiredQueueRecovery(j, old, new)

\* An update of a running row is one heartbeat or one request to cancel.  The
\* columns of an error and of the completion, which neither function sets, are
\* not there.  The trigger also wants one of a heartbeat's two times to change:
\* times that are equal here may be less than a tick apart, and a heartbeat that
\* repeats both is refused, which is a call that changes nothing.
RunningUpdateAllowed(old, new) ==
  /\ new.leaseOwner /= NoWorker
  /\ new.leaseOwner = old.leaseOwner
  /\ new.nextAttemptIn = old.nextAttemptIn
  /\ \/ /\ new.cancelRequested = old.cancelRequested
        /\ new.heartbeatIn /= Forever
        /\ new.leaseIn /= Forever
        /\ old.heartbeatIn = Forever \/ old.heartbeatIn <= new.heartbeatIn
     \/ /\ new.leaseIn = old.leaseIn
        /\ new.heartbeatIn = old.heartbeatIn
        /\ new.cancelRequested

\* guard_job_status_transition.
JobUpdateAllowed(j, old, new) ==
  /\ new.timeoutIn = old.timeoutIn \/ TimeoutMayChange(j, old, new)
  /\ new.attemptCount = old.attemptCount + (IF IsClaim(old, new) THEN 1 ELSE 0)
  /\ IF old.status = "RUNNING" /\ new.status = "RUNNING"
       THEN RunningUpdateAllowed(old, new)
       ELSE \/ IsExpiredQueueRecovery(j, old, new)
            \/ <<old.status, new.status>> \in JobEdges
  /\ new.rowVersion = old.rowVersion + 1

-----------------------------------------------------------------------------
(* Properties.                                                             *)

IsRunning(j) == job[j].status = "RUNNING"

\* The attempt ledger is complete and belongs to the lease: the row counts
\* its attempts, an attempt is open exactly while it is the last one of a
\* running row, and the row is leased to the worker of that attempt and to
\* nobody when it does not run, and a job that waits does so by the verdict of
\* its last attempt.  claim, settle, fail and recover each write the two tables
\* on their own; none may lose or double an attempt.
AttemptLedger ==
  \A j \in Job :
    /\ Len(attempts[j]) = job[j].attemptCount
    /\ IsRunning(j) => /\ job[j].attemptCount > 0
                       /\ job[j].leaseOwner = attempts[j][job[j].attemptCount].worker
    /\ ~IsRunning(j) => job[j].leaseOwner = NoWorker
    /\ \A k \in 1 .. job[j].attemptCount :
         attempts[j][k].outcome = "OPEN"
           <=> IsRunning(j) /\ k = job[j].attemptCount
    /\ job[j].status \in {"RETRY_SCHEDULED", "WAITING_INPUT", "WAITING_REVIEW"}
         => /\ job[j].attemptCount > 0
            /\ attempts[j][job[j].attemptCount].outcome = job[j].status

\* What a caller sees of an operation is what became of its job: it runs while
\* the job is queued or runs, waits while it waits, and ends as it ends.  A
\* rejected job is cancelled under an operation that failed.
OperationFollowsJob ==
  \A j \in Job :
    \/ /\ job[j].status = Absent
       /\ operation[j] \in {Absent, "WAITING_INPUT", "CANCELLED"}
    \/ job[j].status \in {"PENDING", "RUNNING", "RETRY_SCHEDULED"}
         /\ operation[j] = "RUNNING"
    \/ job[j].status \in {"FAILED", "DEAD_LETTER"} /\ operation[j] = "FAILED"
    \/ job[j].status \in {"WAITING_INPUT", "WAITING_REVIEW", "SUCCEEDED", "CANCELLED"}
         /\ operation[j] = job[j].status
    \/ /\ job[j].status = "CANCELLED"
       /\ operation[j] = "FAILED"
       /\ job[j].attemptCount > 0
       /\ attempts[j][job[j].attemptCount].outcome = "WAITING_REVIEW"

\* The retry budget: no path of failure, lease expiry or review starts more
\* attempts than max_attempts, and a retry is scheduled only when a claim may
\* still take it up.
RetryBudget ==
  \A j \in Job :
    /\ job[j].attemptCount <= MaxAttempts
    /\ job[j].status = "RETRY_SCHEDULED" => job[j].attemptCount < MaxAttempts

\* A cancellation is never lost: once it is asked for, the job is either still
\* running under the attempt it found or cancelled; no failure, retry, review
\* or success of that attempt overrides it.
CancelWins ==
  \A j \in Job :
    job[j].cancelRequested => job[j].status \in {"RUNNING", "CANCELLED"}

\* What is over stays over: a terminal row is never written again, a terminal
\* operation keeps its status, and a closed attempt keeps its verdict.
OverIsOver ==
  [][\A j \in Job :
       /\ job[j].status \in JobTerminal
            => /\ job'[j].status = job[j].status
               /\ job'[j].rowVersion = job[j].rowVersion
       /\ operation[j] \in OperationTerminal => operation'[j] = operation[j]
       /\ \A k \in 1 .. Len(attempts[j]) :
            attempts[j][k].outcome /= "OPEN"
              => attempts'[j][k] = attempts[j][k]]_vars

\* The triggers and the functions agree: beyond a heartbeat that goes back or
\* repeats the last, and a resume that comes early, no function attempts an update of a row that
\* guard_job_status_transition or guard_operation_status_transition refuses
\* and rolls back.
TriggersAgree ==
  [][\A j \in Job :
       /\ \/ job[j].status = Absent
          \/ job'[j].rowVersion = job[j].rowVersion
          \/ JobUpdateAllowed(j, job[j], job'[j])
       /\ \/ operation[j] = Absent
          \/ operation'[j] = operation[j]
          \/ <<operation[j], operation'[j]>> \in OperationEdges]_vars

\* What a client knows of a job: row r under an operation of status op.
TaskOf(r, op) ==
  [phase |-> IF op \in OperationTerminal THEN "done"
             ELSE IF r.status = Absent THEN "new"
             ELSE IF r.status = "RUNNING" THEN "held"
             ELSE IF r.status \in {"PENDING", "RETRY_SCHEDULED"} THEN "queued"
             ELSE "parked",
   holder |-> r.leaseOwner,
   attempts |-> r.attemptCount,
   stopping |-> r.status = "RUNNING" /\ r.cancelRequested,
   result |-> IF op \in OperationTerminal THEN op ELSE "none"]

Lifecycle == INSTANCE JobLifecycle
               WITH task <- [j \in Job |-> TaskOf(job[j], operation[j])]

\* To those who wait for its operation, a job is a task of JobLifecycle: every
\* step of the queue, however its clocks, leases and versions interleave, is a
\* step of that task list or none.
ImplementsLifecycle == Lifecycle!Spec
=============================================================================
