---------------------- MODULE DataJobsRefinement_proofs ----------------------
(***************************************************************************)
(* The job queue implements JobLifecycle.                                  *)
(***************************************************************************)
EXTENDS DataJobs_proofs

-----------------------------------------------------------------------------
(* Updates of a task record, field by field.                               *)

Task == Lifecycle!Task

LEMMA SameTask ==
  ASSUME NEW x \in Task, NEW y \in Task, x.phase = y.phase,
         x.holder = y.holder, x.attempts = y.attempts,
         x.stopping = y.stopping, x.result = y.result
  PROVE  x = y
BY DEF Task, Lifecycle!Task

LEMMA PhaseUpdate ==
  ASSUME NEW x \in Task, NEW y \in Task,
         x.holder = y.holder, x.attempts = y.attempts,
         x.stopping = y.stopping, x.result = y.result
  PROVE  y = [x EXCEPT !.phase = y.phase]
<1> DEFINE z == [x EXCEPT !.phase = y.phase]
<1>1. z \in Task
  BY DEF Task, Lifecycle!Task
<1>2. /\ z.phase = y.phase /\ z.holder = y.holder /\ z.attempts = y.attempts
      /\ z.stopping = y.stopping /\ z.result = y.result
  BY DEF Task, Lifecycle!Task
<1> QED BY <1>1, <1>2, SameTask

LEMMA TakeUpdate ==
  ASSUME NEW x \in Task, NEW y \in Task,
         x.stopping = y.stopping, x.result = y.result
  PROVE  y = [x EXCEPT !.phase = y.phase, !.holder = y.holder,
                       !.attempts = y.attempts]
<1> DEFINE z == [x EXCEPT !.phase = y.phase, !.holder = y.holder,
                          !.attempts = y.attempts]
<1>1. z \in Task
  BY DEF Task, Lifecycle!Task
<1>2. /\ z.phase = y.phase /\ z.holder = y.holder /\ z.attempts = y.attempts
      /\ z.stopping = y.stopping /\ z.result = y.result
  BY DEF Task, Lifecycle!Task
<1> QED BY <1>1, <1>2, SameTask

LEMMA StopUpdate ==
  ASSUME NEW x \in Task, NEW y \in Task, x.phase = y.phase,
         x.holder = y.holder, x.attempts = y.attempts, x.result = y.result
  PROVE  y = [x EXCEPT !.stopping = y.stopping]
<1> DEFINE z == [x EXCEPT !.stopping = y.stopping]
<1>1. z \in Task
  BY DEF Task, Lifecycle!Task
<1>2. /\ z.phase = y.phase /\ z.holder = y.holder /\ z.attempts = y.attempts
      /\ z.stopping = y.stopping /\ z.result = y.result
  BY DEF Task, Lifecycle!Task
<1> QED BY <1>1, <1>2, SameTask

LEMMA ReleaseUpdate ==
  ASSUME NEW x \in Task, NEW y \in Task, x.attempts = y.attempts,
         x.stopping = y.stopping, x.result = y.result
  PROVE  y = [x EXCEPT !.phase = y.phase, !.holder = y.holder]
<1> DEFINE z == [x EXCEPT !.phase = y.phase, !.holder = y.holder]
<1>1. z \in Task
  BY DEF Task, Lifecycle!Task
<1>2. /\ z.phase = y.phase /\ z.holder = y.holder /\ z.attempts = y.attempts
      /\ z.stopping = y.stopping /\ z.result = y.result
  BY DEF Task, Lifecycle!Task
<1> QED BY <1>1, <1>2, SameTask

LEMMA FinishUpdate ==
  ASSUME NEW x \in Task, NEW y \in Task, x.attempts = y.attempts
  PROVE  y = [x EXCEPT !.phase = y.phase, !.holder = y.holder,
                       !.stopping = y.stopping, !.result = y.result]
<1> DEFINE z == [x EXCEPT !.phase = y.phase, !.holder = y.holder,
                          !.stopping = y.stopping, !.result = y.result]
<1>1. z \in Task
  BY DEF Task, Lifecycle!Task
<1>2. /\ z.phase = y.phase /\ z.holder = y.holder /\ z.attempts = y.attempts
      /\ z.stopping = y.stopping /\ z.result = y.result
  BY DEF Task, Lifecycle!Task
<1> QED BY <1>1, <1>2, SameTask

LEMMA TaskType ==
  ASSUME NEW r \in JobRow, NEW op \in OperationStatus \cup {Absent}
  PROVE  TaskOf(r, op) \in Task
<1>1. /\ r.leaseOwner \in Worker \cup {NoWorker}
      /\ r.attemptCount \in Nat
      /\ (r.status = "RUNNING" /\ r.cancelRequested) \in BOOLEAN
  BY TimeAssumption DEF JobRow
<1> QED BY <1>1 DEF TaskOf, Task, Lifecycle!Task, OperationTerminal

-----------------------------------------------------------------------------
(* One step of one job, seen as a task.                                    *)

LEMMA KeptTask ==
  ASSUME NEW r \in JobRow, NEW q \in JobRow, NEW op,
         q.status = r.status, q.leaseOwner = r.leaseOwner,
         q.attemptCount = r.attemptCount, q.cancelRequested = r.cancelRequested
  PROVE  TaskOf(q, op) = TaskOf(r, op)
BY DEF TaskOf

LEMMA EnqueuedTask ==
  ASSUME NEW r, NEW at, NEW op, Good(r, at, op), r.status = Absent,
         op \notin OperationTerminal,
         NEW o \in Timer, NEW t \in Timer
  PROVE  Lifecycle!Step(TaskOf(r, op), TaskOf(Inserted(o, t), "RUNNING"))
<1> DEFINE q == Inserted(o, t)
           x == TaskOf(r, op)
           y == TaskOf(q, "RUNNING")
<1>1. /\ q \in JobRow
      /\ q.status = "PENDING"
      /\ q.leaseOwner = NoWorker
      /\ q.attemptCount = 0
  BY InsertedRow
<1> HIDE DEF q
<1>2. r.attemptCount = 0 /\ r.leaseOwner = NoWorker
  BY DEF Good, GoodRow, GoodLedger, Absent
<1>3. x \in Task /\ y \in Task
  BY <1>1, TaskType DEF Good, OperationStatus
<1>4. /\ x.phase = "new" /\ x.holder = NoWorker /\ x.attempts = 0
      /\ x.stopping = FALSE /\ x.result = "none"
  BY <1>2 DEF TaskOf, Absent
<1>5. /\ y.phase = "queued" /\ y.holder = NoWorker /\ y.attempts = 0
      /\ y.stopping = FALSE /\ y.result = "none"
  BY <1>1 DEF TaskOf, Absent, OperationTerminal
<1> HIDE DEF x, y
<1>6. Lifecycle!Enqueue(x, y)
  BY <1>3, <1>4, <1>5, PhaseUpdate DEF Lifecycle!Enqueue
<1> QED BY <1>6 DEF Lifecycle!Step, x, y, q

LEMMA DroppedNewTask ==
  ASSUME NEW r, NEW at, NEW op, Good(r, at, op), r.status = Absent,
         op \notin OperationTerminal
  PROVE  Lifecycle!Step(TaskOf(r, op), TaskOf(r, "CANCELLED"))
<1> DEFINE x == TaskOf(r, op)
           y == TaskOf(r, "CANCELLED")
<1>1. r.attemptCount = 0 /\ r.leaseOwner = NoWorker
  BY DEF Good, GoodRow, GoodLedger, Absent
<1>2. x \in Task /\ y \in Task
  BY TaskType DEF Good, OperationStatus, OperationTerminal
<1>3. /\ x.phase = "new" /\ x.holder = NoWorker /\ x.attempts = 0
      /\ x.stopping = FALSE /\ x.result = "none"
  BY <1>1 DEF TaskOf, Absent
<1>4. /\ y.phase = "done" /\ y.holder = NoWorker /\ y.attempts = 0
      /\ y.stopping = FALSE /\ y.result = "CANCELLED"
  BY <1>1 DEF TaskOf, Absent, OperationTerminal
<1> HIDE DEF x, y
<1>5. y = [x EXCEPT !.phase = "done", !.holder = NoWorker,
                    !.stopping = FALSE, !.result = "CANCELLED"]
  <2>1. x.attempts = y.attempts
    BY <1>3, <1>4
  <2>2. y = [x EXCEPT !.phase = y.phase, !.holder = y.holder,
                      !.stopping = y.stopping, !.result = y.result]
    BY <1>2, <2>1, FinishUpdate
  <2> QED BY <1>4, <2>2
<1>6. Lifecycle!Finish(x, y)
  BY <1>3, <1>5 DEF Lifecycle!Finish
<1> QED BY <1>6 DEF Lifecycle!Step, x, y

LEMMA TakenTask ==
  ASSUME NEW r, NEW at, NEW op, Good(r, at, op),
         r.status \in {"PENDING", "RETRY_SCHEDULED"},
         ~r.cancelRequested, r.attemptCount < MaxAttempts,
         NEW w \in Worker, NEW d \in Timer
  PROVE  LET q == Claimed(r, w, d)
         IN  Lifecycle!Step(TaskOf(r, op), TaskOf(q, Reconciled(op, q.status)))
<1> DEFINE q == Claimed(r, w, d)
           x == TaskOf(r, op)
           y == TaskOf(q, "RUNNING")
<1>1. /\ q \in JobRow
      /\ q.status = "RUNNING"
      /\ q.leaseOwner = w
      /\ q.attemptCount = r.attemptCount + 1
      /\ ~q.cancelRequested
  BY ClaimedRow DEF Good
<1> HIDE DEF q
<1>2. op = "RUNNING" /\ r.leaseOwner = NoWorker
  BY DEF Good, GoodOperation, GoodLedger, Absent
<1>3. Reconciled(op, q.status) = "RUNNING"
  BY <1>1, <1>2 DEF Reconciled, OperationStatus, OperationTerminal
<1>4. x \in Task /\ y \in Task
  BY <1>1, TaskType DEF Good, OperationStatus
<1>5. /\ x.phase = "queued" /\ x.holder = NoWorker
      /\ x.attempts = r.attemptCount
      /\ x.stopping = FALSE /\ x.result = "none"
  BY <1>2 DEF TaskOf, Absent, OperationTerminal
<1>6. /\ y.phase = "held" /\ y.holder = w /\ y.attempts = r.attemptCount + 1
      /\ y.stopping = FALSE /\ y.result = "none"
  BY <1>1 DEF TaskOf, Absent, OperationTerminal
<1> HIDE DEF x, y
<1>7. x.stopping = y.stopping /\ x.result = y.result
  BY <1>5, <1>6
<1>8. y = [x EXCEPT !.phase = y.phase, !.holder = y.holder,
                    !.attempts = y.attempts]
  BY <1>4, <1>7, TakeUpdate
<1>9. y = [x EXCEPT !.phase = "held", !.holder = w, !.attempts = x.attempts + 1]
  <2>1. y.attempts = x.attempts + 1
    BY <1>5, <1>6
  <2> QED BY <1>6, <1>8, <2>1
<1>10. x.attempts < MaxAttempts
  BY <1>5
<1>11. Lifecycle!Take(x, y)
  BY <1>5, <1>9, <1>10 DEF Lifecycle!Take
<1> QED BY <1>3, <1>11 DEF Lifecycle!Step, x, y, q

LEMMA StoppingTask ==
  ASSUME NEW r, NEW at, NEW op, Good(r, at, op), r.status = "RUNNING"
  PROVE  Lifecycle!Step(TaskOf(r, op), TaskOf(CancelAsked(r), op))
<1> DEFINE q == CancelAsked(r)
           x == TaskOf(r, op)
           y == TaskOf(q, op)
<1>1. /\ q \in JobRow
      /\ q.status = "RUNNING"
      /\ q.leaseOwner = r.leaseOwner
      /\ q.attemptCount = r.attemptCount
      /\ q.cancelRequested
  BY CancelAskedRow DEF Good
<1> HIDE DEF q
<1>2. op = "RUNNING"
  BY DEF Good, GoodOperation, Absent
<1>3. x \in Task /\ y \in Task
  BY <1>1, TaskType DEF Good
<1>4. /\ x.phase = "held" /\ x.holder = r.leaseOwner
      /\ x.attempts = r.attemptCount /\ x.result = "none"
  BY <1>2 DEF TaskOf, Absent, OperationTerminal
<1>5. /\ y.phase = "held" /\ y.holder = r.leaseOwner
      /\ y.attempts = r.attemptCount /\ y.result = "none"
      /\ y.stopping = TRUE
  BY <1>1, <1>2 DEF TaskOf, Absent, OperationTerminal
<1> HIDE DEF x, y
<1>6. Lifecycle!AskToStop(x, y)
  BY <1>3, <1>4, <1>5, StopUpdate DEF Lifecycle!AskToStop
<1> QED BY <1>6 DEF Lifecycle!Step, x, y, q

\* A held task whose row becomes q.
LEMMA EndedTask ==
  ASSUME NEW r, NEW at, NEW op, Good(r, at, op), r.status = "RUNNING",
         NEW q \in JobRow, q.leaseOwner = NoWorker,
         q.attemptCount = r.attemptCount,
         q.status \in {"WAITING_INPUT", "WAITING_REVIEW", "RETRY_SCHEDULED"}
                        \cup JobTerminal,
         r.cancelRequested => q.status = "CANCELLED",
         q.status = "RETRY_SCHEDULED" => r.attemptCount < MaxAttempts
  PROVE  Lifecycle!Step(TaskOf(r, op), TaskOf(q, Reconciled(op, q.status)))
<1> DEFINE pq == Reconciled(op, q.status)
           x == TaskOf(r, op)
           y == TaskOf(q, pq)
<1>1. op = "RUNNING" /\ r.cancelRequested \in BOOLEAN
  BY DEF Good, GoodOperation, Absent, JobRow
<1>2. x.phase = "held" /\ x.attempts = r.attemptCount /\ x.result = "none"
  BY <1>1 DEF TaskOf, Absent, OperationTerminal
<1>3. x.stopping = r.cancelRequested
  BY <1>1 DEF TaskOf
<1>4. pq \in OperationStatus
  BY <1>1 DEF Reconciled, OperationStatus, OperationTerminal
<1>5. x \in Task /\ y \in Task
  BY <1>4, TaskType DEF Good
<1>6. CASE q.status = "RETRY_SCHEDULED"
  <2>1. pq = "RUNNING"
    BY <1>1, <1>6 DEF Reconciled, OperationStatus, OperationTerminal
  <2>2. /\ y.phase = "queued" /\ y.holder = NoWorker
        /\ y.attempts = r.attemptCount
        /\ y.stopping = FALSE /\ y.result = "none"
    BY <1>6, <2>1 DEF TaskOf, Absent, OperationTerminal
  <2>3. ~r.cancelRequested /\ r.attemptCount < MaxAttempts
    BY <1>6
  <2> HIDE DEF x, y
  <2>4. x.stopping = y.stopping
    BY <1>1, <1>3, <2>2, <2>3
  <2>5. y = [x EXCEPT !.phase = "queued", !.holder = NoWorker]
    <3>1. x.attempts = y.attempts /\ x.result = y.result
      BY <1>2, <2>2
    <3>2. y = [x EXCEPT !.phase = y.phase, !.holder = y.holder]
      BY <1>5, <2>4, <3>1, ReleaseUpdate
    <3> QED BY <2>2, <3>2
  <2>6. Lifecycle!Retry(x, y)
    BY <1>2, <1>3, <2>3, <2>5 DEF Lifecycle!Retry
  <2> QED BY <2>6 DEF Lifecycle!Step, x, y
<1>7. CASE q.status \in {"WAITING_INPUT", "WAITING_REVIEW"}
  <2>1. pq = q.status
    BY <1>1, <1>7 DEF Reconciled, OperationStatus, OperationTerminal
  <2>2. /\ y.phase = "parked" /\ y.holder = NoWorker
        /\ y.attempts = r.attemptCount
        /\ y.stopping = FALSE /\ y.result = "none"
    BY <1>7, <2>1 DEF TaskOf, Absent, OperationTerminal
  <2>3. ~r.cancelRequested
    BY <1>7
  <2> HIDE DEF x, y
  <2>4. x.stopping = y.stopping
    BY <1>1, <1>3, <2>2, <2>3
  <2>5. y = [x EXCEPT !.phase = "parked", !.holder = NoWorker]
    <3>1. x.attempts = y.attempts /\ x.result = y.result
      BY <1>2, <2>2
    <3>2. y = [x EXCEPT !.phase = y.phase, !.holder = y.holder]
      BY <1>5, <2>4, <3>1, ReleaseUpdate
    <3> QED BY <2>2, <3>2
  <2>6. Lifecycle!Park(x, y)
    BY <1>2, <1>3, <2>3, <2>5 DEF Lifecycle!Park
  <2> QED BY <2>6 DEF Lifecycle!Step, x, y
<1>8. CASE q.status \in JobTerminal
  <2>1. pq = IF q.status \in {"FAILED", "DEAD_LETTER"} THEN "FAILED" ELSE q.status
    BY <1>1, <1>8 DEF Reconciled, OperationStatus, OperationTerminal, JobTerminal
  <2>2. pq \in {"SUCCEEDED", "FAILED", "CANCELLED"}
        /\ (r.cancelRequested => pq = "CANCELLED")
    BY <1>8, <2>1 DEF JobTerminal
  <2> HIDE DEF pq
  <2>3. /\ y.phase = "done" /\ y.holder = NoWorker
        /\ y.attempts = r.attemptCount
        /\ y.stopping = FALSE /\ y.result = pq
    BY <1>8, <2>2 DEF TaskOf, JobTerminal, OperationTerminal
  <2> HIDE DEF x, y
  <2>4. y = [x EXCEPT !.phase = "done", !.holder = NoWorker,
                      !.stopping = FALSE, !.result = pq]
    <3>1. x.attempts = y.attempts
      BY <1>2, <2>3
    <3>2. y = [x EXCEPT !.phase = y.phase, !.holder = y.holder,
                        !.stopping = y.stopping, !.result = y.result]
      BY <1>5, <3>1, FinishUpdate
    <3> QED BY <2>3, <3>2
  <2>5. Lifecycle!Finish(x, y)
    BY <1>2, <1>3, <2>2, <2>4 DEF Lifecycle!Finish
  <2> QED BY <2>5 DEF Lifecycle!Step, x, y, pq
<1> QED BY <1>6, <1>7, <1>8

\* A task that nobody holds is cancelled or given up.
LEMMA DroppedTask ==
  ASSUME NEW r, NEW at, NEW op, Good(r, at, op),
         r.status \in JobStatus \ JobTerminal, r.status /= "RUNNING",
         NEW q \in JobRow, q.leaseOwner = NoWorker,
         q.attemptCount = r.attemptCount,
         q.status \in {"CANCELLED", "DEAD_LETTER"}
  PROVE  Lifecycle!Step(TaskOf(r, op), TaskOf(q, Reconciled(op, q.status)))
<1> DEFINE pq == Reconciled(op, q.status)
           x == TaskOf(r, op)
           y == TaskOf(q, pq)
<1>1. /\ op \in {"RUNNING", "WAITING_INPUT", "WAITING_REVIEW"}
      /\ r.status /= Absent
  BY DEF Good, GoodOperation, JobStatus, JobTerminal, Absent
<1>2. pq \in {"FAILED", "CANCELLED"}
  BY <1>1 DEF Reconciled, OperationStatus, OperationTerminal
<1> HIDE DEF pq
<1>3. x \in Task /\ y \in Task
  BY <1>2, TaskType DEF Good, OperationStatus, OperationTerminal
<1>4. /\ x.phase \in {"queued", "parked"} /\ x.stopping = FALSE
      /\ x.attempts = r.attemptCount
  BY <1>1 DEF TaskOf, OperationTerminal
<1>5. /\ y.phase = "done" /\ y.holder = NoWorker
      /\ y.attempts = r.attemptCount
      /\ y.stopping = FALSE /\ y.result = pq
  BY <1>2 DEF TaskOf, OperationTerminal
<1> HIDE DEF x, y
<1>6. y = [x EXCEPT !.phase = "done", !.holder = NoWorker,
                    !.stopping = FALSE, !.result = pq]
  <2>1. x.attempts = y.attempts
    BY <1>4, <1>5
  <2>2. y = [x EXCEPT !.phase = y.phase, !.holder = y.holder,
                      !.stopping = y.stopping, !.result = y.result]
    BY <1>3, <2>1, FinishUpdate
  <2> QED BY <1>5, <2>2
<1>7. Lifecycle!Finish(x, y)
  BY <1>2, <1>4, <1>6 DEF Lifecycle!Finish
<1> QED BY <1>7 DEF Lifecycle!Step, x, y, pq

LEMMA WokenTask ==
  ASSUME NEW r, NEW at, NEW op, Good(r, at, op),
         r.status = "WAITING_REVIEW", op = "WAITING_REVIEW", NEW o \in Offset
  PROVE  Lifecycle!Step(TaskOf(r, op), TaskOf(Woken(r, o), "RUNNING"))
<1> DEFINE q == Woken(r, o)
           x == TaskOf(r, op)
           y == TaskOf(q, "RUNNING")
<1>1. /\ q \in JobRow
      /\ q.status = "PENDING"
      /\ q.leaseOwner = NoWorker
      /\ q.attemptCount = r.attemptCount
  BY WokenRow DEF Good
<1> HIDE DEF q
<1>2. r.leaseOwner = NoWorker
  BY DEF Good, GoodLedger
<1>3. x \in Task /\ y \in Task
  BY <1>1, TaskType DEF Good, OperationStatus
<1>4. /\ x.phase = "parked" /\ x.holder = NoWorker
      /\ x.attempts = r.attemptCount
      /\ x.stopping = FALSE /\ x.result = "none"
  BY <1>2 DEF TaskOf, Absent, OperationTerminal
<1>5. /\ y.phase = "queued" /\ y.holder = NoWorker
      /\ y.attempts = r.attemptCount
      /\ y.stopping = FALSE /\ y.result = "none"
  BY <1>1 DEF TaskOf, Absent, OperationTerminal
<1> HIDE DEF x, y
<1>6. y = [x EXCEPT !.phase = y.phase]
  <2>1. /\ x.holder = y.holder /\ x.attempts = y.attempts
        /\ x.stopping = y.stopping /\ x.result = y.result
    BY <1>4, <1>5
  <2> QED BY <1>3, <2>1, PhaseUpdate
<1>7. Lifecycle!Wake(x, y)
  BY <1>4, <1>5, <1>6 DEF Lifecycle!Wake
<1> QED BY <1>7 DEF Lifecycle!Step, x, y, q

LEMMA RejectedTask ==
  ASSUME NEW r, NEW at, NEW op, Good(r, at, op),
         r.status = "WAITING_REVIEW", op = "WAITING_REVIEW"
  PROVE  Lifecycle!Step(TaskOf(r, op), TaskOf(Rejected(r), "FAILED"))
<1> DEFINE q == Rejected(r)
           x == TaskOf(r, op)
           y == TaskOf(q, "FAILED")
<1>1. /\ q \in JobRow
      /\ q.status = "CANCELLED"
      /\ q.leaseOwner = NoWorker
      /\ q.attemptCount = r.attemptCount
  BY RejectedRow DEF Good
<1> HIDE DEF q
<1>2. x \in Task /\ y \in Task
  BY <1>1, TaskType DEF Good, OperationStatus, OperationTerminal
<1>3. /\ x.phase = "parked" /\ x.attempts = r.attemptCount
      /\ x.stopping = FALSE
  BY DEF TaskOf, Absent, OperationTerminal
<1>4. /\ y.phase = "done" /\ y.holder = NoWorker
      /\ y.attempts = r.attemptCount
      /\ y.stopping = FALSE /\ y.result = "FAILED"
  BY <1>1 DEF TaskOf, OperationTerminal
<1> HIDE DEF x, y
<1>5. y = [x EXCEPT !.phase = "done", !.holder = NoWorker,
                    !.stopping = FALSE, !.result = "FAILED"]
  <2>1. x.attempts = y.attempts
    BY <1>3, <1>4
  <2>2. y = [x EXCEPT !.phase = y.phase, !.holder = y.holder,
                      !.stopping = y.stopping, !.result = y.result]
    BY <1>2, <2>1, FinishUpdate
  <2> QED BY <1>4, <2>2
<1>6. Lifecycle!Finish(x, y)
  BY <1>3, <1>5 DEF Lifecycle!Finish
<1> QED BY <1>6 DEF Lifecycle!Step, x, y, q

-----------------------------------------------------------------------------
(* The actions.                                                            *)

\* The task of job j stays, or takes one step.
TaskStep(j) ==
  LET x == TaskOf(job[j], operation[j])
      y == TaskOf(job'[j], operation'[j])
  IN  y = x \/ Lifecycle!Step(x, y)

LEMMA CommandTasks ==
  ASSUME Inv, Command, NEW i \in Job
  PROVE  TaskStep(i)
<1> PICK j \in Job :
      \/ \E o \in Offset : Submit(j, o)
      \/ \E o \in Offset : CreateAnalysis(j, o)
      \/ \E o \in Offset : Resume(j, o)
      \/ \E o \in Offset : Approve(j, o)
      \/ Reject(j)
      \/ CancelWithoutJob(j)
      \/ RequestCancel(j)
  BY DEF Command
<1>0. Good(job[j], attempts[j], operation[j]) /\ job[j] \in JobRow
  BY DEF Inv
<1>1. CASE i /= j
  <2>1. job'[i] = job[i] /\ operation'[i] = operation[i]
    BY <1>1 DEF Inv, Submit, CreateAnalysis, Resume, Approve, Reject,
       CancelWithoutJob, RequestCancel, RecordJobTransition
  <2> QED BY <2>1 DEF TaskStep
<1>2. ASSUME i = j, NEW o \in Offset, Submit(j, o)
      PROVE  TaskStep(i)
  <2>1. /\ job'[j] = Inserted(o, Forever) /\ operation'[j] = "RUNNING"
        /\ job[j].status = Absent /\ operation[j] \notin OperationTerminal
    BY <1>2 DEF Inv, Submit, OperationTerminal
  <2>2. Lifecycle!Step(TaskOf(job[j], operation[j]),
                       TaskOf(Inserted(o, Forever), "RUNNING"))
    BY <1>0, <2>1, EnqueuedTask, Timers
  <2> QED BY <1>2, <2>1, <2>2 DEF TaskStep
<1>3. ASSUME i = j, NEW o \in Offset, CreateAnalysis(j, o)
      PROVE  TaskStep(i)
  <2>1. /\ job'[j] = Inserted(o, o + QueueWindow) /\ operation'[j] = "RUNNING"
        /\ operation[j] = Absent
    BY <1>3 DEF Inv, CreateAnalysis
  <2>2. job[j].status = Absent /\ operation[j] \notin OperationTerminal
    BY <1>0, <2>1 DEF Good, GoodOperation, Absent, OperationTerminal
  <2>3. Lifecycle!Step(TaskOf(job[j], operation[j]),
                       TaskOf(Inserted(o, o + QueueWindow), "RUNNING"))
    BY <1>0, <2>2, EnqueuedTask, Timers
  <2> QED BY <1>3, <2>1, <2>3 DEF TaskStep
<1>4. ASSUME i = j, NEW o \in Offset, Resume(j, o)
      PROVE  TaskStep(i)
  <2>1. job'[j] = Unexpired(job[j]) /\ operation'[j] = operation[j]
    BY <1>4 DEF Inv, Resume
  <2> QED BY <1>0, <1>4, <2>1, UnexpiredRow, KeptTask DEF TaskStep
<1>5. ASSUME i = j, NEW o \in Offset, Approve(j, o)
      PROVE  TaskStep(i)
  <2>1. /\ job'[j] = Woken(job[j], o) /\ operation'[j] = "RUNNING"
        /\ job[j].status = "WAITING_REVIEW" /\ operation[j] = "WAITING_REVIEW"
    BY <1>5 DEF Inv, Approve
  <2>2. Lifecycle!Step(TaskOf(job[j], operation[j]),
                       TaskOf(Woken(job[j], o), "RUNNING"))
    BY <1>0, <2>1, WokenTask
  <2> QED BY <1>5, <2>1, <2>2 DEF TaskStep
<1>6. ASSUME i = j, Reject(j)
      PROVE  TaskStep(i)
  <2>1. /\ job'[j] = Rejected(job[j]) /\ operation'[j] = "FAILED"
        /\ job[j].status = "WAITING_REVIEW" /\ operation[j] = "WAITING_REVIEW"
    BY <1>6 DEF Inv, Reject
  <2>2. Lifecycle!Step(TaskOf(job[j], operation[j]),
                       TaskOf(Rejected(job[j]), "FAILED"))
    BY <1>0, <2>1, RejectedTask
  <2> QED BY <1>6, <2>1, <2>2 DEF TaskStep
<1>7. ASSUME i = j, CancelWithoutJob(j)
      PROVE  TaskStep(i)
  <2>1. /\ job'[j] = job[j] /\ operation'[j] = "CANCELLED"
        /\ job[j].status = Absent /\ operation[j] \notin OperationTerminal
    BY <1>7 DEF Inv, CancelWithoutJob
  <2>2. Lifecycle!Step(TaskOf(job[j], operation[j]),
                       TaskOf(job[j], "CANCELLED"))
    BY <1>0, <2>1, DroppedNewTask
  <2> QED BY <1>7, <2>1, <2>2 DEF TaskStep
<1>8. ASSUME i = j, RequestCancel(j)
      PROVE  TaskStep(i)
  <2> DEFINE q == CancelAsked(job[j])
  <2>1. /\ job'[j] = q
        /\ operation'[j] = Reconciled(operation[j], q.status)
        /\ job[j].status \in JobStatus \ JobTerminal
    BY <1>8 DEF Inv, RequestCancel, RecordJobTransition
  <2>2. /\ q \in JobRow
        /\ q.status = (IF job[j].status = "RUNNING" THEN "RUNNING" ELSE "CANCELLED")
        /\ q.leaseOwner = job[j].leaseOwner
        /\ q.attemptCount = job[j].attemptCount
    BY <1>0, CancelAskedRow
  <2>3. CASE job[j].status = "RUNNING"
    <3>1. operation[j] = "RUNNING"
      BY <1>0, <2>3 DEF Good, GoodOperation, Absent
    <3>2. Reconciled(operation[j], q.status) = operation[j]
      BY <2>2, <2>3, <3>1 DEF Reconciled, OperationStatus, OperationTerminal
    <3>3. Lifecycle!Step(TaskOf(job[j], operation[j]), TaskOf(q, operation[j]))
      BY <1>0, <2>3, StoppingTask
    <3> QED BY <1>8, <2>1, <3>2, <3>3 DEF TaskStep
  <2>4. CASE job[j].status /= "RUNNING"
    <3>1. q.leaseOwner = NoWorker /\ q.status = "CANCELLED"
      BY <1>0, <2>2, <2>4 DEF Good, GoodLedger
    <3> HIDE DEF q
    <3>2. Lifecycle!Step(TaskOf(job[j], operation[j]),
                         TaskOf(q, Reconciled(operation[j], q.status)))
      BY <1>0, <2>1, <2>2, <2>4, <3>1, DroppedTask
    <3> QED BY <1>8, <2>1, <3>2 DEF TaskStep
  <2> QED BY <2>3, <2>4
<1> QED BY <1>1, <1>2, <1>3, <1>4, <1>5, <1>6, <1>7, <1>8

LEMMA WorkerTasks ==
  ASSUME Inv, WorkerCall, NEW i \in Job
  PROVE  TaskStep(i)
<1>0. Good(job[i], attempts[i], operation[i]) /\ job[i] \in JobRow
  BY DEF Inv
<1>1. ASSUME NEW w \in Worker, NEW batch \in SUBSET Job, Claim(w, batch)
      PROVE  TaskStep(i)
  <2> DEFINE q == Claimed(job[i], w, Deadline(i))
  <2>1. CASE i \in batch
    <3>1. Deadline(i) \in Timer
      BY Timers DEF Inv, Deadline, JobRow
    <3>2. /\ job'[i] = q
          /\ operation'[i] = Reconciled(operation[i], q.status)
          /\ job[i].status \in {"PENDING", "RETRY_SCHEDULED"}
          /\ ~job[i].cancelRequested
          /\ job[i].attemptCount < MaxAttempts
      BY <1>1, <2>1 DEF Inv, Claim, Claimable, RecordJobTransition
    <3>3. Lifecycle!Step(TaskOf(job[i], operation[i]),
                         TaskOf(q, Reconciled(operation[i], q.status)))
      BY <1>0, <3>1, <3>2, TakenTask
    <3> QED BY <3>2, <3>3 DEF TaskStep
  <2>2. CASE i \notin batch
    <3>1. job'[i] = job[i] /\ operation'[i] = operation[i]
      BY <1>1, <2>2 DEF Inv, Claim, RecordJobTransition
    <3> QED BY <3>1 DEF TaskStep
  <2> QED BY <2>1, <2>2
<1>2. ASSUME NEW w \in Worker, NEW j \in Job, NEW o \in Offset,
             Heartbeat(w, j, job[j].rowVersion, o)
      PROVE  TaskStep(i)
  <2>1. operation'[i] = operation[i]
        /\ job'[i] = IF i = j THEN Renewed(job[i], o) ELSE job[i]
    BY <1>2 DEF Inv, Heartbeat
  <2> QED BY <1>0, <2>1, RenewedRow, KeptTask DEF TaskStep
<1>3. ASSUME NEW w \in Worker, NEW j \in Job, NEW s \in SettleStatus,
             Settle(w, j, job[j].rowVersion, s)
      PROVE  TaskStep(i)
  <2> DEFINE target == IF job[j].cancelRequested THEN "CANCELLED" ELSE s
             q == Released(job[j], target)
  <2>1. CASE i = j
    <3>1. /\ job[j].status = "RUNNING"
          /\ job'[i] = q
          /\ operation'[i] = Reconciled(operation[j], q.status)
      BY <1>3, <2>1 DEF Inv, Settle, Holds, RecordJobTransition
    <3>2. /\ target \in {"SUCCEEDED", "WAITING_INPUT", "WAITING_REVIEW", "CANCELLED"}
          /\ job[j].cancelRequested => target = "CANCELLED"
          /\ target \in JobStatus
      BY DEF SettleStatus, JobStatus, JobTerminal
    <3> HIDE DEF target
    <3>3. /\ q \in JobRow
          /\ q.status = target
          /\ q.leaseOwner = NoWorker
          /\ q.attemptCount = job[j].attemptCount
      BY <1>0, <2>1, <3>2, ReleasedRow
    <3> HIDE DEF q
    <3>4. q.status \in {"WAITING_INPUT", "WAITING_REVIEW", "RETRY_SCHEDULED"}
                         \cup JobTerminal
          /\ q.status /= "RETRY_SCHEDULED"
      BY <3>2, <3>3 DEF JobTerminal
    <3>5. Lifecycle!Step(TaskOf(job[i], operation[i]),
                         TaskOf(q, Reconciled(operation[i], q.status)))
      BY <1>0, <2>1, <3>1, <3>2, <3>3, <3>4, EndedTask
    <3> QED BY <2>1, <3>1, <3>5 DEF TaskStep
  <2>2. CASE i /= j
    <3>1. job'[i] = job[i] /\ operation'[i] = operation[i]
      BY <1>3, <2>2 DEF Inv, Settle, RecordJobTransition
    <3> QED BY <3>1 DEF TaskStep
  <2> QED BY <2>1, <2>2
<1>4. ASSUME NEW w \in Worker, NEW j \in Job, NEW retryable \in BOOLEAN,
             NEW o \in Offset, Fail(w, j, job[j].rowVersion, retryable, o)
      PROVE  TaskStep(i)
  <2> DEFINE target == FailureTarget(j, retryable)
             q == Rescheduled(job[j], target, o)
  <2>1. CASE i = j
    <3>1. /\ job[j].status = "RUNNING"
          /\ job'[i] = q
          /\ operation'[i] = Reconciled(operation[j], q.status)
      BY <1>4, <2>1 DEF Inv, Fail, Holds, RecordJobTransition
    <3>2. /\ target \in {"CANCELLED", "FAILED", "DEAD_LETTER", "RETRY_SCHEDULED"}
          /\ job[j].cancelRequested => target = "CANCELLED"
          /\ target = "RETRY_SCHEDULED" => job[j].attemptCount < MaxAttempts
      BY <1>0, <2>1, TimeAssumption DEF FailureTarget, JobRow
    <3>3. target \in JobStatus
      BY <3>2 DEF JobStatus, JobTerminal
    <3> HIDE DEF target
    <3>4. /\ q \in JobRow
          /\ q.status = target
          /\ q.leaseOwner = NoWorker
          /\ q.attemptCount = job[j].attemptCount
      BY <1>0, <2>1, <3>3, RescheduledRow
    <3> HIDE DEF q
    <3>5. q.status \in {"WAITING_INPUT", "WAITING_REVIEW", "RETRY_SCHEDULED"}
                         \cup JobTerminal
      BY <3>2, <3>4 DEF JobTerminal
    <3>6. Lifecycle!Step(TaskOf(job[i], operation[i]),
                         TaskOf(q, Reconciled(operation[i], q.status)))
      BY <1>0, <2>1, <3>1, <3>2, <3>4, <3>5, EndedTask
    <3> QED BY <2>1, <3>1, <3>6 DEF TaskStep
  <2>2. CASE i /= j
    <3>1. job'[i] = job[i] /\ operation'[i] = operation[i]
      BY <1>4, <2>2 DEF Inv, Fail, RecordJobTransition
    <3> QED BY <3>1 DEF TaskStep
  <2> QED BY <2>1, <2>2
<1>5. ASSUME NEW o \in Offset, NEW batch \in SUBSET Job, Recover(o, batch)
      PROVE  TaskStep(i)
  <2> DEFINE target == RecoveryTarget(i, o)
             q == Rescheduled(job[i], target, o)
  <2>1. CASE i \in batch
    <3>1. /\ job[i].status \in JobStatus \ JobTerminal
          /\ Recoverable(i, o)
          /\ job'[i] = q
          /\ operation'[i] = Reconciled(operation[i], q.status)
      BY <1>5, <2>1 DEF Inv, Recover, Recoverable, RecordJobTransition
    <3>2. /\ target \in {"CANCELLED", "DEAD_LETTER", "RETRY_SCHEDULED"}
          /\ job[i].cancelRequested => target = "CANCELLED"
          /\ target = "RETRY_SCHEDULED" => job[i].attemptCount < MaxAttempts
          /\ target = "RETRY_SCHEDULED" => job[i].status = "RUNNING"
      BY <1>0, <3>1, TimeAssumption DEF RecoveryTarget, Recoverable, JobRow
    <3>3. target \in JobStatus
      BY <3>2 DEF JobStatus, JobTerminal
    <3> HIDE DEF target
    <3>4. /\ q \in JobRow
          /\ q.status = target
          /\ q.leaseOwner = NoWorker
          /\ q.attemptCount = job[i].attemptCount
      BY <1>0, <3>3, RescheduledRow
    <3> HIDE DEF q
    <3>5. q.status \in {"WAITING_INPUT", "WAITING_REVIEW", "RETRY_SCHEDULED"}
                         \cup JobTerminal
      BY <3>2, <3>4 DEF JobTerminal
    <3>6. Lifecycle!Step(TaskOf(job[i], operation[i]),
                         TaskOf(q, Reconciled(operation[i], q.status)))
      BY <1>0, <3>1, <3>2, <3>4, <3>5, EndedTask, DroppedTask
    <3> QED BY <3>1, <3>6 DEF TaskStep
  <2>2. CASE i \notin batch
    <3>1. job'[i] = job[i] /\ operation'[i] = operation[i]
      BY <1>5, <2>2 DEF Inv, Recover, RecordJobTransition
    <3> QED BY <3>1 DEF TaskStep
  <2> QED BY <2>1, <2>2
<1> QED BY <1>1, <1>2, <1>3, <1>4, <1>5 DEF WorkerCall

LEMMA TickTasks ==
  ASSUME Inv, Tick, NEW i \in Job
  PROVE  TaskStep(i)
<1>1. /\ job'[i] = Older(job[i]) /\ operation'[i] = operation[i]
      /\ job[i] \in JobRow
  BY DEF Inv, Tick
<1> QED BY <1>1, OlderRow, KeptTask DEF TaskStep

-----------------------------------------------------------------------------
(* The theorem.                                                            *)

LEMMA InitialTasks == Init => Lifecycle!Init
<1> SUFFICES ASSUME Init PROVE Lifecycle!Init
  OBVIOUS
<1> DEFINE Queued == [Lifecycle!Fresh EXCEPT !.phase = "queued"]
<1>1. \A t \in 1 .. QueueWindow :
        TaskOf(Inserted(0, t), "RUNNING") = Queued
  <2>1. ASSUME NEW t \in 1 .. QueueWindow
        PROVE  TaskOf(Inserted(0, t), "RUNNING") = Queued
    <3> DEFINE q == Inserted(0, t)
               y == TaskOf(q, "RUNNING")
    <3>1. t \in Timer /\ 0 \in Timer
      BY Timers, TimeAssumption
    <3>2. /\ q \in JobRow
          /\ q.status = "PENDING"
          /\ q.leaseOwner = NoWorker
          /\ q.attemptCount = 0
      BY <3>1, InsertedRow
    <3> HIDE DEF q
    <3>3. /\ y.phase = "queued" /\ y.holder = NoWorker /\ y.attempts = 0
          /\ y.stopping = FALSE /\ y.result = "none"
      BY <3>2 DEF TaskOf, Absent, OperationTerminal
    <3>4. y \in Task
      BY <3>2, TaskType DEF OperationStatus
    <3>5. y = Queued
      <4> HIDE DEF y
      <4>1. /\ Queued.phase = "queued" /\ Queued.holder = NoWorker
            /\ Queued.attempts = 0 /\ Queued.stopping = FALSE
            /\ Queued.result = "none"
        BY DEF Lifecycle!Fresh
      <4>2. Queued \in Task
        BY DEF Lifecycle!Fresh, Task, Lifecycle!Task
      <4> HIDE DEF Queued
      <4> QED BY <3>3, <3>4, <4>1, <4>2, SameTask
    <3> QED BY <3>5 DEF y, q
  <2> QED BY <2>1
<1>2. \A op \in {Absent, "WAITING_INPUT"} : TaskOf(NoRow, op) = Lifecycle!Fresh
  BY DEF TaskOf, NoRow, Absent, OperationTerminal, Lifecycle!Fresh
<1>3. \A t \in 1 .. QueueWindow : Inserted(0, t) /= NoRow
  BY DEF Inserted, NoRow, Absent
<1>4. ASSUME NEW j \in Job
      PROVE  TaskOf(job[j], operation[j]) \in {Lifecycle!Fresh, Queued}
  <2>1. /\ job[j] \in {NoRow} \cup {Inserted(0, t) : t \in 1 .. QueueWindow}
        /\ j \notin IngestionJob => job[j] = NoRow
        /\ operation[j] = IF j \notin IngestionJob THEN Absent
                          ELSE IF job[j] = NoRow THEN "WAITING_INPUT"
                          ELSE "RUNNING"
    BY DEF Init
  <2> QED BY <1>1, <1>2, <1>3, <2>1
<1> HIDE DEF Queued
<1>5. [j \in Job |-> TaskOf(job[j], operation[j])]
        \in [Job -> {Lifecycle!Fresh, Queued}]
  BY <1>4
<1> QED BY <1>5 DEF Lifecycle!Init, Queued

LEMMA LifecycleStep ==
  ASSUME Inv, [Next]_vars
  PROVE  [Lifecycle!Next]_[j \in Job |-> TaskOf(job[j], operation[j])]
<1>1. CASE UNCHANGED vars
  BY <1>1 DEF vars
<1>2. CASE Next
  <2>1. \A i \in Job : TaskStep(i)
    BY <1>2, CommandTasks, WorkerTasks, TickTasks DEF Next
  <2> QED BY <2>1 DEF Lifecycle!Next, TaskStep
<1> QED BY <1>1, <1>2

\* The queue implements the task list its clients rely on: one worker at a
\* time, at most MaxAttempts attempts, a cancellation that its worker cannot
\* override, a result that never changes.
THEOREM QueueImplementsLifecycle == Spec => ImplementsLifecycle
<1>1. Init => Lifecycle!Init
  BY InitialTasks
<1>2. Inv /\ [Next]_vars
        => [Lifecycle!Next]_[j \in Job |-> TaskOf(job[j], operation[j])]
  BY LifecycleStep
<1> QED BY <1>1, <1>2, QueueInvariant, PTL DEF Spec, ImplementsLifecycle, Lifecycle!Spec

-----------------------------------------------------------------------------
(* What a task list promises.                                              *)

\* What the promises rest on: a task that waits to stop is held, one with a
\* result is done.
Sound(x) ==
  /\ x \in Task
  /\ x.attempts <= MaxAttempts
  /\ x.stopping => x.phase = "held"
  /\ x.result /= "none" <=> x.phase = "done"

\* What a step of one task may do.
Kept(x, y) ==
  /\ x.result /= "none" => y = x
  /\ x.stopping => y = x \/ y.result = "CANCELLED"
  /\ y.result = "SUCCEEDED"
       => x.result = "SUCCEEDED" \/ (x.phase = "held" /\ ~x.stopping)

LEMMA StepIsKept ==
  ASSUME NEW x, NEW y, Sound(x), y = x \/ Lifecycle!Step(x, y)
  PROVE  Sound(y) /\ Kept(x, y)
<1>1. x \in Task /\ x.attempts \in Nat /\ x.attempts <= MaxAttempts
  BY DEF Sound, Task, Lifecycle!Task
<1>2. CASE y = x
  BY <1>2 DEF Sound, Kept
<1>3. CASE \/ Lifecycle!Enqueue(x, y) \/ Lifecycle!Wake(x, y)
           \/ Lifecycle!Retry(x, y) \/ Lifecycle!Park(x, y)
  <2>1. CASE Lifecycle!Enqueue(x, y) \/ Lifecycle!Wake(x, y)
    <3>1. x.phase \in {"new", "parked"} /\ y = [x EXCEPT !.phase = "queued"]
      BY <2>1 DEF Lifecycle!Enqueue, Lifecycle!Wake
    <3>2. /\ y \in Task /\ y.phase = "queued" /\ y.attempts = x.attempts
          /\ y.stopping = x.stopping /\ y.result = x.result
      BY <1>1, <3>1 DEF Task, Lifecycle!Task
    <3> QED BY <1>1, <3>1, <3>2 DEF Sound, Kept
  <2>2. ASSUME NEW p \in {"queued", "parked"}, x.phase = "held", ~x.stopping,
               y = [x EXCEPT !.phase = p, !.holder = NoWorker]
        PROVE  Sound(y) /\ Kept(x, y)
    <3>1. /\ y \in Task /\ y.phase = p /\ y.attempts = x.attempts
          /\ y.stopping = x.stopping /\ y.result = x.result
      BY <1>1, <2>2 DEF Task, Lifecycle!Task
    <3> QED BY <1>1, <2>2, <3>1 DEF Sound, Kept
  <2> QED BY <1>3, <2>1, <2>2 DEF Lifecycle!Retry, Lifecycle!Park
<1>4. CASE Lifecycle!Take(x, y)
  <2> DEFINE a == x.attempts + 1
  <2>1. x.phase = "queued" /\ a \in Nat /\ a <= MaxAttempts
    BY <1>1, <1>4, TimeAssumption DEF Lifecycle!Take
  <2>2. PICK w \in Worker : y = [x EXCEPT !.phase = "held", !.holder = w,
                                          !.attempts = a]
    BY <1>4 DEF Lifecycle!Take
  <2> HIDE DEF a
  <2>3. /\ y \in Task /\ y.phase = "held" /\ y.attempts = a
        /\ y.stopping = x.stopping /\ y.result = x.result
    BY <1>1, <2>1, <2>2 DEF Task, Lifecycle!Task
  <2> QED BY <1>1, <2>1, <2>3 DEF Sound, Kept
<1>5. CASE Lifecycle!AskToStop(x, y)
  <2>1. x.phase = "held" /\ y = [x EXCEPT !.stopping = TRUE]
    BY <1>5 DEF Lifecycle!AskToStop
  <2>2. /\ y \in Task /\ y.phase = "held" /\ y.attempts = x.attempts
        /\ y.result = x.result /\ x.stopping => y = x
    BY <1>1, <2>1 DEF Task, Lifecycle!Task
  <2> QED BY <1>1, <2>1, <2>2 DEF Sound, Kept
<1>6. CASE Lifecycle!Finish(x, y)
  <2>1. PICK r \in {"SUCCEEDED", "FAILED", "CANCELLED"} :
          /\ r = "SUCCEEDED" => x.phase = "held"
          /\ x.stopping \/ x.phase = "new" => r = "CANCELLED"
          /\ y = [x EXCEPT !.phase = "done", !.holder = NoWorker,
                           !.stopping = FALSE, !.result = r]
    BY <1>6 DEF Lifecycle!Finish
  <2>2. /\ y \in Task /\ y.phase = "done" /\ y.attempts = x.attempts
        /\ y.stopping = FALSE /\ y.result = r
    BY <1>1, <2>1 DEF Task, Lifecycle!Task
  <2>3. x.result = "none"
    BY <1>6 DEF Lifecycle!Finish, Sound
  <2> QED BY <1>1, <2>1, <2>2, <2>3 DEF Sound, Kept
<1> QED BY <1>2, <1>3, <1>4, <1>5, <1>6 DEF Lifecycle!Step

View == [j \in Job |-> TaskOf(job[j], operation[j])]

AllSound == \A j \in Job : Sound(View[j])

LEMMA StepsAreKept ==
  ASSUME AllSound, [Lifecycle!Next]_View
  PROVE  AllSound' /\ \A j \in Job : Kept(View[j], View'[j])
<1>1. ASSUME NEW j \in Job
      PROVE  View'[j] = View[j] \/ Lifecycle!Step(View[j], View'[j])
  BY DEF Lifecycle!Next, View
<1>2. ASSUME NEW j \in Job
      PROVE  Sound(View'[j]) /\ Kept(View[j], View'[j])
  BY <1>1, StepIsKept DEF AllSound
<1>3. AllSound'
  BY <1>2 DEF AllSound
<1> QED BY <1>2, <1>3

\* Whatever implements the task list keeps its promises: the budget, a result
\* that stands, a stop that is obeyed, a success that its worker earned.
THEOREM TaskListKeepsPromises == ImplementsLifecycle => Lifecycle!Promises
<1>1. Lifecycle!Init => AllSound
  <2> SUFFICES ASSUME Lifecycle!Init, NEW j \in Job PROVE Sound(View[j])
    BY DEF AllSound
  <2>1. View[j] \in {Lifecycle!Fresh, [Lifecycle!Fresh EXCEPT !.phase = "queued"]}
    BY DEF Lifecycle!Init, View
  <2> DEFINE begun == [Lifecycle!Fresh EXCEPT !.phase = "queued"]
  <2>2. /\ Lifecycle!Fresh \in Task /\ begun \in Task
        /\ Lifecycle!Fresh.phase = "new" /\ begun.phase = "queued"
        /\ Lifecycle!Fresh.result = "none" /\ begun.result = "none"
        /\ Lifecycle!Fresh.attempts = 0 /\ begun.attempts = 0
        /\ Lifecycle!Fresh.stopping = FALSE /\ begun.stopping = FALSE
    BY DEF Lifecycle!Fresh, Task, Lifecycle!Task
  <2> HIDE DEF begun
  <2>3. Sound(Lifecycle!Fresh) /\ Sound(begun)
    BY <2>2, TimeAssumption DEF Sound
  <2> QED BY <2>1, <2>3 DEF begun
<1>2. AllSound /\ [Lifecycle!Next]_View => AllSound'
  BY StepsAreKept
<1>3. AllSound => Lifecycle!WithinBudget
  BY DEF AllSound, Sound, View, Lifecycle!WithinBudget
<1>4. AllSound /\ [Lifecycle!Next]_View
        => [\A j \in Job : View[j].result /= "none" => View'[j] = View[j]]_View
  BY StepsAreKept DEF Kept
<1>5. AllSound /\ [Lifecycle!Next]_View
        => [\A j \in Job : View[j].stopping
              => View'[j] = View[j] \/ View'[j].result = "CANCELLED"]_View
  BY StepsAreKept DEF Kept
<1>6. AllSound /\ [Lifecycle!Next]_View
        => [\A j \in Job : View'[j].result = "SUCCEEDED"
              => \/ View[j].result = "SUCCEEDED"
                 \/ View[j].phase = "held" /\ ~View[j].stopping]_View
  BY StepsAreKept DEF Kept
<1> QED BY <1>1, <1>2, <1>3, <1>4, <1>5, <1>6, PTL
  DEF ImplementsLifecycle, Lifecycle!Spec, Lifecycle!Promises, Lifecycle!ResultStands,
      Lifecycle!StopIsObeyed, Lifecycle!SuccessIsEarned, View

\* So does the queue.
THEOREM QueueKeepsPromises == Spec => Lifecycle!Promises
BY QueueImplementsLifecycle, TaskListKeepsPromises, PTL
=============================================================================
