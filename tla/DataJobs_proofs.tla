--------------------------- MODULE DataJobs_proofs ---------------------------
(***************************************************************************)
(* Theorems about the job queue, for every set of jobs and workers, every  *)
(* lease, deadline, backoff and clock skew.                                *)
(***************************************************************************)
EXTENDS DataJobs, SequenceTheorems, TLAPS

-----------------------------------------------------------------------------
(* The inductive invariant.                                                *)

\* The ledger at of row r: the row counts its attempts, the last one is open
\* while the row runs and is its lease's, and the job waits by its verdict.
GoodLedger(r, at) ==
  /\ Len(at) = r.attemptCount
  /\ r.status = "RUNNING" => /\ r.attemptCount > 0
                             /\ r.leaseOwner = at[r.attemptCount].worker
  /\ r.status /= "RUNNING" => r.leaseOwner = NoWorker
  /\ \A k \in 1 .. r.attemptCount :
       at[k].outcome = "OPEN" <=> r.status = "RUNNING" /\ k = r.attemptCount
  /\ r.status \in {"RETRY_SCHEDULED", "WAITING_INPUT", "WAITING_REVIEW"}
       => /\ r.attemptCount > 0
          /\ at[r.attemptCount].outcome = r.status

\* The operation op of row r with ledger at.
GoodOperation(r, at, op) ==
  \/ r.status = Absent /\ op \in {Absent, "WAITING_INPUT", "CANCELLED"}
  \/ r.status \in {"PENDING", "RUNNING", "RETRY_SCHEDULED"} /\ op = "RUNNING"
  \/ r.status \in {"FAILED", "DEAD_LETTER"} /\ op = "FAILED"
  \/ /\ r.status \in {"WAITING_INPUT", "WAITING_REVIEW", "SUCCEEDED", "CANCELLED"}
     /\ op = r.status
  \/ /\ r.status = "CANCELLED"
     /\ op = "FAILED"
     /\ r.attemptCount > 0
     /\ at[r.attemptCount].outcome = "WAITING_REVIEW"

\* The row itself: its retry budget, its cancellation, and that a job that is
\* not inserted has no attempts.
GoodRow(r) ==
  /\ r.status = Absent => r.attemptCount = 0
  /\ r.status = "RETRY_SCHEDULED" => r.attemptCount < MaxAttempts
  /\ r.cancelRequested => r.status \in {"RUNNING", "CANCELLED"}

Good(r, at, op) ==
  /\ r \in JobRow
  /\ at \in Seq(Attempt)
  /\ op \in OperationStatus \cup {Absent}
  /\ GoodRow(r)
  /\ GoodLedger(r, at)
  /\ GoodOperation(r, at, op)

\* What is over stays over, from (r, at, op) to (q, bt, pq).
Lasting(r, at, op, q, bt, pq) ==
  /\ r.status \in JobTerminal => /\ q.status = r.status
                                /\ q.rowVersion = r.rowVersion
  /\ op \in OperationTerminal => pq = op
  /\ \A k \in 1 .. Len(at) : at[k].outcome /= "OPEN" => bt[k] = at[k]

Inv ==
  /\ job \in [Job -> JobRow]
  /\ attempts \in [Job -> Seq(Attempt)]
  /\ operation \in [Job -> OperationStatus \cup {Absent}]
  /\ \A j \in Job : Good(job[j], attempts[j], operation[j])

\* A step keeps Inv, and keeps what is over.
GoodStep ==
  /\ Inv'
  /\ \A j \in Job : Lasting(job[j], attempts[j], operation[j],
                           job'[j], attempts'[j], operation'[j])

-----------------------------------------------------------------------------
(* What the helpers of the queue return.                                   *)

LEMMA Timers ==
  /\ Forever \in Timer
  /\ 0 \in Timer
  /\ Offset \subseteq Timer
  /\ LeaseTime \in Timer
  /\ ExecutionWindow \in Timer
  /\ \A o \in Offset : o + QueueWindow \in Timer
  /\ \A n \in Nat : n \in Timer
  /\ \A o \in Offset, n \in Nat : o + n \in Timer
BY TimeAssumption DEF Timer, Offset

LEMMA DelayType ==
  ASSUME NEW n PROVE RetryDelay(n) \in Nat
BY TimeAssumption DEF RetryDelay

LEMMA EarlierType ==
  ASSUME NEW s \in Timer, NEW t \in Timer PROVE Earlier(s, t) \in Timer
BY DEF Earlier

LEMMA NextVersion ==
  ASSUME NEW r \in JobRow PROVE r.rowVersion + 1 \in Nat
BY DEF JobRow

LEMMA ReleasedRow ==
  ASSUME NEW r \in JobRow, NEW s \in JobStatus
  PROVE  /\ Released(r, s) \in JobRow
         /\ Released(r, s).status = s
         /\ Released(r, s).leaseOwner = NoWorker
         /\ Released(r, s).attemptCount = r.attemptCount
         /\ Released(r, s).cancelRequested = r.cancelRequested
         /\ Released(r, s).rowVersion = r.rowVersion + 1
<1> DEFINE v == r.rowVersion + 1
<1>1. v \in Nat
  BY NextVersion
<1>2. Released(r, s) = [r EXCEPT !.status = s, !.leaseOwner = NoWorker,
                                 !.leaseIn = Forever, !.heartbeatIn = Forever,
                                 !.rowVersion = v]
  BY DEF Released
<1> HIDE DEF v
<1>3. [r EXCEPT !.status = s, !.leaseOwner = NoWorker,
                !.leaseIn = Forever, !.heartbeatIn = Forever,
                !.rowVersion = v] \in JobRow
  BY <1>1, Timers DEF JobRow
<1>4. Released(r, s).rowVersion = v
  BY <1>2 DEF JobRow
<1> QED BY <1>2, <1>3, <1>4 DEF JobRow, v

LEMMA RescheduledRow ==
  ASSUME NEW r \in JobRow, NEW s \in JobStatus, NEW o \in Offset
  PROVE  /\ Rescheduled(r, s, o) \in JobRow
         /\ Rescheduled(r, s, o).status = s
         /\ Rescheduled(r, s, o).leaseOwner = NoWorker
         /\ Rescheduled(r, s, o).attemptCount = r.attemptCount
         /\ Rescheduled(r, s, o).cancelRequested = r.cancelRequested
         /\ Rescheduled(r, s, o).rowVersion = r.rowVersion + 1
<1> DEFINE q == Released(r, s)
           due == IF s = "RETRY_SCHEDULED" THEN o + RetryDelay(r.attemptCount)
                                           ELSE q.nextAttemptIn
<1>1. /\ q \in JobRow
      /\ q.status = s
      /\ q.leaseOwner = NoWorker
      /\ q.attemptCount = r.attemptCount
      /\ q.cancelRequested = r.cancelRequested
      /\ q.rowVersion = r.rowVersion + 1
  BY ReleasedRow
<1>2. Rescheduled(r, s, o) = [q EXCEPT !.nextAttemptIn = due]
  BY DEF Rescheduled
<1> HIDE DEF q
<1>3. due \in Timer
  BY <1>1, DelayType, Timers DEF JobRow
<1> HIDE DEF due
<1>4. [q EXCEPT !.nextAttemptIn = due] \in JobRow
  BY <1>1, <1>3 DEF JobRow
<1> QED BY <1>1, <1>2, <1>4 DEF JobRow

LEMMA WokenRow ==
  ASSUME NEW r \in JobRow, NEW o \in Offset
  PROVE  /\ Woken(r, o) \in JobRow
         /\ Woken(r, o).status = "PENDING"
         /\ Woken(r, o).leaseOwner = NoWorker
         /\ Woken(r, o).attemptCount = r.attemptCount
         /\ ~Woken(r, o).cancelRequested
         /\ Woken(r, o).rowVersion = r.rowVersion + 1
<1> DEFINE q == Released(r, "PENDING")
<1>1. /\ q \in JobRow
      /\ q.status = "PENDING"
      /\ q.leaseOwner = NoWorker
      /\ q.attemptCount = r.attemptCount
      /\ q.rowVersion = r.rowVersion + 1
  BY ReleasedRow DEF JobStatus
<1>2. Woken(r, o) = [q EXCEPT !.nextAttemptIn = o, !.timeoutIn = Forever,
                              !.cancelRequested = FALSE]
  BY DEF Woken
<1> HIDE DEF q
<1> QED BY <1>1, <1>2, Timers DEF JobRow

LEMMA RejectedRow ==
  ASSUME NEW r \in JobRow
  PROVE  /\ Rejected(r) \in JobRow
         /\ Rejected(r).status = "CANCELLED"
         /\ Rejected(r).leaseOwner = NoWorker
         /\ Rejected(r).attemptCount = r.attemptCount
         /\ Rejected(r).rowVersion = r.rowVersion + 1
<1> DEFINE q == Released(r, "CANCELLED")
<1>1. /\ q \in JobRow
      /\ q.status = "CANCELLED"
      /\ q.leaseOwner = NoWorker
      /\ q.attemptCount = r.attemptCount
      /\ q.rowVersion = r.rowVersion + 1
  BY ReleasedRow DEF JobStatus, JobTerminal
<1>2. Rejected(r) = [q EXCEPT !.cancelRequested = TRUE]
  BY DEF Rejected
<1> HIDE DEF q
<1> QED BY <1>1, <1>2 DEF JobRow

LEMMA CancelAskedRow ==
  ASSUME NEW r \in JobRow
  PROVE  /\ CancelAsked(r) \in JobRow
         /\ CancelAsked(r).status
              = (IF r.status = "RUNNING" THEN "RUNNING" ELSE "CANCELLED")
         /\ CancelAsked(r).leaseOwner = r.leaseOwner
         /\ CancelAsked(r).attemptCount = r.attemptCount
         /\ CancelAsked(r).cancelRequested
         /\ CancelAsked(r).rowVersion = r.rowVersion + 1
<1> DEFINE v == r.rowVersion + 1
           s == IF r.status = "RUNNING" THEN r.status ELSE "CANCELLED"
<1>1. v \in Nat /\ s \in JobStatus
  BY NextVersion DEF JobStatus, JobTerminal
<1>2. CancelAsked(r) = [r EXCEPT !.cancelRequested = TRUE, !.status = s,
                                 !.rowVersion = v]
  BY DEF CancelAsked
<1>3. s = IF r.status = "RUNNING" THEN "RUNNING" ELSE "CANCELLED"
  OBVIOUS
<1> HIDE DEF v, s
<1>4. CancelAsked(r) \in JobRow
  BY <1>1, <1>2 DEF JobRow
<1>5. CancelAsked(r).rowVersion = v /\ CancelAsked(r).status = s
  BY <1>2 DEF JobRow
<1>6. /\ CancelAsked(r).leaseOwner = r.leaseOwner
      /\ CancelAsked(r).attemptCount = r.attemptCount
      /\ CancelAsked(r).cancelRequested
  BY <1>2 DEF JobRow
<1> QED BY <1>3, <1>4, <1>5, <1>6 DEF v

LEMMA ClaimedRow ==
  ASSUME NEW r \in JobRow, NEW w \in Worker, NEW d \in Timer,
         r.attemptCount < MaxAttempts
  PROVE  /\ Claimed(r, w, d) \in JobRow
         /\ Claimed(r, w, d).status = "RUNNING"
         /\ Claimed(r, w, d).leaseOwner = w
         /\ Claimed(r, w, d).attemptCount = r.attemptCount + 1
         /\ Claimed(r, w, d).cancelRequested = r.cancelRequested
         /\ Claimed(r, w, d).rowVersion = r.rowVersion + 1
<1> DEFINE v == r.rowVersion + 1
           n == r.attemptCount + 1
           l == Earlier(LeaseTime, d)
<1>1. v \in Nat /\ n \in 0 .. MaxAttempts /\ l \in Timer
  BY NextVersion, EarlierType, Timers, TimeAssumption DEF JobRow
<1>2. Claimed(r, w, d) = [r EXCEPT !.status = "RUNNING", !.leaseOwner = w,
                                   !.leaseIn = l, !.timeoutIn = d,
                                   !.heartbeatIn = 0, !.attemptCount = n,
                                   !.rowVersion = v]
  BY DEF Claimed
<1> HIDE DEF v, n, l
<1>3. Claimed(r, w, d) \in JobRow
  BY <1>1, <1>2, Timers DEF JobRow, JobStatus
<1>4. Claimed(r, w, d).rowVersion = v /\ Claimed(r, w, d).attemptCount = n
  BY <1>2 DEF JobRow
<1>5. /\ Claimed(r, w, d).status = "RUNNING"
      /\ Claimed(r, w, d).leaseOwner = w
      /\ Claimed(r, w, d).cancelRequested = r.cancelRequested
  BY <1>2 DEF JobRow
<1> QED BY <1>3, <1>4, <1>5 DEF v, n

LEMMA RenewedRow ==
  ASSUME NEW r \in JobRow, NEW o \in Offset
  PROVE  /\ Renewed(r, o) \in JobRow
         /\ Renewed(r, o).status = r.status
         /\ Renewed(r, o).leaseOwner = r.leaseOwner
         /\ Renewed(r, o).attemptCount = r.attemptCount
         /\ Renewed(r, o).cancelRequested = r.cancelRequested
         /\ Renewed(r, o).rowVersion = r.rowVersion + 1
<1> DEFINE v == r.rowVersion + 1
           l == Earlier(LeaseTime, r.timeoutIn)
<1>1. v \in Nat /\ l \in Timer
  BY NextVersion, EarlierType, Timers DEF JobRow
<1>2. Renewed(r, o) = [r EXCEPT !.leaseIn = l, !.heartbeatIn = o,
                                !.rowVersion = v]
  BY DEF Renewed
<1> HIDE DEF v, l
<1>3. Renewed(r, o) \in JobRow
  BY <1>1, <1>2, Timers DEF JobRow
<1>4. Renewed(r, o).rowVersion = v
  BY <1>2 DEF JobRow
<1>5. /\ Renewed(r, o).status = r.status
      /\ Renewed(r, o).leaseOwner = r.leaseOwner
      /\ Renewed(r, o).attemptCount = r.attemptCount
      /\ Renewed(r, o).cancelRequested = r.cancelRequested
  BY <1>2 DEF JobRow
<1> QED BY <1>3, <1>4, <1>5 DEF v

LEMMA UnexpiredRow ==
  ASSUME NEW r \in JobRow
  PROVE  /\ Unexpired(r) \in JobRow
         /\ Unexpired(r).status = r.status
         /\ Unexpired(r).leaseOwner = r.leaseOwner
         /\ Unexpired(r).attemptCount = r.attemptCount
         /\ Unexpired(r).cancelRequested = r.cancelRequested
         /\ Unexpired(r).rowVersion = r.rowVersion + 1
<1> DEFINE v == r.rowVersion + 1
<1>1. v \in Nat
  BY NextVersion
<1>2. Unexpired(r) = [r EXCEPT !.timeoutIn = Forever, !.rowVersion = v]
  BY DEF Unexpired
<1> HIDE DEF v
<1>3. Unexpired(r) \in JobRow
  BY <1>1, <1>2, Timers DEF JobRow
<1>4. Unexpired(r).rowVersion = v
  BY <1>2 DEF JobRow
<1>5. /\ Unexpired(r).status = r.status
      /\ Unexpired(r).leaseOwner = r.leaseOwner
      /\ Unexpired(r).attemptCount = r.attemptCount
      /\ Unexpired(r).cancelRequested = r.cancelRequested
  BY <1>2 DEF JobRow
<1> QED BY <1>3, <1>4, <1>5 DEF v

LEMMA InsertedRow ==
  ASSUME NEW o \in Timer, NEW t \in Timer
  PROVE  /\ Inserted(o, t) \in JobRow
         /\ Inserted(o, t).status = "PENDING"
         /\ Inserted(o, t).leaseOwner = NoWorker
         /\ Inserted(o, t).attemptCount = 0
         /\ ~Inserted(o, t).cancelRequested
<1>1. "PENDING" \in JobStatus /\ 0 \in 0 .. MaxAttempts
  BY TimeAssumption DEF JobStatus
<1> QED BY <1>1, Timers DEF Inserted, NoRow, JobRow

LEMMA AbsentRow ==
  /\ NoRow \in JobRow
  /\ NoRow.status = Absent
  /\ NoRow.leaseOwner = NoWorker
  /\ NoRow.attemptCount = 0
  /\ ~NoRow.cancelRequested
<1>1. 0 \in 0 .. MaxAttempts
  BY TimeAssumption
<1> QED BY <1>1, Timers DEF NoRow, JobRow

LEMMA AgedType ==
  ASSUME NEW t \in Timer PROVE Aged(t) \in Timer
BY TimeAssumption DEF Aged, Timer

LEMMA OlderRow ==
  ASSUME NEW r \in JobRow
  PROVE  /\ Older(r) \in JobRow
         /\ Older(r).status = r.status
         /\ Older(r).leaseOwner = r.leaseOwner
         /\ Older(r).attemptCount = r.attemptCount
         /\ Older(r).cancelRequested = r.cancelRequested
         /\ Older(r).rowVersion = r.rowVersion
<1>1. /\ Aged(r.leaseIn) \in Timer
      /\ Aged(r.heartbeatIn) \in Timer
      /\ Aged(r.nextAttemptIn) \in Timer
      /\ Aged(r.timeoutIn) \in Timer
  BY AgedType DEF JobRow
<1> QED BY <1>1 DEF Older, JobRow

-----------------------------------------------------------------------------
(* The ledger.                                                             *)

LEMMA ClosedLedger ==
  ASSUME NEW r \in JobRow, NEW at \in Seq(Attempt),
         GoodLedger(r, at), r.status = "RUNNING",
         NEW q \in JobRow, q.attemptCount = r.attemptCount,
         q.status \in {"WAITING_INPUT", "WAITING_REVIEW", "RETRY_SCHEDULED"}
                        \cup JobTerminal,
         q.leaseOwner = NoWorker,
         NEW category \in {"NONE", "HANDLER", "LEASE_EXPIRED", "JOB_TIMEOUT"}
  PROVE  LET new == Closed(at, r.attemptCount, q.status, category)
         IN  /\ new \in Seq(Attempt)
             /\ GoodLedger(q, new)
             /\ \A k \in 1 .. Len(at) : at[k].outcome /= "OPEN" => new[k] = at[k]
<1> DEFINE n == r.attemptCount
           entry == [worker |-> at[n].worker, outcome |-> q.status,
                     category |-> category]
           new == Closed(at, n, q.status, category)
<1>1. n \in 1 .. Len(at) /\ n \in Nat
  BY DEF GoodLedger, JobRow
<1>2. at[n] \in Attempt
  BY <1>1, ElementOfSeq
<1>3. entry \in Attempt
  BY <1>2 DEF Attempt
<1>4. new = [at EXCEPT ![n] = entry]
  BY <1>1 DEF Closed
<1>5. /\ new \in Seq(Attempt)
      /\ Len(new) = Len(at)
      /\ \A k \in 1 .. Len(at) : new[k] = IF k = n THEN entry ELSE at[k]
  BY <1>1, <1>3, <1>4, ExceptSeq
<1>6. entry.outcome = q.status /\ q.status \notin {"OPEN", "RUNNING"}
  BY DEF JobTerminal
<1>7. GoodLedger(q, new)
  <2> HIDE DEF new, entry
  <2> QED BY <1>1, <1>5, <1>6 DEF GoodLedger
<1>8. ASSUME NEW k \in 1 .. Len(at), at[k].outcome /= "OPEN"
      PROVE  new[k] = at[k]
  BY <1>1, <1>5, <1>8 DEF GoodLedger
<1> QED BY <1>5, <1>7, <1>8
-----------------------------------------------------------------------------
(* One step of one job: from a good (r, at, op) to a good successor that    *)
(* keeps what is over.                                                     *)

LEMMA KeptGood ==
  ASSUME NEW r, NEW at, NEW op, Good(r, at, op),
         NEW q \in JobRow, q.status = r.status, q.leaseOwner = r.leaseOwner,
         q.attemptCount = r.attemptCount, q.cancelRequested => r.cancelRequested,
         r.status \in JobTerminal => q.rowVersion = r.rowVersion
  PROVE  Good(q, at, op) /\ Lasting(r, at, op, q, at, op)
<1>1. GoodRow(q)
  BY DEF Good, GoodRow
<1>2. GoodLedger(q, at)
  BY DEF Good, GoodLedger
<1>3. GoodOperation(q, at, op)
  BY DEF Good, GoodOperation
<1> QED BY <1>1, <1>2, <1>3 DEF Good, Lasting

LEMMA InsertedGood ==
  ASSUME NEW r, NEW at, NEW op, Good(r, at, op), r.status = Absent,
         op \notin OperationTerminal,
         NEW o \in Timer, NEW t \in Timer
  PROVE  /\ Good(Inserted(o, t), at, "RUNNING")
         /\ Lasting(r, at, op, Inserted(o, t), at, "RUNNING")
<1> DEFINE q == Inserted(o, t)
<1>1. /\ q \in JobRow
      /\ q.status = "PENDING"
      /\ q.leaseOwner = NoWorker
      /\ q.attemptCount = 0
      /\ ~q.cancelRequested
  BY InsertedRow
<1> HIDE DEF q
<1>2. Len(at) = 0 /\ r.status \notin JobTerminal
  BY DEF Good, GoodLedger, GoodRow, Absent, JobTerminal
<1>3. GoodRow(q)
  BY <1>1 DEF GoodRow, Absent
<1>4. GoodLedger(q, at)
  BY <1>1, <1>2 DEF GoodLedger
<1>5. GoodOperation(q, at, "RUNNING")
  BY <1>1 DEF GoodOperation
<1>6. Good(q, at, "RUNNING")
  BY <1>1, <1>3, <1>4, <1>5 DEF Good, OperationStatus
<1>7. Lasting(r, at, op, q, at, "RUNNING")
  BY <1>2 DEF Lasting
<1> QED BY <1>6, <1>7 DEF q

LEMMA ClaimedGood ==
  ASSUME NEW r, NEW at, NEW op, Good(r, at, op),
         r.status \in {"PENDING", "RETRY_SCHEDULED"},
         ~r.cancelRequested, r.attemptCount < MaxAttempts,
         NEW w \in Worker, NEW d \in Timer
  PROVE  LET q == Claimed(r, w, d)
             bt == Append(at, [worker |-> w, outcome |-> "OPEN",
                               category |-> "NONE"])
         IN  /\ Good(q, bt, Reconciled(op, q.status))
             /\ Lasting(r, at, op, q, bt, Reconciled(op, q.status))
<1> DEFINE q == Claimed(r, w, d)
           entry == [worker |-> w, outcome |-> "OPEN", category |-> "NONE"]
           bt == Append(at, entry)
           n == r.attemptCount
<1>1. /\ q \in JobRow
      /\ q.status = "RUNNING"
      /\ q.leaseOwner = w
      /\ q.attemptCount = n + 1
      /\ ~q.cancelRequested
  BY ClaimedRow DEF Good
<1>2. entry \in Attempt /\ entry.outcome = "OPEN" /\ entry.worker = w
  BY DEF Attempt
<1>3. at \in Seq(Attempt) /\ Len(at) = n /\ n \in Nat
  BY DEF Good, GoodLedger, JobRow
<1> HIDE DEF entry
<1>4. /\ bt \in Seq(Attempt)
      /\ Len(bt) = n + 1
      /\ \A k \in 1 .. n : bt[k] = at[k]
      /\ bt[n + 1] = entry
  BY <1>2, <1>3, AppendProperties
<1>5. \A k \in 1 .. n : at[k].outcome /= "OPEN"
  BY <1>3 DEF Good, GoodLedger
<1> HIDE DEF q, bt
<1>6. GoodRow(q)
  BY <1>1 DEF GoodRow, Absent
<1>7. GoodLedger(q, bt)
  <2>1. \A k \in 1 .. n + 1 :
          bt[k].outcome = "OPEN" <=> q.status = "RUNNING" /\ k = n + 1
    BY <1>1, <1>2, <1>3, <1>4, <1>5
  <2>2. n + 1 > 0 /\ q.leaseOwner = bt[n + 1].worker
    BY <1>1, <1>2, <1>3, <1>4
  <2> QED BY <1>1, <1>4, <2>1, <2>2 DEF GoodLedger
<1>8. op = "RUNNING"
  BY DEF Good, GoodOperation, Absent
<1>9. Reconciled(op, q.status) = "RUNNING"
  BY <1>1, <1>8 DEF Reconciled, OperationStatus, OperationTerminal
<1>10. GoodOperation(q, bt, "RUNNING")
  BY <1>1 DEF GoodOperation
<1>11. Good(q, bt, "RUNNING")
  BY <1>1, <1>4, <1>6, <1>7, <1>10 DEF Good, OperationStatus
<1>12. Lasting(r, at, op, q, bt, "RUNNING")
  BY <1>3, <1>4, <1>8 DEF Lasting, JobTerminal, OperationTerminal
<1> QED BY <1>9, <1>11, <1>12 DEF q, bt, entry
\* A running row ends its attempt with the status of q.
LEMMA EndedGood ==
  ASSUME NEW r, NEW at, NEW op, Good(r, at, op), r.status = "RUNNING",
         NEW q \in JobRow, q.leaseOwner = NoWorker,
         q.attemptCount = r.attemptCount,
         q.cancelRequested = r.cancelRequested,
         q.status \in {"WAITING_INPUT", "WAITING_REVIEW", "RETRY_SCHEDULED"}
                        \cup JobTerminal,
         q.cancelRequested => q.status = "CANCELLED",
         q.status = "RETRY_SCHEDULED" => r.attemptCount < MaxAttempts,
         NEW category \in {"NONE", "HANDLER", "LEASE_EXPIRED", "JOB_TIMEOUT"}
  PROVE  LET bt == Closed(at, r.attemptCount, q.status, category)
         IN  /\ Good(q, bt, Reconciled(op, q.status))
             /\ Lasting(r, at, op, q, bt, Reconciled(op, q.status))
<1> DEFINE bt == Closed(at, r.attemptCount, q.status, category)
           pq == Reconciled(op, q.status)
<1>1. /\ bt \in Seq(Attempt)
      /\ GoodLedger(q, bt)
      /\ \A k \in 1 .. Len(at) : at[k].outcome /= "OPEN" => bt[k] = at[k]
  BY ClosedLedger DEF Good
<1>2. op = "RUNNING"
  BY DEF Good, GoodOperation, Absent
<1>3. GoodRow(q)
  BY DEF GoodRow, JobTerminal, Absent
<1> HIDE DEF bt
<1>4. pq \in OperationStatus /\ GoodOperation(q, bt, pq)
  BY <1>2 DEF Reconciled, GoodOperation, OperationStatus, OperationTerminal,
     JobTerminal
<1> HIDE DEF pq
<1>5. Good(q, bt, pq)
  BY <1>1, <1>3, <1>4 DEF Good
<1>6. Lasting(r, at, op, q, bt, pq)
  BY <1>1, <1>2 DEF Lasting, JobTerminal, OperationTerminal
<1> QED BY <1>5, <1>6 DEF bt, pq

\* A row that does not run is cancelled or given up.
LEMMA DroppedGood ==
  ASSUME NEW r, NEW at, NEW op, Good(r, at, op),
         r.status \in JobStatus \ JobTerminal, r.status /= "RUNNING",
         NEW q \in JobRow, q.leaseOwner = NoWorker,
         q.attemptCount = r.attemptCount,
         q.status \in {"CANCELLED", "DEAD_LETTER"},
         q.cancelRequested => q.status = "CANCELLED"
  PROVE  /\ Good(q, at, Reconciled(op, q.status))
         /\ Lasting(r, at, op, q, at, Reconciled(op, q.status))
<1> DEFINE pq == Reconciled(op, q.status)
<1>1. op \in {"RUNNING", "WAITING_INPUT", "WAITING_REVIEW"}
  BY DEF Good, GoodOperation, JobStatus, JobTerminal, Absent
<1>2. GoodRow(q)
  BY DEF GoodRow, Absent
<1>3. GoodLedger(q, at)
  BY DEF Good, GoodLedger
<1>4. pq \in OperationStatus /\ GoodOperation(q, at, pq)
  BY <1>1 DEF Reconciled, GoodOperation, OperationStatus, OperationTerminal
<1> HIDE DEF pq
<1>5. Good(q, at, pq)
  BY <1>2, <1>3, <1>4 DEF Good
<1>6. Lasting(r, at, op, q, at, pq)
  BY <1>1 DEF Lasting, OperationTerminal
<1> QED BY <1>5, <1>6 DEF pq

LEMMA WokenGood ==
  ASSUME NEW r, NEW at, NEW op, Good(r, at, op),
         r.status = "WAITING_REVIEW", op = "WAITING_REVIEW", NEW o \in Offset
  PROVE  /\ Good(Woken(r, o), at, "RUNNING")
         /\ Lasting(r, at, op, Woken(r, o), at, "RUNNING")
<1> DEFINE q == Woken(r, o)
<1>1. /\ q \in JobRow
      /\ q.status = "PENDING"
      /\ q.leaseOwner = NoWorker
      /\ q.attemptCount = r.attemptCount
      /\ ~q.cancelRequested
  BY WokenRow DEF Good
<1> HIDE DEF q
<1>2. GoodRow(q)
  BY <1>1 DEF GoodRow, Absent
<1>3. GoodLedger(q, at)
  BY <1>1 DEF Good, GoodLedger
<1>4. GoodOperation(q, at, "RUNNING")
  BY <1>1 DEF GoodOperation
<1>5. Good(q, at, "RUNNING")
  BY <1>1, <1>2, <1>3, <1>4 DEF Good, OperationStatus
<1>6. Lasting(r, at, op, q, at, "RUNNING")
  BY DEF Lasting, JobTerminal, OperationTerminal
<1> QED BY <1>5, <1>6 DEF q

LEMMA RejectedGood ==
  ASSUME NEW r, NEW at, NEW op, Good(r, at, op),
         r.status = "WAITING_REVIEW", op = "WAITING_REVIEW"
  PROVE  /\ Good(Rejected(r), at, "FAILED")
         /\ Lasting(r, at, op, Rejected(r), at, "FAILED")
<1> DEFINE q == Rejected(r)
<1>1. /\ q \in JobRow
      /\ q.status = "CANCELLED"
      /\ q.leaseOwner = NoWorker
      /\ q.attemptCount = r.attemptCount
  BY RejectedRow DEF Good
<1> HIDE DEF q
<1>2. GoodRow(q)
  BY <1>1 DEF GoodRow, Absent
<1>3. GoodLedger(q, at)
  BY <1>1 DEF Good, GoodLedger
<1>4. GoodOperation(q, at, "FAILED")
  BY <1>1 DEF GoodOperation, Good, GoodLedger
<1>5. Good(q, at, "FAILED")
  BY <1>1, <1>2, <1>3, <1>4 DEF Good, OperationStatus, OperationTerminal
<1>6. Lasting(r, at, op, q, at, "FAILED")
  BY DEF Lasting, JobTerminal, OperationTerminal
<1> QED BY <1>5, <1>6 DEF q

LEMMA CancelAskedGood ==
  ASSUME NEW r, NEW at, NEW op, Good(r, at, op),
         r.status \in JobStatus \ JobTerminal
  PROVE  LET q == CancelAsked(r)
         IN  /\ Good(q, at, Reconciled(op, q.status))
             /\ Lasting(r, at, op, q, at, Reconciled(op, q.status))
<1> DEFINE q == CancelAsked(r)
<1>1. /\ q \in JobRow
      /\ q.status = (IF r.status = "RUNNING" THEN "RUNNING" ELSE "CANCELLED")
      /\ q.leaseOwner = r.leaseOwner
      /\ q.attemptCount = r.attemptCount
  BY CancelAskedRow DEF Good
<1> HIDE DEF q
<1>2. CASE r.status = "RUNNING"
  <2>1. op = "RUNNING"
    BY <1>2 DEF Good, GoodOperation, Absent
  <2>2. Reconciled(op, q.status) = op
    BY <1>1, <1>2, <2>1 DEF Reconciled, OperationStatus, OperationTerminal
  <2>3. GoodRow(q) /\ GoodLedger(q, at) /\ GoodOperation(q, at, op)
    BY <1>1, <1>2, <2>1 DEF Good, GoodRow, GoodLedger, GoodOperation, Absent
  <2>4. Good(q, at, op)
    BY <1>1, <2>3 DEF Good
  <2>5. Lasting(r, at, op, q, at, op)
    BY DEF Lasting
  <2> QED BY <2>2, <2>4, <2>5 DEF q
<1>3. CASE r.status /= "RUNNING"
  <2>1. q.leaseOwner = NoWorker /\ q.status = "CANCELLED"
    BY <1>1, <1>3 DEF Good, GoodLedger
  <2> QED BY <1>1, <1>3, <2>1, DroppedGood DEF q
<1> QED BY <1>2, <1>3
-----------------------------------------------------------------------------
(* The actions.                                                            *)

\* Functions that are good for each job have their types.
LEMMA GoodFunctions ==
  ASSUME NEW f, NEW g, NEW h,
         f = [j \in Job |-> f[j]], g = [j \in Job |-> g[j]],
         h = [j \in Job |-> h[j]],
         \A j \in Job : Good(f[j], g[j], h[j])
  PROVE  /\ f \in [Job -> JobRow]
         /\ g \in [Job -> Seq(Attempt)]
         /\ h \in [Job -> OperationStatus \cup {Absent}]
<1>1. \A j \in Job : /\ f[j] \in JobRow
                    /\ g[j] \in Seq(Attempt)
                    /\ h[j] \in OperationStatus \cup {Absent}
  BY DEF Good
<1> QED BY <1>1

\* A job that a step does not touch.
LEMMA Untouched ==
  ASSUME Inv, NEW i \in Job, job'[i] = job[i], attempts'[i] = attempts[i],
         operation'[i] = operation[i]
  PROVE  /\ Good(job'[i], attempts'[i], operation'[i])
         /\ Lasting(job[i], attempts[i], operation[i],
                    job'[i], attempts'[i], operation'[i])
BY DEF Inv, Lasting

LEMMA SubmitStep ==
  ASSUME Inv, NEW j \in Job, NEW o \in Offset, Submit(j, o)
  PROVE  GoodStep
<1>1. ASSUME NEW i \in Job
      PROVE  /\ Good(job'[i], attempts'[i], operation'[i])
             /\ Lasting(job[i], attempts[i], operation[i],
                        job'[i], attempts'[i], operation'[i])
  <2>1. CASE i = j
    BY <2>1, InsertedGood, Timers DEF Inv, Submit, OperationTerminal
  <2>2. CASE i /= j
    BY <2>2, Untouched DEF Inv, Submit
  <2> QED BY <2>1, <2>2
<1>2. /\ job' = [i \in Job |-> job'[i]]
      /\ attempts' = [i \in Job |-> attempts'[i]]
      /\ operation' = [i \in Job |-> operation'[i]]
  BY DEF Inv, Submit
<1> QED BY <1>1, <1>2, GoodFunctions DEF GoodStep, Inv

LEMMA CreateAnalysisStep ==
  ASSUME Inv, NEW j \in Job, NEW o \in Offset, CreateAnalysis(j, o)
  PROVE  GoodStep
<1>1. ASSUME NEW i \in Job
      PROVE  /\ Good(job'[i], attempts'[i], operation'[i])
             /\ Lasting(job[i], attempts[i], operation[i],
                        job'[i], attempts'[i], operation'[i])
  <2>1. CASE i = j
    <3>1. Good(job[j], attempts[j], operation[j]) /\ operation[j] = Absent
      BY DEF Inv, CreateAnalysis
    <3>2. job[j].status = Absent /\ operation[j] \notin OperationTerminal
      BY <3>1 DEF Good, GoodOperation, Absent, OperationTerminal
    <3> QED BY <2>1, <3>1, <3>2, InsertedGood, Timers DEF Inv, CreateAnalysis
  <2>2. CASE i /= j
    BY <2>2, Untouched DEF Inv, CreateAnalysis
  <2> QED BY <2>1, <2>2
<1>2. /\ job' = [i \in Job |-> job'[i]]
      /\ attempts' = [i \in Job |-> attempts'[i]]
      /\ operation' = [i \in Job |-> operation'[i]]
  BY DEF Inv, CreateAnalysis
<1> QED BY <1>1, <1>2, GoodFunctions DEF GoodStep, Inv

LEMMA ResumeStep ==
  ASSUME Inv, NEW j \in Job, NEW o \in Offset, Resume(j, o)
  PROVE  GoodStep
<1>1. ASSUME NEW i \in Job
      PROVE  /\ Good(job'[i], attempts'[i], operation'[i])
             /\ Lasting(job[i], attempts[i], operation[i],
                        job'[i], attempts'[i], operation'[i])
  <2>1. CASE i = j
    <3>1. job[j].status \notin JobTerminal
      BY DEF Resume, JobTerminal
    <3> QED BY <2>1, <3>1, UnexpiredRow, KeptGood DEF Inv, Resume
  <2>2. CASE i /= j
    BY <2>2, Untouched DEF Inv, Resume
  <2> QED BY <2>1, <2>2
<1>2. /\ job' = [i \in Job |-> job'[i]]
      /\ attempts' = [i \in Job |-> attempts'[i]]
      /\ operation' = [i \in Job |-> operation'[i]]
  BY DEF Inv, Resume
<1> QED BY <1>1, <1>2, GoodFunctions DEF GoodStep, Inv

LEMMA ApproveStep ==
  ASSUME Inv, NEW j \in Job, NEW o \in Offset, Approve(j, o)
  PROVE  GoodStep
<1>1. ASSUME NEW i \in Job
      PROVE  /\ Good(job'[i], attempts'[i], operation'[i])
             /\ Lasting(job[i], attempts[i], operation[i],
                        job'[i], attempts'[i], operation'[i])
  <2>1. CASE i = j
    BY <2>1, WokenGood DEF Inv, Approve
  <2>2. CASE i /= j
    BY <2>2, Untouched DEF Inv, Approve
  <2> QED BY <2>1, <2>2
<1>2. /\ job' = [i \in Job |-> job'[i]]
      /\ attempts' = [i \in Job |-> attempts'[i]]
      /\ operation' = [i \in Job |-> operation'[i]]
  BY DEF Inv, Approve
<1> QED BY <1>1, <1>2, GoodFunctions DEF GoodStep, Inv

LEMMA RejectStep ==
  ASSUME Inv, NEW j \in Job, Reject(j)
  PROVE  GoodStep
<1>1. ASSUME NEW i \in Job
      PROVE  /\ Good(job'[i], attempts'[i], operation'[i])
             /\ Lasting(job[i], attempts[i], operation[i],
                        job'[i], attempts'[i], operation'[i])
  <2>1. CASE i = j
    BY <2>1, RejectedGood DEF Inv, Reject
  <2>2. CASE i /= j
    BY <2>2, Untouched DEF Inv, Reject
  <2> QED BY <2>1, <2>2
<1>2. /\ job' = [i \in Job |-> job'[i]]
      /\ attempts' = [i \in Job |-> attempts'[i]]
      /\ operation' = [i \in Job |-> operation'[i]]
  BY DEF Inv, Reject
<1> QED BY <1>1, <1>2, GoodFunctions DEF GoodStep, Inv

LEMMA CancelWithoutJobStep ==
  ASSUME Inv, NEW j \in Job, CancelWithoutJob(j)
  PROVE  GoodStep
<1>1. ASSUME NEW i \in Job
      PROVE  /\ Good(job'[i], attempts'[i], operation'[i])
             /\ Lasting(job[i], attempts[i], operation[i],
                        job'[i], attempts'[i], operation'[i])
  <2>1. CASE i = j
    <3>1. GoodOperation(job[i], attempts[i], operation'[i])
      BY <2>1 DEF Inv, CancelWithoutJob, GoodOperation
    <3>2. operation'[i] \in OperationStatus
      BY <2>1 DEF Inv, CancelWithoutJob, OperationStatus, OperationTerminal
    <3> QED BY <2>1, <3>1, <3>2 DEF Inv, CancelWithoutJob, Good, Lasting
  <2>2. CASE i /= j
    BY <2>2, Untouched DEF Inv, CancelWithoutJob
  <2> QED BY <2>1, <2>2
<1>2. /\ job' = [i \in Job |-> job'[i]]
      /\ attempts' = [i \in Job |-> attempts'[i]]
      /\ operation' = [i \in Job |-> operation'[i]]
  BY DEF Inv, CancelWithoutJob
<1> QED BY <1>1, <1>2, GoodFunctions DEF GoodStep, Inv
LEMMA RequestCancelStep ==
  ASSUME Inv, NEW j \in Job, RequestCancel(j)
  PROVE  GoodStep
<1>1. ASSUME NEW i \in Job
      PROVE  /\ Good(job'[i], attempts'[i], operation'[i])
             /\ Lasting(job[i], attempts[i], operation[i],
                        job'[i], attempts'[i], operation'[i])
  <2>1. CASE i = j
    <3> DEFINE q == CancelAsked(job[j])
    <3>1. /\ job'[i] = q
          /\ attempts'[i] = attempts[j]
          /\ operation'[i] = Reconciled(operation[j], q.status)
      BY <2>1 DEF Inv, RequestCancel, RecordJobTransition
    <3>2. Good(job[j], attempts[j], operation[j])
          /\ job[j].status \in JobStatus \ JobTerminal
      BY DEF Inv, RequestCancel
    <3> QED BY <2>1, <3>1, <3>2, CancelAskedGood
  <2>2. CASE i /= j
    BY <2>2, Untouched DEF Inv, RequestCancel, RecordJobTransition
  <2> QED BY <2>1, <2>2
<1>2. /\ job' = [i \in Job |-> job'[i]]
      /\ attempts' = [i \in Job |-> attempts'[i]]
      /\ operation' = [i \in Job |-> operation'[i]]
  BY DEF Inv, RequestCancel, RecordJobTransition
<1> QED BY <1>1, <1>2, GoodFunctions DEF GoodStep, Inv

LEMMA ClaimStep ==
  ASSUME Inv, NEW w \in Worker, NEW batch \in SUBSET Job, Claim(w, batch)
  PROVE  GoodStep
<1>1. ASSUME NEW i \in Job
      PROVE  /\ Good(job'[i], attempts'[i], operation'[i])
             /\ Lasting(job[i], attempts[i], operation[i],
                        job'[i], attempts'[i], operation'[i])
  <2>1. CASE i \in batch
    <3> DEFINE q == Claimed(job[i], w, Deadline(i))
    <3>1. Deadline(i) \in Timer
      BY Timers DEF Inv, Deadline, JobRow
    <3>2. /\ job'[i] = q
          /\ attempts'[i] = Append(attempts[i], [worker |-> w, outcome |-> "OPEN",
                                                category |-> "NONE"])
          /\ operation'[i] = Reconciled(operation[i], q.status)
      BY <2>1 DEF Inv, Claim, RecordJobTransition
    <3>3. /\ Good(job[i], attempts[i], operation[i])
          /\ job[i].status \in {"PENDING", "RETRY_SCHEDULED"}
          /\ ~job[i].cancelRequested
          /\ job[i].attemptCount < MaxAttempts
      BY <2>1 DEF Inv, Claim, Claimable
    <3> QED BY <3>1, <3>2, <3>3, ClaimedGood
  <2>2. CASE i \notin batch
    BY <2>2, Untouched DEF Inv, Claim, RecordJobTransition
  <2> QED BY <2>1, <2>2
<1>2. /\ job' = [i \in Job |-> job'[i]]
      /\ attempts' = [i \in Job |-> attempts'[i]]
      /\ operation' = [i \in Job |-> operation'[i]]
  BY DEF Inv, Claim, RecordJobTransition
<1> QED BY <1>1, <1>2, GoodFunctions DEF GoodStep, Inv

LEMMA HeartbeatStep ==
  ASSUME Inv, NEW w, NEW v, NEW j \in Job, NEW o \in Offset, Heartbeat(w, j, v, o)
  PROVE  GoodStep
<1>1. ASSUME NEW i \in Job
      PROVE  /\ Good(job'[i], attempts'[i], operation'[i])
             /\ Lasting(job[i], attempts[i], operation[i],
                        job'[i], attempts'[i], operation'[i])
  <2>1. CASE i = j
    <3>1. job[j].status \notin JobTerminal
      BY DEF Heartbeat, Holds, JobTerminal
    <3>2. Good(job[j], attempts[j], operation[j]) /\ job[j] \in JobRow
      BY DEF Inv
    <3>3. job'[i] = Renewed(job[j], o)
      BY <2>1 DEF Inv, Heartbeat
    <3> QED BY <2>1, <3>1, <3>2, <3>3, RenewedRow, KeptGood DEF Heartbeat
  <2>2. CASE i /= j
    BY <2>2, Untouched DEF Inv, Heartbeat
  <2> QED BY <2>1, <2>2
<1>2. /\ job' = [i \in Job |-> job'[i]]
      /\ attempts' = [i \in Job |-> attempts'[i]]
      /\ operation' = [i \in Job |-> operation'[i]]
  BY DEF Inv, Heartbeat
<1> QED BY <1>1, <1>2, GoodFunctions DEF GoodStep, Inv

LEMMA SettleStep ==
  ASSUME Inv, NEW w, NEW v, NEW j \in Job, NEW requested \in SettleStatus,
         Settle(w, j, v, requested)
  PROVE  GoodStep
<1>1. ASSUME NEW i \in Job
      PROVE  /\ Good(job'[i], attempts'[i], operation'[i])
             /\ Lasting(job[i], attempts[i], operation[i],
                        job'[i], attempts'[i], operation'[i])
  <2>1. CASE i = j
    <3> DEFINE target == IF job[j].cancelRequested THEN "CANCELLED"
                                                  ELSE requested
               q == Released(job[j], target)
    <3>1. /\ Good(job[j], attempts[j], operation[j])
          /\ job[j] \in JobRow
          /\ job[j].status = "RUNNING"
      BY DEF Inv, Settle, Holds
    <3>2. /\ target \in {"SUCCEEDED", "WAITING_INPUT", "WAITING_REVIEW", "CANCELLED"}
          /\ job[j].cancelRequested => target = "CANCELLED"
      BY DEF SettleStatus
    <3>3. target \in JobStatus
      BY <3>2 DEF JobStatus, JobTerminal
    <3>4. /\ job'[i] = q
          /\ attempts'[i] = Closed(attempts[j], job[j].attemptCount, target, "NONE")
          /\ operation'[i] = Reconciled(operation[j], job'[i].status)
      BY <2>1 DEF Inv, Settle, RecordJobTransition
    <3> HIDE DEF target
    <3>5. /\ q \in JobRow
          /\ q.status = target
          /\ q.leaseOwner = NoWorker
          /\ q.attemptCount = job[j].attemptCount
          /\ q.cancelRequested = job[j].cancelRequested
      BY <3>1, <3>3, ReleasedRow
    <3> HIDE DEF q
    <3>6. /\ q.status \in {"WAITING_INPUT", "WAITING_REVIEW", "RETRY_SCHEDULED"}
                            \cup JobTerminal
          /\ q.cancelRequested => q.status = "CANCELLED"
          /\ q.status /= "RETRY_SCHEDULED"
      BY <3>2, <3>5 DEF JobTerminal
    <3>7. /\ Good(q, Closed(attempts[j], job[j].attemptCount, q.status, "NONE"),
                  Reconciled(operation[j], q.status))
          /\ Lasting(job[j], attempts[j], operation[j], q,
                     Closed(attempts[j], job[j].attemptCount, q.status, "NONE"),
                     Reconciled(operation[j], q.status))
      BY <3>1, <3>5, <3>6, EndedGood
    <3> QED BY <2>1, <3>4, <3>5, <3>7
  <2>2. CASE i /= j
    BY <2>2, Untouched DEF Inv, Settle, RecordJobTransition
  <2> QED BY <2>1, <2>2
<1>2. /\ job' = [i \in Job |-> job'[i]]
      /\ attempts' = [i \in Job |-> attempts'[i]]
      /\ operation' = [i \in Job |-> operation'[i]]
  BY DEF Inv, Settle, RecordJobTransition
<1> QED BY <1>1, <1>2, GoodFunctions DEF GoodStep, Inv
LEMMA FailStep ==
  ASSUME Inv, NEW w, NEW v, NEW j \in Job, NEW retryable \in BOOLEAN,
         NEW o \in Offset, Fail(w, j, v, retryable, o)
  PROVE  GoodStep
<1>1. ASSUME NEW i \in Job
      PROVE  /\ Good(job'[i], attempts'[i], operation'[i])
             /\ Lasting(job[i], attempts[i], operation[i],
                        job'[i], attempts'[i], operation'[i])
  <2>1. CASE i = j
    <3> DEFINE target == FailureTarget(j, retryable)
               q == Rescheduled(job[j], target, o)
    <3>1. /\ Good(job[j], attempts[j], operation[j])
          /\ job[j] \in JobRow
          /\ job[j].status = "RUNNING"
      BY DEF Inv, Fail, Holds
    <3>2. /\ target \in {"CANCELLED", "FAILED", "DEAD_LETTER", "RETRY_SCHEDULED"}
          /\ job[j].cancelRequested => target = "CANCELLED"
          /\ target = "RETRY_SCHEDULED" => job[j].attemptCount < MaxAttempts
      BY <3>1, TimeAssumption DEF FailureTarget, JobRow
    <3>3. target \in JobStatus
      BY <3>2 DEF JobStatus, JobTerminal
    <3>4. /\ job'[i] = q
          /\ attempts'[i] = Closed(attempts[j], job[j].attemptCount, target, "HANDLER")
          /\ operation'[i] = Reconciled(operation[j], job'[i].status)
      BY <2>1 DEF Inv, Fail, RecordJobTransition
    <3> HIDE DEF target
    <3>5. /\ q \in JobRow
          /\ q.status = target
          /\ q.leaseOwner = NoWorker
          /\ q.attemptCount = job[j].attemptCount
          /\ q.cancelRequested = job[j].cancelRequested
      BY <3>1, <3>3, RescheduledRow
    <3> HIDE DEF q
    <3>6. /\ q.status \in {"WAITING_INPUT", "WAITING_REVIEW", "RETRY_SCHEDULED"}
                            \cup JobTerminal
          /\ q.cancelRequested => q.status = "CANCELLED"
          /\ q.status = "RETRY_SCHEDULED" => job[j].attemptCount < MaxAttempts
      BY <3>2, <3>5 DEF JobTerminal
    <3>7. /\ Good(q, Closed(attempts[j], job[j].attemptCount, q.status, "HANDLER"),
                  Reconciled(operation[j], q.status))
          /\ Lasting(job[j], attempts[j], operation[j], q,
                     Closed(attempts[j], job[j].attemptCount, q.status, "HANDLER"),
                     Reconciled(operation[j], q.status))
      BY <3>1, <3>5, <3>6, EndedGood
    <3> QED BY <2>1, <3>4, <3>5, <3>7
  <2>2. CASE i /= j
    BY <2>2, Untouched DEF Inv, Fail, RecordJobTransition
  <2> QED BY <2>1, <2>2
<1>2. /\ job' = [i \in Job |-> job'[i]]
      /\ attempts' = [i \in Job |-> attempts'[i]]
      /\ operation' = [i \in Job |-> operation'[i]]
  BY DEF Inv, Fail, RecordJobTransition
<1> QED BY <1>1, <1>2, GoodFunctions DEF GoodStep, Inv

LEMMA RecoverStep ==
  ASSUME Inv, NEW o \in Offset, NEW batch \in SUBSET Job, Recover(o, batch)
  PROVE  GoodStep
<1>1. ASSUME NEW i \in Job
      PROVE  /\ Good(job'[i], attempts'[i], operation'[i])
             /\ Lasting(job[i], attempts[i], operation[i],
                        job'[i], attempts'[i], operation'[i])
  <2>1. CASE i \in batch
    <3> DEFINE target == RecoveryTarget(i, o)
               q == Rescheduled(job[i], target, o)
               category == IF target = "DEAD_LETTER" THEN "JOB_TIMEOUT"
                                                    ELSE "LEASE_EXPIRED"
    <3>1. /\ Good(job[i], attempts[i], operation[i])
          /\ job[i] \in JobRow
          /\ job[i].status \in JobStatus \ JobTerminal
          /\ Recoverable(i, o)
      BY <2>1 DEF Inv, Recover, Recoverable
    <3>2. /\ target \in {"CANCELLED", "DEAD_LETTER", "RETRY_SCHEDULED"}
          /\ job[i].cancelRequested => target = "CANCELLED"
          /\ target = "RETRY_SCHEDULED" => job[i].attemptCount < MaxAttempts
          /\ target = "RETRY_SCHEDULED" => job[i].status = "RUNNING"
      BY <3>1, TimeAssumption DEF RecoveryTarget, Recoverable, JobRow
    <3>3. target \in JobStatus
      BY <3>2 DEF JobStatus, JobTerminal
    <3>4. /\ job'[i] = q
          /\ attempts'[i] = IF job[i].status = "RUNNING"
               THEN Closed(attempts[i], job[i].attemptCount, target, category)
               ELSE attempts[i]
          /\ operation'[i] = Reconciled(operation[i], job'[i].status)
      BY <2>1 DEF Inv, Recover, RecordJobTransition
    <3>5. category \in {"NONE", "HANDLER", "LEASE_EXPIRED", "JOB_TIMEOUT"}
      OBVIOUS
    <3> HIDE DEF target, category
    <3>6. /\ q \in JobRow
          /\ q.status = target
          /\ q.leaseOwner = NoWorker
          /\ q.attemptCount = job[i].attemptCount
          /\ q.cancelRequested = job[i].cancelRequested
      BY <3>1, <3>3, RescheduledRow
    <3> HIDE DEF q
    <3>7. CASE job[i].status = "RUNNING"
      <4>1. /\ q.status \in {"WAITING_INPUT", "WAITING_REVIEW", "RETRY_SCHEDULED"}
                              \cup JobTerminal
            /\ q.cancelRequested => q.status = "CANCELLED"
            /\ q.status = "RETRY_SCHEDULED" => job[i].attemptCount < MaxAttempts
        BY <3>2, <3>6 DEF JobTerminal
      <4>2. /\ Good(q, Closed(attempts[i], job[i].attemptCount, q.status, category),
                    Reconciled(operation[i], q.status))
            /\ Lasting(job[i], attempts[i], operation[i], q,
                       Closed(attempts[i], job[i].attemptCount, q.status, category),
                       Reconciled(operation[i], q.status))
        BY <3>1, <3>5, <3>6, <3>7, <4>1, EndedGood
      <4> QED BY <3>4, <3>6, <3>7, <4>2
    <3>8. CASE job[i].status /= "RUNNING"
      <4>1. /\ q.status \in {"CANCELLED", "DEAD_LETTER"}
            /\ q.cancelRequested => q.status = "CANCELLED"
        BY <3>2, <3>6, <3>8
      <4>2. /\ Good(q, attempts[i], Reconciled(operation[i], q.status))
            /\ Lasting(job[i], attempts[i], operation[i], q, attempts[i],
                       Reconciled(operation[i], q.status))
        BY <3>1, <3>6, <3>8, <4>1, DroppedGood
      <4> QED BY <3>4, <3>8, <4>2
    <3> QED BY <3>7, <3>8
  <2>2. CASE i \notin batch
    BY <2>2, Untouched DEF Inv, Recover, RecordJobTransition
  <2> QED BY <2>1, <2>2
<1>2. /\ job' = [i \in Job |-> job'[i]]
      /\ attempts' = [i \in Job |-> attempts'[i]]
      /\ operation' = [i \in Job |-> operation'[i]]
  BY DEF Inv, Recover, RecordJobTransition
<1> QED BY <1>1, <1>2, GoodFunctions DEF GoodStep, Inv

LEMMA TickStep ==
  ASSUME Inv, Tick
  PROVE  GoodStep
<1>1. ASSUME NEW i \in Job
      PROVE  /\ Good(job'[i], attempts'[i], operation'[i])
             /\ Lasting(job[i], attempts[i], operation[i],
                        job'[i], attempts'[i], operation'[i])
  <2>1. job'[i] = Older(job[i]) /\ Good(job[i], attempts[i], operation[i])
        /\ job[i] \in JobRow
    BY DEF Inv, Tick
  <2>2. attempts'[i] = attempts[i] /\ operation'[i] = operation[i]
    BY DEF Tick
  <2> QED BY <2>1, <2>2, OlderRow, KeptGood
<1>2. /\ job' = [i \in Job |-> job'[i]]
      /\ attempts' = [i \in Job |-> attempts'[i]]
      /\ operation' = [i \in Job |-> operation'[i]]
  BY DEF Inv, Tick
<1> QED BY <1>1, <1>2, GoodFunctions DEF GoodStep, Inv

LEMMA NextStep ==
  ASSUME Inv, [Next]_vars
  PROVE  GoodStep
<1>1. CASE Command
  BY <1>1, SubmitStep, CreateAnalysisStep, ResumeStep, ApproveStep, RejectStep,
     CancelWithoutJobStep, RequestCancelStep DEF Command
<1>2. CASE WorkerCall
  BY <1>2, ClaimStep, HeartbeatStep, SettleStep, FailStep, RecoverStep
     DEF WorkerCall
<1>3. CASE Tick
  BY <1>3, TickStep
<1>4. CASE UNCHANGED vars
  BY <1>4 DEF vars, GoodStep, Inv, Lasting
<1> QED BY <1>1, <1>2, <1>3, <1>4 DEF Next

LEMMA InitGood == Init => Inv
<1> SUFFICES ASSUME Init PROVE Inv
  OBVIOUS
<1> DEFINE Queued == {Inserted(0, t) : t \in 1 .. QueueWindow}
<1>1. \A q \in Queued : /\ q \in JobRow
                        /\ q.status = "PENDING"
                        /\ q.leaseOwner = NoWorker
                        /\ q.attemptCount = 0
                        /\ ~q.cancelRequested
  <2>1. \A t \in 1 .. QueueWindow : t \in Timer
    BY Timers, TimeAssumption
  <2> QED BY <2>1, InsertedRow, Timers
<1> HIDE DEF Queued
<1>2. <<>> \in Seq(Attempt) /\ Len(<<>>) = 0
  BY EmptySeq
<1>3. ASSUME NEW j \in Job
      PROVE  Good(job[j], attempts[j], operation[j])
  <2>1. /\ job[j] = NoRow \/ job[j] \in Queued
        /\ attempts[j] = <<>>
        /\ operation[j] = IF j \notin IngestionJob THEN Absent
                          ELSE IF job[j] = NoRow THEN "WAITING_INPUT"
                          ELSE "RUNNING"
        /\ j \notin IngestionJob => job[j] = NoRow
    BY DEF Init, Queued
  <2>2. CASE job[j] = NoRow
    <3>1. GoodRow(job[j]) /\ GoodLedger(job[j], attempts[j])
      BY <1>2, <2>1, <2>2, AbsentRow DEF GoodRow, GoodLedger, Absent
    <3>2. GoodOperation(job[j], attempts[j], operation[j])
      BY <2>1, <2>2, AbsentRow DEF GoodOperation
    <3>3. operation[j] \in OperationStatus \cup {Absent}
      BY <2>1, <2>2 DEF OperationStatus
    <3> QED BY <1>2, <2>1, <2>2, <3>1, <3>2, <3>3, AbsentRow DEF Good
  <2>3. CASE job[j] \in Queued /\ job[j] /= NoRow
    <3>1. GoodRow(job[j]) /\ GoodLedger(job[j], attempts[j])
      BY <1>1, <1>2, <2>1, <2>3 DEF GoodRow, GoodLedger, Absent
    <3>2. GoodOperation(job[j], attempts[j], operation[j])
      BY <1>1, <2>1, <2>3 DEF GoodOperation
    <3>3. operation[j] \in OperationStatus \cup {Absent}
      BY <2>1, <2>3 DEF OperationStatus
    <3> QED BY <1>1, <1>2, <2>1, <2>3, <3>1, <3>2, <3>3 DEF Good
  <2> QED BY <2>1, <2>2, <2>3
<1>4. /\ job = [j \in Job |-> job[j]]
      /\ attempts = [j \in Job |-> attempts[j]]
      /\ operation = [j \in Job |-> operation[j]]
  BY DEF Init
<1> QED BY <1>3, <1>4, GoodFunctions DEF Inv
-----------------------------------------------------------------------------
(* The theorems.                                                           *)

LEMMA InvImplies ==
  Inv => TypeOK /\ AttemptLedger /\ OperationFollowsJob /\ RetryBudget /\ CancelWins
<1> SUFFICES ASSUME Inv
             PROVE  TypeOK /\ AttemptLedger /\ OperationFollowsJob
                      /\ RetryBudget /\ CancelWins
  OBVIOUS
<1>1. TypeOK
  BY DEF Inv, TypeOK
<1>2. AttemptLedger
  BY DEF Inv, Good, GoodLedger, AttemptLedger, IsRunning
<1>3. OperationFollowsJob
  BY DEF Inv, Good, GoodOperation, OperationFollowsJob
<1>4. RetryBudget
  BY TimeAssumption DEF Inv, Good, GoodRow, RetryBudget, JobRow
<1>5. CancelWins
  BY DEF Inv, Good, GoodRow, CancelWins
<1> QED BY <1>1, <1>2, <1>3, <1>4, <1>5

\* The inductive invariant holds in every behaviour of the queue.
THEOREM QueueInvariant == Spec => []Inv
<1>1. Init => Inv
  BY InitGood
<1>2. Inv /\ [Next]_vars => Inv'
  BY NextStep DEF GoodStep
<1> QED BY <1>1, <1>2, PTL DEF Spec

\* Rows, ledgers and statuses keep their types; in particular attempt_count
\* never exceeds max_attempts and no timer falls below the skew.
THEOREM TypeCorrect == Spec => []TypeOK
BY QueueInvariant, InvImplies, PTL

\* The attempt ledger is complete and belongs to the lease.
THEOREM LedgerComplete == Spec => []AttemptLedger
BY QueueInvariant, InvImplies, PTL

\* The operation's status is what became of its job.
THEOREM OperationsFollow == Spec => []OperationFollowsJob
BY QueueInvariant, InvImplies, PTL

\* A scheduled retry still has an attempt left.
THEOREM RetriesBounded == Spec => []RetryBudget
BY QueueInvariant, InvImplies, PTL

\* A cancellation that was asked for is never overridden.
THEOREM CancellationWins == Spec => []CancelWins
BY QueueInvariant, InvImplies, PTL

\* Terminal rows, terminal operations and closed attempts never change.
THEOREM OverStaysOver == Spec => OverIsOver
<1>1. Inv /\ [Next]_vars =>
        [\A j \in Job :
           /\ job[j].status \in JobTerminal
                => /\ job'[j].status = job[j].status
                   /\ job'[j].rowVersion = job[j].rowVersion
           /\ operation[j] \in OperationTerminal => operation'[j] = operation[j]
           /\ \A k \in 1 .. Len(attempts[j]) :
                attempts[j][k].outcome /= "OPEN"
                  => attempts'[j][k] = attempts[j][k]]_vars
  BY NextStep DEF GoodStep, Lasting
<1> QED BY <1>1, QueueInvariant, PTL DEF Spec, OverIsOver

-----------------------------------------------------------------------------
(* The triggers.                                                           *)

\* The triggers let row r of job j become q, and its operation op become pq.
Allowed(j, r, op, q, pq) ==
  /\ r.status = Absent \/ q.rowVersion = r.rowVersion \/ JobUpdateAllowed(j, r, q)
  /\ op = Absent \/ pq = op \/ <<op, pq>> \in OperationEdges

LegalStep ==
  \A i \in Job : Allowed(i, job[i], operation[i], job'[i], operation'[i])

LEMMA JobEdge ==
  /\ \A s \in {"RUNNING", "CANCELLED", "DEAD_LETTER"} : <<"PENDING", s>> \in JobEdges
  /\ \A s \in {"WAITING_INPUT", "WAITING_REVIEW", "RETRY_SCHEDULED", "SUCCEEDED",
               "FAILED", "CANCELLED", "DEAD_LETTER"} : <<"RUNNING", s>> \in JobEdges
  /\ \A s \in {"PENDING", "CANCELLED", "DEAD_LETTER"} :
       <<"WAITING_INPUT", s>> \in JobEdges /\ <<"WAITING_REVIEW", s>> \in JobEdges
  /\ \A s \in {"RUNNING", "CANCELLED", "DEAD_LETTER"} :
       <<"RETRY_SCHEDULED", s>> \in JobEdges
BY DEF JobEdges

LEMMA OperationEdge ==
  /\ \A s \in {"WAITING_INPUT", "WAITING_REVIEW", "SUCCEEDED", "FAILED", "CANCELLED"} :
       <<"RUNNING", s>> \in OperationEdges
  /\ \A s \in {"RUNNING", "FAILED", "CANCELLED"} :
       <<"WAITING_INPUT", s>> \in OperationEdges
  /\ \A s \in {"RUNNING", "FAILED", "CANCELLED"} :
       <<"WAITING_REVIEW", s>> \in OperationEdges
BY DEF OperationEdges

\* A row that leaves its status along an edge, with its deadline and count.
LEMMA LeavesLegally ==
  ASSUME NEW j, NEW r \in JobRow, NEW q \in JobRow,
         q.rowVersion = r.rowVersion + 1, q.attemptCount = r.attemptCount,
         q.timeoutIn = r.timeoutIn, <<r.status, q.status>> \in JobEdges,
         q.status /= "RUNNING"
  PROVE  JobUpdateAllowed(j, r, q)
<1>1. ~IsClaim(r, q)
  BY DEF IsClaim
<1> QED BY <1>1 DEF JobUpdateAllowed, JobRow

\* Rows that are released or asked to cancel keep their deadline.
LEMMA DeadlineKept ==
  ASSUME NEW r \in JobRow, NEW s, NEW o
  PROVE  /\ Released(r, s).timeoutIn = r.timeoutIn
         /\ Rescheduled(r, s, o).timeoutIn = r.timeoutIn
         /\ Rejected(r).timeoutIn = r.timeoutIn
         /\ CancelAsked(r).timeoutIn = r.timeoutIn
<1>1. Released(r, s).timeoutIn = r.timeoutIn
  BY DEF Released, JobRow
<1>2. Rescheduled(r, s, o).timeoutIn = Released(r, s).timeoutIn
  BY DEF Rescheduled, Released, JobRow
<1>3. Rejected(r).timeoutIn = r.timeoutIn
  BY DEF Rejected, Released, JobRow
<1>4. CancelAsked(r).timeoutIn = r.timeoutIn
  BY DEF CancelAsked, JobRow
<1> QED BY <1>1, <1>2, <1>3, <1>4

\* A running row has an owner.
LEMMA RunningIsOwned ==
  ASSUME NEW r, NEW at, NEW op, Good(r, at, op), r.status = "RUNNING"
  PROVE  r.leaseOwner /= NoWorker
<1>1. /\ at \in Seq(Attempt)
      /\ r.attemptCount \in 1 .. Len(at)
      /\ r.leaseOwner = at[r.attemptCount].worker
  BY DEF Good, GoodLedger, JobRow
<1>2. at[r.attemptCount] \in Attempt
  BY <1>1
<1> QED BY <1>1, <1>2, JobsAssumption DEF Attempt

\* What a step does not write is legal.
LEMMA StaysLegal ==
  ASSUME NEW i, NEW r, NEW op, NEW q, q.rowVersion = r.rowVersion
  PROVE  Allowed(i, r, op, q, op)
BY DEF Allowed

LEMMA CreationIsLegal ==
  ASSUME Inv, NEW j \in Job, NEW o \in Offset, Submit(j, o) \/ CreateAnalysis(j, o)
  PROVE  LegalStep
<1>1. job[j].status = Absent
  BY DEF Inv, Good, GoodOperation, Submit, CreateAnalysis, Absent, OperationStatus,
     OperationTerminal
<1>2. operation[j] \in {Absent, "WAITING_INPUT"} /\ operation'[j] = "RUNNING"
  BY DEF Inv, Submit, CreateAnalysis
<1>3. Allowed(j, job[j], operation[j], job'[j], operation'[j])
  BY <1>1, <1>2, OperationEdge DEF Allowed
<1>4. ASSUME NEW i \in Job, i /= j
      PROVE  job'[i] = job[i] /\ operation'[i] = operation[i]
  BY <1>4 DEF Inv, Submit, CreateAnalysis
<1>5. attempts' = attempts
  BY DEF Submit, CreateAnalysis
<1> QED BY <1>3, <1>4, <1>5 DEF LegalStep, Allowed

LEMMA ResumeIsLegal ==
  ASSUME Inv, NEW j \in Job, NEW o \in Offset, Resume(j, o)
  PROVE  LegalStep
<1>1. job[j] \in JobRow /\ job'[j] = Unexpired(job[j])
  BY DEF Inv, Resume
<1>2. /\ IsExpiredQueueRecovery(j, job[j], job'[j])
      /\ job'[j].status = "PENDING"
      /\ job'[j].attemptCount = job[j].attemptCount
      /\ job'[j].rowVersion = job[j].rowVersion + 1
  <2>1. /\ j \in IngestionJob /\ job[j].attemptCount = 0
        /\ job[j].timeoutIn <= 0 /\ job[j].status = "PENDING"
    BY DEF Resume
  <2>2. /\ Unexpired(job[j]).status = job[j].status
        /\ Unexpired(job[j]).attemptCount = job[j].attemptCount
        /\ Unexpired(job[j]).rowVersion = job[j].rowVersion + 1
    BY <1>1 DEF Unexpired, JobRow
  <2>3. job'[j] = [job[j] EXCEPT !.timeoutIn = Forever, !.rowVersion = @ + 1]
    BY <1>1 DEF Unexpired
  <2> QED BY <1>1, <2>1, <2>2, <2>3 DEF IsExpiredQueueRecovery
<1>3. JobUpdateAllowed(j, job[j], job'[j])
  <2>1. job[j].status = "PENDING" /\ job[j].attemptCount \in Int
    BY <1>1 DEF Resume, JobRow
  <2> QED BY <1>2, <2>1 DEF JobUpdateAllowed, TimeoutMayChange, IsClaim
<1>4. ASSUME NEW i \in Job, i /= j
      PROVE  job'[i] = job[i]
  BY <1>4 DEF Inv, Resume
<1>5. attempts' = attempts /\ operation' = operation
  BY DEF Resume
<1> QED BY <1>3, <1>4, <1>5 DEF LegalStep, Allowed

LEMMA ReviewIsLegal ==
  ASSUME Inv, NEW j \in Job, NEW o \in Offset, Approve(j, o) \/ Reject(j)
  PROVE  LegalStep
<1>1. job[j] \in JobRow /\ job[j].status = "WAITING_REVIEW"
  BY DEF Inv, Approve, Reject
<1>2. JobUpdateAllowed(j, job[j], job'[j])
  <2>1. CASE Approve(j, o)
    <3>1. job'[j] = Woken(job[j], o)
      BY <2>1 DEF Inv, Approve
    <3>2. /\ job'[j].status = "PENDING"
          /\ job'[j].attemptCount = job[j].attemptCount
          /\ job'[j].rowVersion = job[j].rowVersion + 1
      BY <1>1, <3>1, WokenRow
    <3>3. job[j].attemptCount \in Int
      BY <1>1 DEF JobRow
    <3> QED BY <1>1, <3>2, <3>3, JobEdge
              DEF JobUpdateAllowed, TimeoutMayChange, IsClaim
  <2>2. CASE Reject(j)
    <3>1. job'[j] = Rejected(job[j])
      BY <2>2 DEF Inv, Reject
    <3>2. /\ job'[j] \in JobRow
          /\ job'[j].status = "CANCELLED"
          /\ job'[j].attemptCount = job[j].attemptCount
          /\ job'[j].rowVersion = job[j].rowVersion + 1
          /\ job'[j].timeoutIn = job[j].timeoutIn
      BY <1>1, <3>1, RejectedRow, DeadlineKept
    <3> QED BY <1>1, <3>2, LeavesLegally, JobEdge
  <2> QED BY <2>1, <2>2
<1>3. operation[j] = "WAITING_REVIEW" /\ operation'[j] \in {"RUNNING", "FAILED"}
  BY DEF Inv, Approve, Reject
<1>4. Allowed(j, job[j], operation[j], job'[j], operation'[j])
  BY <1>2, <1>3, OperationEdge DEF Allowed
<1>5. ASSUME NEW i \in Job, i /= j
      PROVE  job'[i] = job[i] /\ operation'[i] = operation[i]
  BY <1>5 DEF Inv, Approve, Reject
<1>6. attempts' = attempts
  BY DEF Approve, Reject
<1> QED BY <1>4, <1>5, <1>6 DEF LegalStep, Allowed

LEMMA CancelWithoutJobIsLegal ==
  ASSUME Inv, NEW j \in Job, CancelWithoutJob(j)
  PROVE  LegalStep
<1>1. operation[j] \in {"RUNNING", "WAITING_INPUT", "WAITING_REVIEW"}
  BY DEF CancelWithoutJob, OperationStatus, OperationTerminal
<1>2. operation'[j] = "CANCELLED"
  BY DEF Inv, CancelWithoutJob
<1>3. <<operation[j], operation'[j]>> \in OperationEdges
  BY <1>1, <1>2, OperationEdge
<1>4. ASSUME NEW i \in Job, i /= j
      PROVE  operation'[i] = operation[i]
  BY <1>4 DEF Inv, CancelWithoutJob
<1>5. job' = job /\ attempts' = attempts
  BY DEF CancelWithoutJob
<1> QED BY <1>3, <1>4, <1>5 DEF LegalStep, Allowed

LEMMA RequestCancelIsLegal ==
  ASSUME Inv, NEW j \in Job, RequestCancel(j)
  PROVE  LegalStep
<1> DEFINE r == job[j]
           q == CancelAsked(r)
<1>1. /\ r \in JobRow
      /\ r.status \in {"PENDING", "RUNNING", "RETRY_SCHEDULED", "WAITING_INPUT",
                       "WAITING_REVIEW"}
      /\ job'[j] = q
      /\ operation'[j] = Reconciled(operation[j], q.status)
  BY DEF Inv, RequestCancel, RecordJobTransition, JobStatus, JobTerminal
<1>2. /\ q \in JobRow
      /\ q.status = IF r.status = "RUNNING" THEN "RUNNING" ELSE "CANCELLED"
      /\ q.leaseOwner = r.leaseOwner
      /\ q.attemptCount = r.attemptCount
      /\ q.cancelRequested
      /\ q.rowVersion = r.rowVersion + 1
      /\ q.timeoutIn = r.timeoutIn
  BY <1>1, CancelAskedRow, DeadlineKept
<1>3. /\ q.nextAttemptIn = r.nextAttemptIn
      /\ q.leaseIn = r.leaseIn
      /\ q.heartbeatIn = r.heartbeatIn
  BY <1>1 DEF CancelAsked, JobRow
<1>4. /\ r.status = "RUNNING" => operation[j] = "RUNNING"
      /\ operation[j] \in {"RUNNING", "WAITING_INPUT", "WAITING_REVIEW"}
  BY <1>1 DEF Inv, Good, GoodOperation, Absent
<1> HIDE DEF q
<1>5. JobUpdateAllowed(j, r, q)
  <2>1. CASE r.status = "RUNNING"
    <3>1. r.attemptCount \in Int
      BY <1>1 DEF JobRow
    <3>2. r.leaseOwner /= NoWorker
      BY <2>1, RunningIsOwned DEF Inv
    <3> QED BY <1>2, <1>3, <2>1, <3>1, <3>2
              DEF JobUpdateAllowed, RunningUpdateAllowed, IsClaim
  <2>2. CASE r.status /= "RUNNING"
    BY <1>1, <1>2, <2>2, JobEdge, LeavesLegally
  <2> QED BY <2>1, <2>2
<1>6. operation'[j] = operation[j] \/ <<operation[j], operation'[j]>> \in OperationEdges
  BY <1>1, <1>2, <1>4, OperationEdge DEF Reconciled, OperationStatus, OperationTerminal
<1>7. ASSUME NEW i \in Job, i /= j
      PROVE  job'[i] = job[i] /\ operation'[i] = operation[i]
  BY <1>7 DEF Inv, RequestCancel, RecordJobTransition
<1>8. attempts' = attempts
  BY DEF RequestCancel
<1> QED BY <1>1, <1>5, <1>6, <1>7, <1>8 DEF LegalStep, Allowed

LEMMA ClaimIsLegal ==
  ASSUME Inv, NEW w \in Worker, NEW batch \in SUBSET Job, Claim(w, batch)
  PROVE  LegalStep
<1>1. ASSUME NEW i \in Job
      PROVE  Allowed(i, job[i], operation[i], job'[i], operation'[i])
  <2>1. CASE i \notin batch
    <3>1. job'[i] = job[i] /\ attempts'[i] = attempts[i] /\ operation'[i] = operation[i]
      BY <2>1 DEF Inv, Claim, RecordJobTransition
    <3> QED BY <3>1, StaysLegal
  <2>2. CASE i \in batch
    <3> DEFINE r == job[i]
               d == Deadline(i)
               q == Claimed(r, w, d)
    <3>1. d \in Timer
      BY Timers DEF Inv, Deadline, JobRow
    <3>2. /\ job'[i] = q
          /\ operation'[i] = Reconciled(operation[i], q.status)
          /\ r \in JobRow
          /\ Good(r, attempts[i], operation[i])
          /\ r.status \in {"PENDING", "RETRY_SCHEDULED"}
          /\ r.attemptCount < MaxAttempts
      BY <2>2 DEF Inv, Claim, Claimable, RecordJobTransition
    <3>3. /\ q.status = "RUNNING"
          /\ q.attemptCount = r.attemptCount + 1
          /\ q.rowVersion = r.rowVersion + 1
          /\ q.timeoutIn = d
      BY <3>1, <3>2, ClaimedRow DEF Claimed, JobRow
    <3>4. IsClaim(r, q)
      BY <3>2, <3>3 DEF IsClaim
    <3>5. q.timeoutIn = r.timeoutIn \/ TimeoutMayChange(i, r, q)
      BY <3>3, <3>4, TimeAssumption DEF Deadline, TimeoutMayChange
    <3>6. <<r.status, q.status>> \in JobEdges
      BY <3>2, <3>3, JobEdge
    <3> HIDE DEF q
    <3>7. JobUpdateAllowed(i, r, q)
      BY <3>2, <3>3, <3>4, <3>5, <3>6 DEF JobUpdateAllowed
    <3>8. operation[i] = "RUNNING"
      BY <3>2 DEF Good, GoodOperation, Absent
    <3>9. operation'[i] = operation[i]
      BY <3>2, <3>3, <3>8 DEF Reconciled, OperationStatus, OperationTerminal
    <3> QED BY <3>2, <3>7, <3>9 DEF Allowed
  <2> QED BY <2>1, <2>2
<1> QED BY <1>1 DEF LegalStep

LEMMA HeartbeatIsLegal ==
  ASSUME Inv, NEW w, NEW v, NEW j \in Job, NEW o \in Offset, Heartbeat(w, j, v, o)
  PROVE  LegalStep
<1> DEFINE r == job[j]
           q == Renewed(r, o)
<1>1. r \in JobRow /\ r.status = "RUNNING" /\ job'[j] = q /\ r.heartbeatIn <= o
  BY DEF Inv, Heartbeat, Holds
<1>2. /\ q.status = "RUNNING"
      /\ q.leaseOwner = r.leaseOwner
      /\ q.nextAttemptIn = r.nextAttemptIn
      /\ q.cancelRequested = r.cancelRequested
      /\ q.heartbeatIn = o
      /\ q.timeoutIn = r.timeoutIn
      /\ q.attemptCount = r.attemptCount
      /\ q.rowVersion = r.rowVersion + 1
  BY <1>1 DEF Renewed, JobRow
<1>3. r.attemptCount \in Int /\ r.leaseOwner /= NoWorker
  BY <1>1, RunningIsOwned DEF Inv, JobRow
<1>4. q.leaseIn /= Forever /\ q.heartbeatIn /= Forever
  <2>1. q.leaseIn = Earlier(LeaseTime, r.timeoutIn)
    BY <1>1 DEF Renewed, JobRow
  <2>2. r.timeoutIn \in Int
    BY <1>1 DEF JobRow, Timer
  <2> HIDE DEF q
  <2> QED BY <1>2, <2>1, <2>2, TimeAssumption DEF Earlier, Offset
<1> HIDE DEF q
<1>5. JobUpdateAllowed(j, r, q)
  BY <1>1, <1>2, <1>3, <1>4 DEF JobUpdateAllowed, RunningUpdateAllowed, IsClaim
<1>6. ASSUME NEW i \in Job, i /= j
      PROVE  job'[i] = job[i]
  BY <1>6 DEF Inv, Heartbeat
<1>7. attempts' = attempts /\ operation' = operation
  BY DEF Heartbeat
<1> QED BY <1>1, <1>5, <1>6, <1>7 DEF LegalStep, Allowed

\* An attempt that ends: the row goes along an edge and so does its operation.
LEMMA EndIsLegal ==
  ASSUME NEW j, NEW r, NEW at, NEW op, Good(r, at, op),
         r.status \in JobStatus \ JobTerminal,
         NEW q \in JobRow,
         q.rowVersion = r.rowVersion + 1, q.attemptCount = r.attemptCount,
         q.timeoutIn = r.timeoutIn,
         \/ /\ r.status = "RUNNING"
            /\ q.status \in {"WAITING_INPUT", "WAITING_REVIEW", "RETRY_SCHEDULED",
                             "SUCCEEDED", "FAILED", "CANCELLED", "DEAD_LETTER"}
         \/ q.status \in {"CANCELLED", "DEAD_LETTER"}
  PROVE  Allowed(j, r, op, q, Reconciled(op, q.status))
<1>1. /\ r \in JobRow
      /\ r.status \in {"PENDING", "RUNNING", "RETRY_SCHEDULED", "WAITING_INPUT",
                       "WAITING_REVIEW"}
      /\ r.status = "RUNNING" => op = "RUNNING"
      /\ op \in {"RUNNING", "WAITING_INPUT", "WAITING_REVIEW"}
  BY DEF Good, GoodOperation, JobStatus, JobTerminal, Absent
<1>2. <<r.status, q.status>> \in JobEdges
  BY <1>1, JobEdge
<1>3. JobUpdateAllowed(j, r, q)
  BY <1>1, <1>2, LeavesLegally
<1>4. \/ Reconciled(op, q.status) = op
      \/ <<op, Reconciled(op, q.status)>> \in OperationEdges
  <2>1. CASE r.status = "RUNNING"
    BY <1>1, <2>1, OperationEdge DEF Reconciled, OperationStatus, OperationTerminal
  <2>2. CASE q.status \in {"CANCELLED", "DEAD_LETTER"}
    BY <1>1, <2>2, OperationEdge DEF Reconciled, OperationStatus, OperationTerminal
  <2> QED BY <2>1, <2>2
<1> QED BY <1>3, <1>4 DEF Allowed

LEMMA SettleIsLegal ==
  ASSUME Inv, NEW w, NEW v, NEW j \in Job, NEW requested \in SettleStatus,
         Settle(w, j, v, requested)
  PROVE  LegalStep
<1> DEFINE target == IF job[j].cancelRequested THEN "CANCELLED" ELSE requested
           q == Released(job[j], target)
<1>1. /\ Good(job[j], attempts[j], operation[j])
      /\ job[j] \in JobRow
      /\ job[j].status = "RUNNING"
  BY DEF Inv, Settle, Holds
<1>2. target \in {"SUCCEEDED", "WAITING_INPUT", "WAITING_REVIEW", "CANCELLED"}
  BY DEF SettleStatus
<1>3. target \in JobStatus /\ job[j].status \in JobStatus \ JobTerminal
  BY <1>1, <1>2 DEF JobStatus, JobTerminal
<1>4. /\ job'[j] = q
      /\ attempts'[j] = Closed(attempts[j], job[j].attemptCount, target, "NONE")
      /\ operation'[j] = Reconciled(operation[j], job'[j].status)
  BY DEF Inv, Settle, RecordJobTransition
<1> HIDE DEF target
<1>5. /\ q \in JobRow
      /\ q.status = target
      /\ q.attemptCount = job[j].attemptCount
      /\ q.rowVersion = job[j].rowVersion + 1
      /\ q.timeoutIn = job[j].timeoutIn
  BY <1>1, <1>3, ReleasedRow, DeadlineKept
<1> HIDE DEF q
<1>6. Allowed(j, job[j], operation[j], job'[j], operation'[j])
  BY <1>1, <1>2, <1>3, <1>4, <1>5, EndIsLegal
<1>7. ASSUME NEW i \in Job, i /= j
      PROVE  job'[i] = job[i] /\ attempts'[i] = attempts[i]
             /\ operation'[i] = operation[i]
  BY <1>7 DEF Inv, Settle, RecordJobTransition
<1> QED BY <1>6, <1>7 DEF LegalStep, Allowed

LEMMA FailIsLegal ==
  ASSUME Inv, NEW w, NEW v, NEW j \in Job, NEW retryable \in BOOLEAN,
         NEW o \in Offset, Fail(w, j, v, retryable, o)
  PROVE  LegalStep
<1> DEFINE target == FailureTarget(j, retryable)
           q == Rescheduled(job[j], target, o)
<1>1. /\ Good(job[j], attempts[j], operation[j])
      /\ job[j] \in JobRow
      /\ job[j].status = "RUNNING"
  BY DEF Inv, Fail, Holds
<1>2. target \in {"CANCELLED", "FAILED", "DEAD_LETTER", "RETRY_SCHEDULED"}
  BY DEF FailureTarget
<1>3. target \in JobStatus /\ job[j].status \in JobStatus \ JobTerminal
  BY <1>1, <1>2 DEF JobStatus, JobTerminal
<1>4. /\ job'[j] = q
      /\ attempts'[j] = Closed(attempts[j], job[j].attemptCount, target, "HANDLER")
      /\ operation'[j] = Reconciled(operation[j], job'[j].status)
  BY DEF Inv, Fail, RecordJobTransition
<1> HIDE DEF target
<1>5. /\ q \in JobRow
      /\ q.status = target
      /\ q.attemptCount = job[j].attemptCount
      /\ q.rowVersion = job[j].rowVersion + 1
      /\ q.timeoutIn = job[j].timeoutIn
  BY <1>1, <1>3, RescheduledRow, DeadlineKept
<1> HIDE DEF q
<1>6. Allowed(j, job[j], operation[j], job'[j], operation'[j])
  BY <1>1, <1>2, <1>3, <1>4, <1>5, EndIsLegal
<1>7. ASSUME NEW i \in Job, i /= j
      PROVE  job'[i] = job[i] /\ attempts'[i] = attempts[i]
             /\ operation'[i] = operation[i]
  BY <1>7 DEF Inv, Fail, RecordJobTransition
<1> QED BY <1>6, <1>7 DEF LegalStep, Allowed

LEMMA RecoverIsLegal ==
  ASSUME Inv, NEW o \in Offset, NEW batch \in SUBSET Job, Recover(o, batch)
  PROVE  LegalStep
<1>1. ASSUME NEW i \in Job
      PROVE  Allowed(i, job[i], operation[i], job'[i], operation'[i])
  <2>1. CASE i \notin batch
    <3>1. job'[i] = job[i] /\ attempts'[i] = attempts[i] /\ operation'[i] = operation[i]
      BY <2>1 DEF Inv, Recover, RecordJobTransition
    <3> QED BY <3>1, StaysLegal
  <2>2. CASE i \in batch
    <3> DEFINE target == RecoveryTarget(i, o)
               q == Rescheduled(job[i], target, o)
    <3>1. /\ Good(job[i], attempts[i], operation[i])
          /\ job[i] \in JobRow
          /\ job[i].status \in JobStatus \ JobTerminal
          /\ Recoverable(i, o)
      BY <2>2 DEF Inv, Recover, Recoverable
    <3>2. /\ target \in {"CANCELLED", "DEAD_LETTER", "RETRY_SCHEDULED"}
          /\ target = "RETRY_SCHEDULED" => job[i].status = "RUNNING"
      BY <3>1 DEF RecoveryTarget, Recoverable
    <3>3. target \in JobStatus
      BY <3>2 DEF JobStatus, JobTerminal
    <3>4. /\ job'[i] = q
          /\ operation'[i] = Reconciled(operation[i], job'[i].status)
      BY <2>2 DEF Inv, Recover, RecordJobTransition
    <3> HIDE DEF target
    <3>5. /\ q \in JobRow
          /\ q.status = target
          /\ q.attemptCount = job[i].attemptCount
          /\ q.rowVersion = job[i].rowVersion + 1
          /\ q.timeoutIn = job[i].timeoutIn
      BY <3>1, <3>3, RescheduledRow, DeadlineKept
    <3> HIDE DEF q
    <3> QED BY <3>1, <3>2, <3>4, <3>5, EndIsLegal
  <2> QED BY <2>1, <2>2
<1> QED BY <1>1 DEF LegalStep

LEMMA TickIsLegal ==
  ASSUME Inv, Tick
  PROVE  LegalStep
<1>1. ASSUME NEW i \in Job
      PROVE  job'[i].rowVersion = job[i].rowVersion
  <2>1. job'[i] = Older(job[i]) /\ job[i] \in JobRow
    BY DEF Inv, Tick
  <2> QED BY <2>1 DEF Older, JobRow
<1>2. attempts' = attempts /\ operation' = operation
  BY DEF Tick
<1> QED BY <1>1, <1>2, StaysLegal DEF LegalStep

LEMMA NextIsLegal ==
  ASSUME Inv, [Next]_vars
  PROVE  LegalStep
<1>1. CASE Command
  <2>1. 0 \in Offset
    BY TimeAssumption DEF Offset
  <2> QED BY <1>1, <2>1, CreationIsLegal, ResumeIsLegal, ReviewIsLegal,
             CancelWithoutJobIsLegal, RequestCancelIsLegal DEF Command
<1>2. CASE WorkerCall
  BY <1>2, ClaimIsLegal, HeartbeatIsLegal, SettleIsLegal, FailIsLegal, RecoverIsLegal
     DEF WorkerCall
<1>3. CASE Tick
  BY <1>3, TickIsLegal
<1>4. CASE UNCHANGED vars
  BY <1>4 DEF vars, LegalStep, Allowed
<1> QED BY <1>1, <1>2, <1>3, <1>4 DEF Next

\* No function attempts an update that the triggers of the two tables refuse.
THEOREM TriggersNeverRefuse == Spec => TriggersAgree
<1>1. Inv /\ [Next]_vars =>
        [\A j \in Job :
           /\ \/ job[j].status = Absent
              \/ job'[j].rowVersion = job[j].rowVersion
              \/ JobUpdateAllowed(j, job[j], job'[j])
           /\ \/ operation[j] = Absent
              \/ operation'[j] = operation[j]
              \/ <<operation[j], operation'[j]>> \in OperationEdges]_vars
  BY NextIsLegal DEF LegalStep, Allowed
<1> QED BY <1>1, QueueInvariant, PTL DEF Spec, TriggersAgree
=============================================================================
