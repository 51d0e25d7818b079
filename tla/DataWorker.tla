------------------------------ MODULE DataWorker ------------------------------
(***************************************************************************)
(* The processes that work the job queue: DataWorkerScheduler's poll loop, *)
(* its in-flight handlers with their heartbeats, and its shutdown, on top  *)
(* of the queue in the database.                                           *)
(*                                                                         *)
(* A call to the database is three steps: it is sent with the lease the    *)
(* process holds then, its transaction commits or is refused, and the      *)
(* answer arrives.  Anything may happen between two of them; a broken      *)
(* connection loses the answer, a crash loses the process.                 *)
(*                                                                         *)
(* Attempt n of a job is claimed by one worker, so the executions of       *)
(* processJob are indexed by job and attempt.                              *)
(***************************************************************************)
EXTENDS DataJobs

CONSTANTS
  HandlerResult,  \* what handlers return
  ClaimLimit,     \* claimLimit of processOnce
  MaxFaults       \* bound of the model on crashes, lost answers and shutdowns

ASSUME WorkerAssumption ==
  /\ HandlerResult \subseteq SettleStatus
  /\ ClaimLimit \in Nat \ {0}
  /\ MaxFaults \in Nat

VARIABLES
  loop,      \* loop[w]: where start() and stop() of worker w are
  aborted,   \* aborted[w]: its signal is aborted
  run,       \* run[j][n]: the execution of attempt n of job j
  faults     \* what went wrong so far

processVars == <<loop, aborted, run, faults>>
workerVars == <<job, attempts, operation, loop, aborted, run, faults>>

Calls == {"none", "sent", "done", "refused"}

\* lease and the versions a call was sent with are row versions.
Run ==
  [phase : {"idle", "handling", "settling", "failing"},
   lease : Nat,
   awaited : BOOLEAN,        \* a processOnce awaits it
   verdict : SettleStatus \cup {"NONE", "RETRY", "FATAL"},
   call : Calls,             \* its settle or fail
   callVersion : Nat,
   beat : Calls,             \* its heartbeat
   beatVersion : Nat]

NoRun == [phase |-> "idle", lease |-> 0, awaited |-> FALSE,
          verdict |-> "NONE", call |-> "none", callVersion |-> 0,
          beat |-> "none", beatVersion |-> 0]

AttemptNumber == 1 .. MaxAttempts

WorkerTypeOK ==
  /\ TypeOK
  /\ loop \in [Worker -> {"poll", "claim", "await", "draining", "stopped"}]
  /\ aborted \in [Worker -> BOOLEAN]
  /\ run \in [Job -> [AttemptNumber -> Run]]
  /\ faults \in 0 .. MaxFaults

-----------------------------------------------------------------------------
Owner(j, n) == attempts[j][n].worker
Active(j, n) == run[j][n].phase /= "idle"
RunsOf(w) == {x \in Job \X AttemptNumber :
                x[2] <= Len(attempts[x[1]]) /\ Owner(x[1], x[2]) = w}
InFlight(w) == {x \in RunsOf(w) : Active(x[1], x[2])}

Faulty == faults < MaxFaults /\ faults' = faults + 1

\* The execution of attempt n of job j goes on to new.
Proceed(j, n, new) == run' = [run EXCEPT ![j][n] = new]

-----------------------------------------------------------------------------
(* processOnce and start.                                                  *)

\* recoverTimedOut commits: whatever is cancelled, late or abandoned.
PollRecovers(w, o) ==
  /\ loop[w] = "poll"
  /\ ~aborted[w]
  /\ Recover(o, {j \in Job : Recoverable(j, o)})
  /\ loop' = [loop EXCEPT ![w] = "claim"]
  /\ UNCHANGED <<aborted, run, faults>>

Started(j) == [NoRun EXCEPT !.phase = "handling", !.awaited = TRUE,
                            !.lease = job'[j].rowVersion]

\* claim commits, and the batch is on its way: up to ClaimLimit due jobs,
\* however many are in flight from a batch that processOnce gave up on.
PollClaims(w, batch) ==
  /\ loop[w] = "claim"
  /\ Cardinality(batch) <= ClaimLimit
  /\ batch = {} => \A j \in Job : ~Claimable(j)
  /\ Claim(w, batch)
  /\ loop' = [loop EXCEPT ![w] = "await"]
  /\ run' = [j \in Job |->
       IF j \in batch
         THEN [run[j] EXCEPT ![job'[j].attemptCount] = Started(j)]
         ELSE run[j]]
  /\ UNCHANGED <<aborted, faults>>

\* claim commits and its answer is lost: start logs an error and polls again,
\* and nobody in the process knows of the batch that is leased to it.
ClaimLost(w, batch) ==
  /\ loop[w] = "claim"
  /\ Faulty
  /\ Cardinality(batch) \in 1 .. ClaimLimit
  /\ Claim(w, batch)
  /\ loop' = [loop EXCEPT ![w] = "poll"]
  /\ UNCHANGED <<aborted, run>>

\* Promise.all is over; an empty batch is, too.
PollEnds(w) ==
  /\ loop[w] = "await"
  /\ \A x \in InFlight(w) : ~run[x[1]][x[2]].awaited
  /\ loop' = [loop EXCEPT ![w] = "poll"]
  /\ UNCHANGED <<job, attempts, operation, aborted, run, faults>>

-----------------------------------------------------------------------------
(* processJob.                                                             *)

\* A settle or fail is sent with the lease of the moment.
Sends(old, phase) ==
  [old EXCEPT !.phase = phase, !.call = "sent", !.callVersion = old.lease]

\* The handler returns a result, or throws an error that may be retryable.
HandlerEnds(j, n, verdict) ==
  /\ run[j][n].phase = "handling"
  /\ verdict \in HandlerResult \cup {"RETRY", "FATAL"}
  /\ Proceed(j, n, Sends([run[j][n] EXCEPT !.verdict = verdict],
                         IF verdict \in SettleStatus THEN "settling" ELSE "failing"))
  /\ UNCHANGED <<job, attempts, operation, loop, aborted, faults>>

\* The transaction of the settle or fail commits.
CallCommits(j, n, o) ==
  LET r == run[j][n]
      w == Owner(j, n)
  IN  /\ Active(j, n)
      /\ r.call = "sent"
      /\ IF r.phase = "settling"
           THEN Settle(w, j, r.callVersion, r.verdict)
           ELSE Fail(w, j, r.callVersion, r.verdict /= "FATAL", o)
      /\ Proceed(j, n, [r EXCEPT !.call = "done"])
      /\ UNCHANGED <<loop, aborted, faults>>

\* The fence refuses it: an SQLSTATE 55000 that settle and fail pass on as is.
CallRefused(j, n) ==
  /\ Active(j, n)
  /\ run[j][n].call = "sent"
  /\ ~Holds(Owner(j, n), j, run[j][n].callVersion)
  /\ Proceed(j, n, [run[j][n] EXCEPT !.call = "refused"])
  /\ UNCHANGED <<job, attempts, operation, loop, aborted, faults>>

\* The connection breaks before or after the commit.
CallBreaks(j, n) ==
  /\ Active(j, n)
  /\ run[j][n].call \in {"sent", "done"}
  /\ Faulty
  /\ Proceed(j, n, [run[j][n] EXCEPT !.call = "refused"])
  /\ UNCHANGED <<job, attempts, operation, loop, aborted>>

\* An execution that is over; its heartbeat may still be under way.
Over(old) == [NoRun EXCEPT !.beat = old.beat, !.beatVersion = old.beatVersion]

CallSucceeds(j, n) ==
  /\ run[j][n].call = "done"
  /\ Proceed(j, n, Over(run[j][n]))
  /\ UNCHANGED <<job, attempts, operation, loop, aborted, faults>>

\* processJob catches whatever settle throws as an unexpected error of the
\* handler, retryable, and fails the job with the lease it holds by now.
SettleThrows(j, n) ==
  /\ run[j][n].phase = "settling"
  /\ run[j][n].call = "refused"
  /\ Proceed(j, n, Sends(run[j][n], "failing"))
  /\ UNCHANGED <<job, attempts, operation, loop, aborted, faults>>

\* What fail throws rejects processJob, and with it Promise.all: processOnce
\* rejects, start logs it and polls again, and the others of the batch are
\* still in flight.
FailThrows(j, n) ==
  LET w == Owner(j, n)
      forgotten(i, m, r) == [r EXCEPT !.awaited =
                               @ /\ ~(m <= Len(attempts[i]) /\ Owner(i, m) = w)]
  IN  /\ run[j][n].phase = "failing"
      /\ run[j][n].call = "refused"
      /\ IF run[j][n].awaited
           THEN run' = [i \in Job |-> [m \in AttemptNumber |->
                  IF <<i, m>> = <<j, n>> THEN Over(run[j][n])
                  ELSE forgotten(i, m, run[i][m])]]
           ELSE Proceed(j, n, Over(run[j][n]))
      /\ UNCHANGED <<job, attempts, operation, loop, aborted, faults>>

-----------------------------------------------------------------------------
(* The heartbeat of an execution: one at a time, until processJob ends.    *)

BeatSent(j, n) ==
  /\ Active(j, n)
  /\ run[j][n].beat = "none"
  /\ run[j][n].lease < MaxRowVersion
  /\ Proceed(j, n, [run[j][n] EXCEPT !.beat = "sent",
                                     !.beatVersion = run[j][n].lease])
  /\ UNCHANGED <<job, attempts, operation, loop, aborted, faults>>

BeatCommits(j, n, o) ==
  /\ run[j][n].beat = "sent"
  /\ Heartbeat(Owner(j, n), j, run[j][n].beatVersion, o)
  /\ Proceed(j, n, [run[j][n] EXCEPT !.beat = "done"])
  /\ UNCHANGED <<loop, aborted, faults>>

BeatRefused(j, n, o) ==
  /\ run[j][n].beat = "sent"
  /\ \/ ~Holds(Owner(j, n), j, run[j][n].beatVersion)
     \/ job[j].heartbeatIn > o
  /\ Proceed(j, n, [run[j][n] EXCEPT !.beat = "refused"])
  /\ UNCHANGED <<job, attempts, operation, loop, aborted, faults>>

BeatBreaks(j, n) ==
  /\ run[j][n].beat \in {"sent", "done"}
  /\ Faulty
  /\ Proceed(j, n, [run[j][n] EXCEPT !.beat = "refused"])
  /\ UNCHANGED <<job, attempts, operation, loop, aborted>>

\* A renewal replaces the lease; a failure is only logged.
BeatAnswered(j, n) ==
  /\ run[j][n].beat \in {"done", "refused"}
  /\ Proceed(j, n,
       [run[j][n] EXCEPT !.beat = "none", !.beatVersion = 0,
          !.lease = IF run[j][n].beat = "done" /\ Active(j, n)
                      THEN run[j][n].beatVersion + 1 ELSE @])
  /\ UNCHANGED <<job, attempts, operation, loop, aborted, faults>>

-----------------------------------------------------------------------------
(* Shutdown and crash.                                                     *)

\* SIGTERM; only the head of the loop looks at the signal.
Abort(w) ==
  /\ ~aborted[w]
  /\ loop[w] \in {"poll", "claim", "await"}
  /\ Faulty
  /\ aborted' = [aborted EXCEPT ![w] = TRUE]
  /\ UNCHANGED <<job, attempts, operation, loop, run>>

\* start returns, and stop awaits what is in flight.
Drain(w) ==
  /\ loop[w] = "poll"
  /\ aborted[w]
  /\ loop' = [loop EXCEPT ![w] = "draining"]
  /\ UNCHANGED <<job, attempts, operation, aborted, run, faults>>

\* Everything in flight has ended: the pool closes and the process exits, or
\* stop rejected and the process exits when it has nothing left to do.
Stop(w) ==
  /\ loop[w] = "draining"
  /\ InFlight(w) = {}
  /\ loop' = [loop EXCEPT ![w] = "stopped"]
  /\ UNCHANGED <<job, attempts, operation, aborted, run, faults>>

\* What a process had in mind is gone when it ends.
Forgotten(w) ==
  run' = [j \in Job |-> [n \in AttemptNumber |->
            IF <<j, n>> \in RunsOf(w) THEN NoRun ELSE run[j][n]]]

\* The process dies, and is started again under its worker id.
Crash(w) ==
  /\ loop[w] /= "stopped"
  /\ Faulty
  /\ Forgotten(w)
  /\ loop' = [loop EXCEPT ![w] = "poll"]
  /\ aborted' = [aborted EXCEPT ![w] = FALSE]
  /\ UNCHANGED <<job, attempts, operation>>

Restart(w) ==
  /\ loop[w] = "stopped"
  /\ Forgotten(w)
  /\ loop' = [loop EXCEPT ![w] = "poll"]
  /\ aborted' = [aborted EXCEPT ![w] = FALSE]
  /\ UNCHANGED <<job, attempts, operation, faults>>

-----------------------------------------------------------------------------
\* Nothing legacy is queued when the workers start.
WorkerInit ==
  /\ Init
  /\ job = [j \in Job |-> NoRow]
  /\ loop = [w \in Worker |-> "poll"]
  /\ aborted = [w \in Worker |-> FALSE]
  /\ run = [j \in Job |-> [n \in AttemptNumber |-> NoRun]]
  /\ faults = 0

LoopStep(w) ==
  \/ \E o \in Offset : PollRecovers(w, o)
  \/ \E batch \in SUBSET Job : PollClaims(w, batch)
  \/ PollEnds(w)
  \/ Drain(w)
  \/ Stop(w)
  \/ Restart(w)

CallStep(j, n) ==
  \/ \E o \in Offset : CallCommits(j, n, o)
  \/ CallRefused(j, n)
  \/ CallSucceeds(j, n)
  \/ SettleThrows(j, n)
  \/ FailThrows(j, n)

HandlerStep(j, n) ==
  \E verdict \in HandlerResult \cup {"RETRY", "FATAL"} : HandlerEnds(j, n, verdict)

BeatStep(j, n) ==
  \/ BeatSent(j, n)
  \/ \E o \in Offset : BeatCommits(j, n, o) \/ BeatRefused(j, n, o)
  \/ BeatAnswered(j, n)

FaultStep ==
  \/ \E j \in Job, n \in AttemptNumber : CallBreaks(j, n) \/ BeatBreaks(j, n)
  \/ \E w \in Worker, batch \in SUBSET Job : ClaimLost(w, batch)
  \/ \E w \in Worker : Abort(w) \/ Crash(w)

WorkerNext ==
  \/ \E w \in Worker : LoopStep(w)
  \/ \E j \in Job, n \in AttemptNumber :
       CallStep(j, n) \/ HandlerStep(j, n) \/ BeatStep(j, n)
  \/ FaultStep
  \/ Command /\ UNCHANGED processVars
  \/ Tick /\ UNCHANGED processVars

WorkerSpec == WorkerInit /\ [][WorkerNext]_workerVars

\* Processes run, the database answers, handlers return or throw, and time
\* passes.  Heartbeats come from a timer, and nothing is claimed for them.
WorkerFairness ==
  /\ \A w \in Worker : WF_workerVars(LoopStep(w))
  /\ \A j \in Job, n \in AttemptNumber :
       WF_workerVars(CallStep(j, n)) /\ WF_workerVars(HandlerStep(j, n))
  /\ WF_workerVars(Tick /\ UNCHANGED processVars)

FairWorkerSpec == WorkerSpec /\ WorkerFairness

-----------------------------------------------------------------------------
(* Properties.                                                             *)

\* The fence is exact: the versions that an execution holds or has sent pass
\* the fence of the database only while its own attempt is the one that runs.
\* A worker that was slow, cut off or restarted never writes for a later
\* attempt, not even under its own worker id.
FenceIsExact ==
  \A j \in Job, n \in AttemptNumber :
    \A v \in {run[j][n].lease, run[j][n].callVersion, run[j][n].beatVersion} \ {0} :
      Holds(Owner(j, n), j, v) => n = job[j].attemptCount

\* The settle or fail of attempt n closes that attempt, which was open, and
\* nothing else.
ClosesItsOwnOnly(j, n) ==
  /\ n = Len(attempts[j])
  /\ attempts[j][n].outcome = "OPEN"
  /\ attempts'[j][n].outcome /= "OPEN"
  /\ \A m \in 1 .. Len(attempts[j]) : m /= n => attempts'[j][m] = attempts[j][m]
  /\ \A i \in Job \ {j} : attempts'[i] = attempts[i]

\* A worker that was slow, cut off or restarted decides nothing about another
\* attempt than its own: a call that commits closes the attempt it was sent
\* for.
ClosesItsOwn ==
  [][\A j \in Job, n \in AttemptNumber :
       run[j][n].call = "sent" /\ run'[j][n].call = "done"
         => ClosesItsOwnOnly(j, n)]_workerVars

\* A job that runs stops running: by its handler, or by a recovery of some
\* worker when its own is gone.
RunningEnds ==
  \A j \in Job : job[j].status = "RUNNING" ~> job[j].status /= "RUNNING"

\* A retry that is scheduled is taken up, or the job is cancelled or given up.
RetryIsTaken ==
  \A j \in Job :
    job[j].status = "RETRY_SCHEDULED" ~> job[j].status /= "RETRY_SCHEDULED"

\* A cancellation that was asked for ends the operation.
CancelCompletes ==
  \A j \in Job : job[j].cancelRequested ~> operation[j] \in OperationTerminal

\* A lease that went stale under a finished handler is a lost lease, and drops
\* the job: it is never failed as if its handler had thrown.
ResultIsNotFailure ==
  [][\A j \in Job, n \in AttemptNumber :
       /\ run[j][n].verdict \in SettleStatus
       /\ attempts[j][n].outcome = "OPEN"
       => attempts'[j][n].category /= "HANDLER"]_workerVars

\* An approved ingestion goes on: a job that is queued again is run.
QueuedIsRun ==
  \A j \in Job : job[j].status = "PENDING" ~> job[j].status /= "PENDING"
=============================================================================
