# WISER in TLA+

This directory holds the formal models of WISER: TLA+ modules translated from
the source, TLC configurations that check them on small instances, and theorems
with proofs that TLAPS checks. The models follow the code under `src/`; where
documentation and code differ the code is modelled, and the difference is
recorded as a finding. `PROJECT.json` maps every definition to the lines it
stands for.

    tlc -workers 2 -config MCDataJobs.cfg MCDataJobs     # one run
    tlapm DataJobs_proofs.tla                            # one proof module

Contents: [1 The system](#1-the-system) · [2 Inventory](#2-inventory) ·
[3 Modules](#3-modules-and-how-they-correspond-to-the-code) ·
[4 Runs](#4-runs-bounds-and-what-they-show) ·
[5 Findings](#5-findings) · [6 Fairness](#6-fairness) ·
[7 Proofs](#7-proofs) · [8 What is not modelled](#8-what-is-not-modelled) ·
[9 Plan](#9-plan)

## 1 The system

WISER is a TypeScript monorepo with three bounded contexts over PostgreSQL.

- **Data Foundation** (`packages/data-contracts`, `data-core`, `data-infra`,
  `apps/api/src/data-foundation`, `apps/data-worker`,
  `infrastructure/data-foundation/postgres/migrations`). Clients submit data;
  the API turns each command into one transaction that writes an ingestion
  session, an operation and a job. Data Worker processes claim jobs from a queue
  kept in PostgreSQL functions, drive each session through a pipeline of stages
  to a human review, commit the reviewed data as an immutable version together
  with an outbox event, project that event into five completion targets, and
  publish the version when all five ledgers say so.
- **Agent EXCON** (`packages/contracts`, `core`, `infra`, `excon-scenarios`, the
  v2 services of `apps/api`, `apps/worker`). Exercises of teams and agents:
  rounds, tasks with fenced leases, barriers, event feeds, all run as commands
  against an aggregate that is rebuilt from a journal.
- **Platform** (`packages/platform-auth`, `apps/api/src/platform`,
  `supabase/schemas`). Identity, projects, delegated agent credentials.

The Data Foundation carries the most difficult behaviour: several processes,
leases on three clocks, retries, cancellation from outside, two-phase
publication, and no coordinator but the database. The Agent EXCON v2 services come next: one writer
that answers from memory and can be rebuilt from its journal, and in it a run in which
agents with leases, grants and barriers decide about one another's work.

    client --command--> API --txn--> session, operation, job
                                              |  claim / heartbeat / settle / fail / recover
                                       Data Worker (scheduler: poll loop, executions)
                                              |  handler = ingestion pipeline
                                      version + outbox event (one txn)
                                              |  read / project / ledger / publish / checkpoint
                                       ProjectionOutboxConsumer  -->  search, vector, graph, ... stores
                                              |
                          session PUBLISHED --> waiting handler --> settle --> operation SUCCEEDED

## 2 Inventory

For each part: the state it keeps, its operations, what is hard about it, and
what makes it correct. The parts marked with a module name are modelled.

| Part | State | Operations | Hard behaviour | Correct when |
|---|---|---|---|---|
| Job queue (`DataJobs`) | rows of `ingestion.job`, `ingestion.job_attempt`, status of `service.operation` | submit, create, resume, approve, reject, cancel; claim, heartbeat, settle, fail, recover; two guard triggers and one recording trigger | leases compared with callers' clocks and fenced by row version on the database's; cancellation of a running job; review and retry share a budget; three tables written by many functions | ledger, row and operation agree; budget kept; cancellation never lost; terminal states final; triggers never refuse a function |
| Worker scheduler (`DataWorker`) | lease, in-flight set, poll loop per process; calls in flight | poll (recover, claim), execute, heartbeat, settle, fail, drain, stop; crash, restart | answers arrive after the state they describe has changed; heartbeat and settle race; shutdown during an await | only the current attempt passes the fence; every job ends; results are not turned into failures; no claims after a shutdown signal |
| Projection outbox (`ProjectionOutbox`) | outbox rows, ledger per version and target, checkpoint per consumer name, session and operation status, stores | read batch, prepare, mark, project, publish, advance | several processes of one or several names; ids drawn before commit; operation failed while projecting; crash between external write and ledger | published implies projected everywhere; checkpoint monotone and complete; nothing blocks the head of the queue; nothing is skipped |
| Ingestion session and commands (`Ingestion`, `ReviewedPublication`) | session state and version, transform plan, frozen checkpoint | submit, resume, approve, reject, cancel | several compare-and-swaps in one command; decision against a running attempt | only an approved, frozen plan is committed; no commit after cancel or reject; what a review waits for can be decided |
| Ingestion pipeline (`Ingestion`, `ReviewedPublication`) | session stage, checkpoint, version, outbox row | load and fence, advance stage, freeze, commit | an attempt that lost its lease goes on writing; resume from any stage; commit before settle | one version per session; the operation's end agrees with the session's |
| Row locks | lock holders of session, operation, job | each command and worker function | two lock orders | no deadlock that PostgreSQL does not break |
| Command transactions (`UploadCommands`, `UploadDesk`) | the ledger of idempotency keys, audit rows | every API command | a repeated key while the first attempt runs; a commit whose answer is lost; rows hidden by the caller's grants | same key, same answer, one effect; nothing that was committed is taken back |
| Query, exploration, search | none | read-only queries | none of state | - |
| Upload and object store (`UploadCommands`, `UploadDesk`) | upload sessions, assets and the ingestion they are bound to, multipart uploads and objects | create, complete, cancel, take into an ingestion; plan, finish, verify, remove | the store is outside of the transaction | a completed session has its objects; an asset goes into one ingestion |
| EXCON run tasks (`ExconRun`) | task with lease, epoch, version | claim, begin, heartbeat, release, submit | a command under a claim that is over | one submission per claim; one submission waits at a time |
| EXCON run barriers (`ExconRun`, `TeamDecision`) | inputs and release of analysis-ready and endorsement-ready | record an input, release | fed by commands of different agents | opened by accepted work and by endorsements of one plan |
| EXCON agent sync, interaction, feedback (`ExconRun`) | receipts, action grants, mailboxes, artifacts | sync, submit, endorse, message, artifact | a grant used twice or for something else | every revision and endorsement is backed by one grant |
| EXCON command service and journal (`Journal`, `CommandLog`) | in-memory service, journal rows, advisory lock | start, replay, command, close | crash between effect and outcome, lost answers, a lost session | a restart agrees with every answer given; each request succeeds once; a query shows what is recorded |
| Platform authorisation | connections, credentials, projects | connect, delegate, revoke, resolve | revocation against use | no credential outlives its delegation |
| EXCON v1 worker | leases in memory or Supabase | claim, run, finish | as the job queue, simpler | superseded by v2 |
| MCP, telemetry ingress, web, docs, contracts, scenarios | none of their own | translation, presentation, types | - | - |

The hazards that the code is exposed to, each at its line and with the
properties that watch it, are listed in `PROJECT.json` under "hazards".

## 3 Modules and how they correspond to the code

| Module | Models | Extends / instantiates |
|---|---|---|
| `JobLifecycle` | abstract: what a client may rely on of a queued task | - |
| `DataJobs` | the queue: PostgreSQL functions, triggers, API commands | `INSTANCE JobLifecycle` (refinement) |
| `DataWorker` | the worker processes on top of the queue | `EXTENDS DataJobs` |
| `ProjectionOutbox` | outbox, ledgers, checkpoints, consumers, publication | - |
| `ReviewedPublication` | abstract: what owner, reviewer and readers of an ingestion may rely on | - |
| `Ingestion` | session, frozen plan, commands, pipeline and attempts of one ingestion | `INSTANCE JobLifecycle` (its queue), `INSTANCE ReviewedPublication` (refinement) |
| `CommandLog` | abstract: what callers of the EXCON v2 service may rely on | - |
| `Journal` | API processes, their memory, the command journal and its lock | `INSTANCE CommandLog` (refinement) |
| `TeamDecision` | abstract: what the members of a run may rely on | - |
| `ExconRun` | one EXCON run: tasks, leases, submissions, grants, barriers | `INSTANCE TeamDecision` (refinement) |
| `UploadDesk` | abstract: what callers of the upload commands may rely on | - |
| `UploadCommands` | command transactions on uploads, with the object store beside them | `INSTANCE UploadDesk` (refinement) |
| `MCDataJobs`, `MCDataWorker`, `MCProjectionOutbox`, `MCIngestion`, `MCJournal`, `MCExconRun`, `MCUploadCommands` | instances for TLC | the module they name |
| `DataJobs_proofs`, `DataJobsRefinement_proofs`, `ProjectionOutbox_proofs`, `Ingestion_proofs`, `Journal_proofs`, `ExconRun_proofs`, `UploadCommands_proofs` | theorems | the module they name, `TLAPS` |
| `DataWorker_proofs` | theorems about the workers and the queue beneath them | `DataWorker`, `DataJobsRefinement_proofs` |

### DataJobs

`job[j]` is the row of `ingestion.job` reduced to the columns that decide
something: status, lease owner and expiry, heartbeat, attempt count, next
attempt, timeout, whether cancellation is requested, and the row version.
`attempts[j]` is the ledger of `ingestion.job_attempt` as a sequence, with
worker, outcome and the error category that tells a worker's own verdict from a
recovery. `operation[j]` is the status of the one operation the job works for.

*One action is one transaction.* Each function of migrations 0004 and 0032 locks
the rows it writes (`for update`, `skip locked` for claim and recovery), and each
API command of `postgres-command-executors.ts` runs in one transaction, so the
interleaving of whole transactions is the interleaving the database produces;
two that deadlock are resolved by PostgreSQL, which rolls one of them back. The
trigger `record_job_transition` runs inside those transactions and is the
operator `RecordJobTransition`, part of every action that changes a status.

| Action | Code |
|---|---|
| `Submit`, `Resume`, `Approve`, `Reject`, `CancelWithoutJob`, `CreateAnalysis` | the executors of the commands of these names |
| `RequestCancel` | `request_job_cancellation` under `data.operation.cancel` |
| `Claim(w, batch)` | `claim_jobs_at` (0032); `batch` is any set of claimable jobs, which covers every limit, priority and `skip locked` outcome |
| `Heartbeat`, `Settle`, `Fail` | the functions of 0004, fenced by owner, row version and lease |
| `Recover(o, batch)` | `recover_jobs` (0032) for a caller whose clock is `o` ahead |
| `Tick` | time |

*Time.* A timestamp is the time left until it on the database's clock; a caller's
`observed_at` differs by at most `MaxSkew`. This keeps the state finite without
bounding the run, and makes both comparisons of the code explicit: the claim,
the retry schedule and recovery look at the caller's clock, the fence looks at
the database's.

*The triggers as a specification.* `guard_job_status_transition` and
`guard_operation_status_transition` are modelled as predicates on an update
(`JobUpdateAllowed`, `OperationEdges`) and are *not* guards of the actions, except
in the two places where the code runs into them by design (a heartbeat whose
clock goes back, a resume that comes early). `TriggersAgree` then says that
no function ever attempts an update that the triggers would roll back. The trigger
looks at columns that the row here does not have, those of errors and completion, which no
function sets while a row runs. It also wants one of the two times of a heartbeat to
change (`0032:82`); two times that are equal in the model may be less than a tick apart,
so the predicate cannot ask for that, and a heartbeat that repeats both times to the
microsecond is refused by the database: a call that changes nothing, which the model has
as a heartbeat that does not happen.

*The abstraction.* `TaskOf` maps a row and its operation to a task of
`JobLifecycle`: new, queued, held, parked or done, with holder, attempt count,
stop request and result. `ImplementsLifecycle` is the refinement.

### DataWorker

`loop[w]` is where `start()` and `stop()` of a process are, `aborted[w]` the abort
signal, and `run[j][n]` the execution of attempt `n` of job `j`
(`#processJob`). A call to the database is three steps - sent with the lease of
the moment, committed or refused, answered - and a heartbeat is a second call
that runs beside the first. What the database does is the action of `DataJobs`.
Faults are a crash, a lost claim answer, a broken call and a shutdown signal.

| Action | Code |
|---|---|
| `PollRecovers`, `PollClaims`, `PollEnds`, `ClaimLost` | `processOnce`, `start` |
| `HandlerEnds`, `CallCommits`, `CallRefused`, `CallBreaks`, `CallSucceeds`, `SettleThrows`, `FailThrows` | `#processJob`, `#settle`, `#fail`, repository transactions |
| `BeatSent` ... `BeatAnswered` | the heartbeat timer of `#processJob` |
| `Abort`, `Drain`, `Stop`, `Crash`, `Restart` | `main`, `stop` |

A handler here is a nondeterministic verdict after a nondeterministic time: any
result of `HandlerResult`, a retryable or a final error.

### ProjectionOutbox

An event is its `outbox_event_id`; version, session and operation go with it.
`drawn`, `open` and `visible` separate drawing an id (inside the commit
transaction of the pipeline) from the visibility of its row. `ledger[e][k]` is
`service.projection_status`, `checkpoint[p]` and `lastError[p]` the row of
`event.consumer_checkpoint`, `holds[k][p]` what is in the physical store that
profile `p` reads for target `k`. `proc[c]` is the position of one process in
`processBatch`, with the targets of its current event each at a step of its own,
because `Promise.all` runs them concurrently. `overtaken` is a history variable:
the events that became visible after a higher id did. It guards nothing and is
read only by `CheckpointCovers`, which says what the consumer guarantees for all
other events; `NothingIsSkipped` is the same claim without that exception, and
fails (see Findings).

| Action | Code |
|---|---|
| `CommitDrawsId`, `CommitEnds`, `CommitRollsBack` | `OUTBOX_SQL` within `commit` of the ingestion runtime |
| `OperationFails`, `OperationSucceeds` | the handler that waits for publication ends (FAILED stands for FAILED and CANCELLED) |
| `ReadBatch` | `readBatch`; the read that inserts the checkpoint row sees no row and returns nothing |
| `Prepare` | `prepare` behind `PublishingProjectionRepository`, which lets the vector target be replayed |
| `MarkRunning`, `Project`, `MarkSucceeded`, `TargetThrows`, `MarkFailed` | one target of `processBatch` |
| `TargetsDone`, `BatchFails` | the end of `Promise.all` |
| `Publish`, `PublishThrows` | `publish` of the projection authority, one transaction |
| `Advance` | `advanceCheckpoint` |
| `Crash` | an error out of `processBatch`, or the process dies and returns, perhaps with another embedding profile |

### Ingestion

One ingestion and the attempts of its job. The job is a task of `JobLifecycle`,
the abstract specification that `DataJobs` is proved to implement, so an attempt may
lose its job at any time and the details of leases stay out. `session` is
`ingestion.session` (state and row version), `frozen` the row of
`ingestion.transform_plan` that a review may decide, `versions` the rows of
`catalog.data_item_version`, each identified by its review hash, `payload` the job's
payload, the fence with which an attempt is claimed. `run[n]` is the handler of
attempt `n`; it goes on after its lease is lost, because a failed heartbeat is only
logged. It knows a state, a version and a hash, and every write compares them with the
session. Each handler computes a hash of its own at the freeze; equal hashes are one of
the cases.

| Action | Code |
|---|---|
| `Submit`, `Approve`, `Reject`, `Cancel` | the commands, one transaction each, with the job's side of each taken from the queue |
| `Claim`, `LeaseEnds`, `Settle`, `Dies` | claim; recovery, which dead-letters a job whose deadline is over or whose budget is used up and lets any other try again; settle or fail of the current attempt; death of a process or refusal of its settlement |
| `Load` | `load` and the fence of the payload |
| `Advance`, `PipelineRejects`, `Refused` | `transition`/`recordFingerprints` and their compare-and-swap |
| `Freeze` | `freezeCheckpoint`, with the decision whether a review is required |
| `CommitLoads`, `Commits`, `CommitFinds` | `commit`: the look before the objects are copied, and the transaction |
| `PublicationSeen`, `PublicationTimesOut` | the handler that waits for the publication |
| `Publish` | `publish` of the projection authority (its consumer is `ProjectionOutbox`) |
| `PortFails` | any port throws, retryable or not |

`ReviewedPublication` is the promise without stages, attempts and row versions: one plan is
proposed, reviewed if it is risky, approved, committed and published in this order, or ended
before, and the owner is told an end. `ImplementsReviewedPublication` maps every stage before
the plan to DRAFT, the plan to the frozen row, and what the owner is told to the result of the
job. The abstraction keeps one thing that one might not expect, because the code has it: an
operation may fail at any place, and a handler that goes on afterwards may still commit the
approved plan. It is never published then, and that is stated.

### Journal

`journal` is the sequence of intents with their outcomes, `holder` the process whose
session has the advisory lock, `mem[p]` what the in-memory service of process `p` has
done. What that service computes is reduced to *effects*: an effect names its request
(a command under one Idempotency-Key), its intent, from which lease tokens are derived,
and its *tape*, the start that drew its ids and the time it read. Two results are equal
exactly if these are, which is what the code compares by hash.

*How a command is judged* is left open: `Admits(memory, request, time)` and
`Breaks(memory, request, time)` are operator constants, and the proofs hold for any. A
command that is neither admitted nor broken is rejected. The service caches a response only
when the command succeeds (`idempotent`, `v2-in-memory-service.ts:3849`), so `Execution`
repeats a success and judges everything else anew: a claim that was refused before the
`/sync` that issues its task succeeds afterwards under the same key, and a command that
was refused under a lease that ran out is refused again by its own time. A command that
*breaks* throws an error of the domain when part of it is done: `endorseSubmission`
consumes the grant and stores the endorsement before the barrier refuses it (line 2045).
Its trace stays in memory and every replay makes it again, without anything under the key.
`NeedsToken` says which request uses the lease that another one was given. In the instance
the requests are a sync, the claim of a task, the command under its lease, and an
endorsement that breaks.

A journal entry is written by one insert for the intent and one for the outcome; between
the two, and between each insert and its answer, everything may end.

| Action | Code |
|---|---|
| `AcquireWriter`, `Load`, `Replay`, `Reexecute`, `AppendRecovered`, `Ready`, `StartFails` | `create`, `#acquireWriter`, `#recover` |
| `Mutate`, `AppendIntent`, `Execute`, `AppendOutcome`, `Return` | `#mutate` with `sealCommandArguments`; one at a time per process (`#serialize`) |
| `InsertFails`, `InsertUnheard` | the error paths of `#mutate`: the process serves no command any more and keeps its session |
| `ExecutionThrows` | a command throws what is no error of the domain: its intent stays open, a live process becomes unready, a start fails |
| `SessionLost`, `AnswerLost`, `Crash` | faults |
| `Close` | `close` and `#dispose` |
| `Send` | callers, who repeat a request until it has succeeded, also after a refusal |

`CommandLog` is the promise without processes. Decisions are taken in one order; each is what
the service makes of the request after the decisions before it; a request that has succeeded is
not decided again, one that was refused may be; and every answer is a decision of its request.
The refinement maps the outcomes on record, a repeated one counted once, to the decisions.

Queries need no action: they run between two commands and read memory. Which process answers
them is not restricted, so one that lost its session to another writer and does not know it
yet answers, too; `QueriesSeeRecord` says what its memory is still worth.

### ExconRun

One run with an agent for each role and one task for each agent. `task`, `claimEpoch`,
`lease` are the `RunTask`; a lease is the time that is left. `submissions` is in order, so
that a submission is known by its position; `evaluations`, `endorsements` and `used`
(consumed grants) refer to it. `eligible[a]` is what agent `a` may be told and `issued[a]`
how much of it `/sync` has told: no command may refer to a thing that has not been issued.
A command is one action, as in the code, where it runs without interruption; a command
that throws half way leaves what it did before. The verdict of the evaluator follows from
the payload and is chosen by `Submit` or by the `Endorse` that releases the barrier.

| Action | Code |
|---|---|
| `Join`, `Start`, `Sync` | `joinRun`, `startRun`, `sync` |
| `Claim`, `Begin`, `Heartbeat`, `Release` | the commands of these names, `core/v2/run-task.ts` |
| `Submit` | `submitTask`, with `consumeGrant`, `issueEndorsementGrants`, `evaluateRoleSubmission`, `recordAcceptedBarrierInput` |
| `Endorse` | `endorseSubmission`, with `recordEndorsementBarrierInput` and the evaluation of the team plan |
| `Tick` | time; nothing else happens when a lease runs out |

`TeamDecision` is the promise without tasks, leases, grants and receipts: work is accepted,
then a plan is proposed, then every member votes on it once, and the last vote has it judged.
`ImplementsTeamDecision` maps acceptance to the specialists' tasks, plans to the team plans
among the submissions, votes to the inputs of endorsement-ready and verdicts to the
evaluations of what the coordinator submitted. After a verdict of rework another plan may be
proposed and is never judged (section 5); the abstraction says so, too.

### UploadCommands

`CommandTransactions.run`, the frame of every command of the Data Foundation, around the
four commands in which it has most to do: creating, completing and cancelling an upload
session, and creating an ingestion of its assets. `attempt[a]` is a request under way, at
a phase of its transaction. `ledger[k]` is the outbox row that keeps the answer of key `k`,
`upload[s]` the operation of a session, `bound[s]` the ingestions that have its assets,
`object[s][p]` what the object store has of part `p`.

The transaction is not one action here, because what it does in the store is outside of it,
and because READ COMMITTED lets one statement see what the one before did not. What is
atomic is a statement that waits for a lock, and the commit. A lock is the phase of the run
that holds it: the advisory lock of the key from the first statement on, the row of the
operation from `LockRow` on, that of the assets from `LockAssets` on.
`authz` is the caller's `authz_version`: a row that was written under a later one is hidden
from an older context, so a key may be taken by a row that the ledger does not show; then
the unique index refuses the insert. An ingestion takes the assets of one session, and
`expectedVersion` is left out: it refuses what the row's status refuses, too.

| Action | Code |
|---|---|
| `Start`, `FindsEntry`, `Replay`, `Acts`, `RunsOut` | `run` up to its action: lock of the key, ledger, stored or signed answer, another request under the same key |
| `Plan`, `PlanBreaks`, `InsertSession` | `data.uploadSession.create` |
| `LockRow`, `FinishObject`, `FinishBreaks` | `data.uploadSession.complete`; `LockRow` is `data.operation.cancel` of an upload as well |
| `LockAssets` | `data.ingestion.create` |
| `Commit`, `CommitBreaks`, `Fails`, `Undo`, `Crash` | `run` after its action: commit, its loss, rollback, `rollbackCompensation` |
| `ClientUploads`, `Expire`, `GrantsChange` | who uses the signed targets; time; the platform |

`UploadDesk` is the promise without attempts, locks, grants and faults: a command under a key
takes effect at one moment or never. `ImplementsUploadDesk` maps what was done under a key to
its ledger row and the objects that are there to those of committed sessions; a completion
counts only when all of them are stored, an ingestion only when nobody has the assets.

## 4 Runs, bounds and what they show

| Run | Instance | Distinct states | Properties |
|---|---|---|---|
| `jobs` | 1 ingestion and 1 analysis job, 1 worker, 2 attempts, skew 1 | 688,991 | `AttemptLedger`, `OperationFollowsJob`, `RetryBudget`, `CancelWins`, `OverIsOver`, `TriggersAgree`, `ImplementsLifecycle` |
| `worker` | 1 job, 2 processes, 2 attempts, 1 fault, fair | 419,000 | `WorkerTypeOK`, `FenceIsExact`, `RunningEnds`, `RetryIsTaken`, `CancelCompletes` |
| `outbox_safe` | 2 events, 2 processes, 2 profiles, a shared and a replayed target, 1 fault | 1,170,208 | `PublishedIsComplete`, `CheckpointCovers`, `ErrorIsOfCheckpoint`, `CheckpointMonotone` |
| `outbox_live` | 2 events, 2 processes, 2 profiles, the replayed target, 1 fault, fair | 173,892 | `EventIsPassed` |
| `ingestion_safe` | 1 ingestion, 3 attempts, 2 hashes (symmetric) | 657,119 | `CommittedIsApproved`, `EndsAgree`, `FenceAdmits`, `SessionFollowsPolicy`, `ImplementsReviewedPublication` |
| `journal` | 2 processes, 4 requests, 3 sends (one waiting at a time), 4 starts, 2 faults, fair | 651,766 | `WriterIsCurrent`, `RecoveryAgrees`, `AnswersStand`, `QueriesSeeRecord`, `ImplementsCommandLog`, `SentIsAnswered` |
| `excon_run` | 2 specialists (symmetric) and the coordinator, 4 claims, 4 submissions | 262,411 | `TypeOK`, `BarrierFollowsRoles`, `TeamDecidedByAll`, `OneOpenSubmission`, `GenerationSubmitsOnce`, `GrantsBackActions`, `ImplementsTeamDecision` |
| `uploads` | 2 attempts (symmetric), 4 keys, 1 session of 2 objects, one of them in parts, 2 grants, 1 fault | 623,345 | `LedgerMatches`, `ObjectsMatch`, `SomeRequestMoves`, `SessionsGoOneWay`, `ImplementsUploadDesk` |
| `worker_result` | 1 job, 2 processes, 2 attempts, no fault | violation | `ResultIsNotFailure` |
| `worker_approved` | 1 job, 1 process, 2 attempts, fair | violation | `QueuedIsRun` |
| `outbox_order` | 2 events, 1 process, 2 commits under way | violation | `NothingIsSkipped` |
| `ingestion_expiry` | as `ingestion_safe` | violation | `ExpiryIsRetried` |

**Bounds.** Every bound is a named constant of its module.

- *Jobs.* Rows of different jobs meet only in a batch and in nothing else: no
  function reads two jobs, and an operation has one job. One job shows every
  interleaving on a row, two show that a batch treats each row by itself.
- *`MaxAttempts`* is 2 for jobs and 3 for an ingestion (the code's default is 5): one
  attempt that is not the last, and the last. The comparison with the budget is the same
  at every value, and the theorems hold for all of them.
- *Windows* (`LeaseTime`, `ExecutionWindow`, `QueueWindow`, backoff) are small
  but ordered as in the code, where a lease is shorter than the execution
  deadline; with `MaxSkew = 1` a caller's clock can be on either side of each of them.
- *`MaxRowVersion`* bounds heartbeats, which would otherwise raise the version
  for ever; it is a guard of `Heartbeat`/`BeatSent` and of repeated cancellations
  only, never of an action that ends an attempt. Its values leave room for a
  heartbeat within every attempt.
- *`MaxFaults`* 1 gives each fault at every place; the properties that would
  need two independent faults are not among those claimed.
- *`MaxEvent` 2, `MaxOpen` 2, `BatchLimit` 2* are the smallest that have an event
  behind another, two commits that end out of order, and a batch in which the
  second event is worked on after the checkpoint moved. Two processes may have
  one profile (one consumer name) or two, and one may change its profile at a crash.

- *An ingestion* has three attempts, so that two handlers which lost their lease may
  compete with a third that has it, and two hashes, so that two of them may agree or
  not. One worker is enough: `run` is indexed by the attempt, and the holder's name is
  used by nothing else. Versions need no bound: no session takes more than
  `MaxVersion` steps, which the theorem `IngestionTypes` states. The hashes are
  interchangeable, so the run uses symmetry, and checks no liveness.

- *The journal* has four requests: a claim that is refused before the sync and done after it,
  a command under the lease of the claim, which is refused once the lease has run out, and one
  that leaves half of itself behind. Three sends are enough for the first three in a row, and
  for a refusal, what removes its cause, and the repetition. It has two processes for a successor
  that starts while its predecessor lives on, and two faults for the pair that matters: a crash
  that leaves an intent open, and a second one while it is being recovered. `MaxBoots` is not
  reached with two faults. `MaxWaiting` makes requests come one after another; since a writer
  works on one command at a time, what more of them add is the order in which they are taken up,
  and repetitions that come late (`Mutate` of a request that nobody waits for) are among the faults.
- *A run* has two specialists because a barrier of one role opens by itself; four claims and
  four submissions are the three of a straight run and the revision of any one of them, and
  the fourth claim is the one that a release or a rejected submission costs. Leases of one
  unit that may be extended once run out before, between and after any two commands.
- *Uploads* have four keys because a session must be created and completed before two
  ingestions can compete for its assets, and one session, which all commands but creations
  are about; two attempts are the two that race. One object is put at once and one in parts,
  because only the second can be open without anyone knowing it. A creation whose key is
  hidden by newer grants needs a second session; its instance (three keys, one object)
  has six million states and is too long for a run, and the proofs cover it.

**What they show.** `jobs` is the heart: whatever the order of client
commands, worker calls and recovery, the three tables stay consistent
(`AttemptLedger`, `OperationFollowsJob`), no path exceeds or forgets the retry
budget, a cancellation wins over every verdict of the attempt it found, final states are final, and
the triggers agree with the functions. Two different jobs in a batch keep to themselves.
`worker` shows that the row version is enough of a fencing token even when a process
comes back under its own id, and that a fair system finishes its jobs. `outbox_safe` and
`outbox_live` show that publication and replay are right whatever two consumers
do to the same ledgers, and that no event blocks the queue. `ingestion_safe` shows
that the compare-and-swaps of the session are enough where the lease is not: whatever
handlers that should be dead do, the version that is committed is the checkpoint that
was approved, there is one, session and operation end alike, and to owner, reviewer and readers
it is the publication of one plan. `journal` shows that a process may
die anywhere: what the next one rebuilds agrees with every answer that was given and with what
any process, also one that has been superseded, may show; an intent that was left open may be
run again with other ids because nobody was told of the first ones; a request that was refused
may be done later, and one that was done is done once; and no request is lost unless the lock
stays with a process that nobody closes. `excon_run` shows that agents that submit, endorse, release and come back late cannot get the coordinator in too
early, decide for one another, or use a claim or a grant twice, and that all their commands
come to one decision of the team. `uploads` shows that a
request that is sent again, while its first attempt runs or after an answer that was lost,
is done once; that two ingestions cannot share assets although each may have read them as
free; that the compensation of a failed creation never removes what was committed; that no session that is over is opened again by an attempt
that read it before; and that the locks are taken in an order in which someone can always go on. To its callers all of this
is one desk that does a request whole or not at all.

Every passing property is also run against a mutant of the code (a dropped
condition, an off-by-one, a missing reset, a last-writer-wins) that breaks it;
the operators marked "Mutant" in the modules are those and are used by nothing
else. Deadlock is checked in every run but
those of `Ingestion`, `Journal` and `ExconRun`: one ingestion ends, every request is
answered, and a run's leases and submissions are used up, and then nothing is left to do.

## 5 Findings

Each is shown by a run that TLC finds violated; the quoted statements are in
`PROJECT.json`.

1. **A finished job is failed** (`worker_result`). A heartbeat that commits while
   the handler's result is on its way makes the settle's version stale. The
   repository turns this refusal into `JobLeaseLostError` for heartbeats but not
   for `settle`, so the scheduler takes it for a handler error and fails the
   finished job with the renewed lease.
2. **An approved job is never run** (`worker_approved`). Approval queues the job
   with its attempt count as it is; when the attempt that asked for the review was
   the last one allowed, claim skips the job and recovery does not see it.
3. **An overtaken outbox event is lost** (`outbox_order`). Ids are drawn before
   commit, the checkpoint compares ids, and an event that becomes visible below
   the checkpoint is never read.
4. **A lost lease is not retried** (`ingestion_expiry`). The handler of the attempt that
   lost its lease advances the session under its successor, whose compare-and-swap
   then fails with an error that is not retryable: the job fails with attempts left,
   and its session stays in a stage, or in a review, that nobody can end.
Differences that were met on the way and are not the subject of a run:

- `apps/docs/src/content/docs/en/architecture/data-foundation.md:158` says that a graceful
  shutdown stops claiming. A shutdown signal that arrives while `processOnce` awaits its
  recovery does not keep the same call from claiming a batch, which is then drained
  (`scheduler.ts:136`; in `DataWorker`, `Abort` between `PollRecovers` and `PollClaims`).
- `apps/docs/src/content/docs/en/architecture/agent-excon.md:104` says that a missing outcome
  fails closed. `#recover` runs the intent again and appends its outcome, as
  `development/testing.md:142` has it ("pending-outcome recovery"); `RecoveryAgrees` and
  `AnswersStand` say that this is sound.
- `agent-excon.md:112` says that "the same actor, operation, request hash, and key returns the
  original result". That holds of results that are successes. A refusal is not kept under its key
  (`v2-in-memory-service.ts:3849-3871`): a claim that was refused because its task had not been
  issued (`RESOURCE_NOT_ISSUED`, 2245-2250), or `startRun` before its quorum (974), succeeds
  under the same key once the cause is gone. `CommandLog` and `AnswersStand` say what is left of
  the sentence: successes agree, and every refusal is earlier than the success.
- A process that has become unready keeps its session and with it the advisory lock
  (`v2-postgres-journal-service.ts:855`, 867, 873), and nothing in the repository closes it:
  compose restarts what ends, and its health check asks `/health/live`. Until an operator ends the
  process no other can become the writer (hypothesis of `SentIsAnswered`). An intent whose command
  throws at each run makes every start fail as well (`ExecutionThrows`).
- `expireRunTaskLease` is tested to make a lapsed task READY
  (`packages/core/test/run-task-barrier-v2.spec.ts:115`) and called by nothing: a task whose
  lease ran out stays with its claim, and the run cannot go on.
- A team plan that was sent back is never decided. `apps/docs/src/content/docs/en/protocols/http.md:147`
  has the "revision/resubmit loop run through the same v2 service", but endorsement-ready
  exists once for a run and is released by the first plan: every endorsement of the revision is
  stored, its grant consumed, and the command then fails with `BARRIER_ALREADY_RELEASED`
  (`core/src/v2/run-barrier.ts:101`), against `agent-excon.md:114` "Failed transactions leave no
  partial state". `Endorse` of `ExconRun` does the same.
- A commit that is not even sent counts as attempted: `commitAttempted` is set before `query`
  looks at the abort signal (`postgres-command-executors.ts:1210`). The creation is rolled back
  and its uploads stay open in the store; `CommitBreaks` without `Effect`.
- A submission of a specialist with team scope or recipients, and one of the coordinator that
  not all specialists are asked to endorse, is accepted and never gets a verdict.

## 6 Fairness

- `FairWorkerSpec`: weak fairness of each process's loop (`start` polls again after
  every error, and a stopped process is restarted by its supervisor), of the
  steps of each call (the database answers or the connection breaks), of handlers
  (they return or throw; the ingestion handler bounds its waiting by a timeout), and of
  time. Heartbeats have no fairness: nothing that is claimed needs them.
- `FairSpec` of `ProjectionOutbox`: weak fairness of the end of each commit
  transaction and of each consumer process, whose loop catches every error, waits
  for a finite interval and calls `processBatch` again. Nothing makes commands,
  operations' failures or faults happen, and faults are bounded, which is the usual
  "eventually the stores answer".

- `FairSpec` of `Journal`: weak fairness of a running process (its statements follow one
  another and a query returns or throws), of the start of one that is down (compose has
  `restart: unless-stopped`), and of a waiting request that some process may take up (callers
  repeat it). `Close` has no fairness, because nothing in the repository closes an unready process.
  `SentIsAnswered` therefore has a hypothesis, `[]<>WriterPossible`: again and again the lock is
  free for a process that is down, or held by one that is not unready. Where it fails, requests
  do wait for ever in the model as in the code. That a command goes on throwing is bounded with
  the other faults.

## 7 Proofs

TLAPS proves, for every set of jobs and workers, every clock skew and every
retry budget allowed by `JobsAssumption` and `TimeAssumption`; of the worker processes on the
queue for any processes and jobs, any claim limit and any number of faults; of an ingestion for
every set of checkpoint hashes, any worker and any retry budget; of the journal for every
set of processes and requests, any way of judging them, and any number of sends, starts and faults; and of a run for every
finite set of specialists, all lease lengths and any number of claims and submissions; of
the outbox for any processes, profiles and targets and any number of events; and of the
commands on uploads for any attempts, keys, sessions, parts and grants and any number of
faults:

| Theorem | States |
|---|---|
| `QueueInvariant` | `Spec => []Inv` |
| `TypeCorrect`, `LedgerComplete`, `OperationsFollow`, `RetriesBounded`, `CancellationWins` | the invariants `TypeOK`, `AttemptLedger`, `OperationFollowsJob`, `RetryBudget`, `CancelWins` |
| `OverStaysOver`, `TriggersNeverRefuse` | the action properties `OverIsOver`, `TriggersAgree` |
| `QueueImplementsLifecycle` | the refinement `ImplementsLifecycle` |
| `TaskListKeepsPromises`, `QueueKeepsPromises` | `Lifecycle!Promises`, of whatever implements the task list, and of the queue |
| `WorkerInvariant` | `WorkerSpec => []WorkerInv` of `DataWorker` |
| `WorkerTypes`, `FenceStaysExact` | the invariants `WorkerTypeOK`, `FenceIsExact` |
| `WorkersDriveTheQueue` | `WorkerSpec => Spec`: under the workers runs the queue of `DataJobs` |
| `WorkersImplementLifecycle`, `WorkersKeepPromises` | `WorkerSpec` implements `JobLifecycle` and keeps its promises |
| `WorkersCloseTheirOwn` | the action property `ClosesItsOwn` |
| `IngestionInvariant` | `Spec => []Inv` of `Ingestion` |
| `OnlyApprovedIsCommitted`, `EndsAlike`, `HolderNeverFenced` | the invariants `CommittedIsApproved`, `EndsAgree`, `FenceAdmits` |
| `IngestionTypes` | the invariant `TypeOK`, with the bound on versions |
| `SessionKeepsPolicy` | the action property `SessionFollowsPolicy` |
| `IngestionIsReviewed` | the refinement `ImplementsReviewedPublication` |
| `RecordKeepsPromises`, `IngestionKeepsPromises` | `Record!Promises`, of whatever implements the reviewed publication, and of an ingestion |
| `JournalInvariant` | `Spec => []Inv` of `Journal` |
| `JournalTypes`, `WriterStaysCurrent`, `RecoveryNeverDrifts`, `AnswersNeverChange`, `QueriesSeeOnlyRecord` | the invariants `TypeOK`, `WriterIsCurrent`, `RecoveryAgrees`, `AnswersStand`, `QueriesSeeRecord` |
| `JournalIsCommandLog` | the refinement `ImplementsCommandLog` |
| `LogKeepsPromises`, `JournalKeepsPromises` | `Log!Promises`, of whatever implements the command log, and of the journal |
| `ExconInvariant` | `Spec => []Inv` of `ExconRun` |
| `ExconTypes`, `CoordinatorWaitsForAll`, `NobodyDecidesForOthers`, `WaitsForOne`, `OneSubmissionPerClaim`, `GrantsAreSpentOnce` | the invariants `TypeOK`, `BarrierFollowsRoles`, `TeamDecidedByAll`, `OneOpenSubmission`, `GenerationSubmitsOnce`, `GrantsBackActions` |
| `RunsRecordStands` | the action property `RecordStands` |
| `RunIsADecision` | the refinement `ImplementsTeamDecision` |
| `DecisionKeepsPromises`, `RunKeepsPromises` | `Decision!Promises`, of whatever implements the team decision, and of a run |
| `OutboxInvariant` | `Spec => []Inv` of `ProjectionOutbox` |
| `OutboxTypes`, `PublishedStaysComplete`, `CheckpointsCover`, `ErrorsBelong` | the invariants `TypeOK`, `PublishedIsComplete`, `CheckpointCovers`, `ErrorIsOfCheckpoint` |
| `CheckpointsNeverGoBack` | the action property `CheckpointMonotone` |
| `UploadInvariant`, `UploadTypes` | `Spec => []Inv` and `Spec => []TypeOK` of `UploadCommands` |
| `CommandsAreDoneOnce`, `ObjectsAreKept` | the invariants `LedgerMatches`, `ObjectsMatch` |
| `RequestsNeverAllWait` | the invariant `NoCircleWaits` |
| `NothingIsUndone` | the action property `SessionsGoOneWay` |
| `UploadsAreADesk` | the refinement `ImplementsUploadDesk` |
| `DeskKeepsPromises`, `UploadsKeepPromises` | `Desk!Promises`, of whatever implements the desk, and of the commands on uploads |

*The queue.* None of the five invariants is inductive alone. The attempt count
may grow only because a claim takes a row whose count is below the budget, and a
row scheduled for a retry has room only because failure and recovery looked at
the count; the ledger has an open attempt exactly when the row runs, which is what
lets settle, fail and recover close *the last* attempt; the operation follows the
row only because a row that waits has the verdict of its last attempt, which is
what distinguishes a rejected job (operation FAILED) from a cancelled one.
`Inv` is therefore the conjunction, job by job, of `Good(row, ledger, operation)`
= types, `GoodRow`, `GoodLedger` and `GoodOperation`. It is a statement about
one row, so each action needs one lemma about the row it writes, and a batch is
that lemma for every member. The helpers of the queue (`Released`, `Claimed`,
`Renewed`, ...) have a lemma each that says which columns they give what value;
the lemmas on actions cite those and never expand a row.
`GoodStep` carries, next to `Inv'`, the relation `Lasting` between the two states of a
row, from which `OverStaysOver` follows with no second case analysis. The
refinement maps each lemma's row update to one disjunct of `JobLifecycle!Step`,
or to none. `TriggersAgree` is about pairs of states and needs
more than `Inv`: that each update of a row is an edge of the trigger *with the
columns the trigger compares*. Each action has one lemma about the one row it
writes, and a batch is that lemma for every member, as in `Inv`; that a running row has an
owner, which the trigger asks of a heartbeat and of a cancellation, is `RunningIsOwned`.

*The workers.* `FenceIsExact` is not inductive: it says that a version which passes the
fence belongs to the current attempt, and a version that does not pass now may pass after
a heartbeat or another claim has raised the row to it. `WorkerInv` therefore bounds what
an execution may know. `Fits(row, n, v)`: a version that execution `n` knows is one of the
past, or the present one of a row that runs attempt `n`. As every update of a row raises its
version by one (`Moves`), what is of the past stays of the past, and only the execution whose call
caused the update may learn the new version; the answer of a heartbeat, which the
scheduler takes as `beatVersion + 1`, is covered because that version was written by the
same heartbeat. `Numbered` (a row that exists has a version) makes 0 a version that
passes nowhere, and an execution of an attempt that was never claimed knows nothing. The
queue's `Inv` is part of `WorkerInv`, and each step of a process is shown to be a step of the queue or
to leave it alone, under that invariant. This gives `WorkerSpec => Spec`, so the theorems about
`DataJobs` hold beneath any processes; and the chain `WorkerSpec => Spec =>
ImplementsLifecycle => Lifecycle!Promises` says to a client of the task list, in the words
of `JobLifecycle` alone, what the whole stack gives. `ClosesItsOwn` follows from the fence: who
commits a settle or a fail holds the current attempt, so it closes its own.

*Promises.* The abstract modules state what they are for: `WithinBudget`, `ResultStands`,
`StopIsObeyed`, `SuccessIsEarned` of a task list; `AnswersAgree`, `OneOfTwo`,
`DecisionStands` of a command log; `OnlyThePlan`, `OwnerIsTold`, `NothingIsRevised` of a
reviewed publication; `JudgedByAll`, `JudgedOnce`, `OnePlanAtATime`, `NothingIsTakenBack` of a
team decision; `NothingTwice`, `NeverBoth`, `IngestsWhatIsThere`, `DoneStands` of a desk. They
are proved from the abstract specification, under the refinement mapping, and reach the
detailed one through the refinement only.

*An ingestion.* `CommittedIsApproved` needs to know that a handler on its way to a
commit believes in the state APPROVED, so that the compare-and-swap, which trusts
nothing else, finds the plan decided. `EndsAgree` and `FenceAdmits` are about the
attempt that has the job, so `GoodRun` separates what any handler knows for good (a
publication lasts) from what only the holder knows (nobody decides a review while the
job is held, and the payload is the one it was claimed with). The one place where a
handler without the job could do harm, `Settle`, is closed to it by the queue.
`MovesOn` is the lemma for every write of a handler, `LooksOnly` for every read,
`JobLeaves` for every way the job is let go. `Inv` needs versions to be numbers only; that
they are bounded, as `TypeOK` says, is an argument of its own: `Within` reads the version as
how far the session came, so that a stage which was repeated, or a command that took a
session back, would break it, and `Counted` says that neither the payload nor a handler that
outlived its lease is ahead of its session. The refinement is proved write by write: a stage is
unseen or refuses the draft, a freeze proposes the plan, a commit finds the frozen hash
(`PlanIsCommitted`), a command of owner or reviewer is a step of theirs, and `EndIsTold` uses
`EndsAgree` *after* the step: an end that the queue gives to a job is one that the session,
which the queue does not touch, already has.

*The outbox.* `CheckpointCovers` says what was projected before a checkpoint moved; a
process moves it on the strength of a batch that it read long ago. `GoodProcess` says what
such a batch is still worth: no event that could be seen then is missing before its head
(`InOrder`), the targets it calls done are in the stores (`TargetsTrue`, `Projected`), and
the event it wants to pass is published or given up (`Judged`). `Grows` collects what every
step does to the tables (rows appear behind, stores keep what they have, checkpoints move
forward), and `GoodKept` shows that this is all a process at rest needs, so an action has to
show that the tables grow and stay sound and that its own process goes on well.

*The journal.* `Sound(journal)` says of the journal alone that each outcome is what its command
gives after the outcomes before it (`Replayable`), that it came first from an intent which has it
on record, from its own unless it repeats a success (`Origin`), and that only the last intent may
be open. Nothing is assumed of `Admits` and `Breaks`: all that is used of an execution is
`ExecutionCases`, that it repeats a success which memory holds or judges by memory and tape.
From `Sound` follows that a request succeeds once (`SuccessOnce`): when a second success would
be judged, the first is in the recorded effects, so it is repeated instead. `RecordedNext`
follows the recorded effects by one entry, which is what a replay does to memory.
`Local(p)` is about a process whether or
not it still has its session, because a replay that lost the lock goes on with an older
journal and must not drift either; `Writer(holder)` is what the holder of the lock has
beyond it; `AnswersRecorded` ties the answers to the outcomes. The refinement follows from
`Sound` and `AnswersRecorded` alone: an intent decides nothing, and an outcome is one decision
or, if it repeats a success, none (`OutcomeDecides`). What callers may rely on, `Log!Promises`,
follows from the refinement: a success is final (`SuccessIsFinal`), one order explains every
answer (`AnswersExplained`), and decisions stand (`DecisionStands`).
`QueriesSeeOnlyRecord` is about processes that the invariants on the holder of
the lock do not reach. `Reads` strengthens it to a process at rest or about to answer
(`Serving`): its memory is `Recorded(journal, n)` for an `n` up to which the journal is closed.
What such a process had stays so because the journal only grows behind a closed part
(`JournalGrows`). It starts to serve, with the lock or without, when it has replayed a part of
the journal that is closed (`CatchesUp`); and it serves again after a command only if the
outcome was inserted, which takes the lock, so that it has the whole journal (`Writer`).

*An EXCON run.* The properties hold one another up: a barrier can be trusted because a task
waits for one submission at a time, which is so because only a submission that waits is
given a verdict; endorsements can be trusted because what an agent may be told names its
readers. `Inv` is their conjunction with `Views`, `Verdicts`, `Plans` and `Epochs`. Commands that
change neither results nor barriers fall under two lemmas (`QuietTask`, `QuietView`); `Submit`
and `Endorse` have one for each part of `Inv`. `RecordStands` follows from `Inv` because a
verdict, a released barrier and an accepted task can only be touched again by a submission
that waits, and `OpensWaiting` shows that the one that opens endorsement-ready is the only
one; who submits holds its task, so its role has not been accepted and analysis-ready is closed
unless it is the coordinator. The refinement needs one lemma for each command that the team can see:
`SubmitIsSeen` (a plan comes after all roles and, by `PlanFollowsRework`, after the earlier plans
were sent back) and `EndorseIsSeen` (a vote that counts is for the one plan that waits, and the
last one judges it); everything else is `DecisionRests`.

*The commands on uploads.* `GoodRun` says what an attempt may believe: that the session it
creates is nobody's yet and its objects are planned, that the row it holds is still open,
that the assets it found free are free if it holds them, that the key it is about to insert is
new. Another attempt cannot make that false because the two are `Apart`: they never hold the
same key, row or assets, and never create the same session. A step that leaves the tables
alone falls under `RunMoves`, a step of the store under `RunWorks` with `Harmless`, which
confines it to objects of a session that nobody else creates, or to an object of a committed
session that goes on until it is stored. The commit is the one step that writes tables:
`CommitKeepsTables` and `CommitKeepsRun`. `LedgerMatches` counts; `OneEntry` says it without
counting, and `AtMostOne` goes back. `SomeRequestMoves` speaks of ENABLED, which the prover
cannot expand; `NoCircleWaits` says the same of the locks: as long as a request is under way there is one
whose lock is free. Who holds a row or assets waits for nothing (`BusyIsUnhindered`), so a
circle would be of attempts that wait for keys only, and who holds a key waits for no other.
`SessionsGoOneWay` is `EffectOfCommit` read from the other side: a commit finds its key
new and its session where the command may take it, and everything that is rolled back
belongs to a session that is not committed. In the refinement the commit is the desk's one step
(`DeskCommits`): `GoodRun` says at that moment that the session is where the command may take
it, that all objects of a completion are stored and that the assets are free. What is done in
the store for a session that is not committed is unseen (`CreationIsUnseen`), and what is done
for one that is, is an object that arrives (`DeskStores`).

*Assumptions.* Only the named ones. `JobsAssumption` and `TimeAssumption`: `NoWorker` is not
a worker, windows are positive, the backoff cap is at least its base, and `Forever` is
later than every window, as `infinity` is. `Ingestion`: the two "none" values are none of the
others and an attempt is allowed. `JournalAssumption`: the "none" values and
the mark of an open intent are none of the others, and every request reads some time; `Admits` and
`Breaks` are arbitrary. `ExconAssumption`: the
coordinator is no specialist, there is one at least and finitely many, and no lease time is zero or
exceeds the maximum. `OutboxAssumption`: the replayed targets are targets, and a batch has room
for an event. `UploadAssumption`: a session has an object, and there is a first grant.

*Only model-checked:* liveness (`RunningEnds`, `RetryIsTaken`, `CancelCompletes`,
`EventIsPassed`, `SentIsAnswered`), for which the prover has no rules that reach a
fairness condition, and `SomeRequestMoves`, because of ENABLED; the theorem
`RequestsNeverAllWait` is what can be proved of it. The four properties that are violated
(section 5) are, of course, not proved either.

*Only proved:* `TypeOK` of `DataJobs` by itself (the run `worker` has it within
`WorkerTypeOK`), of `ProjectionOutbox`, `Ingestion`, `Journal` and `UploadCommands`, `NoCircleWaits`, `RecordStands`, `ClosesItsOwn` and the
`Promises` of the abstract modules are in no run. TLC found each of them true on the instance
of its module before it was proved; the theorems make a run of them superfluous.

*Guarded, not claimed:* that an agent whose claim is over cannot release or extend the lease
of the next one is one guard (`HoldsLease`) on the one action that would do it, so a property
could only repeat it; what crosses several commands, the submission of a stale claim, is
`GenerationSubmitsOnce`. That a completion of an upload gets through after an attempt that
finished the objects and failed is a liveness property: `Finished` takes an object whose parts are joined as the
code does, and TLC found the property true on an instance with two keys and two faults, but with the
bounds of `uploads` it takes longer than a run may.

## 8 What is not modelled

- Data: payloads, results, error details, security levels, tenants, audit and event
  rows. No property is about them; row-level security filters rows before any
  action here.
- Priorities and the order of a claim: `Claim` takes any claimable set, so
  nothing depends on the order, and starvation of a low priority is not excluded.
- `depends_on_job_id` and sibling jobs of one operation: the columns exist, no code
  sets or inserts them.
- Of an ingestion: what its stages compute, the assets and content blobs that
  `recordFingerprints` and `commit` bind, and the objects that are copied. A state
  FAILED of the session, which the policy allows, is set by no code.
- The rebuild tools of the projections, which have consumer names and stores of
  their own; the policy-version check that rejects an event of another policy.
- Row locks of the job and session commands. `approve` and `reject` lock the operation before
  the job, the worker's functions the job before the operation. PostgreSQL breaks the
  deadlock by rolling one of them back, which is a command that does not happen; a model of
  the locks could only count such retries. The locks of `UploadCommands` are modelled, and
  `SomeRequestMoves` is about them.
- The commands of the Data Foundation that `UploadCommands` leaves out go through the same
  frame; their effect is one action of `DataJobs` or `Ingestion`.
- Of uploads: the copies that the pipeline's commit makes (`commitQuarantineObject`),
  checksums, downloads, and the store's own removal of uploads nobody finished.
- Of an EXCON run: `exercise-run.ts`, `agent-sync.ts`, `run-events.ts` and `attribution.ts`, which only
  their tests call; the lapse of a grant after a day; the hash chain of the receipts;
  messages and artifacts, which no other command looks at.
- Platform authorisation: connections, delegated credentials and their revocation
  (`agent-connections.ts`, `postgres-platform-delegation-service.ts`). Each command is one
  transaction that locks the delegation and connection it changes, and what a credential may
  do is decided anew at each request, so little crosses a transaction; a model of it would be a
  module of its own beside these, sharing no state with them.
- The EXCON v1 worker, superseded by v2.
- Metrics, health endpoints, logging, read-only queries, the web application, MCP adapters,
  contracts and scenarios. They are most of the implementation's lines: translations,
  schemas, text and views that keep no state of their own. Modelling them would transliterate
  them, so the map covers the part of the code that decides something and no more.

## 9 Plan

What is left, in order of importance:

1. Platform authorisation: that no delegated credential outlives its connection or its grants.
2. The copies of objects at the commit of an ingestion, between `Ingestion` and `UploadCommands`.
3. An abstract specification of `ProjectionOutbox`, the one component that implements none.
4. Where liveness can be prepared by a proof: state functions that every fair step lowers, so
   that what TLC checks of `RunningEnds` and `SentIsAnswered` rests on proved steps.
