----------------------------- MODULE Ingestion -----------------------------
(***************************************************************************)
(* One ingestion from its submission to its publication: the session, the  *)
(* checkpoint that a review freezes, the version that is committed, the    *)
(* commands of its owner and its reviewer, and the attempts of its job,    *)
(* each an execution of the pipeline handler.                              *)
(*                                                                         *)
(* The job is the task list that the queue implements (JobLifecycle): an   *)
(* attempt is held by a lease that may end at any time, but nothing stops  *)
(* the handler of an attempt that lost its lease.  It goes on to write the *)
(* session; only its settlement is fenced.                                 *)
(*                                                                         *)
(* Ingestions share no row that decides anything, so one is enough.  No    *)
(* code sets a session to FAILED, and PROJECTING begins and ends inside    *)
(* the transaction that publishes.                                         *)
(***************************************************************************)
EXTENDS Naturals, Sequences, FiniteSets

CONSTANTS
  Hash,         \* what a pipeline may compute: reviewHash of a checkpoint
  NoHash,
  Worker, NoWorker, MaxAttempts

ASSUME IngestionAssumption ==
  /\ NoHash \notin Hash
  /\ NoWorker \notin Worker
  /\ MaxAttempts \in Nat \ {0}

VARIABLES
  session,   \* the row of ingestion.session: state and row_version
  frozen,    \* the frozen row of ingestion.transform_plan
  versions,  \* rows of catalog.data_item_version, with an outbox event each
  payload,   \* payload of the job: the session it expects to find
  job,       \* the job and its operation, a task of JobLifecycle
  run        \* run[n]: the handler of attempt n

vars == <<session, frozen, versions, payload, job, run>>
authorityVars == <<session, frozen, versions>>

Queue == INSTANCE JobLifecycle
           WITH Job <- {"job"}, task <- [j \in {"job"} |-> job]

Stages == <<"RECEIVED", "QUARANTINED", "SECURITY_SCANNED", "FINGERPRINTED",
            "PROFILED", "CLASSIFIED", "SCHEMA_MAPPED", "SEMANTIC_MAPPED",
            "VALIDATED", "SPATIOTEMPORAL_ALIGNED">>

Stage == {Stages[i] : i \in 1 .. Len(Stages)}
Aligned == Stages[Len(Stages)]
SessionState == Stage \cup {"REVIEW_REQUIRED", "APPROVED", "COMMITTED",
                            "PUBLISHED", "REJECTED", "CANCELLED"}

\* The longest way: every stage, review, approval, commit, and the two
\* transitions of the publication.
MaxVersion == Len(Stages) + 5

Payload == [state : {"RECEIVED", "APPROVED"}, version : 1 .. MaxVersion]

Verdict == {"NONE", "SUCCEEDED", "WAITING_REVIEW", "RETRY", "FATAL", "CONFLICT",
            "FENCED"}

Run ==
  [phase : {"idle", "load", "work", "commit", "copy", "wait", "end"},
   expected : Payload,        \* the payload it was claimed with
   state : SessionState,      \* the session as it knows it
   version : 1 .. MaxVersion,
   hash : Hash \cup {NoHash},
   verdict : Verdict]

Received == [state |-> "RECEIVED", version |-> 1]

NoRun == [phase |-> "idle", expected |-> Received, state |-> "RECEIVED",
          version |-> 1, hash |-> NoHash, verdict |-> "NONE"]

NotFrozen == [hash |-> NoHash, status |-> "NONE", risky |-> FALSE,
              reviewer |-> FALSE]

Attempt == 1 .. MaxAttempts

TypeOK ==
  /\ session \in [state : SessionState, version : 1 .. MaxVersion]
  /\ frozen \in [hash : Hash \cup {NoHash},
                 status : {"NONE", "REVIEW_REQUIRED", "APPROVED"},
                 risky : BOOLEAN, reviewer : BOOLEAN]
  /\ versions \subseteq Hash
  /\ payload \in Payload
  /\ job \in Queue!Task
  /\ job.attempts \in 0 .. MaxAttempts
  /\ run \in [Attempt -> Run]

Moved(state) == [state |-> state, version |-> session.version + 1]

-----------------------------------------------------------------------------
(* Commands.                                                               *)

\* data.ingestion.submit
Submit ==
  /\ session.state = "RECEIVED"
  /\ Queue!Enqueue(job, job')
  /\ payload' = [state |-> "RECEIVED", version |-> session.version]
  /\ UNCHANGED <<authorityVars, run>>

ApprovedPayload == [state |-> "APPROVED", version |-> session.version + 1]

\* data.ingestion.approve
Approve ==
  /\ session.state = "REVIEW_REQUIRED"
  /\ frozen.status = "REVIEW_REQUIRED"
  /\ Queue!Wake(job, job')
  /\ session' = Moved("APPROVED")
  /\ frozen' = [frozen EXCEPT !.status = "APPROVED", !.reviewer = TRUE]
  /\ payload' = ApprovedPayload
  /\ UNCHANGED <<versions, run>>

\* data.ingestion.reject
Reject ==
  /\ session.state = "REVIEW_REQUIRED"
  /\ job.phase = "parked"
  /\ Queue!Finish(job, job')
  /\ job'.result = "FAILED"
  /\ session' = Moved("REJECTED")
  /\ UNCHANGED <<frozen, versions, payload, run>>

\* data.operation.cancel: the session at once, a held job when its worker or
\* a recovery lets it go.
Cancel ==
  /\ session.state \notin {"REJECTED", "COMMITTED", "PUBLISHED", "CANCELLED"}
  /\ \/ Queue!AskToStop(job, job')
     \/ /\ job.phase /= "held"
        /\ Queue!Finish(job, job')
        /\ job'.result = "CANCELLED"
  /\ session' = Moved("CANCELLED")
  /\ UNCHANGED <<frozen, versions, payload, run>>

-----------------------------------------------------------------------------
(* The job and its attempts.                                               *)

Claim ==
  /\ Queue!Take(job, job')
  /\ run' = [run EXCEPT ![job'.attempts] = [NoRun EXCEPT !.phase = "load",
                                                         !.expected = payload]]
  /\ UNCHANGED <<authorityVars, payload>>

\* The attempt failed: it is repeated while the budget lasts.
RetryOrFail ==
  \/ Queue!Retry(job, job')
  \/ /\ job.attempts = MaxAttempts
     /\ Queue!Finish(job, job')
     /\ job'.result = "FAILED"

\* What a recovery makes of it: another attempt while the budget lasts, or none,
\* when it is used up or when the deadline of the attempt is over.
RetryOrDeadLetter ==
  \/ Queue!Retry(job, job')
  \/ Queue!Finish(job, job') /\ job'.result = "FAILED"

\* The lease or the deadline is over and recovery takes the job from its
\* worker, whose handler goes on; or a cancellation waits, and recovery or the
\* worker's settlement carries it out.
LeaseEnds ==
  /\ job.phase = "held"
  /\ IF job.stopping
       THEN Queue!Finish(job, job') /\ job'.result = "CANCELLED"
       ELSE RetryOrDeadLetter
  /\ UNCHANGED <<authorityVars, payload, run>>

\* The handler of attempt n goes on to r.
Proceed(n, r) == run' = [run EXCEPT ![n] = r]

Ends(r, verdict) == [r EXCEPT !.phase = "end", !.verdict = verdict]

\* The verdict reaches the queue while the attempt still holds the job.
Settle(n) ==
  /\ run[n].phase = "end"
  /\ job.phase = "held" /\ job.attempts = n /\ ~job.stopping
  /\ \/ /\ run[n].verdict = "SUCCEEDED"
        /\ Queue!Finish(job, job')
        /\ job'.result = "SUCCEEDED"
     \/ run[n].verdict = "WAITING_REVIEW" /\ Queue!Park(job, job')
     \/ run[n].verdict = "RETRY" /\ RetryOrFail
     \/ /\ run[n].verdict \in {"FATAL", "CONFLICT", "FENCED"}
        /\ Queue!Finish(job, job')
        /\ job'.result = "FAILED"
  /\ Proceed(n, NoRun)
  /\ UNCHANGED <<authorityVars, payload>>

\* The process dies, or its settlement is refused or lost.
Dies(n) ==
  /\ run[n].phase /= "idle"
  /\ Proceed(n, NoRun)
  /\ UNCHANGED <<authorityVars, payload, job>>

-----------------------------------------------------------------------------
(* The pipeline.                                                           *)

\* Mutant: a retry after the commit is not the expected session any more.
AdmitsOnlyApproved(expected) ==
  /\ session.version >= expected.version
  /\ session.version = expected.version => session.state = expected.state
  /\ expected.state = "APPROVED" => session.state = "APPROVED"

\* The fence of the payload.
Admits(expected) ==
  /\ session.version >= expected.version
  /\ session.version = expected.version => session.state = expected.state
  /\ expected.state = "APPROVED"
       => session.state \in {"APPROVED", "COMMITTED", "PUBLISHED"}

\* Where a handler goes on that finds the session in a state, and its verdict
\* when there is nothing to do.
PhaseAt(state) ==
  CASE state \in Stage -> "work"
    [] state = "APPROVED" -> "commit"
    [] state = "COMMITTED" -> "wait"
    [] OTHER -> "end"

VerdictAt(state) ==
  CASE state = "PUBLISHED" -> "SUCCEEDED"
    [] state = "REVIEW_REQUIRED" -> "WAITING_REVIEW"
    [] state \in {"REJECTED", "CANCELLED"} -> "FATAL"
    [] OTHER -> "NONE"

Load(n) ==
  /\ run[n].phase = "load"
  /\ Proceed(n, IF Admits(run[n].expected)
                  THEN [run[n] EXCEPT !.phase = PhaseAt(session.state),
                                      !.state = session.state,
                                      !.version = session.version,
                                      !.hash = frozen.hash,
                                      !.verdict = VerdictAt(session.state)]
                  ELSE Ends(run[n], "FENCED"))
  /\ UNCHANGED <<authorityVars, payload, job>>

\* Mutant: any later session will do.
IsNotBehind(n) == session.version >= run[n].version

\* Compare and swap: the session is as the handler knows it.
Matches(n) ==
  session.state = run[n].state /\ session.version = run[n].version

Knows(r, s) == [r EXCEPT !.state = s.state, !.version = s.version]

\* A stage is done; recordFingerprints for FINGERPRINTED, transition otherwise.
Advance(n) ==
  \E i \in 1 .. Len(Stages) - 1 :
    /\ run[n].phase = "work"
    /\ run[n].state = Stages[i]
    /\ Matches(n)
    /\ session' = Moved(Stages[i + 1])
    /\ Proceed(n, Knows(run[n], session'))
    /\ UNCHANGED <<frozen, versions, payload, job>>

\* Malware, or the quality gate.
PipelineRejects(n) ==
  /\ run[n].phase = "work"
  /\ run[n].state \in {"SECURITY_SCANNED", "VALIDATED"}
  /\ Matches(n)
  /\ session' = Moved("REJECTED")
  /\ Proceed(n, Ends(Knows(run[n], session'), "FATAL"))
  /\ UNCHANGED <<frozen, versions, payload, job>>

\* Mutant: nobody reviews.
FrozenAlways(h, risky) ==
  [hash |-> h, status |-> "APPROVED", risky |-> risky, reviewer |-> FALSE]

\* What is risky, restricted or uncertain wants a review.
Frozen(h, risky) ==
  [hash |-> h, status |-> IF risky THEN "REVIEW_REQUIRED" ELSE "APPROVED",
   risky |-> risky, reviewer |-> FALSE]

\* freezeCheckpoint
Freeze(n, h, risky) ==
  LET plan == Frozen(h, risky)
  IN  /\ run[n].phase = "work"
      /\ run[n].state = Aligned
      /\ Matches(n)
      /\ frozen' = plan
      /\ session' = Moved(plan.status)
      /\ LET known == [Knows(run[n], session') EXCEPT !.hash = h]
         IN  Proceed(n, IF plan.status = "APPROVED"
                          THEN [known EXCEPT !.phase = "commit"]
                          ELSE Ends(known, "WAITING_REVIEW"))
      /\ UNCHANGED <<versions, payload, job>>

\* The session is not as the handler knows it: INGESTION_AUTHORITY_CONFLICT.
Refused(n) ==
  /\ run[n].phase = "work"
  /\ ~Matches(n)
  /\ Proceed(n, Ends(run[n], "CONFLICT"))
  /\ UNCHANGED <<authorityVars, payload, job>>

\* A commit that is already done counts when nothing happened since.
AlreadyCommitted(r) ==
  IF session.version = r.version + 1 THEN [r EXCEPT !.phase = "wait"]
                                     ELSE Ends(r, "CONFLICT")

IsFrozen(n) == Matches(n) /\ frozen.hash = run[n].hash

\* commit looks at the session before it copies the objects.
CommitLoads(n) ==
  /\ run[n].phase = "commit"
  /\ Proceed(n, IF session.state \in {"COMMITTED", "PUBLISHED"}
                  THEN AlreadyCommitted(run[n])
                ELSE IF IsFrozen(n) THEN [run[n] EXCEPT !.phase = "copy"]
                ELSE Ends(run[n], "CONFLICT"))
  /\ UNCHANGED <<authorityVars, payload, job>>

\* The transaction of commit: version, session and outbox event.
Commits(n) ==
  /\ run[n].phase = "copy"
  /\ IsFrozen(n)
  /\ run[n].hash \notin versions
  /\ versions' = versions \cup {run[n].hash}
  /\ session' = Moved("COMMITTED")
  /\ Proceed(n, [run[n] EXCEPT !.phase = "wait"])
  /\ UNCHANGED <<frozen, payload, job>>

\* It finds another attempt's commit, or is refused.
CommitFinds(n) ==
  /\ run[n].phase = "copy"
  /\ ~IsFrozen(n) \/ run[n].hash \in versions
  /\ Proceed(n, IF session.state = "COMMITTED" /\ run[n].hash \in versions
                  THEN AlreadyCommitted(run[n])
                  ELSE Ends(run[n], "CONFLICT"))
  /\ UNCHANGED <<authorityVars, payload, job>>

\* Any port throws, the last call perhaps after its commit.
PortFails(n) ==
  /\ run[n].phase \in {"load", "work", "commit", "copy"}
  /\ \E verdict \in {"RETRY", "FATAL"} : Proceed(n, Ends(run[n], verdict))
  /\ UNCHANGED <<authorityVars, payload, job>>

\* Mutant: the job is done when the version is committed.
NoWait(n) ==
  /\ run[n].phase = "wait"
  /\ Proceed(n, Ends(run[n], "SUCCEEDED"))
  /\ UNCHANGED <<authorityVars, payload, job>>

\* The job is done when the version is published.
PublicationSeen(n) ==
  /\ run[n].phase = "wait"
  /\ session.state = "PUBLISHED"
  /\ Proceed(n, Ends(run[n], "SUCCEEDED"))
  /\ UNCHANGED <<authorityVars, payload, job>>

PublicationTimesOut(n) ==
  /\ run[n].phase = "wait"
  /\ Proceed(n, Ends(run[n], "RETRY"))
  /\ UNCHANGED <<authorityVars, payload, job>>

\* The consumer of the outbox: only under a running operation.
Publish ==
  /\ session.state = "COMMITTED"
  /\ job.phase \in {"queued", "held"}
  /\ session' = [state |-> "PUBLISHED", version |-> session.version + 2]
  /\ UNCHANGED <<frozen, versions, payload, job, run>>

-----------------------------------------------------------------------------
Init ==
  /\ session = Received
  /\ frozen = NotFrozen
  /\ versions = {}
  /\ payload = Received
  /\ job = Queue!Fresh
  /\ run = [n \in Attempt |-> NoRun]

HandlerStep(n) ==
  \/ Load(n)
  \/ Advance(n)
  \/ PipelineRejects(n)
  \/ \E h \in Hash, risky \in BOOLEAN : Freeze(n, h, risky)
  \/ Refused(n)
  \/ CommitLoads(n)
  \/ Commits(n)
  \/ CommitFinds(n)
  \/ PublicationSeen(n)
  \/ PublicationTimesOut(n)
  \/ Settle(n)

Next ==
  \/ Submit \/ Approve \/ Reject \/ Cancel
  \/ Claim \/ LeaseEnds \/ Publish
  \/ \E n \in Attempt : HandlerStep(n) \/ PortFails(n) \/ Dies(n)

Spec == Init /\ [][Next]_vars

-----------------------------------------------------------------------------
(* Properties.                                                             *)

IsCommitted == session.state \in {"COMMITTED", "PUBLISHED"}

\* What is committed is the one checkpoint that was approved, although every
\* attempt computes a checkpoint of its own and several may be under way: a
\* version exists exactly when the session says so, there is one, it has the
\* frozen hash, and a risky one passed the reviewer.
CommittedIsApproved ==
  /\ versions = IF IsCommitted THEN {frozen.hash} ELSE {}
  /\ session.state = "APPROVED" \/ IsCommitted
       => /\ frozen.status = "APPROVED"
          /\ frozen.risky => frozen.reviewer

\* Both ends agree: an operation succeeds with a published version, is
\* cancelled with its session, waits for a review that is there to be decided,
\* and a session is cancelled only if its operation is or will be.
EndsAgree ==
  /\ job.result = "SUCCEEDED" => session.state = "PUBLISHED"
  /\ job.result = "CANCELLED" => session.state = "CANCELLED"
  /\ job.phase = "parked" => session.state = "REVIEW_REQUIRED"
  /\ session.state = "CANCELLED" => job.stopping \/ job.result = "CANCELLED"

\* The fence of a payload refuses an attempt only when the ingestion was
\* cancelled or the attempt has lost its lease: no approval wakes a job that
\* cannot go on.
FenceAdmits ==
  \A n \in Attempt :
    run[n].verdict = "FENCED"
      => job.phase /= "held" \/ job.attempts /= n \/ job.stopping

SessionEdges ==
  {<<Stages[i], Stages[i + 1]>> : i \in 1 .. Len(Stages) - 1}
    \cup {<<s, "CANCELLED">> : s \in Stage \cup {"REVIEW_REQUIRED", "APPROVED"}}
    \cup ({"SECURITY_SCANNED", "VALIDATED", "REVIEW_REQUIRED"} \X {"REJECTED"})
    \cup ({Aligned} \X {"REVIEW_REQUIRED", "APPROVED"})
    \cup {<<"REVIEW_REQUIRED", "APPROVED">>, <<"APPROVED", "COMMITTED">>,
          <<"COMMITTED", "PUBLISHED">>}

\* A session goes its way once, whoever drives it: each write takes it along
\* an edge of the transition policy and raises its version, whatever the
\* writer believed; a decided session is left alone and no stage is repeated.
SessionFollowsPolicy ==
  [][session' /= session
       => /\ <<session.state, session'.state>> \in SessionEdges
          /\ session'.version > session.version]_vars

\* A lease that expires leads to another attempt while the budget lasts: what
\* an earlier attempt wrote makes no attempt settle the job as failed, unless it
\* ended the ingestion.
ExpiryIsRetried ==
  [][\A n \in Attempt :
       (/\ job.attempts = n
        /\ run[n].verdict = "CONFLICT" /\ run'[n].phase = "idle"
        /\ job.result = "none" /\ job'.result = "FAILED"
        /\ session.state /= "REJECTED")
         => n = MaxAttempts]_vars

\* The stages are one place, and of the frozen row the status is left out, which
\* the session repeats.
Place == IF session.state \in Stage THEN "DRAFT" ELSE session.state
PlanOf == [hash |-> frozen.hash, risky |-> frozen.risky, reviewed |-> frozen.reviewer]

Record == INSTANCE ReviewedPublication WITH
  place <- Place, plan <- PlanOf, outcome <- job.result

\* Whatever handlers are under way, with a lease or without one, owner, reviewer
\* and readers see one draft that becomes one plan, is approved, committed and
\* published in this order or ended before, and an operation that says so.
ImplementsReviewedPublication == Record!Spec
=============================================================================
