-------------------------- MODULE Ingestion_proofs --------------------------
(***************************************************************************)
(* Theorems about an ingestion, for every set of checkpoints and workers   *)
(* and every retry budget.                                                 *)
(***************************************************************************)
EXTENDS Ingestion, TLAPS

-----------------------------------------------------------------------------
(* The inductive invariant.                                                *)

\* Types, with versions of any size.
SomePayload == [state : {"RECEIVED", "APPROVED"}, version : Nat]

SomeRun ==
  [phase : {"idle", "load", "work", "commit", "copy", "wait", "end"},
   expected : SomePayload, state : SessionState, version : Nat,
   hash : Hash \cup {NoHash}, verdict : Verdict]

Plan == [hash : Hash \cup {NoHash},
         status : {"NONE", "REVIEW_REQUIRED", "APPROVED"},
         risky : BOOLEAN, reviewer : BOOLEAN]

Typed ==
  /\ session \in [state : SessionState, version : Nat]
  /\ frozen \in Plan
  /\ payload \in SomePayload
  /\ job \in Queue!Task

\* A job is over with its result, and asked to stop only with its session.
JobFacts ==
  /\ job.result /= "none" => job.phase = "done"
  /\ job.stopping => job.phase = "held" /\ session.state = "CANCELLED"

\* The payload fits the session, or the session was cancelled.
PayloadFits ==
  /\ session.version >= payload.version
  /\ session.version = payload.version => session.state = payload.state
  /\ payload.state = "APPROVED"
       => session.state \in {"APPROVED", "COMMITTED", "PUBLISHED", "CANCELLED"}

Authority ==
  Typed /\ CommittedIsApproved /\ EndsAgree /\ JobFacts /\ PayloadFits

\* Attempt n has the job, and nobody wants it cancelled.
Holds(n) == job.phase = "held" /\ job.attempts = n /\ ~job.stopping

\* What a handler knows for good, and what it knows while it has the job.
GoodRun(n, r) ==
  /\ r.phase \in {"commit", "copy"} => r.state = "APPROVED"
  /\ r.verdict = "SUCCEEDED" => session.state = "PUBLISHED"
  /\ Holds(n) => /\ r.phase = "load" => r.expected = payload
                 /\ r.verdict = "WAITING_REVIEW" => session.state = "REVIEW_REQUIRED"
                 /\ r.verdict /= "FENCED"

Runs == /\ run \in [Attempt -> SomeRun]
        /\ \A n \in Attempt : GoodRun(n, run[n])

Inv == Authority /\ Runs

\* A session is left alone, or goes along an edge and gets a new version.
Edge == session' /= session
          => /\ <<session.state, session'.state>> \in SessionEdges
             /\ session'.version > session.version

-----------------------------------------------------------------------------
(* Stages.                                                                 *)

LEMMA StageFacts ==
  /\ Len(Stages) = 10
  /\ \A i \in 1 .. 9 : Stages[i] \in Stage /\ Stages[i + 1] \in Stage
  /\ Aligned \in Stage
  /\ "SECURITY_SCANNED" \in Stage /\ "VALIDATED" \in Stage /\ "RECEIVED" \in Stage
  /\ Stage \cap {"REVIEW_REQUIRED", "APPROVED", "COMMITTED", "PUBLISHED",
                 "REJECTED", "CANCELLED"} = {}
  /\ Stage \subseteq SessionState
<1>1. Len(Stages) = 10
  BY DEF Stages
<1>2. Stage = {"RECEIVED", "QUARANTINED", "SECURITY_SCANNED", "FINGERPRINTED",
               "PROFILED", "CLASSIFIED", "SCHEMA_MAPPED", "SEMANTIC_MAPPED",
               "VALIDATED", "SPATIOTEMPORAL_ALIGNED"}
  BY <1>1 DEF Stage, Stages
<1>3. \A i \in 1 .. 9 : Stages[i] \in Stage /\ Stages[i + 1] \in Stage
  BY <1>1 DEF Stage
<1>4. Aligned \in Stage
  BY <1>1 DEF Stage, Aligned
<1> QED BY <1>1, <1>2, <1>3, <1>4 DEF SessionState

-----------------------------------------------------------------------------
(* What the queue does to the job.                                         *)

LEMMA QueueMoves ==
  ASSUME NEW x \in Queue!Task, NEW y
  PROVE  /\ Queue!Enqueue(x, y) \/ Queue!Wake(x, y)
              => /\ y \in Queue!Task /\ y.phase = "queued"
                 /\ y.stopping = x.stopping /\ y.result = x.result
                 /\ x.phase \in {"new", "parked"}
         /\ Queue!Retry(x, y)
              => /\ y \in Queue!Task /\ y.phase = "queued" /\ ~x.stopping
                 /\ y.stopping = x.stopping /\ y.result = x.result
                 /\ x.phase = "held"
         /\ Queue!Park(x, y)
              => /\ y \in Queue!Task /\ y.phase = "parked" /\ ~x.stopping
                 /\ y.stopping = x.stopping /\ y.result = x.result
                 /\ x.phase = "held"
         /\ Queue!AskToStop(x, y)
              => /\ y \in Queue!Task /\ y.phase = "held" /\ y.stopping
                 /\ y.result = x.result /\ x.phase = "held"
         /\ Queue!Finish(x, y)
              => /\ y \in Queue!Task /\ y.phase = "done" /\ ~y.stopping
                 /\ x.phase /= "done"
<1>1. ASSUME Queue!Enqueue(x, y) \/ Queue!Wake(x, y)
      PROVE  /\ y \in Queue!Task /\ y.phase = "queued"
             /\ y.stopping = x.stopping /\ y.result = x.result
             /\ x.phase \in {"new", "parked"}
  BY <1>1 DEF Queue!Task, Queue!Enqueue, Queue!Wake
<1>2. ASSUME Queue!Retry(x, y)
      PROVE  /\ y \in Queue!Task /\ y.phase = "queued" /\ ~x.stopping
             /\ y.stopping = x.stopping /\ y.result = x.result
             /\ x.phase = "held"
  BY <1>2 DEF Queue!Task, Queue!Retry
<1>3. ASSUME Queue!Park(x, y)
      PROVE  /\ y \in Queue!Task /\ y.phase = "parked" /\ ~x.stopping
             /\ y.stopping = x.stopping /\ y.result = x.result
             /\ x.phase = "held"
  BY <1>3 DEF Queue!Task, Queue!Park
<1>4. ASSUME Queue!AskToStop(x, y)
      PROVE  /\ y \in Queue!Task /\ y.phase = "held" /\ y.stopping
             /\ y.result = x.result /\ x.phase = "held"
  BY <1>4 DEF Queue!Task, Queue!AskToStop
<1>5. ASSUME Queue!Finish(x, y)
      PROVE  /\ y \in Queue!Task /\ y.phase = "done" /\ ~y.stopping
             /\ x.phase /= "done"
  BY <1>5 DEF Queue!Task, Queue!Finish
<1> QED BY <1>1, <1>2, <1>3, <1>4, <1>5

LEMMA QueueTakes ==
  ASSUME NEW x \in Queue!Task, NEW y, Queue!Take(x, y)
  PROVE  /\ y \in Queue!Task /\ y.phase = "held" /\ y.stopping = x.stopping
         /\ y.result = x.result /\ x.phase = "queued"
         /\ y.attempts \in Attempt
<1> DEFINE a == x.attempts + 1
<1>1. a \in Attempt
  BY IngestionAssumption DEF Queue!Task, Queue!Take, Attempt
<1>2. PICK w \in Worker : y = [x EXCEPT !.phase = "held", !.holder = w,
                                        !.attempts = a]
  BY DEF Queue!Take, Queue!Task
<1>3. a \in Nat
  BY <1>1 DEF Attempt
<1> HIDE DEF a
<1> QED BY <1>1, <1>2, <1>3 DEF Queue!Task, Queue!Take

-----------------------------------------------------------------------------
(* A step of the handler of attempt n, which becomes r.                    *)

\* Every other handler knows what it knew.
LEMMA RunMoves ==
  ASSUME Inv, NEW n \in Attempt, NEW r \in SomeRun, Proceed(n, r),
         UNCHANGED <<payload, job>>,
         session.state \in {"PUBLISHED", "REVIEW_REQUIRED"}
           => session'.state = session.state,
         r.phase \in {"commit", "copy"} => r.state = "APPROVED",
         r.verdict = "SUCCEEDED" => session'.state = "PUBLISHED",
         Holds(n) => /\ r.phase /= "load"
                     /\ r.verdict = "WAITING_REVIEW"
                          => session'.state = "REVIEW_REQUIRED"
                     /\ r.verdict /= "FENCED"
  PROVE  Runs'
<1>1. run' \in [Attempt -> SomeRun]
  BY DEF Proceed, Inv, Runs
<1>2. GoodRun(n, run[n])'
  BY DEF Proceed, Inv, Runs, GoodRun, Holds
<1>3. ASSUME NEW k \in Attempt, k /= n
      PROVE  GoodRun(k, run[k])'
  BY <1>3 DEF Proceed, Inv, Runs, GoodRun, Holds
<1> QED BY <1>1, <1>2, <1>3 DEF Runs

\* A step that writes nothing but the handler.
LEMMA LooksOnly ==
  ASSUME Inv, NEW n \in Attempt, NEW r \in SomeRun, Proceed(n, r),
         UNCHANGED <<authorityVars, payload, job>>,
         r.phase \in {"commit", "copy"} => r.state = "APPROVED",
         r.verdict = "SUCCEEDED" => session.state = "PUBLISHED",
         Holds(n) => /\ r.phase /= "load"
                     /\ r.verdict = "WAITING_REVIEW"
                          => session.state = "REVIEW_REQUIRED"
                     /\ r.verdict /= "FENCED"
  PROVE  Inv' /\ Edge
<1>1. Authority'
  BY DEF Inv, Authority, Typed, CommittedIsApproved, IsCommitted, EndsAgree,
         JobFacts, PayloadFits, authorityVars
<1>2. Runs'
  BY RunMoves DEF authorityVars
<1> QED BY <1>1, <1>2 DEF Inv, Edge, authorityVars

\* A handler moves the session on, from a stage or from its approval.
LEMMA MovesOn ==
  ASSUME Inv, NEW n \in Attempt, NEW r \in SomeRun, Proceed(n, r),
         UNCHANGED <<payload, job>>,
         NEW state \in SessionState \ {"CANCELLED", "PUBLISHED"},
         session' = Moved(state),
         <<session.state, state>> \in SessionEdges,
         \/ session.state \in Stage
         \/ session.state = "APPROVED" /\ state = "COMMITTED",
         frozen' \in Plan, CommittedIsApproved',
         r.phase \in {"commit", "copy"} => r.state = "APPROVED",
         r.verdict /= "SUCCEEDED",
         Holds(n) => /\ r.phase /= "load"
                     /\ r.verdict = "WAITING_REVIEW"
                          => state = "REVIEW_REQUIRED"
                     /\ r.verdict /= "FENCED"
  PROVE  Inv' /\ Edge
<1>1. /\ session' \in [state : SessionState, version : Nat]
      /\ session'.state = state /\ session'.version = session.version + 1
      /\ session.version \in Nat
  BY DEF Moved, Inv, Authority, Typed
<1>2. session.state \notin {"REVIEW_REQUIRED", "COMMITTED", "PUBLISHED",
                           "CANCELLED", "REJECTED"}
  BY StageFacts
<1>3. Typed' /\ CommittedIsApproved'
  BY <1>1 DEF Inv, Authority, Typed
<1>4. EndsAgree' /\ JobFacts'
  BY <1>1, <1>2 DEF Inv, Authority, EndsAgree, JobFacts
<1>5. PayloadFits'
  <2>1. payload.version \in Nat
    BY DEF Inv, Authority, Typed, SomePayload
  <2>2. payload.state = "APPROVED" => state = "COMMITTED"
    BY StageFacts DEF Inv, Authority, PayloadFits
  <2> QED BY <1>1, <2>1, <2>2 DEF Inv, Authority, PayloadFits
<1>6. Runs'
  BY <1>1, <1>2, RunMoves
<1> QED BY <1>1, <1>3, <1>4, <1>5, <1>6 DEF Inv, Authority, Edge

\* The fence of its payload lets an attempt in that has the job.
LEMMA HolderIsAdmitted ==
  ASSUME Inv, NEW n \in Attempt, Holds(n), run[n].phase = "load"
  PROVE  Admits(run[n].expected)
BY DEF Inv, Authority, EndsAgree, JobFacts, PayloadFits, Runs, GoodRun, Holds, Admits

LEMMA EndsFacts ==
  ASSUME NEW r \in SomeRun, NEW v \in Verdict
  PROVE  /\ Ends(r, v) \in SomeRun
         /\ Ends(r, v).phase = "end" /\ Ends(r, v).verdict = v
BY DEF Ends, SomeRun

LEMMA LoadStep ==
  ASSUME Inv, NEW n \in Attempt, Load(n)
  PROVE  Inv' /\ Edge
<1>1. run[n] \in SomeRun /\ session.state \in SessionState /\ session.version \in Nat
      /\ frozen.hash \in Hash \cup {NoHash}
  BY DEF Inv, Authority, Typed, Runs, Plan
<1>2. CASE Admits(run[n].expected)
  <2>1. /\ PhaseAt(session.state) \in {"work", "commit", "wait", "end"}
        /\ PhaseAt(session.state) = "commit" => session.state = "APPROVED"
    BY StageFacts DEF PhaseAt
  <2>2. /\ VerdictAt(session.state) \in Verdict \ {"FENCED"}
        /\ VerdictAt(session.state) = "SUCCEEDED" => session.state = "PUBLISHED"
        /\ VerdictAt(session.state) = "WAITING_REVIEW"
             => session.state = "REVIEW_REQUIRED"
    BY DEF VerdictAt, Verdict
  <2>3. PICK r : r = [run[n] EXCEPT !.phase = PhaseAt(session.state),
                                    !.state = session.state,
                                    !.version = session.version,
                                    !.hash = frozen.hash,
                                    !.verdict = VerdictAt(session.state)]
    OBVIOUS
  <2>4. /\ r \in SomeRun /\ r.phase = PhaseAt(session.state)
        /\ r.state = session.state /\ r.verdict = VerdictAt(session.state)
    BY <1>1, <2>1, <2>2, <2>3 DEF SomeRun
  <2>5. Proceed(n, r)
    BY <1>2, <2>3 DEF Load
  <2> QED BY <2>1, <2>2, <2>4, <2>5, LooksOnly DEF Load
<1>3. CASE ~Admits(run[n].expected)
  <2>1. ~Holds(n)
    BY <1>3, HolderIsAdmitted DEF Load
  <2>2. Proceed(n, Ends(run[n], "FENCED")) /\ "FENCED" \in Verdict
    BY <1>3 DEF Load, Verdict
  <2> QED BY <1>1, <2>1, <2>2, EndsFacts, LooksOnly DEF Load
<1> QED BY <1>2, <1>3

LEMMA PhaseFacts ==
  ASSUME NEW r \in SomeRun,
         NEW p \in {"idle", "load", "work", "commit", "copy", "wait", "end"}
  PROVE  LET q == [r EXCEPT !.phase = p]
         IN  /\ q \in SomeRun /\ q.phase = p
             /\ q.state = r.state /\ q.verdict = r.verdict
BY DEF SomeRun

LEMMA KnowsFacts ==
  ASSUME NEW r \in SomeRun, NEW s \in [state : SessionState, version : Nat]
  PROVE  LET q == Knows(r, s)
         IN  /\ q \in SomeRun /\ q.phase = r.phase
             /\ q.state = s.state /\ q.verdict = r.verdict
BY DEF SomeRun, Knows

LEMMA MovedFacts ==
  ASSUME Inv, NEW state \in SessionState
  PROVE  /\ Moved(state) \in [state : SessionState, version : Nat]
         /\ Moved(state).state = state
         /\ Moved(state).version = session.version + 1
BY DEF Moved, Inv, Authority, Typed

LEMMA NothingCommitted ==
  ASSUME Inv, session.state \in Stage
  PROVE  versions = {}
BY StageFacts DEF Inv, Authority, CommittedIsApproved, IsCommitted

LEMMA AdvanceStep ==
  ASSUME Inv, NEW n \in Attempt, Advance(n)
  PROVE  Inv' /\ Edge
<1>1. PICK i \in 1 .. 9 : /\ run[n].phase = "work"
                         /\ run[n].state = Stages[i]
                         /\ Matches(n)
                         /\ session' = Moved(Stages[i + 1])
                         /\ Proceed(n, Knows(run[n], session'))
                         /\ UNCHANGED <<frozen, versions, payload, job>>
  BY StageFacts DEF Advance
<1>2. PICK state : state = Stages[i + 1]
  OBVIOUS
<1>3. /\ session.state \in Stage /\ state \in Stage
      /\ state \in SessionState \ {"CANCELLED", "PUBLISHED"}
      /\ <<session.state, state>> \in SessionEdges
  BY <1>1, <1>2, StageFacts DEF Matches, SessionEdges
<1>4. /\ session' = Moved(state)
      /\ session' \in [state : SessionState, version : Nat]
      /\ session'.state = state
  BY <1>1, <1>2, <1>3, MovedFacts
<1>5. PICK r : r = Knows(run[n], session')
  OBVIOUS
<1>6. r \in SomeRun /\ r.phase = "work" /\ r.verdict = run[n].verdict
  BY <1>1, <1>4, <1>5, KnowsFacts DEF Inv, Runs
<1>7. CommittedIsApproved' /\ frozen' \in Plan
  BY <1>1, <1>3, <1>4, NothingCommitted, StageFacts
     DEF CommittedIsApproved, IsCommitted, Inv, Authority, Typed
<1>8. /\ r.verdict /= "SUCCEEDED"
      /\ Holds(n) => r.verdict \notin {"WAITING_REVIEW", "FENCED"}
  BY <1>3, <1>6, StageFacts DEF Inv, Runs, GoodRun
<1> QED BY <1>1, <1>3, <1>4, <1>5, <1>6, <1>7, <1>8, MovesOn

LEMMA PipelineRejectsStep ==
  ASSUME Inv, NEW n \in Attempt, PipelineRejects(n)
  PROVE  Inv' /\ Edge
<1>1. /\ session.state \in Stage
      /\ <<session.state, "REJECTED">> \in SessionEdges
      /\ "REJECTED" \in SessionState
  BY StageFacts DEF PipelineRejects, Matches, SessionEdges, SessionState
<1>2. /\ session' \in [state : SessionState, version : Nat]
      /\ session' = Moved("REJECTED") /\ session'.state = "REJECTED"
  BY <1>1, MovedFacts DEF PipelineRejects
<1>3. PICK r : r = Ends(Knows(run[n], session'), "FATAL")
  OBVIOUS
<1>4. r \in SomeRun /\ r.phase = "end" /\ r.verdict = "FATAL"
  BY <1>2, <1>3, KnowsFacts, EndsFacts DEF Inv, Runs, Verdict
<1>5. CommittedIsApproved' /\ frozen' \in Plan
  BY <1>1, <1>2, NothingCommitted
     DEF CommittedIsApproved, IsCommitted, Inv, Authority, Typed, PipelineRejects
<1> QED BY <1>1, <1>2, <1>3, <1>4, <1>5, MovesOn DEF PipelineRejects

LEMMA FreezeStep ==
  ASSUME Inv, NEW n \in Attempt, NEW h \in Hash, NEW risky \in BOOLEAN,
         Freeze(n, h, risky)
  PROVE  Inv' /\ Edge
<1>1. PICK plan : plan = Frozen(h, risky)
  OBVIOUS
<1>2. /\ plan \in Plan /\ plan.status \in {"REVIEW_REQUIRED", "APPROVED"}
      /\ plan.status = "APPROVED" => ~plan.risky
  BY <1>1 DEF Frozen, Plan
<1>3. /\ run[n].phase = "work" /\ run[n].state = Aligned /\ Matches(n)
      /\ frozen' = plan /\ session' = Moved(plan.status)
      /\ UNCHANGED <<versions, payload, job>>
  BY <1>1 DEF Freeze
<1>4. PICK known : known = [Knows(run[n], session') EXCEPT !.hash = h]
  OBVIOUS
<1>5. PICK r : r = IF plan.status = "APPROVED"
                     THEN [known EXCEPT !.phase = "commit"]
                     ELSE Ends(known, "WAITING_REVIEW")
  OBVIOUS
<1>6. Proceed(n, r)
  BY <1>1, <1>4, <1>5 DEF Freeze
<1>7. /\ session.state = Aligned /\ session.state \in Stage
      /\ <<session.state, plan.status>> \in SessionEdges
      /\ plan.status \in SessionState \ {"CANCELLED", "PUBLISHED"}
  BY <1>2, <1>3, StageFacts DEF Matches, SessionEdges, SessionState
<1>8. /\ session' \in [state : SessionState, version : Nat]
      /\ session'.state = plan.status
  BY <1>3, <1>7, MovedFacts
<1>9. /\ known \in SomeRun /\ known.state = plan.status
      /\ known.verdict = run[n].verdict
  <2>1. PICK q : q = Knows(run[n], session')
    OBVIOUS
  <2>2. q \in SomeRun /\ q.state = plan.status /\ q.verdict = run[n].verdict
    BY <1>8, <2>1, KnowsFacts DEF Inv, Runs
  <2> QED BY <1>4, <2>1, <2>2 DEF SomeRun
<1>10. /\ run[n].verdict /= "SUCCEEDED"
       /\ Holds(n) => run[n].verdict \notin {"WAITING_REVIEW", "FENCED"}
  BY <1>7, StageFacts DEF Inv, Runs, GoodRun
<1>11. CommittedIsApproved'
  BY <1>2, <1>3, <1>7, <1>8, NothingCommitted
     DEF CommittedIsApproved, IsCommitted
<1>12. CASE plan.status = "APPROVED"
  <2>1. /\ r \in SomeRun /\ r.phase = "commit" /\ r.state = "APPROVED"
        /\ r.verdict = run[n].verdict
    BY <1>5, <1>9, <1>12, PhaseFacts
  <2> QED BY <1>2, <1>3, <1>6, <1>7, <1>10, <1>11, <2>1, MovesOn
<1>13. CASE plan.status = "REVIEW_REQUIRED"
  <2>1. r \in SomeRun /\ r.phase = "end" /\ r.verdict = "WAITING_REVIEW"
    BY <1>5, <1>9, <1>13, EndsFacts DEF Verdict
  <2> QED BY <1>2, <1>3, <1>6, <1>7, <1>11, <1>13, <2>1, MovesOn
<1> QED BY <1>2, <1>12, <1>13

LEMMA RefusedStep ==
  ASSUME Inv, NEW n \in Attempt, Refused(n)
  PROVE  Inv' /\ Edge
<1>1. PICK r : r = Ends(run[n], "CONFLICT")
  OBVIOUS
<1>2. r \in SomeRun /\ r.phase = "end" /\ r.verdict = "CONFLICT"
  BY <1>1, EndsFacts DEF Inv, Runs, Verdict
<1> QED BY <1>1, <1>2, LooksOnly DEF Refused

\* A handler that looks for a commit waits for it or gives up.
LEMMA LooksForCommit ==
  ASSUME Inv, NEW n \in Attempt, run[n].phase \in {"commit", "copy"},
         NEW r, r = AlreadyCommitted(run[n]) \/ r = Ends(run[n], "CONFLICT"),
         Proceed(n, r), UNCHANGED <<authorityVars, payload, job>>
  PROVE  Inv' /\ Edge
<1>1. run[n] \in SomeRun /\ GoodRun(n, run[n])
  BY DEF Inv, Runs
<1>2. CASE r = Ends(run[n], "CONFLICT")
  BY <1>1, <1>2, EndsFacts, LooksOnly DEF Verdict
<1>3. CASE r = [run[n] EXCEPT !.phase = "wait"]
  <2>1. r \in SomeRun /\ r.phase = "wait" /\ r.verdict = run[n].verdict
    BY <1>1, <1>3, PhaseFacts
  <2> QED BY <1>1, <2>1, LooksOnly DEF GoodRun
<1> QED BY <1>2, <1>3 DEF AlreadyCommitted

LEMMA CommitLoadsStep ==
  ASSUME Inv, NEW n \in Attempt, CommitLoads(n)
  PROVE  Inv' /\ Edge
<1>1. CASE session.state \in {"COMMITTED", "PUBLISHED"}
  BY <1>1, LooksForCommit DEF CommitLoads
<1>2. CASE session.state \notin {"COMMITTED", "PUBLISHED"} /\ ~IsFrozen(n)
  BY <1>2, LooksForCommit DEF CommitLoads
<1>3. CASE session.state \notin {"COMMITTED", "PUBLISHED"} /\ IsFrozen(n)
  <2>1. PICK r : r = [run[n] EXCEPT !.phase = "copy"]
    OBVIOUS
  <2>2. run[n] \in SomeRun /\ GoodRun(n, run[n])
    BY DEF Inv, Runs
  <2>3. /\ r \in SomeRun /\ r.phase = "copy" /\ r.state = run[n].state
        /\ r.verdict = run[n].verdict
    BY <2>1, <2>2, PhaseFacts
  <2>4. Proceed(n, r)
    BY <1>3, <2>1 DEF CommitLoads
  <2> QED BY <2>2, <2>3, <2>4, LooksOnly DEF GoodRun, CommitLoads
<1> QED BY <1>1, <1>2, <1>3

LEMMA CommitFindsStep ==
  ASSUME Inv, NEW n \in Attempt, CommitFinds(n)
  PROVE  Inv' /\ Edge
BY LooksForCommit DEF CommitFinds

LEMMA CommitsStep ==
  ASSUME Inv, NEW n \in Attempt, Commits(n)
  PROVE  Inv' /\ Edge
<1>1. run[n] \in SomeRun /\ GoodRun(n, run[n])
  BY DEF Inv, Runs
<1>2. /\ session.state = "APPROVED" /\ frozen.hash = run[n].hash
      /\ "COMMITTED" \in SessionState
      /\ <<session.state, "COMMITTED">> \in SessionEdges
  BY <1>1 DEF Commits, IsFrozen, Matches, GoodRun, SessionState, SessionEdges
<1>3. session' = Moved("COMMITTED") /\ session'.state = "COMMITTED"
  BY <1>2, MovedFacts DEF Commits
<1>4. CommittedIsApproved' /\ frozen' \in Plan
  BY <1>2, <1>3
     DEF CommittedIsApproved, IsCommitted, Inv, Authority, Typed, Commits
<1>5. PICK r : r = [run[n] EXCEPT !.phase = "wait"]
  OBVIOUS
<1>6. r \in SomeRun /\ r.phase = "wait" /\ r.verdict = run[n].verdict
  BY <1>1, <1>5, PhaseFacts
<1>7. /\ r.verdict /= "SUCCEEDED"
      /\ Holds(n) => r.verdict \notin {"WAITING_REVIEW", "FENCED"}
  BY <1>1, <1>2, <1>6 DEF GoodRun
<1> QED BY <1>2, <1>3, <1>4, <1>5, <1>6, <1>7, MovesOn DEF Commits

LEMMA PortFailsStep ==
  ASSUME Inv, NEW n \in Attempt, PortFails(n)
  PROVE  Inv' /\ Edge
<1>1. PICK v \in {"RETRY", "FATAL"} : Proceed(n, Ends(run[n], v))
  BY DEF PortFails
<1>2. v \in Verdict /\ run[n] \in SomeRun
  BY DEF Verdict, Inv, Runs
<1> QED BY <1>1, <1>2, EndsFacts, LooksOnly DEF PortFails

LEMMA PublicationStep ==
  ASSUME Inv, NEW n \in Attempt, PublicationSeen(n) \/ PublicationTimesOut(n)
  PROVE  Inv' /\ Edge
<1>1. run[n] \in SomeRun /\ {"SUCCEEDED", "RETRY"} \subseteq Verdict
  BY DEF Verdict, Inv, Runs
<1> QED BY <1>1, EndsFacts, LooksOnly DEF PublicationSeen, PublicationTimesOut

LEMMA NoRunFacts ==
  NoRun \in SomeRun /\ NoRun.phase = "idle" /\ NoRun.verdict = "NONE"
<1>1. "RECEIVED" \in SessionState
  BY StageFacts
<1> QED BY <1>1 DEF NoRun, SomeRun, SomePayload, Received, Verdict

LEMMA DiesStep ==
  ASSUME Inv, NEW n \in Attempt, Dies(n)
  PROVE  Inv' /\ Edge
BY NoRunFacts, LooksOnly DEF Dies

-----------------------------------------------------------------------------
(* The job changes hands.                                                  *)

\* When nobody has the job afterwards, a handler need only know a
\* publication, which lasts.
LEMMA RunsWithoutJob ==
  ASSUME Inv, job'.phase /= "held" \/ job'.stopping,
         run' = run \/ \E n \in Attempt : Proceed(n, NoRun),
         session.state = "PUBLISHED" => session'.state = "PUBLISHED"
  PROVE  Runs'
<1>1. run' \in [Attempt -> SomeRun]
  BY NoRunFacts DEF Proceed, Inv, Runs
<1>2. ASSUME NEW k \in Attempt
      PROVE  run'[k] = run[k] \/ run'[k] = NoRun
  BY DEF Proceed, Inv, Runs
<1>3. ASSUME NEW k \in Attempt
      PROVE  GoodRun(k, run[k])'
  <2>1. CASE run'[k] = run[k]
    BY <2>1 DEF Inv, Runs, GoodRun, Holds
  <2>2. CASE run'[k] = NoRun
    BY <2>2, NoRunFacts DEF GoodRun, Holds
  <2> QED BY <1>2, <2>1, <2>2
<1> QED BY <1>1, <1>3 DEF Runs

\* The job leaves its attempt, whose session stays as it is.
LEMMA JobLeaves ==
  ASSUME Inv, UNCHANGED <<authorityVars, payload>>,
         run' = run \/ \E n \in Attempt : Proceed(n, NoRun),
         job' \in Queue!Task, ~job'.stopping,
         job'.phase \in {"queued", "parked", "done"},
         job'.phase /= "done" => job'.result = "none",
         job'.phase = "parked" => session.state = "REVIEW_REQUIRED",
         job'.result = "SUCCEEDED" => session.state = "PUBLISHED",
         job'.result = "CANCELLED" <=> session.state = "CANCELLED"
  PROVE  Inv' /\ Edge
<1>1. Authority'
  BY DEF Inv, Authority, Typed, CommittedIsApproved, IsCommitted, EndsAgree,
         JobFacts, PayloadFits, authorityVars
<1>2. Runs'
  BY RunsWithoutJob DEF authorityVars
<1> QED BY <1>1, <1>2 DEF Inv, Edge, authorityVars

\* A held job has no result, and its session is cancelled only with it.
LEMMA HeldJob ==
  ASSUME Inv, job.phase = "held"
  PROVE  job.result = "none" /\ (job.stopping <=> session.state = "CANCELLED")
BY DEF Inv, Authority, JobFacts, EndsAgree

LEMMA Retried ==
  ASSUME Inv, RetryOrFail \/ RetryOrDeadLetter, job.phase = "held", ~job.stopping
  PROVE  /\ job' \in Queue!Task /\ ~job'.stopping
         /\ \/ job'.phase = "queued" /\ job'.result = "none"
            \/ job'.phase = "done" /\ job'.result = "FAILED"
BY HeldJob, QueueMoves DEF RetryOrFail, RetryOrDeadLetter, Inv, Authority, Typed

LEMMA SettleStep ==
  ASSUME Inv, NEW n \in Attempt, Settle(n)
  PROVE  Inv' /\ Edge
<1>1. /\ job \in Queue!Task /\ Holds(n) /\ GoodRun(n, run[n])
      /\ job.phase = "held" /\ ~job.stopping
  BY DEF Inv, Authority, Typed, Runs, Settle, Holds
<1>2. job.result = "none" /\ session.state /= "CANCELLED"
  BY <1>1, HeldJob
<1>3. UNCHANGED <<authorityVars, payload>> /\ Proceed(n, NoRun)
  BY DEF Settle
<1>4. CASE run[n].verdict = "SUCCEEDED" /\ Queue!Finish(job, job')
            /\ job'.result = "SUCCEEDED"
  BY <1>1, <1>2, <1>3, <1>4, QueueMoves, JobLeaves DEF GoodRun
<1>5. CASE run[n].verdict = "WAITING_REVIEW" /\ Queue!Park(job, job')
  BY <1>1, <1>2, <1>3, <1>5, QueueMoves, JobLeaves DEF GoodRun
<1>6. CASE run[n].verdict = "RETRY" /\ RetryOrFail
  BY <1>1, <1>2, <1>3, <1>6, Retried, JobLeaves
<1>7. CASE Queue!Finish(job, job') /\ job'.result = "FAILED"
  BY <1>1, <1>2, <1>3, <1>7, QueueMoves, JobLeaves
<1> QED BY <1>4, <1>5, <1>6, <1>7 DEF Settle

LEMMA LeaseEndsStep ==
  ASSUME Inv, LeaseEnds
  PROVE  Inv' /\ Edge
<1>1. /\ job \in Queue!Task /\ job.phase = "held" /\ run' = run
      /\ UNCHANGED <<authorityVars, payload>>
  BY DEF Inv, Authority, Typed, LeaseEnds
<1>2. CASE job.stopping
  <2>1. Queue!Finish(job, job') /\ job'.result = "CANCELLED"
    BY <1>2 DEF LeaseEnds
  <2> QED BY <1>1, <1>2, <2>1, HeldJob, QueueMoves, JobLeaves
<1>3. CASE ~job.stopping
  <2>1. RetryOrDeadLetter
    BY <1>3 DEF LeaseEnds
  <2> QED BY <1>1, <1>3, <2>1, HeldJob, Retried, JobLeaves
<1> QED BY <1>2, <1>3

LEMMA ClaimStep ==
  ASSUME Inv, Claim
  PROVE  Inv' /\ Edge
<1>1. job \in Queue!Task /\ Queue!Take(job, job')
  BY DEF Inv, Authority, Typed, Claim
<1>2. /\ job' \in Queue!Task /\ job'.phase = "held"
      /\ job'.stopping = job.stopping /\ job'.result = job.result
      /\ job.phase = "queued" /\ job'.attempts \in Attempt
  BY <1>1, QueueTakes
<1>3. job.result = "none" /\ ~job.stopping /\ session.state /= "CANCELLED"
  BY <1>2 DEF Inv, Authority, JobFacts, EndsAgree
<1>4. UNCHANGED <<authorityVars, payload>>
  BY DEF Claim
<1>5. Authority'
  BY <1>2, <1>3, <1>4
     DEF Inv, Authority, Typed, CommittedIsApproved, IsCommitted, EndsAgree,
         JobFacts, PayloadFits, authorityVars
<1>6. PICK r : r = [NoRun EXCEPT !.phase = "load", !.expected = payload]
  OBVIOUS
<1>7. /\ r \in SomeRun /\ r.phase = "load" /\ r.verdict = "NONE"
      /\ r.expected = payload
  BY <1>6, NoRunFacts DEF SomeRun, Inv, Authority, Typed
<1>8. run' = [run EXCEPT ![job'.attempts] = r]
  BY <1>6 DEF Claim
<1>9. run' \in [Attempt -> SomeRun]
  BY <1>2, <1>7, <1>8 DEF Inv, Runs
<1>10. ASSUME NEW k \in Attempt
       PROVE  GoodRun(k, run[k])'
  <2>1. CASE k = job'.attempts
    BY <1>4, <1>7, <1>8, <2>1 DEF GoodRun, Holds, Inv, Runs, authorityVars
  <2>2. CASE k /= job'.attempts
    BY <1>4, <1>8, <2>2 DEF GoodRun, Holds, Inv, Runs, authorityVars
  <2> QED BY <2>1, <2>2
<1> QED BY <1>4, <1>5, <1>9, <1>10 DEF Inv, Runs, Edge, authorityVars

-----------------------------------------------------------------------------
(* Commands and publication.                                               *)

LEMMA SubmitStep ==
  ASSUME Inv, Submit
  PROVE  Inv' /\ Edge
<1>1. /\ job' \in Queue!Task /\ job'.phase = "queued"
      /\ job'.stopping = job.stopping /\ job'.result = job.result
      /\ job.phase \in {"new", "parked"}
  BY QueueMoves DEF Inv, Authority, Typed, Submit
<1>2. /\ session.state = "RECEIVED"
      /\ payload' = [state |-> "RECEIVED", version |-> session.version]
      /\ UNCHANGED <<authorityVars, run>>
  BY DEF Submit
<1>3. Authority'
  BY <1>1, <1>2
     DEF Inv, Authority, Typed, SomePayload, CommittedIsApproved, IsCommitted,
         EndsAgree, JobFacts, PayloadFits, authorityVars
<1>4. Runs'
  BY <1>1, <1>2, RunsWithoutJob DEF authorityVars
<1> QED BY <1>2, <1>3, <1>4 DEF Inv, Edge, authorityVars

LEMMA ApproveStep ==
  ASSUME Inv, Approve
  PROVE  Inv' /\ Edge
<1>1. /\ job' \in Queue!Task /\ job'.phase = "queued"
      /\ job'.stopping = job.stopping /\ job'.result = job.result
      /\ job.phase \in {"new", "parked"}
  BY QueueMoves DEF Inv, Authority, Typed, Approve
<1>2. "APPROVED" \in SessionState
  BY DEF SessionState
<1>3. /\ session.state = "REVIEW_REQUIRED" /\ session.version \in Nat
      /\ session' \in [state : SessionState, version : Nat]
      /\ session'.state = "APPROVED" /\ session'.version = session.version + 1
  BY <1>2, MovedFacts DEF Inv, Authority, Typed, Approve
<1>4. /\ frozen' \in Plan /\ frozen'.status = "APPROVED" /\ frozen'.reviewer
      /\ UNCHANGED <<versions, run>>
  BY DEF Inv, Authority, Typed, Approve, Plan
<1>5. /\ payload' \in SomePayload /\ payload'.state = "APPROVED"
      /\ payload'.version = session.version + 1
  BY <1>3 DEF Approve, ApprovedPayload, SomePayload
<1>6. Typed' /\ CommittedIsApproved'
  BY <1>1, <1>3, <1>4, <1>5
     DEF Inv, Authority, Typed, CommittedIsApproved, IsCommitted
<1>7. EndsAgree' /\ JobFacts' /\ PayloadFits'
  BY <1>1, <1>3, <1>5 DEF Inv, Authority, EndsAgree, JobFacts, PayloadFits
<1>8. Runs'
  BY <1>1, <1>3, <1>4, RunsWithoutJob
<1>9. Edge
  BY <1>3 DEF Edge, SessionEdges
<1> QED BY <1>6, <1>7, <1>8, <1>9 DEF Inv, Authority

\* A command ends the ingestion in a state.
LEMMA EndsSession ==
  ASSUME Inv, NEW state \in {"REJECTED", "CANCELLED"}, session' = Moved(state),
         session.state \notin {"COMMITTED", "PUBLISHED"},
         <<session.state, state>> \in SessionEdges,
         UNCHANGED <<frozen, versions, payload, run>>,
         job' \in Queue!Task,
         \/ /\ job'.phase = "done" /\ ~job'.stopping
            /\ job'.result = IF state = "CANCELLED" THEN "CANCELLED" ELSE "FAILED"
         \/ /\ state = "CANCELLED"
            /\ job'.phase = "held" /\ job'.stopping /\ job'.result = "none",
         state = "REJECTED" => payload.state /= "APPROVED"
  PROVE  Inv' /\ Edge
<1>1. state \in SessionState
  BY DEF SessionState
<1>2. /\ session.version \in Nat /\ payload.version \in Nat
      /\ session' \in [state : SessionState, version : Nat]
      /\ session'.state = state /\ session'.version = session.version + 1
  BY <1>1, MovedFacts DEF Inv, Authority, Typed, SomePayload
<1>3. Typed' /\ CommittedIsApproved'
  BY <1>2 DEF Inv, Authority, Typed, CommittedIsApproved, IsCommitted
<1>4. EndsAgree' /\ JobFacts' /\ PayloadFits'
  BY <1>2 DEF Inv, Authority, EndsAgree, JobFacts, PayloadFits
<1>5. Runs'
  BY RunsWithoutJob
<1>6. Edge
  BY <1>2 DEF Edge
<1> QED BY <1>3, <1>4, <1>5, <1>6 DEF Inv, Authority

LEMMA RejectStep ==
  ASSUME Inv, Reject
  PROVE  Inv' /\ Edge
<1>1. /\ job' \in Queue!Task /\ job'.phase = "done" /\ ~job'.stopping
      /\ job'.result = "FAILED"
  BY QueueMoves DEF Inv, Authority, Typed, Reject
<1>2. /\ session.state = "REVIEW_REQUIRED" /\ session' = Moved("REJECTED")
      /\ UNCHANGED <<frozen, versions, payload, run>>
  BY DEF Reject
<1>3. payload.state /= "APPROVED" /\ <<session.state, "REJECTED">> \in SessionEdges
  BY <1>2 DEF Inv, Authority, PayloadFits, SessionEdges
<1> QED BY <1>1, <1>2, <1>3, EndsSession

LEMMA CancelStep ==
  ASSUME Inv, Cancel
  PROVE  Inv' /\ Edge
<1>1. /\ session' = Moved("CANCELLED")
      /\ session.state \notin {"COMMITTED", "PUBLISHED"}
      /\ UNCHANGED <<frozen, versions, payload, run>>
  BY DEF Cancel
<1>2. <<session.state, "CANCELLED">> \in SessionEdges
  BY DEF Inv, Authority, Typed, Cancel, SessionState, SessionEdges
<1>3. CASE Queue!AskToStop(job, job')
  <2>1. /\ job' \in Queue!Task /\ job'.phase = "held" /\ job'.stopping
        /\ job'.result = "none"
    BY <1>3, QueueMoves, HeldJob DEF Inv, Authority, Typed
  <2> QED BY <1>1, <1>2, <2>1, EndsSession
<1>4. CASE Queue!Finish(job, job') /\ job'.result = "CANCELLED"
  <2>1. job' \in Queue!Task /\ job'.phase = "done" /\ ~job'.stopping
    BY <1>4, QueueMoves DEF Inv, Authority, Typed
  <2> QED BY <1>1, <1>2, <1>4, <2>1, EndsSession
<1> QED BY <1>3, <1>4 DEF Cancel

LEMMA PublishStep ==
  ASSUME Inv, Publish
  PROVE  Inv' /\ Edge
<1>1. /\ session.state = "COMMITTED" /\ session.version \in Nat
      /\ payload.version \in Nat /\ "PUBLISHED" \in SessionState
      /\ session' = [state |-> "PUBLISHED", version |-> session.version + 2]
      /\ UNCHANGED <<frozen, versions, payload, job, run>>
  BY DEF Inv, Authority, Typed, SomePayload, Publish, SessionState
<1>2. Typed' /\ CommittedIsApproved'
  BY <1>1 DEF Inv, Authority, Typed, CommittedIsApproved, IsCommitted
<1>3. EndsAgree' /\ JobFacts' /\ PayloadFits'
  BY <1>1 DEF Inv, Authority, EndsAgree, JobFacts, PayloadFits
<1>4. Runs'
  BY <1>1 DEF Inv, Runs, GoodRun, Holds
<1>5. Edge
  BY <1>1 DEF Edge, SessionEdges
<1> QED BY <1>2, <1>3, <1>4, <1>5 DEF Inv, Authority

-----------------------------------------------------------------------------
(* The theorems.                                                           *)

LEMMA InitGood == Init => Inv
<1> SUFFICES ASSUME Init PROVE Inv
  OBVIOUS
<1>1. Typed
  BY StageFacts, IngestionAssumption
     DEF Init, Typed, Received, SomePayload, NotFrozen, Plan, Queue!Fresh, Queue!Task
<1>2. CommittedIsApproved /\ EndsAgree /\ JobFacts /\ PayloadFits
  BY DEF Init, CommittedIsApproved, IsCommitted, EndsAgree, JobFacts,
         PayloadFits, Received, Queue!Fresh
<1>3. Runs
  BY NoRunFacts DEF Init, Runs, GoodRun
<1> QED BY <1>1, <1>2, <1>3 DEF Inv, Authority

LEMMA NextStep == Inv /\ [Next]_vars => Inv' /\ Edge
<1> SUFFICES ASSUME Inv, [Next]_vars PROVE Inv' /\ Edge
  OBVIOUS
<1>1. CASE Submit \/ Approve \/ Reject \/ Cancel
  BY <1>1, SubmitStep, ApproveStep, RejectStep, CancelStep
<1>2. CASE Claim \/ LeaseEnds \/ Publish
  BY <1>2, ClaimStep, LeaseEndsStep, PublishStep
<1>3. ASSUME NEW n \in Attempt, HandlerStep(n) \/ PortFails(n) \/ Dies(n)
      PROVE  Inv' /\ Edge
  BY <1>3, LoadStep, AdvanceStep, PipelineRejectsStep, FreezeStep, RefusedStep,
     CommitLoadsStep, CommitsStep, CommitFindsStep, PublicationStep, SettleStep,
     PortFailsStep, DiesStep DEF HandlerStep
<1>4. CASE UNCHANGED vars
  <2>1. Authority'
    BY <1>4 DEF vars, Inv, Authority, Typed, CommittedIsApproved, IsCommitted,
                EndsAgree, JobFacts, PayloadFits
  <2>2. Runs'
    BY <1>4 DEF vars, Inv, Runs, GoodRun, Holds
  <2> QED BY <1>4, <2>1, <2>2 DEF Inv, Edge, vars
<1> QED BY <1>1, <1>2, <1>3, <1>4 DEF Next

\* The inductive invariant of an ingestion.
THEOREM IngestionInvariant == Spec => []Inv
<1> QED BY InitGood, NextStep, PTL DEF Spec

\* Only the checkpoint that was approved is committed, and once.
THEOREM OnlyApprovedIsCommitted == Spec => []CommittedIsApproved
<1>1. Inv => CommittedIsApproved
  BY DEF Inv, Authority
<1> QED BY <1>1, IngestionInvariant, PTL

\* Operation and session end alike.
THEOREM EndsAlike == Spec => []EndsAgree
<1>1. Inv => EndsAgree
  BY DEF Inv, Authority
<1> QED BY <1>1, IngestionInvariant, PTL

\* No attempt that has the job is turned away by the fence of its payload.
THEOREM HolderNeverFenced == Spec => []FenceAdmits
<1>1. Inv => FenceAdmits
  BY DEF Inv, Runs, GoodRun, Holds, FenceAdmits
<1> QED BY <1>1, IngestionInvariant, PTL

\* Every write takes the session along an edge of the policy, to a version
\* of its own.
THEOREM SessionKeepsPolicy == Spec => SessionFollowsPolicy
<1>1. Inv /\ [Next]_vars
        => [session' /= session
              => /\ <<session.state, session'.state>> \in SessionEdges
                 /\ session'.version > session.version]_vars
  BY NextStep DEF Edge
<1> QED BY <1>1, IngestionInvariant, PTL DEF Spec, SessionFollowsPolicy

-----------------------------------------------------------------------------
(* Versions.  What the attempts do to a session does not add up: however    *)
(* many there are, its version never exceeds that of the longest way,       *)
(* because no stage is repeated.                                            *)

\* The version of a session tells how far it came.
Within(s) ==
  /\ s.version \in 1 .. MaxVersion
  /\ \A i \in 1 .. Len(Stages) : s.state = Stages[i] => s.version <= i
  /\ s.state = "REVIEW_REQUIRED" => s.version <= Len(Stages) + 1
  /\ s.state = "APPROVED" => s.version <= Len(Stages) + 2
  /\ s.state = "COMMITTED" => s.version <= Len(Stages) + 3

Until(version) == 1 .. version

\* No payload and no handler is ahead of the session, and no plan is frozen
\* without its checkpoint.
Counted ==
  /\ Within(session)
  /\ payload.version \in Until(session.version)
  /\ job.attempts <= MaxAttempts
  /\ frozen.status /= "NONE" => frozen.hash \in Hash
  /\ \A n \in Attempt : /\ run[n].version \in Until(session.version)
                        /\ run[n].expected.version \in Until(session.version)

\* What a step may do to the version of the session.
VersionMoves ==
  \/ session' = session
  \/ session'.version = session.version + 1 /\ session'.state /= "PUBLISHED"
  \/ /\ session'.version = session.version + 2
     /\ session.state = "COMMITTED" /\ session'.state = "PUBLISHED"

\* A run is left alone, or takes its version from the session before or after
\* the step, or starts with the payload.
RunsRead ==
  \A n \in Attempt :
    /\ run'[n].version \in {run[n].version, 1, session.version, session'.version}
    /\ run'[n].expected \in {run[n].expected, Received, payload}

LEMMA StagesDiffer ==
  /\ MaxVersion = 15
  /\ \A i, j \in 1 .. 10 : Stages[i] = Stages[j] => i = j
<1>1. Len(Stages) = 10
  BY StageFacts
<1>2. \A i, j \in 1 .. 10 : Stages[i] = Stages[j] => i = j
  BY DEF Stages
<1> QED BY <1>1, <1>2 DEF MaxVersion

LEMMA EdgeFacts ==
  ASSUME NEW s, NEW t, <<s, t>> \in SessionEdges
  PROVE  \/ \E i \in 1 .. 9 : s = Stages[i] /\ t = Stages[i + 1]
         \/ /\ t \in {"CANCELLED", "REJECTED"}
            /\ s \in Stage \cup {"REVIEW_REQUIRED", "APPROVED"}
         \/ s = Stages[10] /\ t \in {"REVIEW_REQUIRED", "APPROVED"}
         \/ s = "REVIEW_REQUIRED" /\ t = "APPROVED"
         \/ s = "APPROVED" /\ t = "COMMITTED"
         \/ s = "COMMITTED" /\ t = "PUBLISHED"
<1>1. Len(Stages) = 10 /\ Aligned = Stages[10]
  BY StageFacts DEF Aligned
<1>2. "SECURITY_SCANNED" \in Stage /\ "VALIDATED" \in Stage
  BY StageFacts
<1>3. CASE <<s, t>> \in {<<Stages[i], Stages[i + 1]>> : i \in 1 .. Len(Stages) - 1}
  BY <1>1, <1>3
<1>4. CASE <<s, t>> \in {<<u, "CANCELLED">> :
                           u \in Stage \cup {"REVIEW_REQUIRED", "APPROVED"}}
  BY <1>4
<1>5. CASE <<s, t>> \in {"SECURITY_SCANNED", "VALIDATED", "REVIEW_REQUIRED"}
                          \X {"REJECTED"}
  BY <1>2, <1>5
<1>6. CASE <<s, t>> \in {Aligned} \X {"REVIEW_REQUIRED", "APPROVED"}
  BY <1>1, <1>6
<1>7. CASE <<s, t>> \in {<<"REVIEW_REQUIRED", "APPROVED">>,
                         <<"APPROVED", "COMMITTED">>, <<"COMMITTED", "PUBLISHED">>}
  BY <1>7
<1> QED BY <1>3, <1>4, <1>5, <1>6, <1>7 DEF SessionEdges

\* A step along an edge keeps the session within its bounds.
LEMMA StaysWithin ==
  ASSUME NEW s \in [state : SessionState, version : Nat],
         NEW t \in [state : SessionState, version : Nat],
         Within(s), <<s.state, t.state>> \in SessionEdges,
         \/ t.version = s.version + 1 /\ t.state /= "PUBLISHED"
         \/ /\ t.version = s.version + 2
            /\ s.state = "COMMITTED" /\ t.state = "PUBLISHED"
  PROVE  Within(t)
<1>1. /\ Len(Stages) = 10 /\ MaxVersion = 15
      /\ s.version \in Nat /\ t.version \in Nat /\ s.version >= 1
  BY StageFacts, StagesDiffer DEF Within
<1>2. \A i \in 1 .. 10 : Stages[i] \in Stage
  BY <1>1 DEF Stage
<1>3. /\ \A i \in 1 .. 10 : s.state = Stages[i] => s.version <= i
      /\ s.state \in Stage => s.version <= 10
      /\ s.state = "REVIEW_REQUIRED" => s.version <= 11
      /\ s.state = "APPROVED" => s.version <= 12
      /\ s.state = "COMMITTED" => s.version <= 13
  BY <1>1 DEF Within, Stage
<1>4. CASE \E i \in 1 .. 9 : s.state = Stages[i] /\ t.state = Stages[i + 1]
  <2>1. PICK i \in 1 .. 9 : s.state = Stages[i] /\ t.state = Stages[i + 1]
    BY <1>4
  <2>2. s.version <= i /\ t.state \in Stage /\ t.version = s.version + 1
    BY <1>2, <1>3, <2>1, StageFacts
  <2>3. \A k \in 1 .. 10 : t.state = Stages[k] => k = i + 1
    <3>1. i + 1 \in 1 .. 10
      BY <2>1
    <3> QED BY <2>1, <3>1, StagesDiffer
  <2>4. t.version \in 1 .. 15 /\ t.version <= i + 1
    BY <1>1, <2>2
  <2>5. \A k \in 1 .. Len(Stages) : t.state = Stages[k] => t.version <= k
    BY <1>1, <2>3, <2>4
  <2>6. t.state \notin {"REVIEW_REQUIRED", "APPROVED", "COMMITTED"}
    BY <2>2, StageFacts
  <2> QED BY <1>1, <2>4, <2>5, <2>6 DEF Within
<1>5. CASE t.state \in {"CANCELLED", "REJECTED"}
           /\ s.state \in Stage \cup {"REVIEW_REQUIRED", "APPROVED"}
  BY <1>1, <1>2, <1>3, <1>5, StageFacts DEF Within
<1>6. CASE s.state = Stages[10] /\ t.state \in {"REVIEW_REQUIRED", "APPROVED"}
  BY <1>1, <1>2, <1>3, <1>6, StageFacts DEF Within
<1>7. CASE s.state = "REVIEW_REQUIRED" /\ t.state = "APPROVED"
  BY <1>1, <1>2, <1>3, <1>7, StageFacts DEF Within
<1>8. CASE s.state = "APPROVED" /\ t.state = "COMMITTED"
  BY <1>1, <1>2, <1>3, <1>8, StageFacts DEF Within
<1>9. CASE s.state = "COMMITTED" /\ t.state = "PUBLISHED"
  BY <1>1, <1>2, <1>3, <1>9, StageFacts DEF Within
<1> QED BY <1>4, <1>5, <1>6, <1>7, <1>8, <1>9, EdgeFacts

\* The invariant of one step, given what it does to the session and the runs.
LEMMA CountsOn ==
  ASSUME Inv, Counted, Inv', Edge, VersionMoves, RunsRead,
         payload' \in {payload, Received, ApprovedPayload}
           \/ payload'.version = session.version,
         payload' = ApprovedPayload => session' /= session,
         job'.attempts <= MaxAttempts,
         frozen'.status /= "NONE" => frozen'.hash \in Hash
  PROVE  Counted'
<1>1. /\ session \in [state : SessionState, version : Nat]
      /\ session' \in [state : SessionState, version : Nat]
      /\ session.version \in Nat /\ session'.version \in Nat
  BY DEF Inv, Authority, Typed
<1>2. Within(session)'
  BY <1>1, StaysWithin DEF Counted, VersionMoves, Edge
<1>3. session.version >= 1 /\ session'.version >= session.version
  BY <1>1 DEF Counted, Within, Edge
<1>4. payload'.version \in Until(session'.version)
  <2>1. payload.version \in Until(session.version) /\ Received.version = 1
    BY DEF Counted, Received
  <2>2. ApprovedPayload.version = session.version + 1
    BY DEF ApprovedPayload
  <2>3. session' /= session => session'.version >= session.version + 1
    BY <1>1 DEF Edge
  <2> QED BY <1>1, <1>3, <2>1, <2>2, <2>3 DEF Until
<1>5. ASSUME NEW n \in Attempt
      PROVE  /\ run'[n].version \in Until(session'.version)
             /\ run'[n].expected.version \in Until(session'.version)
  <2>1. /\ run[n].version \in Until(session.version)
        /\ run[n].expected.version \in Until(session.version)
        /\ payload.version \in Until(session.version) /\ Received.version = 1
    BY DEF Counted, Received
  <2>2. run'[n].version \in Until(session'.version)
    BY <1>1, <1>3, <2>1 DEF RunsRead, Until
  <2>3. run'[n].expected.version \in Until(session'.version)
    BY <1>1, <1>3, <2>1 DEF RunsRead, Until
  <2> QED BY <2>2, <2>3
<1> QED BY <1>2, <1>4, <1>5 DEF Counted

\* A handler that proceeds reads a session that is there.
Reads(q, r) ==
  /\ r.version \in {q.version, 1, session.version, session'.version}
  /\ r.expected \in {q.expected, Received, payload}

LEMMA OneReads ==
  ASSUME Inv, NEW n \in Attempt, NEW r, Proceed(n, r), Reads(run[n], r)
  PROVE  RunsRead
<1>1. run \in [Attempt -> SomeRun]
  BY DEF Inv, Runs
<1> QED BY <1>1 DEF Proceed, RunsRead, Reads

LEMMA EndsReads ==
  ASSUME NEW q \in SomeRun, NEW v
  PROVE  Reads(q, Ends(q, v)) /\ Reads(q, NoRun)
<1>1. Ends(q, v).version = q.version /\ Ends(q, v).expected = q.expected
  BY DEF Ends, SomeRun
<1>2. NoRun.version = 1 /\ NoRun.expected = Received
  BY DEF NoRun
<1> QED BY <1>1, <1>2 DEF Reads

LEMMA PhaseReads ==
  ASSUME NEW q \in SomeRun, NEW p
  PROVE  Reads(q, [q EXCEPT !.phase = p])
<1>1. /\ [q EXCEPT !.phase = p].version = q.version
      /\ [q EXCEPT !.phase = p].expected = q.expected
  BY DEF SomeRun
<1> QED BY <1>1 DEF Reads

LEMMA KnowsReads ==
  ASSUME NEW q \in SomeRun
  PROVE  LET k == Knows(q, session')
         IN  /\ Reads(q, k)
             /\ \A v : Reads(q, Ends(k, v))
             /\ \A h : \A p : Reads(q, [[k EXCEPT !.hash = h] EXCEPT !.phase = p])
             /\ \A h : \A v : Reads(q, Ends([k EXCEPT !.hash = h], v))
<1>1. PICK k : k = Knows(q, session')
  OBVIOUS
<1>2. k.version = session'.version /\ k.expected = q.expected
  BY <1>1 DEF Knows, SomeRun
<1>3. \A v : Ends(k, v).version = k.version /\ Ends(k, v).expected = k.expected
  BY <1>1 DEF Ends, Knows, SomeRun
<1>4. \A h : \A p : LET d == [[k EXCEPT !.hash = h] EXCEPT !.phase = p]
                    IN  d.version = k.version /\ d.expected = k.expected
  BY <1>1 DEF Knows, SomeRun
<1>5. \A h : \A v : LET d == Ends([k EXCEPT !.hash = h], v)
                    IN  d.version = k.version /\ d.expected = k.expected
  BY <1>1 DEF Ends, Knows, SomeRun
<1> QED BY <1>1, <1>2, <1>3, <1>4, <1>5 DEF Reads

LEMMA LooksRead ==
  ASSUME Inv, NEW n \in Attempt,
         \/ Load(n) \/ Refused(n) \/ CommitLoads(n) \/ CommitFinds(n)
         \/ PublicationSeen(n) \/ PublicationTimesOut(n) \/ PortFails(n)
         \/ Settle(n) \/ Dies(n)
  PROVE  RunsRead
<1>1. run[n] \in SomeRun
  BY DEF Inv, Runs
<1>2. \A v : Reads(run[n], Ends(run[n], v)) /\ Reads(run[n], NoRun)
  BY <1>1, EndsReads
<1>3. \A p : Reads(run[n], [run[n] EXCEPT !.phase = p])
  BY <1>1, PhaseReads
<1>4. Reads(run[n], AlreadyCommitted(run[n]))
  BY <1>2, <1>3 DEF AlreadyCommitted
<1>5. CASE Load(n)
  <2>1. PICK r : r = [run[n] EXCEPT !.phase = PhaseAt(session.state),
                                    !.state = session.state,
                                    !.version = session.version,
                                    !.hash = frozen.hash,
                                    !.verdict = VerdictAt(session.state)]
    OBVIOUS
  <2>2. r.version = session.version /\ r.expected = run[n].expected
    BY <1>1, <2>1 DEF SomeRun
  <2>3. Reads(run[n], r)
    BY <2>2 DEF Reads
  <2>4. Proceed(n, r) \/ Proceed(n, Ends(run[n], "FENCED"))
    BY <1>5, <2>1 DEF Load
  <2> QED BY <1>2, <2>3, <2>4, OneReads
<1>6. CASE Refused(n) \/ PublicationSeen(n) \/ PublicationTimesOut(n)
           \/ PortFails(n) \/ Settle(n) \/ Dies(n)
  BY <1>2, <1>6, OneReads
     DEF Refused, PublicationSeen, PublicationTimesOut, PortFails, Settle, Dies
<1>7. CASE CommitLoads(n) \/ CommitFinds(n)
  <2>1. \/ Proceed(n, AlreadyCommitted(run[n]))
        \/ Proceed(n, [run[n] EXCEPT !.phase = "copy"])
        \/ Proceed(n, Ends(run[n], "CONFLICT"))
    BY <1>7 DEF CommitLoads, CommitFinds
  <2> QED BY <1>2, <1>3, <1>4, <2>1, OneReads
<1> QED BY <1>5, <1>6, <1>7

LEMMA WritesRead ==
  ASSUME Inv, NEW n \in Attempt,
         \/ Advance(n) \/ PipelineRejects(n) \/ Commits(n)
         \/ \E h \in Hash, risky \in BOOLEAN : Freeze(n, h, risky)
  PROVE  RunsRead
<1>1. run[n] \in SomeRun
  BY DEF Inv, Runs
<1>2. CASE Advance(n)
  BY <1>1, <1>2, KnowsReads, OneReads DEF Advance
<1>3. CASE PipelineRejects(n)
  BY <1>1, <1>3, KnowsReads, OneReads DEF PipelineRejects
<1>4. CASE Commits(n)
  BY <1>1, <1>4, PhaseReads, OneReads DEF Commits
<1>5. CASE \E h \in Hash, risky \in BOOLEAN : Freeze(n, h, risky)
  <2>1. PICK h \in Hash, risky \in BOOLEAN : Freeze(n, h, risky)
    BY <1>5
  <2>2. PICK k : k = Knows(run[n], session')
    OBVIOUS
  <2>3. \/ Proceed(n, [[k EXCEPT !.hash = h] EXCEPT !.phase = "commit"])
        \/ Proceed(n, Ends([k EXCEPT !.hash = h], "WAITING_REVIEW"))
    BY <2>1, <2>2 DEF Freeze
  <2>4. /\ Reads(run[n], [[k EXCEPT !.hash = h] EXCEPT !.phase = "commit"])
        /\ Reads(run[n], Ends([k EXCEPT !.hash = h], "WAITING_REVIEW"))
    BY <1>1, <2>2, KnowsReads
  <2> QED BY <2>3, <2>4, OneReads
<1> QED BY <1>2, <1>3, <1>4, <1>5

LEMMA OthersRead ==
  ASSUME Inv, Submit \/ Approve \/ Reject \/ Cancel \/ Claim \/ LeaseEnds \/ Publish
                \/ UNCHANGED vars
  PROVE  RunsRead
<1>1. run \in [Attempt -> SomeRun]
  BY DEF Inv, Runs
<1>2. CASE run' = run
  BY <1>2 DEF RunsRead
<1>3. CASE Claim
  <2>1. PICK r : r = [NoRun EXCEPT !.phase = "load", !.expected = payload]
    OBVIOUS
  <2>2. r.version = 1 /\ r.expected = payload
    BY <2>1 DEF NoRun
  <2>3. run' = [run EXCEPT ![job'.attempts] = r]
    BY <1>3, <2>1 DEF Claim
  <2> QED BY <1>1, <2>2, <2>3 DEF RunsRead
<1> QED BY <1>2, <1>3 DEF Submit, Approve, Reject, Cancel, LeaseEnds, Publish, vars

LEMMA VersionsMove ==
  ASSUME Inv, [Next]_vars
  PROVE  VersionMoves
<1>1. session.version \in Nat
  BY DEF Inv, Authority, Typed
<1>2. ASSUME NEW state, state /= "PUBLISHED", session' = Moved(state)
      PROVE  VersionMoves
  BY <1>2 DEF Moved, VersionMoves
<1>3. CASE \/ Submit \/ Claim \/ LeaseEnds \/ UNCHANGED vars
           \/ \E n \in Attempt :
                \/ Load(n) \/ Refused(n) \/ CommitLoads(n) \/ CommitFinds(n)
                \/ PublicationSeen(n) \/ PublicationTimesOut(n) \/ PortFails(n)
                \/ Settle(n) \/ Dies(n)
  BY <1>3 DEF VersionMoves, Submit, Claim, LeaseEnds, vars, Load, Refused,
     CommitLoads, CommitFinds, PublicationSeen, PublicationTimesOut, PortFails,
     Settle, Dies, authorityVars
<1>4. CASE Approve \/ Reject \/ Cancel
  BY <1>2, <1>4 DEF Approve, Reject, Cancel
<1>5. CASE Publish
  BY <1>5 DEF Publish, VersionMoves
<1>6. ASSUME NEW n \in Attempt, Advance(n)
      PROVE  VersionMoves
  <2>1. PICK i \in 1 .. 9 : session' = Moved(Stages[i + 1])
    BY <1>6, StageFacts DEF Advance
  <2>2. Stages[i + 1] /= "PUBLISHED"
    BY <2>1, StageFacts
  <2> QED BY <1>2, <2>1, <2>2
<1>7. ASSUME NEW n \in Attempt,
             \/ PipelineRejects(n) \/ Commits(n)
             \/ \E h \in Hash, risky \in BOOLEAN : Freeze(n, h, risky)
      PROVE  VersionMoves
  <2>1. \A h \in Hash, risky \in BOOLEAN : Frozen(h, risky).status /= "PUBLISHED"
    BY DEF Frozen
  <2> QED BY <1>2, <1>7, <2>1 DEF PipelineRejects, Commits, Freeze
<1> QED BY <1>3, <1>4, <1>5, <1>6, <1>7 DEF Next, HandlerStep

LEMMA PlansHaveHashes ==
  ASSUME Inv, Counted, [Next]_vars
  PROVE  frozen'.status /= "NONE" => frozen'.hash \in Hash
<1>1. CASE frozen' = frozen
  BY <1>1 DEF Counted
<1>2. CASE Approve
  <2>1. frozen'.hash = frozen.hash
    BY <1>2 DEF Approve, Inv, Authority, Typed, Plan
  <2> QED BY <1>2, <2>1 DEF Approve, Counted
<1>3. ASSUME NEW n \in Attempt, NEW h \in Hash, NEW risky \in BOOLEAN,
             Freeze(n, h, risky)
      PROVE  frozen'.hash \in Hash
  BY <1>3 DEF Freeze, Frozen
<1>4. \/ frozen' = frozen \/ Approve
      \/ \E n \in Attempt, h \in Hash, risky \in BOOLEAN : Freeze(n, h, risky)
  BY DEF Next, HandlerStep, Submit, Reject, Cancel, Claim, LeaseEnds, Publish, vars,
     Load, Advance, PipelineRejects, Refused, CommitLoads, Commits, CommitFinds,
     PublicationSeen, PublicationTimesOut, PortFails, Settle, Dies, authorityVars
<1> QED BY <1>1, <1>2, <1>3, <1>4

LEMMA AttemptsAreBounded ==
  ASSUME Inv, Counted, [Next]_vars
  PROVE  job'.attempts <= MaxAttempts
<1>1. job \in Queue!Task /\ job.attempts <= MaxAttempts
  BY DEF Inv, Authority, Typed, Counted
<1>2. CASE \/ Queue!Enqueue(job, job') \/ Queue!Wake(job, job')
           \/ Queue!Retry(job, job') \/ Queue!Park(job, job')
           \/ Queue!AskToStop(job, job') \/ Queue!Finish(job, job')
  <2>1. job'.attempts = job.attempts
    BY <1>1, <1>2 DEF Queue!Task, Queue!Enqueue, Queue!Wake, Queue!Retry,
       Queue!Park, Queue!AskToStop, Queue!Finish
  <2> QED BY <1>1, <2>1
<1>3. CASE Queue!Take(job, job')
  <2>1. job'.attempts \in Attempt
    BY <1>1, <1>3, QueueTakes
  <2> QED BY <2>1, IngestionAssumption DEF Attempt
<1>4. CASE job' = job
  BY <1>1, <1>4
<1>5. \/ Queue!Enqueue(job, job') \/ Queue!Wake(job, job')
      \/ Queue!Retry(job, job') \/ Queue!Park(job, job')
      \/ Queue!AskToStop(job, job') \/ Queue!Finish(job, job')
      \/ Queue!Take(job, job') \/ job' = job
  BY DEF Next, HandlerStep, Submit, Approve, Reject, Cancel, Claim, LeaseEnds,
     RetryOrFail, RetryOrDeadLetter, Publish, vars, Load, Advance, PipelineRejects, Freeze, Refused,
     CommitLoads, Commits, CommitFinds, PublicationSeen, PublicationTimesOut,
     PortFails, Settle, Dies, authorityVars
<1> QED BY <1>2, <1>3, <1>4, <1>5

LEMMA PayloadMoves ==
  ASSUME Inv, [Next]_vars
  PROVE  /\ \/ payload' \in {payload, Received, ApprovedPayload}
            \/ payload'.version = session.version
         /\ payload' = ApprovedPayload => session' /= session
<1>1. /\ session.version \in Nat /\ payload.version \in Nat
      /\ session.version >= payload.version
  BY DEF Inv, Authority, Typed, PayloadFits, SomePayload
<1>2. ApprovedPayload.version = session.version + 1
  BY DEF ApprovedPayload
<1>3. CASE payload' = payload
  <2>1. payload' /= ApprovedPayload
    BY <1>1, <1>2, <1>3
  <2> QED BY <1>3, <2>1
<1>4. CASE Submit
  <2>1. payload'.version = session.version
    BY <1>4 DEF Submit
  <2> QED BY <1>1, <1>2, <2>1
<1>5. CASE Approve
  <2>1. session'.version = session.version + 1
    BY <1>5 DEF Approve, Moved
  <2> QED BY <1>1, <1>5, <2>1 DEF Approve
<1>6. payload' = payload \/ Submit \/ Approve
  BY DEF Next, HandlerStep, Reject, Cancel, Claim, LeaseEnds, Publish, vars,
     Load, Advance, PipelineRejects, Freeze, Refused, CommitLoads, Commits,
     CommitFinds, PublicationSeen, PublicationTimesOut, PortFails, Settle, Dies,
     authorityVars
<1> QED BY <1>3, <1>4, <1>5, <1>6

LEMMA CountsHold == Inv /\ Counted /\ [Next]_vars => Counted'
<1> SUFFICES ASSUME Inv, Counted, [Next]_vars PROVE Counted'
  OBVIOUS
<1>1. Inv' /\ Edge
  BY NextStep
<1>2. RunsRead
  BY LooksRead, WritesRead, OthersRead DEF Next, HandlerStep
<1> QED BY <1>1, <1>2, CountsOn, VersionsMove, PayloadMoves, AttemptsAreBounded,
       PlansHaveHashes

LEMMA CountsBegin == Init => Counted
<1> SUFFICES ASSUME Init PROVE Counted
  OBVIOUS
<1>1. /\ session.state = "RECEIVED" /\ session.version = 1
      /\ payload.version = 1 /\ job.attempts = 0 /\ frozen.status = "NONE"
      /\ \A n \in Attempt : run[n].version = 1 /\ run[n].expected.version = 1
  BY DEF Init, Received, Queue!Fresh, NotFrozen, NoRun
<1>2. Within(session)
  BY <1>1, StageFacts, StagesDiffer DEF Within
<1> QED BY <1>1, <1>2, IngestionAssumption DEF Counted, Until

\* Every part of an ingestion keeps its type: the version of its session never
\* exceeds that of the longest way, however many attempts and commands there
\* were, and no attempt exceeds the budget.
THEOREM IngestionTypes == Spec => []TypeOK
<1>1. Inv /\ Counted => TypeOK
  <2> SUFFICES ASSUME Inv, Counted PROVE TypeOK
    OBVIOUS
  <2>1. session \in [state : SessionState, version : 1 .. MaxVersion]
    BY DEF Inv, Authority, Typed, Counted, Within
  <2>2. MaxVersion = 15 /\ session.version \in 1 .. MaxVersion
    BY StagesDiffer DEF Counted, Within
  <2>3. Until(session.version) \subseteq 1 .. MaxVersion
    BY <2>2 DEF Until
  <2>4. payload \in Payload
    BY <2>3 DEF Inv, Authority, Typed, SomePayload, Payload, Counted
  <2>5. versions \subseteq Hash
    BY DEF Inv, Authority, CommittedIsApproved, Counted
  <2>6. job \in Queue!Task /\ job.attempts \in 0 .. MaxAttempts
    BY IngestionAssumption DEF Inv, Authority, Typed, Counted, Queue!Task
  <2>7. ASSUME NEW n \in Attempt
        PROVE  run[n] \in Run
    <3>1. /\ run[n] \in SomeRun /\ run[n].version \in 1 .. MaxVersion
          /\ run[n].expected.version \in 1 .. MaxVersion
      BY <2>3 DEF Inv, Runs, Counted
    <3>2. run[n].expected \in Payload
      BY <3>1 DEF SomeRun, SomePayload, Payload
    <3> QED BY <3>1, <3>2 DEF SomeRun, Run
  <2>8. run \in [Attempt -> Run]
    BY <2>7 DEF Inv, Runs
  <2> QED BY <2>1, <2>4, <2>5, <2>6, <2>8 DEF TypeOK, Inv, Authority, Typed, Plan
<1> QED BY <1>1, CountsBegin, CountsHold, InitGood, NextStep, PTL DEF Spec
-----------------------------------------------------------------------------
(* The ingestion as owner, reviewer and readers see it.                    *)

\* What is seen changes with session, frozen row, versions and result only.
LEMMA RecordRests ==
  ASSUME Place' = Place, UNCHANGED <<frozen, versions>>, job'.result = job.result
  PROVE  UNCHANGED Record!vars
BY DEF Record!vars, PlanOf

Decisions == {"REVIEW_REQUIRED", "APPROVED", "COMMITTED", "PUBLISHED", "REJECTED",
              "CANCELLED"}

LEMMA PlaceFacts ==
  ASSUME Inv
  PROVE  /\ session.state \in Stage <=> Place = "DRAFT"
         /\ \A state \in Decisions : session.state = state <=> Place = state
<1>1. session.state \in Stage \cup Decisions
  BY DEF Inv, Authority, Typed, SessionState, Decisions
<1>2. Stage \cap Decisions = {} /\ "DRAFT" \notin Decisions
  BY StageFacts DEF Decisions
<1> QED BY <1>1, <1>2 DEF Place

LEMMA PlaceAfter ==
  ASSUME Inv'
  PROVE  /\ session'.state \in Stage <=> Place' = "DRAFT"
         /\ \A state \in Decisions : session'.state = state <=> Place' = state
<1>1. session'.state \in Stage \cup Decisions
  BY DEF Inv, Authority, Typed, SessionState, Decisions
<1>2. Stage \cap Decisions = {} /\ "DRAFT" \notin Decisions
  BY StageFacts DEF Decisions
<1> QED BY <1>1, <1>2 DEF Place

\* What a handler does without a write, and what the queue does of itself.
LEMMA LooksAreUnseen ==
  ASSUME Inv, NEW n \in Attempt,
         \/ Load(n) \/ Refused(n) \/ CommitLoads(n) \/ CommitFinds(n)
         \/ PublicationSeen(n) \/ PublicationTimesOut(n) \/ PortFails(n) \/ Dies(n)
         \/ Claim \/ Submit
  PROVE  UNCHANGED Record!vars
<1>1. UNCHANGED authorityVars
  BY DEF Load, Refused, CommitLoads, CommitFinds, PublicationSeen,
         PublicationTimesOut, PortFails, Dies, Claim, Submit
<1>2. CASE job' = job
  BY <1>1, <1>2, RecordRests DEF authorityVars, Place
<1>3. CASE Claim \/ Submit
  <2>1. job'.result = job.result
    BY <1>3, QueueMoves, QueueTakes DEF Claim, Submit, Inv, Authority, Typed
  <2> QED BY <1>1, <2>1, RecordRests DEF authorityVars, Place
<1> QED BY <1>2, <1>3 DEF Load, Refused, CommitLoads, CommitFinds, PublicationSeen,
                          PublicationTimesOut, PortFails, Dies

\* The queue ends the job of a session that it leaves alone.
LEMMA EndIsTold ==
  ASSUME Inv, Inv', UNCHANGED authorityVars, job.phase = "held",
         \/ job'.result = "none"
         \/ job'.result \in {"SUCCEEDED", "FAILED", "CANCELLED"} /\ job'.phase = "done"
  PROVE  [Record!Next]_(Record!vars)
<1>1. job.result = "none"
  BY HeldJob
<1>2. CASE job'.result = "none"
  BY <1>1, <1>2, RecordRests DEF authorityVars, Place
<1>3. CASE job'.result \in {"SUCCEEDED", "FAILED", "CANCELLED"} /\ job'.phase = "done"
  <2>1. ~job'.stopping
    BY <1>3 DEF Inv, Authority, JobFacts
  <2>2. /\ job'.result = "SUCCEEDED" => session.state = "PUBLISHED"
        /\ job'.result = "CANCELLED" <=> session.state = "CANCELLED"
    BY <2>1 DEF Inv, Authority, EndsAgree, authorityVars
  <2>3. /\ session.state = "PUBLISHED" <=> Place = "PUBLISHED"
        /\ session.state = "CANCELLED" <=> Place = "CANCELLED"
    BY PlaceFacts DEF Decisions
  <2>4. UNCHANGED <<Place, PlanOf, versions>>
    BY DEF authorityVars, Place, PlanOf
  <2>5. Record!Tell(job'.result)
    BY <1>1, <2>2, <2>3, <2>4 DEF Record!Tell
  <2> QED BY <1>3, <2>5 DEF Record!Next
<1> QED BY <1>2, <1>3

LEMMA SettleIsTold ==
  ASSUME Inv, Inv', NEW n \in Attempt, Settle(n) \/ LeaseEnds
  PROVE  [Record!Next]_(Record!vars)
<1>1. job.phase = "held" /\ UNCHANGED authorityVars /\ job \in Queue!Task
  BY DEF Settle, LeaseEnds, Inv, Authority, Typed
<1>2. job.result = "none"
  BY <1>1, HeldJob
<1>3. \/ job'.result = "none"
      \/ job'.result \in {"SUCCEEDED", "FAILED", "CANCELLED"} /\ job'.phase = "done"
  BY <1>1, <1>2, QueueMoves DEF Settle, LeaseEnds, RetryOrFail, RetryOrDeadLetter
<1> QED BY <1>1, <1>3, EndIsTold

\* A stage is done, or refuses the draft.
LEMMA StagesAreUnseen ==
  ASSUME Inv, Inv', NEW n \in Attempt, Advance(n)
  PROVE  UNCHANGED Record!vars
<1>1. PICK i \in 1 .. Len(Stages) - 1 :
        /\ run[n].state = Stages[i] /\ Matches(n)
        /\ session' = Moved(Stages[i + 1])
  BY DEF Advance
<1>2. session.state \in Stage /\ session'.state \in Stage
  BY <1>1, StageFacts DEF Matches, Moved
<1>3. Place' = Place
  BY <1>2, PlaceFacts, PlaceAfter DEF Decisions
<1> QED BY <1>3, RecordRests DEF Advance

LEMMA DraftIsRefused ==
  ASSUME Inv, Inv', NEW n \in Attempt, PipelineRejects(n)
  PROVE  Record!RefuseDraft
<1>1. session.state \in Stage /\ session'.state = "REJECTED"
  BY StageFacts DEF PipelineRejects, Matches, Moved
<1>2. Place = "DRAFT" /\ Place' = "REJECTED"
  BY <1>1, PlaceFacts, PlaceAfter DEF Decisions
<1>3. UNCHANGED <<PlanOf, versions, job>>
  BY DEF PipelineRejects, PlanOf
<1> QED BY <1>2, <1>3 DEF Record!RefuseDraft

LEMMA PlanIsProposed ==
  ASSUME Inv, Inv', NEW n \in Attempt, NEW h \in Hash, NEW risky \in BOOLEAN,
         Freeze(n, h, risky)
  PROVE  Record!Propose(h, risky)
<1>1. /\ session.state \in Stage
      /\ frozen' = Frozen(h, risky)
      /\ session' = Moved(Frozen(h, risky).status)
      /\ UNCHANGED <<versions, job>>
  BY StageFacts DEF Freeze, Matches
<1>2. Frozen(h, risky).status = IF risky THEN "REVIEW_REQUIRED" ELSE "APPROVED"
  BY DEF Frozen
<1>3. session'.state = IF risky THEN "REVIEW_REQUIRED" ELSE "APPROVED"
  BY <1>1, <1>2 DEF Moved
<1>4. Place = "DRAFT" /\ Place' = IF risky THEN "REVIEW_REQUIRED" ELSE "APPROVED"
  BY <1>1, <1>3, PlaceFacts, PlaceAfter DEF Decisions
<1>5. PlanOf' = [hash |-> h, risky |-> risky, reviewed |-> FALSE]
  BY <1>1 DEF Frozen, PlanOf
<1> QED BY <1>1, <1>4, <1>5 DEF Record!Propose

\* What the transaction of commit finds is what was approved.
LEMMA PlanIsCommitted ==
  ASSUME Inv, Inv', NEW n \in Attempt, Commits(n)
  PROVE  Record!Commit
<1>1. /\ run[n].state = "APPROVED" /\ session.state = "APPROVED"
      /\ run[n].hash = frozen.hash
  BY DEF Inv, Runs, GoodRun, Commits, IsFrozen, Matches
<1>2. versions = {}
  BY <1>1 DEF Inv, Authority, CommittedIsApproved, IsCommitted
<1>3. /\ versions' = {frozen.hash} /\ session'.state = "COMMITTED"
      /\ UNCHANGED <<frozen, job>>
  BY <1>1, <1>2 DEF Commits, Moved
<1>4. Place = "APPROVED" /\ Place' = "COMMITTED"
  BY <1>1, <1>3, PlaceFacts, PlaceAfter DEF Decisions
<1> QED BY <1>3, <1>4 DEF Record!Commit, PlanOf

LEMMA CommandsAreSeen ==
  ASSUME Inv, Inv', Approve \/ Reject \/ Cancel \/ Publish
  PROVE  Record!Next
<1>1. job \in Queue!Task /\ session.state \in SessionState /\ frozen \in Plan
  BY DEF Inv, Authority, Typed
<1>2. CASE Approve
  <2>1. job'.result = job.result
    BY <1>1, <1>2, QueueMoves DEF Approve
  <2>2. Place = "REVIEW_REQUIRED" /\ Place' = "APPROVED"
    BY <1>2, PlaceFacts, PlaceAfter DEF Decisions, Approve, Moved
  <2>3. PlanOf' = [hash |-> PlanOf.hash, risky |-> PlanOf.risky, reviewed |-> TRUE]
    <3>1. /\ frozen'.hash = frozen.hash
          /\ frozen'.risky = frozen.risky
          /\ frozen'.reviewer = TRUE
      BY <1>1, <1>2 DEF Approve, Plan
    <3>2. PlanOf.hash = frozen.hash /\ PlanOf.risky = frozen.risky
      BY DEF PlanOf
    <3>3. PlanOf' = [hash |-> frozen'.hash, risky |-> frozen'.risky,
                     reviewed |-> frozen'.reviewer]
      BY DEF PlanOf
    <3> QED BY <3>1, <3>2, <3>3, Zenon
  <2>4. UNCHANGED versions
    BY <1>2 DEF Approve
  <2> QED BY <2>1, <2>2, <2>3, <2>4 DEF Record!Approve, Record!Next
<1>3. CASE Reject
  <2>1. job.result = "none" /\ job'.result = "FAILED"
    BY <1>3 DEF Reject, Inv, Authority, JobFacts, Queue!Task
  <2>2. Place = "REVIEW_REQUIRED" /\ Place' = "REJECTED"
    BY <1>3, PlaceFacts, PlaceAfter DEF Decisions, Reject, Moved
  <2>3. UNCHANGED <<PlanOf, versions>>
    BY <1>3 DEF Reject, PlanOf
  <2> QED BY <2>1, <2>2, <2>3 DEF Record!Reject, Record!Next
<1>4. CASE Cancel
  <2>1. job.result = "none" /\ job'.result \in {"none", "CANCELLED"}
    <3>1. job.phase # "done"
      BY <1>1, <1>4, QueueMoves DEF Cancel
    <3>2. job.result = "none"
      BY <3>1 DEF Inv, Authority, JobFacts
    <3> QED BY <1>1, <1>4, <3>2, QueueMoves DEF Cancel
  <2>2. Place \in {"DRAFT", "REVIEW_REQUIRED", "APPROVED"} /\ Place' = "CANCELLED"
    BY <1>1, <1>4, PlaceFacts, PlaceAfter DEF Decisions, Cancel, Moved, SessionState
  <2>3. UNCHANGED <<PlanOf, versions>>
    BY <1>4 DEF Cancel, PlanOf
  <2> QED BY <2>1, <2>2, <2>3 DEF Record!Cancel, Record!Next
<1>5. CASE Publish
  <2>1. job.result = "none"
    BY <1>5 DEF Publish, Inv, Authority, JobFacts
  <2>2. Place = "COMMITTED" /\ Place' = "PUBLISHED"
    BY <1>5, PlaceFacts, PlaceAfter DEF Decisions, Publish
  <2>3. UNCHANGED <<PlanOf, versions, job>>
    BY <1>5 DEF Publish, PlanOf
  <2> QED BY <2>1, <2>2, <2>3 DEF Record!Publish, Record!Next
<1> QED BY <1>2, <1>3, <1>4, <1>5

LEMMA RecordSteps ==
  ASSUME Inv, Inv', [Next]_vars
  PROVE  [Record!Next]_(Record!vars)
<1>1. CASE UNCHANGED vars
  BY <1>1, RecordRests DEF vars, Place
<1>2. CASE Approve \/ Reject \/ Cancel \/ Publish
  BY <1>2, CommandsAreSeen
<1>3. CASE Submit \/ Claim \/ LeaseEnds
  <2>1. 1 \in Attempt
    BY IngestionAssumption DEF Attempt
  <2> QED BY <1>3, <2>1, LooksAreUnseen, SettleIsTold
<1>4. ASSUME NEW n \in Attempt, HandlerStep(n) \/ PortFails(n) \/ Dies(n)
      PROVE  [Record!Next]_(Record!vars)
  BY <1>4, LooksAreUnseen, SettleIsTold, StagesAreUnseen, DraftIsRefused,
     PlanIsProposed, PlanIsCommitted DEF HandlerStep, Record!Next
<1> QED BY <1>1, <1>2, <1>3, <1>4 DEF Next

\* The attempts, commands and leases of an ingestion are one publication of a
\* plan as it was approved, and of nothing else.
THEOREM IngestionIsReviewed == Spec => ImplementsReviewedPublication
<1>1. Init => Record!Init
  <2> SUFFICES ASSUME Init PROVE Record!Init
    OBVIOUS
  <2>1. Place = "DRAFT"
    BY StageFacts DEF Init, Received, Place
  <2>2. PlanOf = Record!NoPlan /\ versions = {} /\ job.result = "none"
    BY DEF Init, NotFrozen, PlanOf, Record!NoPlan, Queue!Fresh
  <2> QED BY <2>1, <2>2 DEF Record!Init
<1>2. Inv /\ Inv' /\ [Next]_vars => [Record!Next]_(Record!vars)
  BY RecordSteps
<1> QED BY <1>1, <1>2, IngestionInvariant, PTL
  DEF Spec, ImplementsReviewedPublication, Record!Spec
-----------------------------------------------------------------------------
(* What a reviewed publication promises.                                   *)

\* From the approval on there is a plan that was reviewed if it had to be; a
\* version is there from the commit on; and ends agree.
RecordSound ==
  /\ Place \in {"DRAFT"} \cup Decisions
  /\ job.result \in {"none", "SUCCEEDED", "FAILED", "CANCELLED"}
  /\ Place = "DRAFT" => PlanOf.hash \notin Hash
  /\ Place \in {"REVIEW_REQUIRED", "APPROVED", "COMMITTED", "PUBLISHED"}
       => PlanOf.hash \in Hash
  /\ Place \in {"APPROVED", "COMMITTED", "PUBLISHED"}
       => (PlanOf.risky => PlanOf.reviewed)
  /\ versions = IF Place \in {"COMMITTED", "PUBLISHED"} THEN {PlanOf.hash} ELSE {}
  /\ Record!OwnerIsTold

RecordStands ==
  /\ PlanOf.hash \in Hash => /\ PlanOf'.hash = PlanOf.hash
                             /\ PlanOf'.risky = PlanOf.risky
                             /\ PlanOf.reviewed => PlanOf'.reviewed
  /\ versions \subseteq versions'
  /\ Place \in {"PUBLISHED", "REJECTED", "CANCELLED"} => Place' = Place
  /\ job.result # "none" =>
       job'.result = job.result /\ (Place' = "PUBLISHED" => Place = "PUBLISHED")

LEMMA RecordKeeps ==
  ASSUME RecordSound, [Record!Next]_(Record!vars)
  PROVE  RecordSound' /\ RecordStands
<1>1. CASE UNCHANGED Record!vars
  <2>1. UNCHANGED <<Place, PlanOf, versions, job.result>>
    BY <1>1 DEF Record!vars
  <2> QED BY <2>1 DEF RecordSound, RecordStands, Record!OwnerIsTold
<1>2. ASSUME NEW h \in Hash, NEW risky \in BOOLEAN, Record!Propose(h, risky)
      PROVE  RecordSound' /\ RecordStands
  <2>1. PlanOf' = [hash |-> h, risky |-> risky, reviewed |-> FALSE]
    BY <1>2 DEF Record!Propose
  <2>2. PlanOf'.hash = h /\ (PlanOf'.risky <=> risky)
    BY <2>1
  <2>3. /\ Place = "DRAFT"
        /\ Place' = IF risky THEN "REVIEW_REQUIRED" ELSE "APPROVED"
        /\ versions' = versions /\ job'.result = job.result
    BY <1>2 DEF Record!Propose
  <2> QED BY <2>2, <2>3
          DEF RecordSound, RecordStands, Record!OwnerIsTold, Decisions
<1>3. CASE Record!Approve
  <2>1. PlanOf' = [hash |-> PlanOf.hash, risky |-> PlanOf.risky, reviewed |-> TRUE]
    BY <1>3 DEF Record!Approve
  <2>2. PlanOf'.hash = PlanOf.hash /\ PlanOf'.risky = PlanOf.risky /\ PlanOf'.reviewed
    BY <2>1
  <2>3. /\ Place = "REVIEW_REQUIRED" /\ Place' = "APPROVED"
        /\ versions' = versions /\ job'.result = job.result
    BY <1>3 DEF Record!Approve
  <2> QED BY <2>2, <2>3
          DEF RecordSound, RecordStands, Record!OwnerIsTold, Decisions
<1>4. CASE Record!RefuseDraft \/ Record!Reject \/ Record!Cancel
  BY <1>4 DEF Record!RefuseDraft, Record!Reject, Record!Cancel, RecordSound,
              RecordStands, Record!OwnerIsTold, Decisions
<1>5. CASE Record!Commit \/ Record!Publish
  BY <1>5 DEF Record!Commit, Record!Publish, RecordSound, RecordStands,
              Record!OwnerIsTold, Decisions
<1>6. ASSUME NEW end \in {"SUCCEEDED", "FAILED", "CANCELLED"}, Record!Tell(end)
      PROVE  RecordSound' /\ RecordStands
  BY <1>6 DEF Record!Tell, RecordSound, RecordStands, Record!OwnerIsTold
<1> QED BY <1>1, <1>2, <1>3, <1>4, <1>5, <1>6 DEF Record!Next

\* Whatever implements the reviewed publication keeps its promises: one version
\* at most, which is the plan, reviewed if it is risky; an owner who is told the
\* truth; and nothing revised, or published after an end.
THEOREM RecordKeepsPromises == ImplementsReviewedPublication => Record!Promises
<1>1. Record!Init => RecordSound
  <2> SUFFICES ASSUME Record!Init PROVE RecordSound
    OBVIOUS
  <2>1. /\ Place = "DRAFT" /\ versions = {} /\ job.result = "none"
        /\ PlanOf = [hash |-> NoHash, risky |-> FALSE, reviewed |-> FALSE]
    BY DEF Record!Init, Record!NoPlan
  <2>2. PlanOf.hash \notin Hash
    BY <2>1, IngestionAssumption
  <2> QED BY <2>1, <2>2 DEF RecordSound, Record!OwnerIsTold
<1>2. RecordSound /\ [Record!Next]_(Record!vars) => RecordSound'
  BY RecordKeeps
<1>3. RecordSound => Record!OnlyThePlan
  BY DEF RecordSound, Record!OnlyThePlan
<1>4. RecordSound => Record!OwnerIsTold
  BY DEF RecordSound
<1>5. RecordSound /\ [Record!Next]_(Record!vars)
        => [/\ PlanOf.hash \in Hash => /\ PlanOf'.hash = PlanOf.hash
                                       /\ PlanOf'.risky = PlanOf.risky
                                       /\ PlanOf.reviewed => PlanOf'.reviewed
            /\ versions \subseteq versions'
            /\ Place \in {"PUBLISHED", "REJECTED", "CANCELLED"} => Place' = Place
            /\ job.result # "none" =>
                 (job.result)' = job.result
                   /\ (Place' = "PUBLISHED" => Place = "PUBLISHED")]_(Record!vars)
  BY RecordKeeps DEF RecordStands
<1> QED BY <1>1, <1>2, <1>3, <1>4, <1>5, PTL
  DEF ImplementsReviewedPublication, Record!Spec, Record!Promises,
      Record!NothingIsRevised

\* So does the ingestion with all its attempts.
THEOREM IngestionKeepsPromises == Spec => Record!Promises
BY IngestionIsReviewed, RecordKeepsPromises, PTL
=============================================================================
