------------------------------ MODULE ExconRun ------------------------------
(***************************************************************************)
(* One collaborative EXCON v2 run (v2-in-memory-service.ts and core/v2):   *)
(* agents that hold one role and one task each, the leases under which     *)
(* they work, submissions with their evaluations and endorsements, the     *)
(* action grants those give out, what /sync has issued to whom, and the    *)
(* two barriers.  A command runs without interruption, but one that throws *)
(* half way leaves what it had done before.                                *)
(*                                                                         *)
(* EVALUATING and REWORK_REQUIRED are states within one command; they are  *)
(* passed over here.  The version of a task, which every command on it     *)
(* names, changes with every step of the task: a command with another      *)
(* version is refused and changes nothing.  The verdict of the evaluator   *)
(* follows from a payload that the submitter chose, and is an input here.  *)
(* Grants lapse after a day, which only takes steps away.                  *)
(***************************************************************************)
EXTENDS Naturals, Sequences, FiniteSets

CONSTANTS
  Specialist,      \* the agents of the roles whose tasks start READY
  Coordinator,     \* the agent of dispatch-coordination
  LeaseTimes,      \* leaseSeconds and extendBySeconds of the commands
  MaxLease,        \* maximumLeaseExpiresAt, from the claim on
  MaxSubmissions,  \* bound of the model on the submissions of a run
  MaxClaims        \* bound of the model on the claims of a run

ASSUME ExconAssumption ==
  /\ Coordinator \notin Specialist
  /\ IsFiniteSet(Specialist)
  /\ Specialist # {}
  /\ LeaseTimes \subseteq Nat \ {0}
  /\ MaxLease \in Nat
  /\ \A d \in LeaseTimes : d <= MaxLease
  /\ MaxSubmissions \in Nat
  /\ MaxClaims \in Nat

VARIABLES
  state,        \* the state of the run
  joined,       \* the agents that have joined it
  task,         \* state of every agent's task
  claimEpoch,   \* its claims so far
  lease,        \* [expires, maximum] of its claim, in time that is left
  submissions,  \* in order; the position of a submission is its id
  evaluations,  \* [submission, verdict]
  endorsements, \* [submission, agent]
  used,         \* grants that have been consumed
  analysis,     \* the barrier analysis-ready
  endorsement,  \* the barrier endorsement-ready
  eligible,     \* what each agent may be told, in order
  issued        \* how much of it the receipts of the agent hold

runVars == <<state, joined>>
taskVars == <<task, claimEpoch, lease>>
resultVars == <<submissions, evaluations, endorsements, used>>
barrierVars == <<analysis, endorsement>>
viewVars == <<eligible, issued>>
vars == <<runVars, taskVars, resultVars, barrierVars, viewVars>>

Agent == Specialist \cup {Coordinator}
TaskState == {"BLOCKED", "READY", "CLAIMED", "IN_PROGRESS", "SUBMITTED",
              "ACCEPTED"}
Verdict == {"ACCEPTED", "REWORK_REQUIRED"}
Id == 1 .. MaxSubmissions

\* A submission of the task of agent "actor", made under the claim "epoch".
Submission == [actor : Agent, epoch : Nat \ {0}, team : BOOLEAN,
               recipients : SUBSET Agent, revisionOf : 0 .. MaxSubmissions]

\* A grant belongs to one agent and one submission: to submit that one again,
\* or to endorse it.
Grant == [action : {"resubmit", "endorse"}, agent : Agent, submission : Id]

\* What receipts are about: the agent's task, a submission that it is to
\* endorse, a feedback that carries a grant.  Receipts of anything else open
\* nothing and are left out.
Item == [about : {"task", "submission", "resubmit", "endorse"},
         submission : 0 .. MaxSubmissions]
About(what, s) == [about |-> what, submission |-> s]
TaskItem == About("task", 0)

\* A barrier with its inputs [role, source]; roles are known by their agents.
Barrier == [released : BOOLEAN,
            inputs : SUBSET [role : Specialist, source : Id]]
NewBarrier == [released |-> FALSE, inputs |-> {}]
NoLease == [expires |-> 0, maximum |-> 0]

Init ==
  /\ state = "FORMING"
  /\ joined = {}
  /\ task = [a \in Agent |-> IF a = Coordinator THEN "BLOCKED" ELSE "READY"]
  /\ claimEpoch = [a \in Agent |-> 0]
  /\ lease = [a \in Agent |-> NoLease]
  /\ submissions = <<>>
  /\ evaluations = {}
  /\ endorsements = {}
  /\ used = {}
  /\ analysis = NewBarrier
  /\ endorsement = NewBarrier
  /\ eligible = [a \in Agent |-> <<>>]
  /\ issued = [a \in Agent |-> 0]
-----------------------------------------------------------------------------
(* Forming, starting, and what the agents are told.                        *)

Join(a) ==
  /\ state = "FORMING"
  /\ a \notin joined
  /\ joined' = joined \cup {a}
  /\ UNCHANGED <<state, taskVars, resultVars, barrierVars, viewVars>>

\* Every role has its agent; tasks and barriers come into being.
Start ==
  /\ state = "FORMING"
  /\ joined = Agent
  /\ state' = "RUNNING"
  /\ eligible' = [a \in Agent |-> <<TaskItem>>]
  /\ UNCHANGED <<joined, taskVars, resultVars, barrierVars, issued>>

\* /sync issues receipts for the next eligible items, up to maxItems.
Sync(a) ==
  /\ state = "RUNNING"
  /\ \E n \in issued[a] + 1 .. Len(eligible[a]) :
        issued' = [issued EXCEPT ![a] = n]
  /\ UNCHANGED <<runVars, taskVars, resultVars, barrierVars, eligible>>

HasIssued(a, item) == \E i \in 1 .. issued[a] : eligible[a][i] = item

\* taskForAgent.
MayWork(a) == state = "RUNNING" /\ HasIssued(a, TaskItem)
-----------------------------------------------------------------------------
(* The lease of a task.                                                    *)

\* Mutant: a claim does not start a generation of its own.
NextEpochSame(a) == IF claimEpoch[a] = 0 THEN 1 ELSE claimEpoch[a]

NextEpoch(a) == claimEpoch[a] + 1

Claims == {c \in Agent \X (1 .. MaxClaims) : c[2] <= claimEpoch[c[1]]}

Claim(a) ==
  /\ MayWork(a)
  /\ task[a] = "READY"
  /\ Cardinality(Claims) < MaxClaims
  /\ task' = [task EXCEPT ![a] = "CLAIMED"]
  /\ claimEpoch' = [claimEpoch EXCEPT ![a] = NextEpoch(a)]
  /\ \E d \in LeaseTimes :
        lease' = [lease EXCEPT ![a] = [expires |-> d, maximum |-> MaxLease]]
  /\ UNCHANGED <<runVars, resultVars, barrierVars, viewVars>>

\* assertCurrentLease, for a command that names claim e.
HoldsLease(a, e) ==
  /\ MayWork(a)
  /\ task[a] \in {"CLAIMED", "IN_PROGRESS"}
  /\ e = claimEpoch[a]
  /\ lease[a].expires > 0

Begin(a, e) ==
  /\ HoldsLease(a, e)
  /\ task[a] = "CLAIMED"
  /\ task' = [task EXCEPT ![a] = "IN_PROGRESS"]
  /\ UNCHANGED <<runVars, claimEpoch, lease, resultVars, barrierVars, viewVars>>

\* Mutant: a heartbeat may extend a lease without end.
MayExtendForever(a, d) == d > 0

MayExtend(a, d) == lease[a].expires + d <= lease[a].maximum

Heartbeat(a, e) ==
  /\ HoldsLease(a, e)
  /\ \E d \in LeaseTimes :
       /\ MayExtend(a, d)
       /\ lease' = [lease EXCEPT ![a] = [expires |-> lease[a].expires + d,
                                         maximum |-> lease[a].maximum]]
  /\ UNCHANGED <<runVars, task, claimEpoch, resultVars, barrierVars, viewVars>>

\* Every task of a v2 run is reassignable.
Release(a, e) ==
  /\ HoldsLease(a, e)
  /\ task' = [task EXCEPT ![a] = "READY"]
  /\ lease' = [lease EXCEPT ![a] = NoLease]
  /\ UNCHANGED <<runVars, claimEpoch, resultVars, barrierVars, viewVars>>

\* Time passes.  Nothing happens when a lease ends: expireRunTaskLease has no
\* caller.
LeftAfter(n) == IF n = 0 THEN 0 ELSE n - 1
Tick ==
  /\ \E a \in Agent : lease[a].expires > 0
  /\ lease' = [a \in Agent |-> [expires |-> LeftAfter(lease[a].expires),
                                maximum |-> LeftAfter(lease[a].maximum)]]
  /\ UNCHANGED <<runVars, task, claimEpoch, resultVars, barrierVars, viewVars>>
-----------------------------------------------------------------------------
(* Evaluation.                                                             *)

Observed(barrier) == {i.role : i \in barrier.inputs}

\* Mutant: one role is enough to open a barrier.
SatisfiedByAny(inputs) == inputs # {}

Satisfied(inputs) == {i.role : i \in inputs} = Specialist

\* recordRunBarrierInput and releaseRunBarrier, which the service calls one
\* after the other.
WithInput(barrier, a, s) ==
  LET inputs == barrier.inputs \cup {[role |-> a, source |-> s]}
  IN  [released |-> Satisfied(inputs), inputs |-> inputs]

\* evaluateRoleSubmission of submission s by agent a, with the barrier
\* analysis-ready as recordAcceptedBarrierInput leaves it, and the items that
\* the submission itself has made eligible.
Evaluate(a, s, verdict, opened, offers) ==
  /\ evaluations' = evaluations \cup {[submission |-> s, verdict |-> verdict]}
  /\ analysis' = opened
  /\ task' = [b \in Agent |->
                IF b = a
                THEN IF verdict = "ACCEPTED" THEN "ACCEPTED" ELSE "READY"
                ELSE IF b = Coordinator /\ opened.released /\ ~analysis.released
                     THEN "READY" ELSE task[b]]
  /\ eligible' = IF verdict = "ACCEPTED" THEN offers
                 ELSE [offers EXCEPT ![a] = Append(@, About("resubmit", s))]

\* Mutant: a role reports to the barrier whatever the verdict is.
AnalysisAfterAny(a, s, verdict) ==
  IF a = Coordinator THEN analysis ELSE WithInput(analysis, a, s)

AnalysisAfter(a, s, verdict) ==
  IF a = Coordinator \/ verdict # "ACCEPTED" THEN analysis
  ELSE WithInput(analysis, a, s)
-----------------------------------------------------------------------------
(* Submitting.                                                             *)

ResubmitGrant(a, s) == [action |-> "resubmit", agent |-> a, submission |-> s]
EndorseGrant(a, s) == [action |-> "endorse", agent |-> a, submission |-> s]

\* Mutant: a grant may be used again.
MayResubmitAgain(a, s) == HasIssued(a, About("resubmit", s))

\* consumeGrant for a revision of s.
MayResubmit(a, s) ==
  /\ HasIssued(a, About("resubmit", s))
  /\ ResubmitGrant(a, s) \notin used

\* What needs no endorsement is evaluated by the command that submits it.
IsDecidedAtOnce(a, team, recipients) ==
  a # Coordinator /\ ~team /\ recipients = {}

\* The recipients get the submission, then the feedback with their grant.
OffersOf(s, recipients) ==
  [b \in Agent |->
     IF b \in recipients
     THEN eligible[b] \o <<About("submission", s), About("endorse", s)>>
     ELSE eligible[b]]

\* Mutant: the submission keeps the claim it was made under.
SubmittedKeepsClaim(a) == [task EXCEPT ![a] = "IN_PROGRESS"]

Submitted(a) == [task EXCEPT ![a] = "SUBMITTED"]

Submit(a, e, team, recipients, revisionOf) ==
  LET s == Len(submissions) + 1
      offers == OffersOf(s, recipients)
  IN
  /\ HoldsLease(a, e)
  /\ task[a] = "IN_PROGRESS"
  /\ s <= MaxSubmissions
  /\ a \notin recipients
  /\ revisionOf # 0 => submissions[revisionOf].actor = a
                       /\ MayResubmit(a, revisionOf)
  /\ submissions' = Append(submissions,
       [actor |-> a, epoch |-> e, team |-> team, recipients |-> recipients,
        revisionOf |-> revisionOf])
  /\ used' = IF revisionOf = 0 THEN used
             ELSE used \cup {ResubmitGrant(a, revisionOf)}
  /\ lease' = [lease EXCEPT ![a] = NoLease]
  /\ IF IsDecidedAtOnce(a, team, recipients)
     THEN \E v \in Verdict :
            Evaluate(a, s, v, AnalysisAfter(a, s, v), offers)
     ELSE /\ task' = Submitted(a)
          /\ eligible' = offers
          /\ UNCHANGED <<evaluations, analysis>>
  /\ UNCHANGED <<runVars, claimEpoch, endorsements, endorsement, issued>>
-----------------------------------------------------------------------------
(* Endorsing.                                                              *)

\* The issued submission, and a grant that is issued and not used.
MayEndorse(a, s) ==
  /\ HasIssued(a, About("submission", s))
  /\ HasIssued(a, About("endorse", s))
  /\ EndorseGrant(a, s) \notin used
  /\ [submission |-> s, agent |-> a] \notin endorsements

IsTeamPlan(s) == submissions[s].actor = Coordinator /\ submissions[s].team

\* The grant is consumed and the endorsement stored before
\* recordEndorsementBarrierInput looks at the barrier.  That throws if the
\* barrier has been released: the caller is told so, and what is stored stays.
Endorse(a, s) ==
  LET next == WithInput(endorsement, a, s)
  IN
  /\ MayEndorse(a, s)
  /\ used' = used \cup {EndorseGrant(a, s)}
  /\ endorsements' = endorsements \cup {[submission |-> s, agent |-> a]}
  /\ IF IsTeamPlan(s) /\ ~endorsement.released
     THEN /\ endorsement' = next
          /\ IF next.released
             THEN \E v \in Verdict :
                    Evaluate(Coordinator, s, v, analysis, eligible)
             ELSE UNCHANGED <<evaluations, analysis, task, eligible>>
     ELSE UNCHANGED <<endorsement, evaluations, analysis, task, eligible>>
  /\ UNCHANGED <<runVars, claimEpoch, lease, submissions, issued>>
-----------------------------------------------------------------------------
\* A command names any claim of its task, also one that is over.
Work(a, e) ==
  \/ Begin(a, e)
  \/ Heartbeat(a, e)
  \/ Release(a, e)
  \/ \E team \in BOOLEAN, recipients \in SUBSET Agent,
        revisionOf \in 0 .. Len(submissions) :
        Submit(a, e, team, recipients, revisionOf)

Next ==
  \/ Start
  \/ Tick
  \/ \E a \in Agent :
       \/ Join(a)
       \/ Sync(a)
       \/ Claim(a)
       \/ \E e \in 1 .. claimEpoch[a] : Work(a, e)
       \/ \E s \in 1 .. Len(submissions) : Endorse(a, s)

Spec == Init /\ [][Next]_vars
-----------------------------------------------------------------------------
Lease == [expires : 0 .. MaxLease, maximum : 0 .. MaxLease]

TypeOK ==
  /\ state \in {"FORMING", "RUNNING"}
  /\ joined \subseteq Agent
  /\ task \in [Agent -> TaskState]
  /\ claimEpoch \in [Agent -> Nat]
  /\ lease \in [Agent -> Lease]
  /\ submissions \in Seq(Submission)
  /\ Len(submissions) <= MaxSubmissions
  /\ evaluations \subseteq [submission : Id, verdict : Verdict]
  /\ endorsements \subseteq [submission : Id, agent : Agent]
  /\ used \subseteq Grant
  /\ analysis \in Barrier
  /\ endorsement \in Barrier
  /\ eligible \in [Agent -> Seq(Item)]
  /\ issued \in [Agent -> Nat]

Ids == 1 .. Len(submissions)
Has(s, verdict) == [submission |-> s, verdict |-> verdict] \in evaluations
Decided(s) == \E v \in Verdict : Has(s, v)
Endorsers(s) == {a \in Agent : [submission |-> s, agent |-> a] \in endorsements}

\* The coordinator is let in by the work of the others: analysis-ready has an
\* input of every role that was accepted and of no other, each from the
\* submission that was accepted, it is released when that are all roles, and
\* the task of the coordinator is blocked until then and never after.
BarrierFollowsRoles ==
  /\ Observed(analysis) = {a \in Specialist : task[a] = "ACCEPTED"}
  /\ \A i \in analysis.inputs :
        submissions[i.source].actor = i.role /\ Has(i.source, "ACCEPTED")
  /\ analysis.released <=> \A a \in Specialist : task[a] = "ACCEPTED"
  /\ analysis.released <=> task[Coordinator] # "BLOCKED"

\* Nobody decides for the others: what the coordinator submits has a verdict
\* only if it is a team plan that every specialist has endorsed, and the
\* endorsements that opened the barrier are endorsements of that plan.
TeamDecidedByAll ==
  \A s \in Ids :
    submissions[s].actor = Coordinator /\ Decided(s)
      => /\ submissions[s].team
         /\ Endorsers(s) = Specialist
         /\ endorsement.released
         /\ \A i \in endorsement.inputs : i.source = s

\* A task waits for the verdict of one submission exactly while it is
\* SUBMITTED, and an accepted submission is the last of its task.
OneOpenSubmission ==
  \A a \in Agent :
    LET own == {s \in Ids : submissions[s].actor = a}
        open == {s \in own : ~Decided(s)}
    IN  /\ task[a] = "SUBMITTED" <=> open # {}
        /\ \A s, q \in open : s = q
        /\ \A s \in own, q \in own : s < q => Has(s, "REWORK_REQUIRED")
        /\ task[a] = "ACCEPTED" <=> \E s \in own : Has(s, "ACCEPTED")

\* A generation of the lease submits once: of two submissions of one task the
\* later was made under a later claim, however many claims ended or ran out
\* between them.
GenerationSubmitsOnce ==
  \A s, q \in Ids :
    s < q /\ submissions[s].actor = submissions[q].actor
      => submissions[s].epoch < submissions[q].epoch

\* A grant is used by its agent once, for what it was given: the revision of a
\* submission that was sent back has a used grant and no rival, an endorsement
\* comes from a recipient who was given the submission to read.
GrantsBackActions ==
  /\ \A s \in Ids : submissions[s].revisionOf # 0 =>
       LET p == submissions[s].revisionOf
       IN  /\ p < s
           /\ Has(p, "REWORK_REQUIRED")
           /\ submissions[p].actor = submissions[s].actor
           /\ ResubmitGrant(submissions[s].actor, p) \in used
           /\ \A q \in Ids : submissions[q].revisionOf = p => q = s
  /\ \A s \in Ids, a \in Agent : a \in Endorsers(s) =>
       /\ a \in submissions[s].recipients
       /\ HasIssued(a, About("submission", s))
       /\ EndorseGrant(a, s) \in used

\* What is on record stands: no command rewrites a submission, an endorsement,
\* a consumed grant or what an agent was told, gives a second verdict, reopens
\* an accepted task, or touches a barrier that has been released.
RecordStands ==
  [][/\ \A s \in Ids : s \in Ids' /\ submissions'[s] = submissions[s]
     /\ endorsements \subseteq endorsements' /\ used \subseteq used'
     /\ \A s \in Ids, v \in Verdict : Decided(s) => (Has(s, v)' <=> Has(s, v))
     /\ \A a \in Agent : task[a] = "ACCEPTED" => task'[a] = "ACCEPTED"
     /\ analysis.released => analysis' = analysis
     /\ endorsement.released => endorsement' = endorsement
     /\ \A a \in Agent : \A i \in 1 .. issued[a] :
           i <= issued'[a] /\ eligible'[a][i] = eligible[a][i]]_vars
-----------------------------------------------------------------------------
(* For the members a run is a decision of the team (TeamDecision): work is *)
(* accepted, a team plan is a plan, an input of endorsement-ready is a     *)
(* vote.  Endorsements of other submissions are no votes, and none is one  *)
(* of a plan that follows on the judged one.                               *)

Accepted == {a \in Specialist : task[a] = "ACCEPTED"}
TeamPlans == {s \in Ids : IsTeamPlan(s)}
OfCoordinator(e) ==
  e.submission \in Ids /\ submissions[e.submission].actor = Coordinator
TeamVerdicts == {e \in evaluations : OfCoordinator(e)}

Decision == INSTANCE TeamDecision
  WITH Member <- Specialist, Plan <- Id, accepted <- Accepted,
       plans <- TeamPlans, votes <- endorsement.inputs, judged <- TeamVerdicts

\* Every command of a run is a step of the decision or none of it.
ImplementsTeamDecision == Decision!Spec
=============================================================================
