-------------------------- MODULE ExconRun_proofs ---------------------------
(***************************************************************************)
(* Proofs about the EXCON run.                                             *)
(*                                                                         *)
(* The properties of ExconRun hold one another up.  A barrier can be       *)
(* trusted because a task waits for one submission at a time, and that is  *)
(* so because a verdict is only ever given to a submission that waits; the *)
(* endorsements of a plan can be trusted because what an agent may be told *)
(* names its readers, and grants because they are told in the same way.    *)
(* Inv puts them together.  Most commands change neither results nor       *)
(* barriers and fall under two lemmas, QuietTask and QuietView; Submit and *)
(* Endorse have each a lemma for every part of Inv.                        *)
(***************************************************************************)
EXTENDS ExconRun, SequenceTheorems, TLAPS

Actor(s) == submissions[s].actor

\* Before the start there is nothing to tell.
Forming ==
  state = "FORMING" => submissions = <<>> /\ \A a \in Agent : eligible[a] = <<>>

\* What agent a may be told names a as its reader, or as the author of work
\* that was sent back.
Told(a, item) ==
  /\ item.about \in {"submission", "endorse"}
       => item.submission \in Ids /\ a \in submissions[item.submission].recipients
  /\ item.about = "resubmit"
       => /\ item.submission \in Ids
          /\ Actor(item.submission) = a
          /\ Has(item.submission, "REWORK_REQUIRED")

Views ==
  \A a \in Agent :
    /\ issued[a] <= Len(eligible[a])
    /\ \A i \in 1 .. Len(eligible[a]) : Told(a, eligible[a][i])

NotOwnReader == \A s \in Ids : Actor(s) \notin submissions[s].recipients

Verdicts ==
  /\ \A s \in Id, v \in Verdict : Has(s, v) => s \in Ids
  /\ \A s \in Ids : ~(Has(s, "ACCEPTED") /\ Has(s, "REWORK_REQUIRED"))

\* OneOpenSubmission, submission by submission.
Waiting ==
  /\ \A s \in Ids : ~Decided(s) => task[Actor(s)] = "SUBMITTED"
  /\ \A s \in Ids : Has(s, "ACCEPTED") => task[Actor(s)] = "ACCEPTED"
  /\ \A s, q \in Ids : s < q /\ Actor(s) = Actor(q) => Has(s, "REWORK_REQUIRED")
  /\ \A a \in Agent : task[a] = "SUBMITTED"
       => \E s \in Ids : Actor(s) = a /\ ~Decided(s)
  /\ \A a \in Agent : task[a] = "ACCEPTED"
       => \E s \in Ids : Actor(s) = a /\ Has(s, "ACCEPTED")

\* What is endorsed exists, and the inputs of endorsement-ready are
\* endorsements of team plans.
Plans ==
  /\ \A x \in endorsements : x.submission \in Ids
  /\ \A i \in endorsement.inputs :
       i.source \in Ids /\ IsTeamPlan(i.source) /\ i.role \in Endorsers(i.source)

\* No submission was made under a claim to come, or under the current one
\* while it lasts.
Epochs ==
  \A s \in Ids :
    /\ submissions[s].epoch <= claimEpoch[Actor(s)]
    /\ task[Actor(s)] \in {"CLAIMED", "IN_PROGRESS"}
         => submissions[s].epoch < claimEpoch[Actor(s)]

Inv ==
  /\ TypeOK
  /\ Forming
  /\ Views
  /\ NotOwnReader
  /\ Verdicts
  /\ Waiting
  /\ BarrierFollowsRoles
  /\ TeamDecidedByAll
  /\ Plans
  /\ Epochs
  /\ GenerationSubmitsOnce
  /\ GrantsBackActions
-----------------------------------------------------------------------------
\* What has been issued is among what may be told.
LEMMA IssuedIsTold ==
  ASSUME Inv, NEW a \in Agent, NEW x, HasIssued(a, x)
  PROVE  Told(a, x)
<1>1. PICK i \in 1 .. issued[a] : eligible[a][i] = x
  BY DEF HasIssued
<1>2. i \in 1 .. Len(eligible[a])
  BY DEF Inv, TypeOK, Views
<1> QED BY <1>1, <1>2 DEF Inv, Views

LEMMA SubmissionType ==
  ASSUME TypeOK, NEW s \in Ids
  PROVE  /\ s \in Id
         /\ submissions[s] \in Submission
         /\ Actor(s) \in Agent
         /\ submissions[s].epoch \in Nat \ {0}
         /\ submissions[s].recipients \subseteq Agent
         /\ submissions[s].revisionOf \in 0 .. MaxSubmissions
         /\ submissions[s].team \in BOOLEAN
<1>1. Len(submissions) \in Nat /\ submissions \in Seq(Submission)
  BY DEF TypeOK
<1>2. submissions[s] \in Submission
  BY <1>1 DEF Ids
<1>3. s \in Id
  BY <1>1, ExconAssumption DEF TypeOK, Ids, Id
<1> QED BY <1>2, <1>3 DEF Submission, Actor

LEMMA InitInv == Init => Inv
<1> SUFFICES ASSUME Init PROVE Inv
  OBVIOUS
<1>1. Ids = {}
  BY DEF Init, Ids
<1>2. TypeOK
  <2>1. /\ task \in [Agent -> TaskState]
        /\ claimEpoch \in [Agent -> Nat]
        /\ lease \in [Agent -> Lease]
    BY ExconAssumption DEF Init, TaskState, Lease, NoLease
  <2>2. analysis \in Barrier /\ endorsement \in Barrier
    BY DEF Init, Barrier, NewBarrier
  <2>3. /\ submissions \in Seq(Submission)
        /\ Len(submissions) <= MaxSubmissions
        /\ eligible \in [Agent -> Seq(Item)]
        /\ issued \in [Agent -> Nat]
    BY ExconAssumption DEF Init
  <2> QED BY <2>1, <2>2, <2>3 DEF Init, TypeOK
<1>3. Forming /\ Views
  BY DEF Init, Forming, Views
<1>4. NotOwnReader /\ Epochs /\ TeamDecidedByAll
  BY <1>1 DEF NotOwnReader, Epochs, TeamDecidedByAll
<1>5. GenerationSubmitsOnce
  BY <1>1 DEF GenerationSubmitsOnce
<1>6. GrantsBackActions
  BY <1>1 DEF GrantsBackActions
<1>7. Verdicts /\ Waiting
  BY <1>1 DEF Init, Verdicts, Waiting, Has
<1>8. BarrierFollowsRoles
  <2>1. analysis.inputs = {} /\ ~analysis.released
    BY DEF Init, NewBarrier
  <2>2. Observed(analysis) = {}
    BY <2>1 DEF Observed
  <2>3. \A a \in Specialist : task[a] = "READY"
    BY ExconAssumption DEF Init, Agent
  <2>4. task[Coordinator] = "BLOCKED"
    BY DEF Init, Agent
  <2> QED BY <2>1, <2>2, <2>3, <2>4, ExconAssumption DEF BarrierFollowsRoles
<1>9. Plans
  BY DEF Init, NewBarrier, Plans
<1> QED BY <1>2, <1>3, <1>4, <1>5, <1>6, <1>7, <1>8, <1>9 DEF Inv
-----------------------------------------------------------------------------
(* Commands that leave results and barriers alone.                         *)

Unsettled == {"READY", "CLAIMED", "IN_PROGRESS"}
Held == {"CLAIMED", "IN_PROGRESS"}

\* A task stays as it is, or is claimed, worked on or let go; a claim is a new
\* one, or the one there was.
TaskMoves ==
  \A a \in Agent :
    /\ task'[a] = task[a] \/ {task[a], task'[a]} \subseteq Unsettled
    /\ claimEpoch'[a] \in {claimEpoch[a], claimEpoch[a] + 1}
    /\ task'[a] \in Held /\ task[a] \notin Held
         => claimEpoch'[a] = claimEpoch[a] + 1

LEMMA QuietTask ==
  ASSUME Inv, TaskMoves, TypeOK', state' = state,
         UNCHANGED <<resultVars, barrierVars, viewVars>>
  PROVE  Inv'
<1>1. /\ submissions' = submissions
      /\ evaluations' = evaluations
      /\ endorsements' = endorsements
      /\ used' = used
      /\ analysis' = analysis
      /\ endorsement' = endorsement
      /\ eligible' = eligible
      /\ issued' = issued
      /\ Ids' = Ids
  BY DEF resultVars, barrierVars, viewVars, Ids
<1>2. \A a \in Agent, t \in {"SUBMITTED", "ACCEPTED", "BLOCKED"} :
        task'[a] = t <=> task[a] = t
  BY DEF TaskMoves, Unsettled
<1>3. Forming' /\ Views' /\ NotOwnReader' /\ Verdicts'
  BY <1>1 DEF Inv, Forming, Views, Told, NotOwnReader, Verdicts, Actor, Has
<1>8. TeamDecidedByAll' /\ GenerationSubmitsOnce' /\ Plans'
  BY <1>1 DEF Inv, TeamDecidedByAll, GenerationSubmitsOnce, Plans, IsTeamPlan,
              Decided, Has, Endorsers
<1>9. GrantsBackActions'
  BY <1>1 DEF Inv, GrantsBackActions, Has, Endorsers, HasIssued
<1>4. \A s \in Ids : Actor(s) \in Agent
  BY SubmissionType DEF Inv
<1>5. Waiting'
  BY <1>1, <1>2, <1>4 DEF Inv, Waiting, Ids, Actor, Decided, Has
<1>6. BarrierFollowsRoles'
  BY <1>1, <1>2 DEF Inv, BarrierFollowsRoles, Observed, Has, Agent
<1>7. Epochs'
  <2> SUFFICES ASSUME NEW s \in Ids
               PROVE  /\ submissions[s].epoch <= claimEpoch'[Actor(s)]
                      /\ task'[Actor(s)] \in Held
                           => submissions[s].epoch < claimEpoch'[Actor(s)]
    BY <1>1 DEF Epochs, Ids, Actor, Held
  <2>1. Actor(s) \in Agent /\ submissions[s].epoch \in Nat
    BY SubmissionType DEF Inv
  <2>2. claimEpoch[Actor(s)] \in Nat
    BY <2>1 DEF Inv, TypeOK
  <2> QED BY <2>1, <2>2 DEF Inv, Epochs, TaskMoves, Held
<1> QED BY <1>3, <1>5, <1>6, <1>7, <1>8, <1>9 DEF Inv

\* More may be told to an agent and more may have been told, as long as it was
\* meant for the agent.
LEMMA QuietView ==
  ASSUME Inv, TypeOK', Forming', Views',
         \A a \in Agent : \A x : HasIssued(a, x) => HasIssued(a, x)',
         UNCHANGED <<taskVars, resultVars, barrierVars>>
  PROVE  Inv'
<1>1. /\ submissions' = submissions
      /\ evaluations' = evaluations
      /\ endorsements' = endorsements
      /\ used' = used
      /\ analysis' = analysis
      /\ endorsement' = endorsement
      /\ task' = task
      /\ claimEpoch' = claimEpoch
  BY DEF resultVars, barrierVars, taskVars
<1>2. NotOwnReader' /\ Verdicts' /\ TeamDecidedByAll' /\ Plans' /\ Waiting'
      /\ GenerationSubmitsOnce' /\ BarrierFollowsRoles' /\ Epochs'
  BY <1>1 DEF Inv, NotOwnReader, Verdicts, Actor, Has, Waiting, Epochs,
              TeamDecidedByAll, Plans, GenerationSubmitsOnce, Observed,
              BarrierFollowsRoles, Ids, Decided, Endorsers, IsTeamPlan
<1>3. GrantsBackActions'
  <2>1. ASSUME NEW s \in Ids, NEW a \in Agent, a \in Endorsers(s)
        PROVE  HasIssued(a, About("submission", s))'
    BY <2>1 DEF Inv, GrantsBackActions
  <2> HIDE DEF HasIssued
  <2>2. \A s : Endorsers(s)' = Endorsers(s)
    BY <1>1 DEF Endorsers
  <2>3. Ids' = Ids /\ \A s, v : Has(s, v)' <=> Has(s, v)
    BY <1>1 DEF Ids, Has
  <2> QED BY <1>1, <2>1, <2>2, <2>3 DEF Inv, GrantsBackActions, Has, Ids,
                                        Endorsers
<1> QED BY <1>2, <1>3 DEF Inv

LEMMA JoinInv ==
  ASSUME Inv, NEW a \in Agent, Join(a)
  PROVE  Inv'
<1>1. TypeOK'
  BY DEF Join, Inv, TypeOK, taskVars, resultVars, barrierVars, viewVars
<1>2. Forming' /\ Views'
  BY DEF Join, Inv, Forming, Views, Told, Has, Ids, Actor, taskVars,
         resultVars, barrierVars, viewVars
<1>3. \A b \in Agent : \A x : HasIssued(b, x) => HasIssued(b, x)'
  BY DEF Join, HasIssued, viewVars
<1> QED BY <1>1, <1>2, <1>3, QuietView DEF Join

LEMMA StartInv ==
  ASSUME Inv, Start
  PROVE  Inv'
<1>1. submissions = <<>> /\ \A a \in Agent : eligible[a] = <<>>
  BY DEF Start, Inv, Forming
<1>2. TaskItem \in Item
  BY ExconAssumption DEF TaskItem, About, Item
<1>3. \A a \in Agent : eligible'[a] = <<TaskItem>>
  BY DEF Start
<1>4. \A a \in Agent : issued'[a] = 0
  BY <1>1 DEF Start, Inv, Views, TypeOK
<1>5. TypeOK'
  BY <1>2 DEF Start, Inv, TypeOK, taskVars, resultVars, barrierVars
<1>6. Forming'
  BY DEF Start, Forming
<1>7. Views'
  BY <1>3, <1>4 DEF Views, Told, TaskItem, About
<1>8. \A a \in Agent : \A x : HasIssued(a, x) => HasIssued(a, x)'
  BY <1>1, <1>4 DEF HasIssued, Start
<1> QED BY <1>5, <1>6, <1>7, <1>8, QuietView DEF Start

LEMMA SyncInv ==
  ASSUME Inv, NEW a \in Agent, Sync(a)
  PROVE  Inv'
<1>1. PICK n \in issued[a] + 1 .. Len(eligible[a]) :
        issued' = [issued EXCEPT ![a] = n]
  BY DEF Sync
<1>2. /\ \A b \in Agent : issued[b] \in Nat /\ Len(eligible[b]) \in Nat
      /\ issued \in [Agent -> Nat]
  BY DEF Inv, TypeOK
<1>3. n \in Nat /\ issued[a] < n /\ n <= Len(eligible[a])
  BY <1>1, <1>2
<1>4. \A b \in Agent : issued'[b] = IF b = a THEN n ELSE issued[b]
  BY <1>1, <1>2
<1>5. eligible' = eligible
  BY DEF Sync
<1>6. issued' \in [Agent -> Nat]
  BY <1>1, <1>2, <1>3
<1>7. TypeOK'
  BY <1>6 DEF Sync, Inv, TypeOK, runVars, taskVars, resultVars, barrierVars
<1>8. Forming'
  BY DEF Sync, Inv, Forming, runVars, resultVars
<1>9. Views'
  BY <1>3, <1>4 DEF Sync, Inv, Views, Told, Has, Ids, Actor, resultVars
<1>10. \A b \in Agent : \A x : HasIssued(b, x) => HasIssued(b, x)'
  <2> SUFFICES ASSUME NEW b \in Agent, NEW x, NEW i \in 1 .. issued[b],
                      eligible[b][i] = x
               PROVE  HasIssued(b, x)'
    BY DEF HasIssued
  <2>1. i \in 1 .. issued'[b]
    BY <1>2, <1>3, <1>4
  <2> QED BY <1>5, <2>1 DEF HasIssued
<1> QED BY <1>7, <1>8, <1>9, <1>10, QuietView DEF Sync

LEMMA ClaimInv ==
  ASSUME Inv, NEW a \in Agent, Claim(a)
  PROVE  Inv'
<1>1. PICK d \in LeaseTimes :
        lease' = [lease EXCEPT ![a] = [expires |-> d, maximum |-> MaxLease]]
  BY DEF Claim
<1>2. [expires |-> d, maximum |-> MaxLease] \in Lease
  BY ExconAssumption DEF Lease
<1>3. lease' \in [Agent -> Lease]
  BY <1>1, <1>2 DEF Inv, TypeOK
<1>4. /\ task' \in [Agent -> TaskState]
      /\ claimEpoch' \in [Agent -> Nat]
  BY DEF Claim, NextEpoch, Inv, TypeOK, TaskState
<1>5. TypeOK'
  BY <1>3, <1>4 DEF Claim, Inv, TypeOK, runVars, resultVars, barrierVars,
                    viewVars
<1>6. TaskMoves
  BY DEF Claim, NextEpoch, Inv, TypeOK, TaskMoves, Unsettled, Held
<1> QED BY <1>5, <1>6, QuietTask DEF Claim, runVars

LEMMA BeginInv ==
  ASSUME Inv, NEW a \in Agent, NEW e, Begin(a, e)
  PROVE  Inv'
<1>1. TypeOK'
  BY DEF Begin, Inv, TypeOK, TaskState, runVars, resultVars, barrierVars,
         viewVars
<1>2. TaskMoves
  BY DEF Begin, Inv, TypeOK, TaskMoves, Unsettled, Held
<1> QED BY <1>1, <1>2, QuietTask DEF Begin, runVars

LEMMA HeartbeatInv ==
  ASSUME Inv, NEW a \in Agent, NEW e, Heartbeat(a, e)
  PROVE  Inv'
<1>1. PICK d \in LeaseTimes :
        /\ MayExtend(a, d)
        /\ lease' = [lease EXCEPT ![a] = [expires |-> lease[a].expires + d,
                                          maximum |-> lease[a].maximum]]
  BY DEF Heartbeat
<1>2. /\ lease[a].expires \in Nat
      /\ lease[a].maximum \in 0 .. MaxLease
      /\ d \in Nat
      /\ MaxLease \in Nat
  BY ExconAssumption DEF Inv, TypeOK, Lease
<1>3. lease[a].expires + d \in 0 .. MaxLease
  BY <1>1, <1>2 DEF MayExtend
<1>4. [expires |-> lease[a].expires + d, maximum |-> lease[a].maximum] \in Lease
  BY <1>2, <1>3 DEF Lease
<1>5. lease' \in [Agent -> Lease]
  BY <1>1, <1>4 DEF Inv, TypeOK
<1>6. TypeOK'
  BY <1>5 DEF Heartbeat, Inv, TypeOK, runVars, resultVars, barrierVars, viewVars
<1>7. TaskMoves
  BY DEF Heartbeat, Inv, TypeOK, TaskMoves, Unsettled, Held
<1> QED BY <1>6, <1>7, QuietTask DEF Heartbeat, runVars

LEMMA NoLeaseType == NoLease \in Lease
BY ExconAssumption DEF NoLease, Lease

LEMMA ReleaseInv ==
  ASSUME Inv, NEW a \in Agent, NEW e, Release(a, e)
  PROVE  Inv'
<1>1. lease' \in [Agent -> Lease]
  BY NoLeaseType DEF Release, Inv, TypeOK
<1>2. TypeOK'
  BY <1>1 DEF Release, Inv, TypeOK, TaskState, runVars, resultVars,
              barrierVars, viewVars
<1>3. TaskMoves
  BY DEF Release, HoldsLease, Inv, TypeOK, TaskMoves, Unsettled, Held
<1> QED BY <1>2, <1>3, QuietTask DEF Release, runVars

LEMMA TickInv ==
  ASSUME Inv, Tick
  PROVE  Inv'
<1>1. ASSUME NEW a \in Agent
      PROVE  [expires |-> LeftAfter(lease[a].expires),
              maximum |-> LeftAfter(lease[a].maximum)] \in Lease
  <2>1. lease[a].expires \in 0 .. MaxLease /\ lease[a].maximum \in 0 .. MaxLease
    BY <1>1 DEF Inv, TypeOK, Lease
  <2>2. /\ LeftAfter(lease[a].expires) \in 0 .. MaxLease
        /\ LeftAfter(lease[a].maximum) \in 0 .. MaxLease
    BY <2>1, ExconAssumption DEF LeftAfter
  <2> QED BY <2>2 DEF Lease
<1>2. lease' \in [Agent -> Lease]
  BY <1>1 DEF Tick
<1>3. TypeOK'
  BY <1>2 DEF Tick, Inv, TypeOK, runVars, resultVars, barrierVars, viewVars
<1>4. TaskMoves
  BY DEF Tick, Inv, TypeOK, TaskMoves, Unsettled, Held
<1> QED BY <1>3, <1>4, QuietTask DEF Tick, runVars
-----------------------------------------------------------------------------
(* Submitting, as the parts of the invariant see it.                       *)

NewId == Len(submissions) + 1

Added(a, team, recipients, revisionOf) ==
  /\ NewId \in Id
  /\ NewId \notin Ids
  /\ Ids' = Ids \cup {NewId}
  /\ \A q \in Ids : q < NewId /\ submissions'[q] = submissions[q]
  /\ submissions'[NewId] =
       [actor |-> a, epoch |-> claimEpoch[a], team |-> team,
        recipients |-> recipients, revisionOf |-> revisionOf]

\* Views only grow.
Grown ==
  \A b \in Agent :
    /\ Len(eligible[b]) <= Len(eligible'[b])
    /\ \A i \in 1 .. Len(eligible[b]) : eligible'[b][i] = eligible[b][i]

SentBack(s) ==
  [submission |-> s, verdict |-> "REWORK_REQUIRED"] \in evaluations'

SubmitShows(a, recipients) ==
  \A b \in Agent : \A i \in Len(eligible[b]) + 1 .. Len(eligible'[b]) :
    \/ /\ b \in recipients
       /\ eligible'[b][i] \in {About("submission", NewId), About("endorse", NewId)}
    \/ /\ b = a
       /\ eligible'[b][i] = About("resubmit", NewId)
       /\ SentBack(NewId)

Waits(a) ==
  /\ evaluations' = evaluations
  /\ analysis' = analysis
  /\ task' = [task EXCEPT ![a] = "SUBMITTED"]

Judged(a, s, v, opened) ==
  /\ v \in Verdict
  /\ evaluations' = evaluations \cup {[submission |-> s, verdict |-> v]}
  /\ analysis' = opened
  /\ task' = [b \in Agent |->
                IF b = a
                THEN IF v = "ACCEPTED" THEN "ACCEPTED" ELSE "READY"
                ELSE IF b = Coordinator /\ opened.released /\ ~analysis.released
                     THEN "READY" ELSE task[b]]

Submits(a, team, recipients, revisionOf) ==
  /\ a \in Agent
  /\ recipients \subseteq Agent
  /\ a \notin recipients
  /\ task[a] = "IN_PROGRESS"
  /\ Added(a, team, recipients, revisionOf)
  /\ Grown
  /\ SubmitShows(a, recipients)
  /\ \/ Waits(a)
     \/ /\ a \in Specialist
        /\ \E v \in Verdict : Judged(a, NewId, v, AnalysisAfter(a, NewId, v))

LEMMA AppendOne ==
  ASSUME NEW S, NEW q \in Seq(S), NEW x \in S
  PROVE  /\ Append(q, x) \in Seq(S)
         /\ Len(Append(q, x)) = Len(q) + 1
         /\ \A i \in 1 .. Len(q) : Append(q, x)[i] = q[i]
         /\ Append(q, x)[Len(q) + 1] = x
OBVIOUS

LEMMA ConcatTwo ==
  ASSUME NEW S, NEW q \in Seq(S), NEW x \in S, NEW y \in S
  PROVE  /\ q \o <<x, y>> \in Seq(S)
         /\ Len(q \o <<x, y>>) = Len(q) + 2
         /\ \A i \in 1 .. Len(q) : (q \o <<x, y>>)[i] = q[i]
         /\ (q \o <<x, y>>)[Len(q) + 1] = x
         /\ (q \o <<x, y>>)[Len(q) + 2] = y
<1>1. <<x, y>> \in Seq(S) /\ Len(<<x, y>>) = 2 /\ Len(q) \in Nat
  OBVIOUS
<1>2. /\ q \o <<x, y>> \in Seq(S)
      /\ Len(q \o <<x, y>>) = Len(q) + 2
      /\ \A i \in 1 .. Len(q) + 2 : (q \o <<x, y>>)[i] =
                IF i <= Len(q) THEN q[i] ELSE <<x, y>>[i - Len(q)]
  BY <1>1, ConcatProperties
<1>3. /\ (q \o <<x, y>>)[Len(q) + 1] = <<x, y>>[1]
      /\ (q \o <<x, y>>)[Len(q) + 2] = <<x, y>>[2]
  BY <1>1, <1>2
<1> QED BY <1>1, <1>2, <1>3

LEMMA ItemType ==
  ASSUME NEW what \in {"submission", "endorse", "resubmit"}, NEW s \in Id
  PROVE  About(what, s) \in Item
BY DEF About, Item, Id

\* The view of agent b that a command leaves, agent by agent.
LEMMA OffersGrow ==
  ASSUME Inv, NEW s \in Id, NEW recipients, NEW b \in Agent
  PROVE  LET new == OffersOf(s, recipients)[b]
         IN  /\ new \in Seq(Item)
             /\ Len(eligible[b]) <= Len(new)
             /\ \A i \in 1 .. Len(eligible[b]) : new[i] = eligible[b][i]
             /\ \A i \in Len(eligible[b]) + 1 .. Len(new) :
                  /\ b \in recipients
                  /\ new[i] \in {About("submission", s), About("endorse", s)}
<1> DEFINE new == OffersOf(s, recipients)[b]
<1>1. eligible[b] \in Seq(Item) /\ Len(eligible[b]) \in Nat
  BY DEF Inv, TypeOK
<1>2. CASE b \in recipients
  <2>1. new = eligible[b] \o <<About("submission", s), About("endorse", s)>>
    BY <1>2 DEF OffersOf
  <2>2. About("submission", s) \in Item /\ About("endorse", s) \in Item
    BY ItemType
  <2> HIDE DEF new
  <2>3. /\ new \in Seq(Item)
        /\ Len(new) = Len(eligible[b]) + 2
        /\ \A i \in 1 .. Len(eligible[b]) : new[i] = eligible[b][i]
        /\ new[Len(eligible[b]) + 1] = About("submission", s)
        /\ new[Len(eligible[b]) + 2] = About("endorse", s)
    BY <1>1, <2>1, <2>2, ConcatTwo
  <2>4. \A i \in Len(eligible[b]) + 1 .. Len(new) :
          i = Len(eligible[b]) + 1 \/ i = Len(eligible[b]) + 2
    BY <1>1, <2>3
  <2>5. QED BY <1>1, <1>2, <2>3, <2>4 DEF new
<1>3. CASE b \notin recipients
  <2>1. new = eligible[b]
    BY <1>3 DEF OffersOf
  <2> QED BY <1>1, <2>1
<1> QED BY <1>2, <1>3

LEMMA WithInputType ==
  ASSUME NEW barrier \in Barrier, NEW a \in Specialist, NEW s \in Id
  PROVE  /\ WithInput(barrier, a, s) \in Barrier
         /\ WithInput(barrier, a, s).inputs
              = barrier.inputs \cup {[role |-> a, source |-> s]}
         /\ WithInput(barrier, a, s).released
              <=> Satisfied(barrier.inputs \cup {[role |-> a, source |-> s]})
<1> DEFINE inputs == barrier.inputs \cup {[role |-> a, source |-> s]}
<1>1. WithInput(barrier, a, s) = [released |-> Satisfied(inputs), inputs |-> inputs]
  BY DEF WithInput
<1>2. inputs \subseteq [role : Specialist, source : Id]
  BY DEF Barrier
<1>3. Satisfied(inputs) \in BOOLEAN
  BY DEF Satisfied
<1> HIDE DEF inputs
<1>4. [released |-> Satisfied(inputs), inputs |-> inputs] \in Barrier
  BY <1>2, <1>3 DEF Barrier
<1>5. /\ WithInput(barrier, a, s) \in Barrier
      /\ WithInput(barrier, a, s).inputs = inputs
      /\ WithInput(barrier, a, s).released <=> Satisfied(inputs)
  BY <1>1, <1>3, <1>4
<1> QED BY <1>5 DEF inputs

LEMMA SubmitAdds ==
  ASSUME Inv, NEW a \in Agent, NEW e \in 1 .. claimEpoch[a],
         NEW team \in BOOLEAN,
         NEW recipients \in SUBSET Agent,
         NEW revisionOf \in 0 .. Len(submissions),
         Submit(a, e, team, recipients, revisionOf)
  PROVE  /\ Added(a, team, recipients, revisionOf)
         /\ submissions' \in Seq(Submission)
         /\ Len(submissions') <= MaxSubmissions
<1> DEFINE new == [actor |-> a, epoch |-> e, team |-> team,
                   recipients |-> recipients, revisionOf |-> revisionOf]
<1>1. /\ submissions \in Seq(Submission)
      /\ Len(submissions) \in Nat
      /\ Len(submissions) + 1 <= MaxSubmissions
      /\ MaxSubmissions \in Nat
  BY ExconAssumption DEF Submit, Inv, TypeOK
<1>2. submissions' = Append(submissions, new)
  BY DEF Submit
<1>3. e = claimEpoch[a] /\ task[a] = "IN_PROGRESS"
  BY DEF Submit, HoldsLease
<1>4. e \in Nat \ {0}
  <2>1. claimEpoch[a] \in Nat
    BY DEF Inv, TypeOK
  <2> QED BY <2>1
<1>5. new \in Submission
  BY <1>1, <1>4 DEF Submission
<1> HIDE DEF new
<1>6. /\ submissions' \in Seq(Submission)
      /\ Len(submissions') = Len(submissions) + 1
      /\ \A i \in 1 .. Len(submissions) : submissions'[i] = submissions[i]
      /\ submissions'[Len(submissions) + 1] = new
  BY <1>1, <1>2, <1>5, AppendOne
<1>7. Added(a, team, recipients, revisionOf)
  BY <1>1, <1>3, <1>6 DEF Added, NewId, Ids, Id, new
<1> QED BY <1>1, <1>6, <1>7

LEMMA SubmitGrows ==
  ASSUME Inv, NEW a \in Agent, NEW recipients \in SUBSET Agent,
         a \notin recipients, NewId \in Id,
         \/ eligible' = OffersOf(NewId, recipients)
         \/ /\ eligible' = [OffersOf(NewId, recipients) EXCEPT
                              ![a] = Append(@, About("resubmit", NewId))]
            /\ SentBack(NewId)
  PROVE  eligible' \in [Agent -> Seq(Item)] /\ Grown /\ SubmitShows(a, recipients)
<1> DEFINE offers == OffersOf(NewId, recipients)
<1>1. offers \in [Agent -> Seq(Item)]
  <2>1. \A b \in Agent : offers[b] \in Seq(Item)
    BY OffersGrow
  <2> QED BY <2>1 DEF OffersOf
<1>2. \A b \in Agent :
        /\ Len(eligible[b]) <= Len(offers[b])
        /\ \A i \in 1 .. Len(eligible[b]) : offers[b][i] = eligible[b][i]
        /\ \A i \in Len(eligible[b]) + 1 .. Len(offers[b]) :
             /\ b \in recipients
             /\ offers[b][i] \in {About("submission", NewId),
                                  About("endorse", NewId)}
  BY OffersGrow
<1>3. CASE eligible' = offers
  BY <1>1, <1>2, <1>3 DEF Grown, SubmitShows
<1>4. CASE /\ eligible' = [offers EXCEPT
                              ![a] = Append(@, About("resubmit", NewId))]
           /\ SentBack(NewId)
  <2> DEFINE item == About("resubmit", NewId)
  <2>1. item \in Item
    BY ItemType
  <2>2. offers[a] = eligible[a]
    BY DEF OffersOf
  <2> HIDE DEF offers, item
  <2>3. eligible[a] \in Seq(Item) /\ Len(eligible[a]) \in Nat
    BY DEF Inv, TypeOK
  <2>4. /\ eligible'[a] = Append(eligible[a], item)
        /\ \A b \in Agent : b # a => eligible'[b] = offers[b]
        /\ eligible' = [offers EXCEPT ![a] = Append(@, item)]
    BY <1>1, <1>4, <2>2 DEF item, offers
  <2>5. /\ eligible'[a] \in Seq(Item)
        /\ Len(eligible'[a]) = Len(eligible[a]) + 1
        /\ \A i \in 1 .. Len(eligible[a]) : eligible'[a][i] = eligible[a][i]
        /\ eligible'[a][Len(eligible[a]) + 1] = item
    BY <2>1, <2>3, <2>4, AppendOne
  <2>6. eligible' \in [Agent -> Seq(Item)]
    BY <1>1, <2>4, <2>5
  <2>7. Grown
    <3> SUFFICES ASSUME NEW b \in Agent
                 PROVE  /\ Len(eligible[b]) <= Len(eligible'[b])
                        /\ \A i \in 1 .. Len(eligible[b]) :
                             eligible'[b][i] = eligible[b][i]
      BY DEF Grown
    <3>1. CASE b = a
      BY <2>3, <2>5, <3>1
    <3>2. CASE b # a
      BY <1>2, <2>4, <3>2
    <3> QED BY <3>1, <3>2
  <2>8. SubmitShows(a, recipients)
    <3> SUFFICES ASSUME NEW b \in Agent,
                        NEW i \in Len(eligible[b]) + 1 .. Len(eligible'[b])
                 PROVE  \/ /\ b \in recipients
                           /\ eligible'[b][i] \in {About("submission", NewId),
                                                   About("endorse", NewId)}
                        \/ /\ b = a
                           /\ eligible'[b][i] = About("resubmit", NewId)
                           /\ SentBack(NewId)
      BY DEF SubmitShows
    <3>1. CASE b = a
      <4>1. i = Len(eligible[a]) + 1
        BY <2>3, <2>5, <3>1
      <4> QED BY <1>4, <2>5, <3>1, <4>1 DEF item
    <3>2. CASE b # a
      BY <1>2, <2>4, <3>2
    <3> QED BY <3>1, <3>2
  <2> QED BY <2>6, <2>7, <2>8
<1> QED BY <1>3, <1>4

ViewsAfter(a, v, recipients) ==
  IF v = "ACCEPTED" THEN OffersOf(NewId, recipients)
  ELSE [OffersOf(NewId, recipients) EXCEPT
          ![a] = Append(@, About("resubmit", NewId))]

\* What Submit does to results and tasks is one of two things.
LEMMA SubmitDecides ==
  ASSUME Inv, NEW a \in Agent, NEW e, NEW team \in BOOLEAN,
         NEW recipients \in SUBSET Agent,
         NEW revisionOf \in 0 .. Len(submissions),
         Submit(a, e, team, recipients, revisionOf)
  PROVE  \/ Waits(a) /\ eligible' = OffersOf(NewId, recipients)
         \/ /\ a \in Specialist
            /\ \E v \in Verdict :
                 /\ Judged(a, NewId, v, AnalysisAfter(a, NewId, v))
                 /\ eligible' = ViewsAfter(a, v, recipients)
<1>1. CASE IsDecidedAtOnce(a, team, recipients)
  <2>1. PICK v \in Verdict : Evaluate(a, NewId, v, AnalysisAfter(a, NewId, v),
                                      OffersOf(NewId, recipients))
    BY <1>1 DEF Submit, NewId
  <2>2. a \in Specialist
    BY <1>1 DEF IsDecidedAtOnce, Agent
  <2>3. Judged(a, NewId, v, AnalysisAfter(a, NewId, v))
    BY <2>1 DEF Evaluate, Judged
  <2>4. eligible' = ViewsAfter(a, v, recipients)
    BY <2>1 DEF Evaluate, ViewsAfter
  <2> QED BY <2>2, <2>3, <2>4
<1>2. CASE ~IsDecidedAtOnce(a, team, recipients)
  BY <1>2 DEF Submit, Submitted, Waits, NewId
<1> QED BY <1>1, <1>2

LEMMA SubmitFacts ==
  ASSUME Inv, NEW a \in Agent, NEW e \in 1 .. claimEpoch[a],
         NEW team \in BOOLEAN, NEW recipients \in SUBSET Agent,
         NEW revisionOf \in 0 .. Len(submissions),
         Submit(a, e, team, recipients, revisionOf)
  PROVE  Submits(a, team, recipients, revisionOf) /\ TypeOK'
<1>1. /\ Added(a, team, recipients, revisionOf)
      /\ submissions' \in Seq(Submission)
      /\ Len(submissions') <= MaxSubmissions
  BY SubmitAdds
<1>2. NewId \in Id
  BY <1>1 DEF Added
<1>3. a \notin recipients /\ task[a] = "IN_PROGRESS"
  BY DEF Submit
<1>4. \/ Waits(a)
      \/ /\ a \in Specialist
         /\ \E v \in Verdict : Judged(a, NewId, v, AnalysisAfter(a, NewId, v))
  BY SubmitDecides
<1>5. /\ eligible' \in [Agent -> Seq(Item)]
      /\ Grown
      /\ SubmitShows(a, recipients)
  <2>1. CASE eligible' = OffersOf(NewId, recipients)
    BY <1>2, <1>3, <2>1, SubmitGrows
  <2>2. CASE eligible' # OffersOf(NewId, recipients)
    <3>1. PICK v \in Verdict :
             /\ Judged(a, NewId, v, AnalysisAfter(a, NewId, v))
             /\ eligible' = ViewsAfter(a, v, recipients)
      BY <2>2, SubmitDecides
    <3>2. v = "REWORK_REQUIRED"
      BY <2>2, <3>1 DEF Verdict, ViewsAfter
    <3>3. SentBack(NewId)
      BY <3>1, <3>2 DEF Judged, SentBack
    <3>4. eligible' = [OffersOf(NewId, recipients) EXCEPT
                         ![a] = Append(@, About("resubmit", NewId))]
      BY <3>1, <3>2 DEF ViewsAfter
    <3> QED BY <1>2, <1>3, <3>3, <3>4, SubmitGrows
  <2> QED BY <2>1, <2>2
<1>6. /\ task' \in [Agent -> TaskState]
      /\ evaluations' \subseteq [submission : Id, verdict : Verdict]
      /\ analysis' \in Barrier
  <2>1. CASE Waits(a)
    BY <2>1 DEF Waits, Inv, TypeOK, TaskState
  <2>2. CASE a \in Specialist /\ \E v \in Verdict :
               Judged(a, NewId, v, AnalysisAfter(a, NewId, v))
    <3>1. PICK v \in Verdict : Judged(a, NewId, v, AnalysisAfter(a, NewId, v))
      BY <2>2
    <3>2. AnalysisAfter(a, NewId, v) \in Barrier
      BY <1>2, <2>2, WithInputType DEF AnalysisAfter, Inv, TypeOK
    <3>3. \A b \in Agent : task[b] \in TaskState
      BY DEF Inv, TypeOK
    <3>4. task' \in [Agent -> TaskState]
      BY <3>1, <3>3 DEF Judged, TaskState
    <3>5. evaluations' \subseteq [submission : Id, verdict : Verdict]
      BY <1>2, <3>1 DEF Judged, Inv, TypeOK
    <3>6. analysis' \in Barrier
      BY <3>1, <3>2 DEF Judged
    <3> QED BY <3>4, <3>5, <3>6
  <2> QED BY <1>4, <2>1, <2>2
<1>7. used' \subseteq Grant
  <2>1. ResubmitGrant(a, revisionOf) \in Grant \/ revisionOf = 0
    BY ExconAssumption DEF ResubmitGrant, Grant, Id, Inv, TypeOK
  <2> QED BY <2>1 DEF Submit, Inv, TypeOK
<1>8. lease' \in [Agent -> Lease]
  BY NoLeaseType DEF Submit, Inv, TypeOK
<1>9. TypeOK'
  BY <1>1, <1>5, <1>6, <1>7, <1>8 DEF Submit, Inv, TypeOK, runVars
<1>10. Submits(a, team, recipients, revisionOf)
  BY <1>1, <1>3, <1>4, <1>5 DEF Submits
<1> QED BY <1>9, <1>10

\* s is the new submission, as a value.
SubmitsAs(a, s, team, recipients, revisionOf) ==
  s = NewId /\ Submits(a, team, recipients, revisionOf)

SubmitKept(a, s, team, recipients, revisionOf) ==
  /\ s \in Id
  /\ s \notin Ids
  /\ Ids' = Ids \cup {s}
  /\ \A q \in Ids : q < s /\ submissions'[q] = submissions[q]
  /\ \A q \in Ids, v \in Verdict : Has(q, v)' <=> Has(q, v)
  /\ \A q \in Ids : Actor(q)' = Actor(q) /\ (Decided(q)' <=> Decided(q))
  /\ \A v \in Verdict : ~Has(s, v)
  /\ submissions'[s] =
       [actor |-> a, epoch |-> claimEpoch[a], team |-> team,
        recipients |-> recipients, revisionOf |-> revisionOf]
  /\ Actor(s)' = a
  /\ submissions'[s].actor = a
  /\ submissions'[s].recipients = recipients
  /\ submissions'[s].epoch = claimEpoch[a]
  /\ submissions'[s].revisionOf = revisionOf

LEMMA SubmitKeeps ==
  ASSUME Inv, NEW a, NEW s, NEW team, NEW recipients, NEW revisionOf,
         SubmitsAs(a, s, team, recipients, revisionOf)
  PROVE  SubmitKept(a, s, team, recipients, revisionOf)
<1>1. /\ s \in Id
      /\ s \notin Ids
      /\ Ids' = Ids \cup {s}
      /\ \A q \in Ids : q < s /\ submissions'[q] = submissions[q]
      /\ submissions'[s] =
           [actor |-> a, epoch |-> claimEpoch[a], team |-> team,
            recipients |-> recipients, revisionOf |-> revisionOf]
  BY DEF SubmitsAs, Submits, Added
<1>2. \A q \in Ids : q # s
  BY <1>1
<1>3. evaluations' = evaluations
      \/ \E v \in Verdict :
           evaluations' = evaluations \cup {[submission |-> s, verdict |-> v]}
  BY DEF SubmitsAs, Submits, Waits, Judged
<1>4. \A q \in Ids, v \in Verdict : Has(q, v)' <=> Has(q, v)
  BY <1>2, <1>3 DEF Has
<1>5. \A q \in Ids : Decided(q)' <=> Decided(q)
  BY <1>4 DEF Decided
<1>6. \A q \in Ids : Actor(q)' = Actor(q)
  BY <1>1 DEF Actor
<1>7. \A v \in Verdict : ~Has(s, v)
  BY <1>1 DEF Inv, Verdicts
<1>8. Actor(s)' = a
  BY <1>1 DEF Actor
<1>9. /\ submissions'[s].actor = a
      /\ submissions'[s].recipients = recipients
      /\ submissions'[s].epoch = claimEpoch[a]
      /\ submissions'[s].revisionOf = revisionOf
  BY <1>1
<1> QED BY <1>1, <1>4, <1>5, <1>6, <1>7, <1>8, <1>9 DEF SubmitKept

LEMMA SubmitViews ==
  ASSUME Inv, TypeOK', NEW a, NEW s, NEW team, NEW recipients, NEW revisionOf,
         SubmitsAs(a, s, team, recipients, revisionOf), issued' = issued
  PROVE  Views'
<1>0. SubmitKept(a, s, team, recipients, revisionOf)
  BY SubmitKeeps
<1>1. \A b \in Agent :
        /\ Len(eligible[b]) \in Nat
        /\ Len(eligible'[b]) \in Nat
        /\ issued[b] \in Nat
        /\ issued[b] <= Len(eligible[b])
  BY DEF Inv, TypeOK, Views
<1>2. \A b \in Agent :
        /\ Len(eligible[b]) <= Len(eligible'[b])
        /\ \A i \in 1 .. Len(eligible[b]) : eligible'[b][i] = eligible[b][i]
  BY DEF SubmitsAs, Submits, Grown
<1>3. /\ s \notin Ids /\ Ids' = Ids \cup {s}
      /\ \A q \in Ids : submissions'[q] = submissions[q]
      /\ submissions'[s].actor = a
      /\ submissions'[s].recipients = recipients
      /\ \A q \in Ids : Has(q, "REWORK_REQUIRED")' <=> Has(q, "REWORK_REQUIRED")
  BY <1>0 DEF SubmitKept, Verdict
<1>5. ASSUME NEW b \in Agent, NEW i \in 1 .. Len(eligible'[b]), NEW x,
             x = eligible'[b][i]
      PROVE  Told(b, x)'
  <2>1. CASE i <= Len(eligible[b])
    <3>1. x = eligible[b][i] /\ i \in 1 .. Len(eligible[b])
      BY <1>1, <1>2, <1>5, <2>1
    <3>2. Told(b, x)
      BY <3>1 DEF Inv, Views
    <3> QED BY <1>3, <3>2 DEF Told, Actor
  <2>2. CASE i > Len(eligible[b])
    <3>1. i \in Len(eligible[b]) + 1 .. Len(eligible'[b])
      BY <1>1, <1>5, <2>2
    <3>2. \/ /\ b \in recipients
             /\ x \in {About("submission", s), About("endorse", s)}
          \/ /\ b = a
             /\ x = About("resubmit", s)
             /\ SentBack(s)
      BY <1>5, <3>1 DEF SubmitsAs, Submits, SubmitShows
    <3>3. CASE b \in recipients /\ x.about # "resubmit" /\ x.submission = s
      BY <1>3, <3>3 DEF Told
    <3>4. CASE b = a /\ x.about = "resubmit" /\ x.submission = s /\ SentBack(s)
      BY <1>3, <3>4 DEF Told, Actor, Has, SentBack
    <3> QED BY <3>2, <3>3, <3>4 DEF About
  <2> QED BY <1>1, <1>5, <2>1, <2>2
<1>6. \A b \in Agent : issued'[b] <= Len(eligible'[b])
  BY <1>1, <1>2
<1>7. \A b \in Agent : \A i \in 1 .. Len(eligible'[b]) : \A x :
        x = eligible'[b][i] => Told(b, x)'
  BY <1>5
<1> QED BY <1>6, <1>7 DEF Views, Told, Ids, Actor, Has

LEMMA SubmitWaiting ==
  ASSUME Inv, NEW a, NEW s, NEW team, NEW recipients, NEW revisionOf,
         SubmitsAs(a, s, team, recipients, revisionOf)
  PROVE  NotOwnReader' /\ Verdicts' /\ Waiting'
<1>0. SubmitKept(a, s, team, recipients, revisionOf)
  BY SubmitKeeps
<1>1. /\ s \in Id /\ s \notin Ids /\ Ids' = Ids \cup {s}
      /\ \A q \in Ids : q < s /\ submissions'[q] = submissions[q]
      /\ \A q \in Ids, v \in Verdict : Has(q, v)' <=> Has(q, v)
      /\ \A q \in Ids : Actor(q)' = Actor(q) /\ (Decided(q)' <=> Decided(q))
      /\ \A v \in Verdict : ~Has(s, v)
      /\ submissions'[s].recipients = recipients
      /\ Actor(s)' = a
  BY <1>0 DEF SubmitKept
<1>2. a \in Agent /\ a \notin recipients /\ task[a] = "IN_PROGRESS"
  BY DEF SubmitsAs, Submits
<1>3. \A q \in Ids : Actor(q) \in Agent
  BY SubmissionType DEF Inv
<1>4. NotOwnReader'
  BY <1>1, <1>2 DEF Inv, NotOwnReader
\* The submissions that the author has made before were all sent back.
<1>5. \A q \in Ids : Actor(q) = a => Has(q, "REWORK_REQUIRED") /\ Decided(q)
                                     /\ ~Has(q, "ACCEPTED")
  BY <1>2 DEF Inv, Waiting, Decided, Verdict
<1>6. \A b \in Agent : b # a =>
        /\ task'[b] = "SUBMITTED" <=> task[b] = "SUBMITTED"
        /\ task'[b] = "ACCEPTED" <=> task[b] = "ACCEPTED"
  <2>1. CASE Waits(a)
    BY <2>1 DEF Waits, Inv, TypeOK
  <2>2. CASE \E v \in Verdict :
               Judged(a, s, v, AnalysisAfter(a, s, v)) /\ a \in Specialist
    <3>1. PICK v \in Verdict :
             Judged(a, s, v, AnalysisAfter(a, s, v)) /\ a \in Specialist
      BY <2>2
    <3>2. ~analysis.released => task[Coordinator] = "BLOCKED"
      BY DEF Inv, BarrierFollowsRoles
    <3> QED BY <3>1, <3>2 DEF Judged
  <2> QED BY <2>1, <2>2 DEF SubmitsAs, Submits
<1>7. \/ /\ task'[a] = "SUBMITTED"
         /\ \A v \in Verdict : ~Has(s, v)'
      \/ /\ task'[a] = "ACCEPTED"
         /\ \A v \in Verdict : Has(s, v)' <=> v = "ACCEPTED"
      \/ /\ task'[a] = "READY"
         /\ \A v \in Verdict : Has(s, v)' <=> v = "REWORK_REQUIRED"
  <2>1. CASE Waits(a)
    BY <1>1, <1>2, <2>1 DEF Waits, Inv, TypeOK, Has
  <2>2. CASE \E v \in Verdict : Judged(a, s, v, AnalysisAfter(a, s, v))
    <3>1. PICK v \in Verdict : Judged(a, s, v, AnalysisAfter(a, s, v))
      BY <2>2
    <3>2. \A w \in Verdict : Has(s, w)' <=> w = v
      BY <1>1, <3>1 DEF Judged, Has
    <3>3. task'[a] = IF v = "ACCEPTED" THEN "ACCEPTED" ELSE "READY"
      BY <1>2, <3>1 DEF Judged
    <3> QED BY <3>2, <3>3 DEF Verdict
  <2> QED BY <2>1, <2>2 DEF SubmitsAs, Submits
<1>8. Verdicts'
  <2>1. ASSUME NEW q \in Id, NEW v \in Verdict, Has(q, v)'
        PROVE  q \in Ids'
    <3>1. CASE q = s
      BY <1>1, <3>1
    <3>2. CASE q # s
      <4>1. Has(q, v)
        BY <2>1, <3>2 DEF SubmitsAs, Submits, Waits, Judged, Has
      <4> QED BY <1>1, <2>1, <4>1 DEF Inv, Verdicts
    <3> QED BY <3>1, <3>2
  <2>2. \A q \in Ids : ~(Has(q, "ACCEPTED")' /\ Has(q, "REWORK_REQUIRED")')
    BY <1>1 DEF Inv, Verdicts, Verdict
  <2>3. ~(Has(s, "ACCEPTED")' /\ Has(s, "REWORK_REQUIRED")')
    BY <1>7 DEF Verdict
  <2> QED BY <1>1, <2>1, <2>2, <2>3 DEF Verdicts
<1>9. Waiting'
  <2>1. \A q \in Ids' : ~Decided(q)' => task'[Actor(q)'] = "SUBMITTED"
    BY <1>1, <1>3, <1>5, <1>6, <1>7 DEF Inv, Waiting, Decided, Verdict
  <2>2. \A q \in Ids' : Has(q, "ACCEPTED")' => task'[Actor(q)'] = "ACCEPTED"
    BY <1>1, <1>3, <1>5, <1>6, <1>7 DEF Inv, Waiting, Verdict
  <2>3. \A p, q \in Ids' : p < q /\ Actor(p)' = Actor(q)'
                             => Has(p, "REWORK_REQUIRED")'
    <3> SUFFICES ASSUME NEW p \in Ids', NEW q \in Ids', p < q,
                        Actor(p)' = Actor(q)'
                 PROVE  Has(p, "REWORK_REQUIRED")'
      OBVIOUS
    <3>1. p \in Ids
      <4>1. p # s
        <5>1. q \in Nat /\ s \in Nat
          BY <1>1, SubmissionType, ExconAssumption DEF Inv, Id
        <5> QED BY <1>1, <5>1
      <4> QED BY <1>1, <4>1
    <3> QED BY <1>1, <1>5, <3>1 DEF Inv, Waiting, Verdict
  <2>4. ASSUME NEW b \in Agent, task'[b] = "SUBMITTED"
        PROVE  \E q \in Ids' : Actor(q)' = b /\ ~Decided(q)'
    BY <1>1, <1>6, <1>7, <2>4 DEF Inv, Waiting, Decided
  <2>5. ASSUME NEW b \in Agent, task'[b] = "ACCEPTED"
        PROVE  \E q \in Ids' : Actor(q)' = b /\ Has(q, "ACCEPTED")'
    BY <1>1, <1>6, <1>7, <2>5 DEF Inv, Waiting, Verdict
  <2> QED BY <2>1, <2>2, <2>3, <2>4, <2>5 DEF Waiting
<1> QED BY <1>4, <1>8, <1>9

\* The inputs of analysis-ready name submissions that exist.
LEMMA InputsExist ==
  ASSUME Inv, NEW i \in analysis.inputs
  PROVE  i.source \in Ids /\ i.role \in Specialist
<1>1. i \in [role : Specialist, source : Id]
  BY DEF Inv, TypeOK, Barrier
<1>2. Has(i.source, "ACCEPTED")
  BY DEF Inv, BarrierFollowsRoles
<1> QED BY <1>1, <1>2 DEF Inv, Verdicts, Verdict

LEMMA RolesAdd ==
  ASSUME NEW inputs, NEW a, NEW s
  PROVE  {i.role : i \in inputs \cup {[role |-> a, source |-> s]}}
           = {i.role : i \in inputs} \cup {a}
<1> DEFINE new == [role |-> a, source |-> s]
<1>1. new.role = a
  OBVIOUS
<1> HIDE DEF new
<1>2. {i.role : i \in inputs \cup {new}} = {i.role : i \in inputs} \cup {new.role}
  OBVIOUS
<1> QED BY <1>1, <1>2 DEF new

LEMMA SubmitBarriers ==
  ASSUME Inv, NEW a, NEW s, NEW team, NEW recipients, NEW revisionOf,
         SubmitsAs(a, s, team, recipients, revisionOf)
  PROVE  BarrierFollowsRoles'
<1>0. SubmitKept(a, s, team, recipients, revisionOf)
  BY SubmitKeeps
<1>1. /\ s \in Id
      /\ \A q \in Ids : submissions'[q] = submissions[q]
      /\ \A q \in Ids : Has(q, "ACCEPTED")' <=> Has(q, "ACCEPTED")
      /\ submissions'[s].actor = a
  BY <1>0 DEF SubmitKept, Verdict
<1>2. a \in Agent /\ task[a] = "IN_PROGRESS" /\ task \in [Agent -> TaskState]
  BY DEF SubmitsAs, Submits, Inv, TypeOK
<1>3. Specialist \subseteq Agent /\ Coordinator \in Agent
      /\ Coordinator \notin Specialist
  BY ExconAssumption DEF Agent
<1>4. /\ Observed(analysis) = {b \in Specialist : task[b] = "ACCEPTED"}
      /\ analysis.released <=> \A b \in Specialist : task[b] = "ACCEPTED"
      /\ analysis.released <=> task[Coordinator] # "BLOCKED"
  BY DEF Inv, BarrierFollowsRoles
<1>5. \A i \in analysis.inputs :
        submissions'[i.source].actor = i.role /\ Has(i.source, "ACCEPTED")'
  BY <1>1, InputsExist DEF Inv, BarrierFollowsRoles
<1>6. CASE /\ analysis' = analysis
           /\ \A b \in Agent, t \in {"ACCEPTED", "BLOCKED"} :
                task'[b] = t <=> task[b] = t
  BY <1>3, <1>4, <1>5, <1>6 DEF BarrierFollowsRoles, Observed, Has
<1>7. CASE Waits(a)
  <2>1. \A b \in Agent, t \in {"ACCEPTED", "BLOCKED"} :
          task'[b] = t <=> task[b] = t
    BY <1>2, <1>7 DEF Waits
  <2> QED BY <1>6, <1>7, <2>1 DEF Waits
<1>8. ASSUME a \in Specialist, NEW v \in Verdict,
             Judged(a, s, v, AnalysisAfter(a, s, v))
      PROVE  BarrierFollowsRoles'
  <2>1. CASE v = "REWORK_REQUIRED"
    <3>1. analysis' = analysis
      BY <1>8, <2>1 DEF Judged, AnalysisAfter
    <3>2. \A b \in Agent :
            task'[b] = IF b = a THEN "READY" ELSE task[b]
      BY <1>8, <2>1, <3>1 DEF Judged
    <3> QED BY <1>2, <1>6, <3>1, <3>2
  <2>2. CASE v = "ACCEPTED"
    <3> DEFINE inputs == analysis.inputs \cup {[role |-> a, source |-> s]}
    <3>1. analysis' = WithInput(analysis, a, s)
      BY <1>3, <1>8, <2>2 DEF Judged, AnalysisAfter
    <3>2. /\ analysis'.inputs = inputs
          /\ analysis'.released <=> Satisfied(inputs)
      <4>1. analysis \in Barrier
        BY DEF Inv, TypeOK
      <4> QED BY <1>1, <1>8, <3>1, <4>1, WithInputType
    <3>3. /\ task'[a] = "ACCEPTED"
          /\ \A b \in Specialist : b # a => task'[b] = task[b]
          /\ task'[Coordinator] = IF analysis'.released /\ ~analysis.released
                                  THEN "READY" ELSE task[Coordinator]
      BY <1>2, <1>3, <1>8, <2>2 DEF Judged
    <3>4. {i.role : i \in inputs} = {b \in Specialist : task'[b] = "ACCEPTED"}
      <4>1. {i.role : i \in inputs} = Observed(analysis) \cup {a}
        BY RolesAdd DEF Observed
      <4>2. Observed(analysis) \cup {a} = {b \in Specialist : task'[b] = "ACCEPTED"}
        <5> HIDE DEF inputs
        <5>1. \A b : b \in Observed(analysis)
                       <=> b \in Specialist /\ task[b] = "ACCEPTED"
          BY <1>4
        <5> QED BY <1>8, <3>3, <5>1
      <4> QED BY <4>1, <4>2
    <3>5. analysis'.released <=> \A b \in Specialist : task'[b] = "ACCEPTED"
      BY <3>2, <3>4 DEF Satisfied
    <3>6. ~analysis.released
      BY <1>2, <1>4, <1>8
    <3>7. analysis'.released <=> task'[Coordinator] # "BLOCKED"
      BY <1>4, <3>3, <3>6
    <3>8. \A i \in inputs :
            submissions'[i.source].actor = i.role /\ Has(i.source, "ACCEPTED")'
      <4>1. Has(s, "ACCEPTED")'
        BY <1>8, <2>2 DEF Judged, Has
      <4> QED BY <1>1, <1>5, <4>1
    <3> HIDE DEF inputs
    <3> QED BY <3>2, <3>4, <3>5, <3>7, <3>8 DEF BarrierFollowsRoles, Observed, Has
  <2> QED BY <1>8, <2>1, <2>2 DEF Verdict
<1> QED BY <1>7, <1>8 DEF SubmitsAs, Submits

LEMMA SubmitPlans ==
  ASSUME Inv, NEW a, NEW s, NEW team, NEW recipients, NEW revisionOf,
         SubmitsAs(a, s, team, recipients, revisionOf),
         UNCHANGED <<endorsements, endorsement>>
  PROVE  TeamDecidedByAll' /\ Plans'
<1>0. SubmitKept(a, s, team, recipients, revisionOf)
  BY SubmitKeeps
<1>1. /\ Ids' = Ids \cup {s}
      /\ \A q \in Ids : submissions'[q] = submissions[q]
      /\ \A q \in Ids : Decided(q)' <=> Decided(q)
      /\ \A v \in Verdict : ~Has(s, v)
      /\ submissions'[s].actor = a
  BY <1>0 DEF SubmitKept
<1>2. \A q : Endorsers(q)' = Endorsers(q)
  BY DEF Endorsers
<1>3. submissions'[s].actor = Coordinator => ~Decided(s)'
  BY <1>1, ExconAssumption DEF SubmitsAs, Submits, Waits, Decided, Has
<1>4. TeamDecidedByAll'
  <2> SUFFICES ASSUME NEW q \in Ids', submissions'[q].actor = Coordinator,
                      Decided(q)'
               PROVE  /\ submissions'[q].team
                      /\ Endorsers(q) = Specialist
                      /\ endorsement.released
                      /\ \A i \in endorsement.inputs : i.source = q
    BY <1>2 DEF TeamDecidedByAll
  <2>1. q \in Ids
    BY <1>1, <1>3
  <2> QED BY <1>1, <2>1 DEF Inv, TeamDecidedByAll
<1>5. Plans'
  BY <1>1, <1>2 DEF Inv, Plans, IsTeamPlan
<1> QED BY <1>4, <1>5

LEMMA SubmitEpochs ==
  ASSUME Inv, NEW a, NEW s, NEW team, NEW recipients, NEW revisionOf,
         SubmitsAs(a, s, team, recipients, revisionOf), claimEpoch' = claimEpoch
  PROVE  Epochs' /\ GenerationSubmitsOnce'
<1>0. SubmitKept(a, s, team, recipients, revisionOf)
  BY SubmitKeeps
<1>1. /\ Ids' = Ids \cup {s}
      /\ s \in Id
      /\ \A q \in Ids : q < s /\ submissions'[q] = submissions[q]
      /\ submissions'[s].actor = a
      /\ submissions'[s].epoch = claimEpoch[a]
  BY <1>0 DEF SubmitKept
<1>2. a \in Agent /\ task[a] = "IN_PROGRESS"
  BY DEF SubmitsAs, Submits
<1>3. \A q \in Ids : /\ q \in Id
                     /\ submissions[q].actor \in Agent
                     /\ submissions[q].epoch \in Nat
  BY SubmissionType DEF Inv, Actor
<1>4. \A b \in Agent : claimEpoch[b] \in Nat
  BY DEF Inv, TypeOK
<1>5. \A q \in Ids : submissions[q].actor = a => submissions[q].epoch < claimEpoch[a]
  BY <1>2 DEF Inv, Epochs, Actor
<1>6. \A b \in Agent : task'[b] \in Held => b # a /\ task[b] = task'[b]
  BY <1>2 DEF SubmitsAs, Submits, Waits, Judged, Held, Inv, TypeOK
<1>7. Epochs'
  <2>1. \A q \in Ids : /\ submissions[q].epoch <= claimEpoch[submissions[q].actor]
                       /\ task[submissions[q].actor] \in Held
                            => submissions[q].epoch
                                 < claimEpoch[submissions[q].actor]
    BY DEF Inv, Epochs, Actor, Held
  <2> QED BY <1>1, <1>2, <1>3, <1>4, <1>6, <2>1 DEF Epochs, Actor, Held
<1>8. GenerationSubmitsOnce'
  <2> SUFFICES ASSUME NEW p \in Ids', NEW q \in Ids', p < q,
                      submissions'[p].actor = submissions'[q].actor
               PROVE  submissions'[p].epoch < submissions'[q].epoch
    BY DEF GenerationSubmitsOnce
  <2>1. p \in Ids
    BY <1>1, <1>3, ExconAssumption DEF Id
  <2>2. CASE q = s
    BY <1>1, <1>5, <2>1, <2>2
  <2>3. CASE q \in Ids
    BY <1>1, <2>1, <2>3 DEF Inv, GenerationSubmitsOnce
  <2> QED BY <1>1, <2>2, <2>3
<1> QED BY <1>7, <1>8

LEMMA SubmitGrants ==
  ASSUME Inv, NEW a, NEW s, NEW team, NEW recipients,
         NEW revisionOf \in 0 .. Len(submissions),
         SubmitsAs(a, s, team, recipients, revisionOf),
         endorsements' = endorsements, issued' = issued,
         used' = IF revisionOf = 0 THEN used
                 ELSE used \cup {ResubmitGrant(a, revisionOf)},
         revisionOf # 0 => submissions[revisionOf].actor = a
                           /\ MayResubmit(a, revisionOf)
  PROVE  GrantsBackActions'
<1>0. SubmitKept(a, s, team, recipients, revisionOf)
  BY SubmitKeeps
<1>1. /\ Ids' = Ids \cup {s}
      /\ s \in Id
      /\ s \notin Ids
      /\ \A q \in Ids : q < s /\ submissions'[q] = submissions[q]
      /\ \A q \in Ids : Has(q, "REWORK_REQUIRED")' <=> Has(q, "REWORK_REQUIRED")
      /\ submissions'[s].actor = a
      /\ submissions'[s].revisionOf = revisionOf
  BY <1>0 DEF SubmitKept, Verdict
<1>2. a \in Agent
  BY DEF SubmitsAs, Submits
\* The submission that is revised was sent back, and its grant is new.
<1>3. revisionOf # 0 =>
        /\ revisionOf \in Ids
        /\ submissions[revisionOf].actor = a
        /\ Has(revisionOf, "REWORK_REQUIRED")
        /\ ResubmitGrant(a, revisionOf) \notin used
  <2> SUFFICES ASSUME revisionOf # 0
               PROVE  /\ revisionOf \in Ids
                      /\ Has(revisionOf, "REWORK_REQUIRED")
    BY DEF MayResubmit
  <2>1. Told(a, About("resubmit", revisionOf))
    BY <1>2, IssuedIsTold DEF MayResubmit
  <2> QED BY <2>1 DEF Told, About
<1>4. used \subseteq used'
  OBVIOUS
<1>5. ASSUME NEW q \in Ids', NEW p, p = submissions'[q].revisionOf, p # 0
      PROVE  /\ p < q
             /\ p \in Ids
             /\ Has(p, "REWORK_REQUIRED")
             /\ submissions[p].actor = submissions'[q].actor
             /\ ResubmitGrant(submissions'[q].actor, p) \in used'
  <2>1. CASE q = s
    BY <1>1, <1>3, <1>5, <2>1
  <2>2. CASE q \in Ids
    <3>1. /\ submissions[q].revisionOf # 0
          /\ submissions[q].revisionOf < q
          /\ Has(submissions[q].revisionOf, "REWORK_REQUIRED")
          /\ submissions[submissions[q].revisionOf].actor = submissions[q].actor
          /\ ResubmitGrant(submissions[q].actor, submissions[q].revisionOf) \in used
      BY <1>1, <1>5, <2>2 DEF Inv, GrantsBackActions
    <3>2. submissions[q].revisionOf \in Id
      BY <2>2, <3>1, SubmissionType, ExconAssumption DEF Inv, Id
    <3>3. submissions[q].revisionOf \in Ids
      BY <3>1, <3>2 DEF Inv, Verdicts, Verdict
    <3>4. p = submissions[q].revisionOf /\ submissions'[q] = submissions[q]
      BY <1>1, <1>5, <2>2
    <3> QED BY <1>4, <3>1, <3>3, <3>4
  <2> QED BY <1>1, <2>1, <2>2
<1>6. ASSUME NEW q \in Ids', NEW p \in Ids', submissions'[q].revisionOf # 0,
             submissions'[q].revisionOf = submissions'[p].revisionOf
      PROVE  p = q
  <2>1. ASSUME NEW x \in Ids, submissions[x].revisionOf = revisionOf,
               revisionOf # 0
        PROVE  FALSE
    <3>1. /\ ResubmitGrant(submissions[x].actor, revisionOf) \in used
          /\ submissions[revisionOf].actor = submissions[x].actor
      BY <2>1 DEF Inv, GrantsBackActions
    <3> QED BY <1>3, <2>1, <3>1
  <2>2. CASE p \in Ids /\ q \in Ids
    BY <1>1, <1>6, <2>2 DEF Inv, GrantsBackActions
  <2>3. CASE p = s \/ q = s
    BY <1>1, <1>6, <2>1, <2>3
  <2> QED BY <1>1, <2>2, <2>3
<1>7. ASSUME NEW q \in Ids', NEW b \in Agent, b \in Endorsers(q)
      PROVE  /\ b \in submissions'[q].recipients
             /\ HasIssued(b, About("submission", q))'
             /\ EndorseGrant(b, q) \in used'
  <2>1. q \in Ids
    BY <1>1, <1>7 DEF Inv, Plans, Endorsers
  <2>2. /\ b \in submissions[q].recipients
        /\ HasIssued(b, About("submission", q))
        /\ EndorseGrant(b, q) \in used
    BY <1>7, <2>1 DEF Inv, GrantsBackActions
  <2>3. HasIssued(b, About("submission", q))'
    <3>1. PICK i \in 1 .. issued[b] : eligible[b][i] = About("submission", q)
      BY <2>2 DEF HasIssued
    <3>2. i \in 1 .. Len(eligible[b])
      BY DEF Inv, TypeOK, Views
    <3>3. eligible'[b][i] = About("submission", q)
      BY <3>1, <3>2 DEF SubmitsAs, Submits, Grown
    <3> QED BY <3>3 DEF HasIssued, About
  <2> QED BY <1>1, <1>4, <2>1, <2>2, <2>3
<1>8. \A q : Endorsers(q)' = Endorsers(q)
  BY DEF Endorsers
<1>9. \A q \in Ids : Has(q, "REWORK_REQUIRED")' <=> Has(q, "REWORK_REQUIRED")
  BY <1>1
<1>10. \A q \in Ids' : \A p : p = submissions'[q].revisionOf /\ p # 0 =>
         /\ p < q
         /\ Has(p, "REWORK_REQUIRED")'
         /\ submissions'[p].actor = submissions'[q].actor
         /\ ResubmitGrant(submissions'[q].actor, p) \in used'
  BY <1>1, <1>5, <1>9
<1>11. \A q \in Ids', p \in Ids' : submissions'[q].revisionOf # 0
         /\ submissions'[p].revisionOf = submissions'[q].revisionOf => p = q
  BY <1>6
<1>12. \A q \in Ids', b \in Agent : b \in Endorsers(q) =>
         /\ b \in submissions'[q].recipients
         /\ HasIssued(b, About("submission", q))'
         /\ EndorseGrant(b, q) \in used'
  BY <1>7
<1> QED BY <1>8, <1>10, <1>11, <1>12 DEF GrantsBackActions, Has, HasIssued,
                                         ResubmitGrant, EndorseGrant, About

LEMMA SubmitInv ==
  ASSUME Inv, NEW a \in Agent, NEW e \in 1 .. claimEpoch[a],
         NEW team \in BOOLEAN, NEW recipients \in SUBSET Agent,
         NEW revisionOf \in 0 .. Len(submissions),
         Submit(a, e, team, recipients, revisionOf)
  PROVE  Inv'
<1>1. Submits(a, team, recipients, revisionOf) /\ TypeOK'
  BY SubmitFacts
<1>2. PICK s : s = NewId
  OBVIOUS
<1>3. SubmitsAs(a, s, team, recipients, revisionOf)
  BY <1>1, <1>2 DEF SubmitsAs
<1>4. /\ state' = state
      /\ claimEpoch' = claimEpoch
      /\ endorsements' = endorsements
      /\ endorsement' = endorsement
      /\ issued' = issued
      /\ used' = IF revisionOf = 0 THEN used
                 ELSE used \cup {ResubmitGrant(a, revisionOf)}
      /\ revisionOf # 0 => submissions[revisionOf].actor = a
                           /\ MayResubmit(a, revisionOf)
      /\ state = "RUNNING"
  BY DEF Submit, HoldsLease, MayWork, runVars
<1>5. Forming'
  BY <1>4 DEF Forming
<1>6. Views'
  BY <1>1, <1>3, <1>4, SubmitViews
<1>7. NotOwnReader' /\ Verdicts' /\ Waiting'
  BY <1>3, SubmitWaiting
<1>8. BarrierFollowsRoles'
  BY <1>3, SubmitBarriers
<1>9. TeamDecidedByAll' /\ Plans'
  BY <1>3, <1>4, SubmitPlans
<1>10. Epochs' /\ GenerationSubmitsOnce'
  BY <1>3, <1>4, SubmitEpochs
<1>11. GrantsBackActions'
  BY <1>3, <1>4, SubmitGrants
<1> QED BY <1>1, <1>5, <1>6, <1>7, <1>8, <1>9, <1>10, <1>11 DEF Inv
-----------------------------------------------------------------------------
(* Endorsing, as the parts of the invariant see it.                        *)

EndorseShows(s) ==
  \A b \in Agent : \A i \in Len(eligible[b]) + 1 .. Len(eligible'[b]) :
    /\ b = Coordinator
    /\ IsTeamPlan(s)
    /\ eligible'[b][i] = About("resubmit", s)
    /\ SentBack(s)

\* The endorsement reaches no barrier, it is an input of one that stays
\* closed, or it opens the barrier and the plan is judged.
NotRecorded == UNCHANGED <<endorsement, evaluations, task>>

Records(a, s) ==
  /\ IsTeamPlan(s)
  /\ ~endorsement.released
  /\ endorsement' = WithInput(endorsement, a, s)

Recorded(a, s) ==
  /\ Records(a, s)
  /\ ~endorsement'.released
  /\ UNCHANGED <<evaluations, task>>

Opens(a, s, v) ==
  /\ Records(a, s)
  /\ endorsement'.released
  /\ Judged(Coordinator, s, v, analysis)

Endorses(a, s) ==
  /\ a \in submissions[s].recipients
  /\ HasIssued(a, About("submission", s))
  /\ submissions' = submissions
  /\ issued' = issued
  /\ claimEpoch' = claimEpoch
  /\ analysis' = analysis
  /\ used' = used \cup {EndorseGrant(a, s)}
  /\ endorsements' = endorsements \cup {[submission |-> s, agent |-> a]}
  /\ Grown
  /\ EndorseShows(s)
  /\ NotRecorded \/ Recorded(a, s) \/ \E v \in Verdict : Opens(a, s, v)

LEMMA PlanEndorser ==
  ASSUME Inv, NEW s \in Ids, NEW a \in Agent, a \in submissions[s].recipients,
         IsTeamPlan(s)
  PROVE  a \in Specialist
BY DEF Inv, NotOwnReader, IsTeamPlan, Actor, Agent

LEMMA EndorseGrows ==
  ASSUME Inv, NEW s \in Ids, IsTeamPlan(s),
         \/ eligible' = eligible
         \/ /\ eligible' = [eligible EXCEPT
                              ![Coordinator] = Append(@, About("resubmit", s))]
            /\ SentBack(s)
  PROVE  eligible' \in [Agent -> Seq(Item)] /\ Grown /\ EndorseShows(s)
<1>1. /\ eligible \in [Agent -> Seq(Item)]
      /\ Coordinator \in Agent
      /\ \A b \in Agent : eligible[b] \in Seq(Item) /\ Len(eligible[b]) \in Nat
  BY DEF Inv, TypeOK, Agent
<1>2. CASE eligible' = eligible
  BY <1>1, <1>2 DEF Grown, EndorseShows
<1>3. CASE /\ eligible' = [eligible EXCEPT
                             ![Coordinator] = Append(@, About("resubmit", s))]
           /\ SentBack(s)
  <2> DEFINE item == About("resubmit", s)
             c == Coordinator
  <2>1. item \in Item
    BY ItemType, SubmissionType DEF Inv
  <2>2. /\ eligible' = [eligible EXCEPT ![c] = Append(@, item)]
        /\ eligible'[c] = Append(eligible[c], item)
        /\ \A b \in Agent : b # c => eligible'[b] = eligible[b]
    BY <1>1, <1>3
  <2> HIDE DEF item
  <2>3. /\ eligible'[c] \in Seq(Item)
        /\ Len(eligible'[c]) = Len(eligible[c]) + 1
        /\ \A i \in 1 .. Len(eligible[c]) : eligible'[c][i] = eligible[c][i]
        /\ eligible'[c][Len(eligible[c]) + 1] = item
    BY <1>1, <2>1, <2>2, AppendOne
  <2> HIDE DEF c
  <2>4. eligible' \in [Agent -> Seq(Item)]
    BY <1>1, <2>2, <2>3
  <2>5. Grown
    <3> SUFFICES ASSUME NEW b \in Agent
                 PROVE  /\ Len(eligible[b]) <= Len(eligible'[b])
                        /\ \A i \in 1 .. Len(eligible[b]) :
                             eligible'[b][i] = eligible[b][i]
      BY DEF Grown
    <3>1. CASE b = c
      BY <1>1, <2>3, <3>1
    <3>2. CASE b # c
      BY <1>1, <2>2, <3>2
    <3> QED BY <3>1, <3>2
  <2>6. ASSUME NEW b \in Agent,
               NEW i \in Len(eligible[b]) + 1 .. Len(eligible'[b])
        PROVE  b = c /\ eligible'[b][i] = item
    <3>1. b = c
      BY <1>1, <2>2, <2>6
    <3>2. i = Len(eligible[c]) + 1
      BY <1>1, <2>3, <2>6, <3>1
    <3> QED BY <2>3, <3>1, <3>2
  <2>7. EndorseShows(s)
    BY <1>3, <2>6 DEF EndorseShows, item, c
  <2> QED BY <2>4, <2>5, <2>7
<1> QED BY <1>2, <1>3

LEMMA EndorseFacts ==
  ASSUME Inv, NEW a \in Agent, NEW s \in Ids, Endorse(a, s)
  PROVE  Endorses(a, s) /\ TypeOK'
<1> DEFINE next == WithInput(endorsement, a, s)
<1>1. HasIssued(a, About("submission", s)) /\ a \in submissions[s].recipients
  <2>1. HasIssued(a, About("submission", s))
    BY DEF Endorse, MayEndorse
  <2>2. Told(a, About("submission", s))
    BY <2>1, IssuedIsTold
  <2> QED BY <2>1, <2>2 DEF Told, About
<1>2. /\ submissions' = submissions /\ issued' = issued
      /\ claimEpoch' = claimEpoch /\ lease' = lease
      /\ state' = state /\ joined' = joined
      /\ used' = used \cup {EndorseGrant(a, s)}
      /\ endorsements' = endorsements \cup {[submission |-> s, agent |-> a]}
  BY DEF Endorse, runVars
<1>3. s \in Id
  BY SubmissionType DEF Inv
<1>4. used' \subseteq Grant /\ endorsements' \subseteq [submission : Id, agent : Agent]
  BY <1>2, <1>3 DEF Inv, TypeOK, EndorseGrant, Grant
\* What the command does to everything else, in three cases.
<1>5. /\ analysis' = analysis
      /\ NotRecorded \/ Recorded(a, s) \/ \E v \in Verdict : Opens(a, s, v)
      /\ \/ eligible' = eligible
         \/ /\ IsTeamPlan(s)
            /\ eligible' = [eligible EXCEPT
                              ![Coordinator] = Append(@, About("resubmit", s))]
            /\ SentBack(s)
  <2>1. CASE ~(IsTeamPlan(s) /\ ~endorsement.released)
    BY <2>1 DEF Endorse, NotRecorded
  <2>2. CASE IsTeamPlan(s) /\ ~endorsement.released /\ ~next.released
    <3>1. /\ endorsement' = next
          /\ UNCHANGED <<evaluations, analysis, task, eligible>>
      BY <2>2 DEF Endorse
    <3> QED BY <2>2, <3>1 DEF Recorded, Records
  <2>3. CASE IsTeamPlan(s) /\ ~endorsement.released /\ next.released
    <3>1. endorsement' = next /\ \E v \in Verdict :
            Evaluate(Coordinator, s, v, analysis, eligible)
      BY <2>3 DEF Endorse
    <3>2. PICK v \in Verdict : Evaluate(Coordinator, s, v, analysis, eligible)
      BY <3>1
    <3>3. Judged(Coordinator, s, v, analysis) /\ analysis' = analysis
      BY <3>2 DEF Evaluate, Judged
    <3>4. Opens(a, s, v)
      BY <2>3, <3>1, <3>3 DEF Opens, Records
    <3>5. CASE v = "ACCEPTED"
      <4>1. eligible' = eligible
        BY <3>2, <3>5 DEF Evaluate
      <4> QED BY <3>3, <3>4, <4>1
    <3>6. CASE v = "REWORK_REQUIRED"
      <4>1. eligible' = [eligible EXCEPT
                           ![Coordinator] = Append(@, About("resubmit", s))]
        BY <3>2, <3>6 DEF Evaluate
      <4>2. SentBack(s)
        BY <3>3, <3>6 DEF Judged, SentBack
      <4> QED BY <2>3, <3>3, <3>4, <4>1, <4>2
    <3> QED BY <3>5, <3>6 DEF Verdict
  <2> QED BY <2>1, <2>2, <2>3
<1>6. eligible' \in [Agent -> Seq(Item)] /\ Grown /\ EndorseShows(s)
  <2>1. CASE eligible' = eligible
    BY <2>1 DEF Inv, TypeOK, Grown, EndorseShows
  <2>2. CASE eligible' # eligible
    BY <1>5, <2>2, EndorseGrows
  <2> QED BY <2>1, <2>2
<1>7. Endorses(a, s)
  BY <1>1, <1>2, <1>5, <1>6 DEF Endorses
<1>8. /\ evaluations' \subseteq [submission : Id, verdict : Verdict]
      /\ endorsement' \in Barrier
      /\ task' \in [Agent -> TaskState]
  <2>1. CASE NotRecorded
    BY <2>1 DEF NotRecorded, Inv, TypeOK
  <2>2. ASSUME Records(a, s)
        PROVE  endorsement' \in Barrier
    BY <1>1, <1>3, <2>2, PlanEndorser, WithInputType DEF Records, Inv, TypeOK
  <2>3. CASE Recorded(a, s)
    BY <2>2, <2>3 DEF Recorded, Inv, TypeOK
  <2>4. CASE \E v \in Verdict : Opens(a, s, v)
    <3>1. PICK v \in Verdict : Opens(a, s, v)
      BY <2>4
    <3>2. endorsement' \in Barrier
      BY <2>2, <3>1 DEF Opens
    <3>3. evaluations' \subseteq [submission : Id, verdict : Verdict]
      BY <1>3, <3>1 DEF Opens, Judged, Inv, TypeOK
    <3>4. \A b \in Agent : task[b] \in TaskState
      BY DEF Inv, TypeOK
    <3>5. task' \in [Agent -> TaskState]
      BY <3>1, <3>4 DEF Opens, Judged, TaskState
    <3> QED BY <3>2, <3>3, <3>5
  <2> QED BY <1>5, <2>1, <2>3, <2>4
<1>9. TypeOK'
  BY <1>2, <1>4, <1>5, <1>6, <1>8 DEF Inv, TypeOK
<1> QED BY <1>7, <1>9

\* A plan that opens the barrier waits for it, and is the only one that does.
LEMMA OpensWaiting ==
  ASSUME Inv, NEW a \in Agent, NEW s \in Ids, NEW v \in Verdict,
         Endorses(a, s), Opens(a, s, v)
  PROVE  /\ ~Decided(s)
         /\ task[Coordinator] = "SUBMITTED"
         /\ \A q \in Ids : Actor(q) = Coordinator /\ ~Decided(q) => q = s
<1>1. Actor(s) = Coordinator /\ ~endorsement.released
  BY DEF Opens, Records, IsTeamPlan, Actor
<1>2. \A q \in Ids : Actor(q) = Coordinator => ~Decided(q)
  BY <1>1 DEF Inv, TeamDecidedByAll, Actor
<1>3. \A q \in Ids : q \in Nat
  BY SubmissionType DEF Inv, Id
<1>4. \A p, q \in Ids : Actor(p) = Coordinator /\ Actor(q) = Coordinator
                          => ~(p < q)
  BY <1>1, <1>2 DEF Inv, Waiting, Decided, Verdict
<1>5. \A q \in Ids : Actor(q) = Coordinator => q = s
  BY <1>1, <1>3, <1>4
<1>6. task[Coordinator] = "SUBMITTED"
  BY <1>1, <1>2 DEF Inv, Waiting
<1> QED BY <1>1, <1>2, <1>5, <1>6

EndorseKept(s) ==
  /\ Ids' = Ids
  /\ \A q \in Ids, v \in Verdict : Has(q, v) => Has(q, v)'
  /\ \A q \in Ids : q # s =>
       /\ \A v \in Verdict : Has(q, v)' => Has(q, v)
       /\ Decided(q)' <=> Decided(q)
  /\ \A q \in Ids : Actor(q)' = Actor(q)

LEMMA EndorseKeeps ==
  ASSUME Inv, NEW a \in Agent, NEW s \in Ids, Endorses(a, s)
  PROVE  EndorseKept(s)
<1>1. submissions' = submissions
  BY DEF Endorses
<1>2. evaluations' = evaluations
      \/ \E v \in Verdict :
           evaluations' = evaluations \cup {[submission |-> s, verdict |-> v]}
  BY DEF Endorses, NotRecorded, Recorded, Opens, Judged
<1>3. \A q \in Ids, v \in Verdict : Has(q, v) => Has(q, v)'
  BY <1>2 DEF Has
<1>4. \A q \in Ids, v \in Verdict : q # s /\ Has(q, v)' => Has(q, v)
  BY <1>2 DEF Has
<1> QED BY <1>1, <1>3, <1>4 DEF EndorseKept, Ids, Actor, Decided

LEMMA EndorseViews ==
  ASSUME Inv, TypeOK', NEW a \in Agent, NEW s \in Ids, Endorses(a, s)
  PROVE  Views'
<1>1. \A b \in Agent :
        /\ Len(eligible[b]) \in Nat
        /\ Len(eligible'[b]) \in Nat
        /\ issued[b] \in Nat
        /\ issued[b] <= Len(eligible[b])
  BY DEF Inv, TypeOK, Views
<1>2. \A b \in Agent :
        /\ Len(eligible[b]) <= Len(eligible'[b])
        /\ \A i \in 1 .. Len(eligible[b]) : eligible'[b][i] = eligible[b][i]
  BY DEF Endorses, Grown
<1>3. /\ Ids' = Ids
      /\ submissions' = submissions
      /\ issued' = issued
      /\ \A q \in Ids : Has(q, "REWORK_REQUIRED") => Has(q, "REWORK_REQUIRED")'
  BY EndorseKeeps DEF EndorseKept, Endorses, Verdict
<1>4. ASSUME NEW b \in Agent, NEW i \in 1 .. Len(eligible'[b]), NEW x,
             x = eligible'[b][i]
      PROVE  Told(b, x)'
  <2>1. CASE i <= Len(eligible[b])
    <3>1. x = eligible[b][i] /\ i \in 1 .. Len(eligible[b])
      BY <1>1, <1>2, <1>4, <2>1
    <3>2. Told(b, x)
      BY <3>1 DEF Inv, Views
    <3> QED BY <1>3, <3>2 DEF Told, Actor
  <2>2. CASE i > Len(eligible[b])
    <3>1. i \in Len(eligible[b]) + 1 .. Len(eligible'[b])
      BY <1>1, <1>4, <2>2
    <3>2. b = Coordinator /\ IsTeamPlan(s) /\ x = About("resubmit", s)
          /\ SentBack(s)
      BY <1>4, <3>1 DEF Endorses, EndorseShows
    <3> QED BY <1>3, <3>2 DEF Told, Actor, IsTeamPlan, About, SentBack, Has
  <2> QED BY <1>1, <1>4, <2>1, <2>2
<1>5. \A b \in Agent : issued'[b] <= Len(eligible'[b])
  BY <1>1, <1>2, <1>3
<1>6. \A b \in Agent : \A i \in 1 .. Len(eligible'[b]) : \A x :
        x = eligible'[b][i] => Told(b, x)'
  BY <1>4
<1> QED BY <1>5, <1>6 DEF Views, Told, Ids, Actor, Has

LEMMA EndorseWaiting ==
  ASSUME Inv, NEW a \in Agent, NEW s \in Ids, Endorses(a, s)
  PROVE  NotOwnReader' /\ Verdicts' /\ Waiting'
<1>1. submissions' = submissions /\ Ids' = Ids
  BY DEF Endorses, Ids
<1>2. NotOwnReader'
  BY <1>1 DEF Inv, NotOwnReader, Actor
<1>3. CASE evaluations' = evaluations /\ task' = task
  BY <1>1, <1>2, <1>3 DEF Inv, Verdicts, Waiting, Has, Decided, Actor
<1>4. ASSUME NEW v \in Verdict, Opens(a, s, v)
      PROVE  Verdicts' /\ Waiting'
  <2>0. EndorseKept(s)
    BY EndorseKeeps
  <2>1. /\ ~Decided(s)
        /\ task[Coordinator] = "SUBMITTED"
        /\ \A q \in Ids : Actor(q) = Coordinator /\ ~Decided(q) => q = s
    BY <1>4, OpensWaiting
  <2>2. Actor(s) = Coordinator /\ Coordinator \in Agent
    BY <1>4 DEF Opens, Records, IsTeamPlan, Actor, Agent
  <2>3. evaluations' = evaluations \cup {[submission |-> s, verdict |-> v]}
    BY <1>4 DEF Opens, Judged
  <2>4. /\ \A w \in Verdict : Has(s, w)' <=> w = v
        /\ \A q \in Ids, w \in Verdict : q # s => (Has(q, w)' <=> Has(q, w))
    BY <2>1, <2>3 DEF Has, Decided
  <2>5. /\ task'[Coordinator] = IF v = "ACCEPTED" THEN "ACCEPTED" ELSE "READY"
        /\ \A b \in Agent : b # Coordinator => task'[b] = task[b]
    BY <1>4, <2>2 DEF Opens, Judged
  <2>6. \A q \in Ids : Actor(q) \in Agent /\ Actor(q)' = Actor(q) /\ q \in Nat
    BY <1>1, SubmissionType DEF Inv, Actor, Id
  <2>7. \A q \in Ids : q # s => (Decided(q)' <=> Decided(q))
    BY <2>4 DEF Decided
  <2>8. Decided(s)'
    BY <2>4 DEF Decided
  <2>9. Verdicts'
    <3>1. \A q \in Id, w \in Verdict : Has(q, w)' => q \in Ids
      BY <2>3 DEF Has, Inv, Verdicts
    <3>2. \A q \in Ids : ~(Has(q, "ACCEPTED")' /\ Has(q, "REWORK_REQUIRED")')
      BY <2>4 DEF Inv, Verdicts, Verdict
    <3> QED BY <1>1, <3>1, <3>2 DEF Verdicts
  \* No other submission of the coordinator waits or was accepted.
  <2>10. \A q \in Ids : q # s /\ Actor(q) = Coordinator => ~Has(q, "ACCEPTED")
    BY <2>1, <2>2 DEF Inv, Waiting
  <2>11. \A q \in Ids : ~Decided(q)' => task'[Actor(q)] = "SUBMITTED"
    BY <2>1, <2>5, <2>6, <2>7, <2>8 DEF Inv, Waiting
  <2>12. \A q \in Ids : Has(q, "ACCEPTED")' => task'[Actor(q)] = "ACCEPTED"
    BY <2>2, <2>4, <2>5, <2>6, <2>10 DEF Inv, Waiting, Verdict
  <2>13. \A p, q \in Ids : p < q /\ Actor(p) = Actor(q)
                             => Has(p, "REWORK_REQUIRED")'
    <3>1. \A p, q \in Ids : p < q /\ Actor(p) = Actor(q)
                             => Has(p, "REWORK_REQUIRED")
      BY DEF Inv, Waiting
    <3> QED BY <2>0, <3>1 DEF EndorseKept, Verdict
  <2>14. \A b \in Agent : task'[b] = "SUBMITTED"
           => \E q \in Ids : Actor(q) = b /\ ~Decided(q)'
    BY <2>2, <2>5, <2>7 DEF Inv, Waiting
  <2>15. \A b \in Agent : task'[b] = "ACCEPTED"
           => \E q \in Ids : Actor(q) = b /\ Has(q, "ACCEPTED")'
    BY <2>0, <2>2, <2>4, <2>5 DEF Inv, Waiting, Verdict, EndorseKept
  <2>16. Waiting'
    BY <1>1, <2>6, <2>11, <2>12, <2>13, <2>14, <2>15 DEF Waiting
  <2> QED BY <2>9, <2>16
<1> QED BY <1>2, <1>3, <1>4 DEF Endorses, NotRecorded, Recorded

LEMMA EndorseBarriers ==
  ASSUME Inv, NEW a \in Agent, NEW s \in Ids, Endorses(a, s)
  PROVE  BarrierFollowsRoles'
<1>1. /\ submissions' = submissions
      /\ analysis' = analysis
      /\ \A q \in Ids : Has(q, "ACCEPTED") => Has(q, "ACCEPTED")'
  BY EndorseKeeps DEF EndorseKept, Endorses, Verdict
<1>2. \A i \in analysis.inputs :
        submissions'[i.source].actor = i.role /\ Has(i.source, "ACCEPTED")'
  BY <1>1, InputsExist DEF Inv, BarrierFollowsRoles
<1>3. \A b \in Specialist : task'[b] = task[b]
  BY ExconAssumption DEF Endorses, NotRecorded, Recorded, Opens, Judged, Agent
<1>4. task'[Coordinator] # "BLOCKED" <=> task[Coordinator] # "BLOCKED"
  <2>1. CASE task' = task
    BY <2>1
  <2>2. ASSUME NEW v \in Verdict, Opens(a, s, v)
        PROVE  task'[Coordinator] # "BLOCKED" /\ task[Coordinator] # "BLOCKED"
    <3>1. task[Coordinator] = "SUBMITTED"
      BY <2>2, OpensWaiting
    <3> QED BY <2>2, <3>1 DEF Opens, Judged, Agent
  <2> QED BY <2>1, <2>2 DEF Endorses, NotRecorded, Recorded
<1> QED BY <1>1, <1>2, <1>3, <1>4 DEF Inv, BarrierFollowsRoles, Observed, Has

LEMMA EndorsersAfter ==
  ASSUME Inv, NEW a \in Agent, NEW s \in Ids, Endorses(a, s)
  PROVE  /\ \A q : q # s => Endorsers(q)' = Endorsers(q)
         /\ Endorsers(s)' = Endorsers(s) \cup {a}
         /\ \A b \in Endorsers(s)' : b \in Agent /\ b \in submissions[s].recipients
<1>1. endorsements' = endorsements \cup {[submission |-> s, agent |-> a]}
  BY DEF Endorses
<1>2. \A q : q # s => Endorsers(q)' = Endorsers(q)
  BY <1>1 DEF Endorsers
<1>3. Endorsers(s)' = Endorsers(s) \cup {a}
  BY <1>1 DEF Endorsers
<1>4. \A b \in Endorsers(s) : b \in Agent /\ b \in submissions[s].recipients
  BY DEF Inv, GrantsBackActions, Endorsers
<1> QED BY <1>2, <1>3, <1>4 DEF Endorses

LEMMA EndorsePlans ==
  ASSUME Inv, NEW a \in Agent, NEW s \in Ids, Endorses(a, s)
  PROVE  TeamDecidedByAll' /\ Plans'
<1>1. submissions' = submissions /\ Ids' = Ids
  BY DEF Endorses, Ids
<1>2. /\ \A q : q # s => Endorsers(q)' = Endorsers(q)
      /\ Endorsers(s)' = Endorsers(s) \cup {a}
      /\ \A b \in Endorsers(s)' : b \in Agent /\ b \in submissions[s].recipients
  BY EndorsersAfter
<1>3. ASSUME Records(a, s)
      PROVE  /\ endorsement'.inputs
                  = endorsement.inputs \cup {[role |-> a, source |-> s]}
             /\ endorsement'.released <=> Satisfied(endorsement'.inputs)
             /\ ~endorsement.released
             /\ IsTeamPlan(s)
             /\ a \in Specialist
  <2>1. a \in Specialist
    BY <1>3, PlanEndorser DEF Records, Endorses
  <2>2. s \in Id /\ endorsement \in Barrier
    BY SubmissionType DEF Inv, TypeOK
  <2> QED BY <1>3, <2>1, <2>2, WithInputType DEF Records
<1>4. endorsement' = endorsement \/ Records(a, s)
  BY DEF Endorses, NotRecorded, Recorded, Opens
<1>5. Plans'
  <2>1. \A x \in endorsements' : x.submission \in Ids
    BY DEF Endorses, Inv, Plans
  <2>2. \A i \in endorsement.inputs :
          i.source \in Ids /\ IsTeamPlan(i.source) /\ i.role \in Endorsers(i.source)'
    BY <1>2 DEF Inv, Plans
  <2>3. \A i \in endorsement'.inputs :
          i.source \in Ids /\ IsTeamPlan(i.source) /\ i.role \in Endorsers(i.source)'
    <3>1. CASE endorsement' = endorsement
      BY <2>2, <3>1
    <3>2. CASE Records(a, s)
      BY <1>2, <1>3, <2>2, <3>2
    <3> QED BY <1>4, <3>1, <3>2
  <2> QED BY <1>1, <2>1, <2>3 DEF Plans, IsTeamPlan, Endorsers
<1>6. ASSUME NEW q \in Ids, submissions[q].actor = Coordinator, Decided(q)'
      PROVE  /\ submissions[q].team
             /\ Endorsers(q)' = Specialist
             /\ endorsement'.released
             /\ \A i \in endorsement'.inputs : i.source = q
  <2>1. CASE Decided(q)
    <3>1. /\ submissions[q].team
          /\ Endorsers(q) = Specialist
          /\ endorsement.released
          /\ \A i \in endorsement.inputs : i.source = q
      BY <1>6, <2>1 DEF Inv, TeamDecidedByAll
    <3>2. endorsement' = endorsement
      BY <1>4, <3>1 DEF Records
    <3>3. q = s => a \in Specialist
      BY <1>6, <3>1, PlanEndorser DEF Endorses, IsTeamPlan
    <3> QED BY <1>2, <3>1, <3>2, <3>3
  <2>2. CASE ~Decided(q)
    <3>1. q = s /\ \E v \in Verdict : Opens(a, s, v)
      BY <1>1, <1>6, <2>2, EndorseKeeps DEF EndorseKept, Endorses, NotRecorded,
                                            Recorded, Decided, Has
    <3>2. PICK v \in Verdict : Opens(a, s, v)
      BY <3>1
    <3>3. /\ endorsement'.released
          /\ Records(a, s)
      BY <3>2 DEF Opens
    <3>4. \A p \in Ids : Actor(p) = Coordinator => p = s
      <4>1. \A p \in Ids : Actor(p) = Coordinator /\ ~Decided(p) => p = s
        BY <3>2, OpensWaiting
      <4> QED BY <1>3, <3>3, <4>1 DEF Inv, TeamDecidedByAll, Actor
    <3>5. \A i \in endorsement.inputs : i.source = s /\ i.role \in Endorsers(s)
      BY <3>4 DEF Inv, Plans, IsTeamPlan, Actor
    <3>6. \A i \in endorsement'.inputs : i.source = s /\ i.role \in Endorsers(s)'
      BY <1>2, <1>3, <3>3, <3>5
    <3>7. Specialist \subseteq Endorsers(s)'
      BY <1>3, <3>3, <3>6 DEF Satisfied
    <3>8. Endorsers(s)' \subseteq Specialist
      BY <1>2, <1>3, <3>3, PlanEndorser
    <3>9. submissions[q].team
      BY <1>3, <3>1, <3>3 DEF IsTeamPlan
    <3> QED BY <3>1, <3>3, <3>6, <3>7, <3>8, <3>9
  <2> QED BY <2>1, <2>2
<1>7. TeamDecidedByAll'
  BY <1>1, <1>6 DEF TeamDecidedByAll, Endorsers, Decided, Has
<1> QED BY <1>5, <1>7

LEMMA EndorseEpochs ==
  ASSUME Inv, NEW a \in Agent, NEW s \in Ids, Endorses(a, s)
  PROVE  Epochs' /\ GenerationSubmitsOnce'
<1>1. submissions' = submissions /\ Ids' = Ids /\ claimEpoch' = claimEpoch
  BY DEF Endorses, Ids
<1>2. \A q \in Ids : Actor(q) \in Agent
  BY SubmissionType DEF Inv
<1>3. \A b \in Agent : task'[b] \in Held => task'[b] = task[b]
  BY DEF Endorses, NotRecorded, Recorded, Opens, Judged, Held
<1> QED BY <1>1, <1>2, <1>3 DEF Inv, Epochs, GenerationSubmitsOnce, Actor, Held

LEMMA EndorseGrants ==
  ASSUME Inv, NEW a \in Agent, NEW s \in Ids, Endorses(a, s)
  PROVE  GrantsBackActions'
<1>1. /\ submissions' = submissions /\ Ids' = Ids
      /\ issued' = issued
      /\ used' = used \cup {EndorseGrant(a, s)}
      /\ \A q \in Ids : Has(q, "REWORK_REQUIRED") => Has(q, "REWORK_REQUIRED")'
  BY EndorseKeeps DEF Endorses, EndorseKept, Verdict
<1>2. /\ \A q : q # s => Endorsers(q)' = Endorsers(q)
      /\ Endorsers(s)' = Endorsers(s) \cup {a}
  BY EndorsersAfter
<1>3. ASSUME NEW q \in Ids, NEW p, p = submissions[q].revisionOf, p # 0
      PROVE  /\ p < q
             /\ Has(p, "REWORK_REQUIRED")'
             /\ submissions[p].actor = submissions[q].actor
             /\ ResubmitGrant(submissions[q].actor, p) \in used'
             /\ \A r \in Ids : submissions[r].revisionOf = p => r = q
  <2>1. /\ p < q
        /\ Has(p, "REWORK_REQUIRED")
        /\ submissions[p].actor = submissions[q].actor
        /\ ResubmitGrant(submissions[q].actor, p) \in used
        /\ \A r \in Ids : submissions[r].revisionOf = p => r = q
    BY <1>3 DEF Inv, GrantsBackActions
  <2>2. p \in Id
    BY <1>3, SubmissionType, ExconAssumption DEF Inv, Id
  <2>3. p \in Ids
    BY <2>1, <2>2 DEF Inv, Verdicts, Verdict
  <2> QED BY <1>1, <2>1, <2>3
<1>4. \A b \in Agent : \A x : HasIssued(b, x) => HasIssued(b, x)'
  <2> SUFFICES ASSUME NEW b \in Agent, NEW x, NEW i \in 1 .. issued[b],
                      eligible[b][i] = x
               PROVE  HasIssued(b, x)'
    BY DEF HasIssued
  <2>1. i \in 1 .. Len(eligible[b])
    BY DEF Inv, TypeOK, Views
  <2>2. eligible'[b][i] = x
    BY <2>1 DEF Endorses, Grown
  <2> QED BY <1>1, <2>2 DEF HasIssued
<1>5. ASSUME NEW q \in Ids, NEW b \in Agent, b \in Endorsers(q)'
      PROVE  /\ b \in submissions[q].recipients
             /\ HasIssued(b, About("submission", q))'
             /\ EndorseGrant(b, q) \in used'
  <2>1. CASE b \in Endorsers(q)
    <3>1. /\ b \in submissions[q].recipients
          /\ HasIssued(b, About("submission", q))
          /\ EndorseGrant(b, q) \in used
      BY <2>1 DEF Inv, GrantsBackActions
    <3> QED BY <1>1, <1>4, <3>1 DEF About
  <2>2. CASE b \notin Endorsers(q)
    <3>1. q = s /\ b = a
      BY <1>2, <1>5, <2>2
    <3> QED BY <1>1, <1>4, <3>1 DEF Endorses, About
  <2> QED BY <2>1, <2>2
<1> HIDE DEF Ids
<1>6. \A q \in Ids : \A p : p = submissions[q].revisionOf /\ p # 0 =>
        /\ p < q
        /\ Has(p, "REWORK_REQUIRED")'
        /\ submissions[p].actor = submissions[q].actor
        /\ ResubmitGrant(submissions[q].actor, p) \in used'
        /\ \A r \in Ids : submissions[r].revisionOf = p => r = q
  BY <1>3
<1>7. \A q \in Ids, b \in Agent : b \in Endorsers(q)' =>
        /\ b \in submissions[q].recipients
        /\ HasIssued(b, About("submission", q))'
        /\ EndorseGrant(b, q) \in used'
  BY <1>5
<1> QED BY <1>1, <1>6, <1>7 DEF GrantsBackActions, Has, HasIssued, Endorsers,
                                 ResubmitGrant, EndorseGrant, About

LEMMA EndorseInv ==
  ASSUME Inv, NEW a \in Agent, NEW s \in Ids, Endorse(a, s)
  PROVE  Inv'
<1>1. Endorses(a, s) /\ TypeOK'
  BY EndorseFacts
<1>2. Forming'
  <2>1. submissions # <<>>
    BY DEF Ids, Inv, TypeOK
  <2>2. state' = state
    BY DEF Endorse, runVars
  <2> QED BY <2>1, <2>2 DEF Inv, Forming
<1> QED BY <1>1, <1>2, EndorseViews, EndorseWaiting, EndorseBarriers,
           EndorsePlans, EndorseEpochs, EndorseGrants DEF Inv
-----------------------------------------------------------------------------
LEMMA StepInv ==
  ASSUME Inv, [Next]_vars
  PROVE  Inv'
<1>1. CASE UNCHANGED vars
  <2>1. UNCHANGED <<runVars, taskVars, resultVars, barrierVars, viewVars>>
    BY <1>1 DEF vars
  <2>2. TypeOK'
    BY <2>1 DEF Inv, TypeOK, runVars, taskVars, resultVars, barrierVars, viewVars
  <2>3. TaskMoves
    BY <2>1 DEF TaskMoves, taskVars
  <2> QED BY <2>1, <2>2, <2>3, QuietTask DEF runVars
<1>2. CASE Start
  BY <1>2, StartInv
<1>3. CASE Tick
  BY <1>3, TickInv
<1>4. ASSUME NEW a \in Agent, Join(a) \/ Sync(a) \/ Claim(a)
      PROVE  Inv'
  BY <1>4, JoinInv, SyncInv, ClaimInv
<1>5. ASSUME NEW a \in Agent, NEW e \in 1 .. claimEpoch[a], Work(a, e)
      PROVE  Inv'
  BY <1>5, BeginInv, HeartbeatInv, ReleaseInv, SubmitInv DEF Work
<1>6. ASSUME NEW a \in Agent, NEW s \in 1 .. Len(submissions), Endorse(a, s)
      PROVE  Inv'
  BY <1>6, EndorseInv DEF Ids
<1> QED BY <1>1, <1>2, <1>3, <1>4, <1>5, <1>6 DEF Next

\* The inductive invariant of a run: for any set of specialists, any lease
\* times and any number of claims and submissions.
THEOREM ExconInvariant == Spec => []Inv
<1> QED BY InitInv, StepInv, PTL DEF Spec

\* Every variable keeps its type; no heartbeat takes a lease past its maximum.
THEOREM ExconTypes == Spec => []TypeOK
<1>1. Inv => TypeOK
  BY DEF Inv
<1> QED BY <1>1, ExconInvariant, PTL

\* The coordinator is let in by the accepted work of all other roles.
THEOREM CoordinatorWaitsForAll == Spec => []BarrierFollowsRoles
<1>1. Inv => BarrierFollowsRoles
  BY DEF Inv
<1> QED BY <1>1, ExconInvariant, PTL

\* A team plan has a verdict only when every specialist has endorsed it.
THEOREM NobodyDecidesForOthers == Spec => []TeamDecidedByAll
<1>1. Inv => TeamDecidedByAll
  BY DEF Inv
<1> QED BY <1>1, ExconInvariant, PTL

\* Two submissions of a task belong to two generations of its lease.
THEOREM OneSubmissionPerClaim == Spec => []GenerationSubmitsOnce
<1>1. Inv => GenerationSubmitsOnce
  BY DEF Inv
<1> QED BY <1>1, ExconInvariant, PTL

\* Revisions and endorsements are backed by grants that were used once.
THEOREM GrantsAreSpentOnce == Spec => []GrantsBackActions
<1>1. Inv => GrantsBackActions
  BY DEF Inv
<1> QED BY <1>1, ExconInvariant, PTL

\* A task waits for one submission at a time, and is over with an accepted one.
THEOREM WaitsForOne == Spec => []OneOpenSubmission
<1>1. ASSUME Inv
      PROVE  OneOpenSubmission
  <2> SUFFICES ASSUME NEW a \in Agent
               PROVE  LET own == {s \in Ids : submissions[s].actor = a}
                          open == {s \in own : ~Decided(s)}
                      IN  /\ task[a] = "SUBMITTED" <=> open # {}
                          /\ \A s, q \in open : s = q
                          /\ \A s \in own, q \in own :
                               s < q => Has(s, "REWORK_REQUIRED")
                          /\ task[a] = "ACCEPTED"
                               <=> \E s \in own : Has(s, "ACCEPTED")
    BY DEF OneOpenSubmission
  <2> DEFINE own == {s \in Ids : submissions[s].actor = a}
             open == {s \in own : ~Decided(s)}
  <2>1. \A s \in Ids : s \in Nat
    BY <1>1, SubmissionType DEF Inv, Id
  <2>2. \A s \in own, q \in own : s < q => Has(s, "REWORK_REQUIRED")
    BY <1>1 DEF Inv, Waiting, Actor
  <2>3. \A s, q \in open : s = q
    <3>1. \A s, q \in open : ~(s < q)
      BY <2>2 DEF Decided, Verdict
    <3> QED BY <2>1, <3>1
  <2>4. task[a] = "SUBMITTED" <=> open # {}
    BY <1>1 DEF Inv, Waiting, Actor
  <2>5. task[a] = "ACCEPTED" <=> \E s \in own : Has(s, "ACCEPTED")
    BY <1>1 DEF Inv, Waiting, Actor
  <2> QED BY <2>2, <2>3, <2>4, <2>5
<1> QED BY <1>1, ExconInvariant, PTL
-----------------------------------------------------------------------------
(* What is on record stands: the step of RecordStands, part by part.       *)

ViewStands ==
  \A a \in Agent : \A i \in 1 .. issued[a] :
    i <= issued'[a] /\ eligible'[a][i] = eligible[a][i]

Stands ==
  /\ \A s \in Ids : s \in Ids' /\ submissions'[s] = submissions[s]
  /\ endorsements \subseteq endorsements' /\ used \subseteq used'
  /\ \A s \in Ids, v \in Verdict : Decided(s) => (Has(s, v)' <=> Has(s, v))
  /\ \A a \in Agent : task[a] = "ACCEPTED" => task'[a] = "ACCEPTED"
  /\ analysis.released => analysis' = analysis
  /\ endorsement.released => endorsement' = endorsement
  /\ ViewStands

\* A command that leaves results and barriers alone can only lose what an
\* agent was told, or an accepted task.
LEMMA QuietStands ==
  ASSUME UNCHANGED <<resultVars, barrierVars>>, ViewStands,
         \A a \in Agent : task[a] = "ACCEPTED" => task'[a] = "ACCEPTED"
  PROVE  Stands
<1>1. /\ submissions' = submissions
      /\ evaluations' = evaluations
      /\ endorsements' = endorsements
      /\ used' = used
      /\ analysis' = analysis
      /\ endorsement' = endorsement
  BY DEF resultVars, barrierVars
<1> QED BY <1>1 DEF Stands, Ids, Has

LEMMA SameViewStands ==
  ASSUME Inv, UNCHANGED viewVars
  PROVE  ViewStands
BY DEF ViewStands, viewVars, Inv, TypeOK

\* What was issued lies within what may be told, and that only grows.
LEMMA GrownViewStands ==
  ASSUME Inv, Grown, issued' = issued
  PROVE  ViewStands
<1> SUFFICES ASSUME NEW a \in Agent, NEW i \in 1 .. issued[a]
             PROVE  i <= issued'[a] /\ eligible'[a][i] = eligible[a][i]
  BY DEF ViewStands
<1>1. /\ issued[a] \in Nat /\ Len(eligible[a]) \in Nat
      /\ issued[a] <= Len(eligible[a])
  BY DEF Inv, TypeOK, Views
<1> QED BY <1>1 DEF Grown

LEMMA StartStands ==
  ASSUME Inv, Start
  PROVE  Stands
<1>1. \A a \in Agent : issued[a] = 0
  BY DEF Start, Inv, Forming, Views, TypeOK
<1>2. ViewStands
  BY <1>1 DEF ViewStands
<1> QED BY <1>2, QuietStands DEF Start, taskVars

LEMMA SyncStands ==
  ASSUME Inv, NEW a \in Agent, Sync(a)
  PROVE  Stands
<1>1. PICK n \in issued[a] + 1 .. Len(eligible[a]) :
        issued' = [issued EXCEPT ![a] = n]
  BY DEF Sync
<1>2. /\ \A b \in Agent : issued[b] \in Nat /\ Len(eligible[b]) \in Nat
      /\ issued \in [Agent -> Nat]
  BY DEF Inv, TypeOK
<1>3. \A b \in Agent : issued'[b] \in Nat /\ issued[b] <= issued'[b]
  BY <1>1, <1>2
<1>4. ViewStands
  BY <1>2, <1>3 DEF ViewStands, Sync
<1> QED BY <1>4, QuietStands DEF Sync, taskVars

LEMMA WorkStands ==
  ASSUME Inv, NEW a \in Agent, NEW e,
         Claim(a) \/ Begin(a, e) \/ Heartbeat(a, e) \/ Release(a, e)
  PROVE  Stands
<1>1. \A b \in Agent : task[b] = "ACCEPTED" => task'[b] = "ACCEPTED"
  BY DEF Claim, Begin, Heartbeat, Release, HoldsLease, Inv, TypeOK
<1>2. UNCHANGED <<resultVars, barrierVars, viewVars>>
  BY DEF Claim, Begin, Heartbeat, Release
<1> QED BY <1>1, <1>2, QuietStands, SameViewStands

\* A submission that is judged at once is judged before anyone else is, and
\* opens analysis-ready only if its role was the last.
LEMMA SubmitStands ==
  ASSUME Inv, NEW a \in Agent, NEW e \in 1 .. claimEpoch[a],
         NEW team \in BOOLEAN, NEW recipients \in SUBSET Agent,
         NEW revisionOf \in 0 .. Len(submissions),
         Submit(a, e, team, recipients, revisionOf)
  PROVE  Stands
<1>1. Submits(a, team, recipients, revisionOf)
  BY SubmitFacts
<1>2. PICK s : s = NewId
  OBVIOUS
<1>3. SubmitKept(a, s, team, recipients, revisionOf)
  BY <1>1, <1>2, SubmitKeeps DEF SubmitsAs
<1>4. /\ endorsements' = endorsements
      /\ endorsement' = endorsement
      /\ issued' = issued
      /\ used \subseteq used'
  BY DEF Submit
<1>5. task[a] = "IN_PROGRESS" /\ task \in [Agent -> TaskState]
  BY <1>1 DEF Submits, Inv, TypeOK
<1>6. analysis.released => a \notin Specialist /\ task[Coordinator] # "BLOCKED"
  BY <1>5 DEF Inv, BarrierFollowsRoles
<1>7. analysis.released => analysis' = analysis
  BY <1>1, <1>6 DEF Submits, Waits
<1>8. \A b \in Agent : task[b] = "ACCEPTED" => task'[b] = "ACCEPTED"
  <2>1. CASE Waits(a)
    BY <1>5, <2>1 DEF Waits
  <2>2. ASSUME NEW v \in Verdict, Judged(a, NewId, v, AnalysisAfter(a, NewId, v))
        PROVE  \A b \in Agent : task[b] = "ACCEPTED" => task'[b] = "ACCEPTED"
    <3>1. ~analysis.released => task[Coordinator] = "BLOCKED"
      BY DEF Inv, BarrierFollowsRoles
    <3> QED BY <1>5, <2>2, <3>1 DEF Judged
  <2> QED BY <1>1, <2>1, <2>2 DEF Submits
<1>9. ViewStands
  BY <1>1, <1>4, GrownViewStands DEF Submits
<1> QED BY <1>3, <1>4, <1>7, <1>8, <1>9 DEF Stands, SubmitKept

LEMMA EndorseStands ==
  ASSUME Inv, NEW a \in Agent, NEW s \in Ids, Endorse(a, s)
  PROVE  Stands
<1>1. Endorses(a, s)
  BY EndorseFacts
<1>2. /\ submissions' = submissions /\ Ids' = Ids
      /\ endorsements \subseteq endorsements'
      /\ used \subseteq used'
      /\ analysis' = analysis
  BY <1>1 DEF Endorses, Ids
<1>3. endorsement.released => endorsement' = endorsement
  BY <1>1 DEF Endorses, NotRecorded, Recorded, Opens, Records
<1>4. ASSUME NEW q \in Ids, NEW v \in Verdict, Decided(q)
      PROVE  Has(q, v)' <=> Has(q, v)
  <2>1. CASE q # s
    BY <1>1, <2>1, EndorseKeeps DEF EndorseKept
  <2>2. CASE q = s
    <3>1. evaluations' = evaluations
      BY <1>1, <1>4, <2>2, OpensWaiting DEF Endorses, NotRecorded, Recorded
    <3> QED BY <3>1 DEF Has
  <2> QED BY <2>1, <2>2
<1>5. \A b \in Agent : task[b] = "ACCEPTED" => task'[b] = "ACCEPTED"
  <2>1. ASSUME NEW v \in Verdict, Opens(a, s, v)
        PROVE  \A b \in Agent : task[b] = "ACCEPTED" => task'[b] = "ACCEPTED"
    <3>1. task[Coordinator] = "SUBMITTED"
      BY <1>1, <2>1, OpensWaiting
    <3> QED BY <2>1, <3>1 DEF Opens, Judged
  <2> QED BY <1>1, <2>1 DEF Endorses, NotRecorded, Recorded
<1>6. ViewStands
  BY <1>1, GrownViewStands DEF Endorses
<1> QED BY <1>2, <1>3, <1>4, <1>5, <1>6 DEF Stands

\* No command rewrites what is on record.
THEOREM RunsRecordStands == Spec => RecordStands
<1>1. ASSUME Inv, Next
      PROVE  Stands
  <2>1. CASE Start
    BY <1>1, <2>1, StartStands
  <2>2. CASE Tick
    BY <1>1, <2>2, QuietStands, SameViewStands DEF Tick
  <2>3. ASSUME NEW a \in Agent, Join(a) \/ Sync(a) \/ Claim(a)
        PROVE  Stands
    <3>1. CASE Join(a)
      BY <1>1, <3>1, QuietStands, SameViewStands DEF Join, taskVars
    <3> QED BY <1>1, <2>3, <3>1, SyncStands, WorkStands
  <2>4. ASSUME NEW a \in Agent, NEW e \in 1 .. claimEpoch[a], Work(a, e)
        PROVE  Stands
    BY <1>1, <2>4, WorkStands, SubmitStands DEF Work
  <2>5. ASSUME NEW a \in Agent, NEW s \in 1 .. Len(submissions), Endorse(a, s)
        PROVE  Stands
    BY <1>1, <2>5, EndorseStands DEF Ids
  <2> QED BY <1>1, <2>1, <2>2, <2>3, <2>4, <2>5 DEF Next
<1>2. Inv /\ [Next]_vars => [Stands]_vars
  BY <1>1
<1>3. [Stands]_vars =>
        [/\ \A s \in Ids : s \in Ids' /\ submissions'[s] = submissions[s]
         /\ endorsements \subseteq endorsements' /\ used \subseteq used'
         /\ \A s \in Ids, v \in Verdict :
              Decided(s) => (Has(s, v)' <=> Has(s, v))
         /\ \A a \in Agent : task[a] = "ACCEPTED" => task'[a] = "ACCEPTED"
         /\ analysis.released => analysis' = analysis
         /\ endorsement.released => endorsement' = endorsement
         /\ \A a \in Agent : \A i \in 1 .. issued[a] :
               i <= issued'[a] /\ eligible'[a][i] = eligible[a][i]]_vars
  BY DEF Stands, ViewStands
<1> QED BY <1>2, <1>3, ExconInvariant, PTL DEF Spec, RecordStands
-----------------------------------------------------------------------------
(* The run as the decision of the team.                                    *)

LEMMA VotersAreObserved ==
  /\ Decision!Voters = Observed(endorsement)
  /\ Decision!Voters' = Observed(endorsement)'
BY DEF Decision!Voters, Observed

\* Whatever leaves submissions, verdicts, endorsement-ready and accepted work
\* alone is no step of the decision.
LEMMA DecisionRests ==
  ASSUME UNCHANGED <<submissions, evaluations, endorsement>>,
         \A a \in Specialist : task'[a] = "ACCEPTED" <=> task[a] = "ACCEPTED"
  PROVE  UNCHANGED Decision!vars
<1>1. Ids' = Ids /\ Accepted' = Accepted
  BY DEF Ids, Accepted
<1>2. TeamPlans' = TeamPlans
  BY <1>1 DEF TeamPlans, IsTeamPlan
<1>3. TeamVerdicts' = TeamVerdicts
  BY <1>1 DEF TeamVerdicts, OfCoordinator
<1> QED BY <1>1, <1>2, <1>3 DEF Decision!vars

\* A new submission is a plan if it is one, and a verdict given at once is not
\* one of the team.
LEMMA SubmitPlansOne ==
  ASSUME Inv, NEW a, NEW s, NEW team \in BOOLEAN, NEW recipients, NEW revisionOf,
         SubmitsAs(a, s, team, recipients, revisionOf)
  PROVE  /\ TeamPlans' = IF a = Coordinator /\ team THEN TeamPlans \cup {s}
                         ELSE TeamPlans
         /\ TeamVerdicts' = TeamVerdicts
<1>0. SubmitKept(a, s, team, recipients, revisionOf)
  BY SubmitKeeps
<1>1. /\ s \notin Ids
      /\ Ids' = Ids \cup {s}
      /\ \A q \in Ids : submissions'[q] = submissions[q]
      /\ submissions'[s] =
           [actor |-> a, epoch |-> claimEpoch[a], team |-> team,
            recipients |-> recipients, revisionOf |-> revisionOf]
  BY <1>0 DEF SubmitKept
<1>2. submissions'[s].actor = a /\ (submissions'[s].team <=> team)
  BY <1>1
<1>3. \A q \in Ids : IsTeamPlan(q)' <=> IsTeamPlan(q)
  BY <1>1 DEF IsTeamPlan
<1>4. IsTeamPlan(s)' <=> a = Coordinator /\ team
  BY <1>2 DEF IsTeamPlan
<1>5. TeamPlans' = IF a = Coordinator /\ team THEN TeamPlans \cup {s} ELSE TeamPlans
  <2>1. \A q : q \in TeamPlans' <=> q \in Ids' /\ IsTeamPlan(q)'
    BY DEF TeamPlans
  <2>2. \A q : q \in TeamPlans <=> q \in Ids /\ IsTeamPlan(q)
    BY DEF TeamPlans
  <2> QED BY <1>1, <1>3, <1>4, <2>1, <2>2
<1>6. TeamVerdicts' = TeamVerdicts
  <2>1. \A e \in evaluations : e.submission \in Ids
    <3> SUFFICES ASSUME NEW e \in evaluations PROVE e.submission \in Ids
      OBVIOUS
    <3>1. /\ e \in [submission : Id, verdict : Verdict]
          /\ e = [submission |-> e.submission, verdict |-> e.verdict]
      BY DEF Inv, TypeOK
    <3> QED BY <3>1 DEF Inv, Verdicts, Has
  <2>2. \A e \in evaluations : OfCoordinator(e)' <=> OfCoordinator(e)
    BY <1>1, <2>1 DEF OfCoordinator
  <2>3. CASE evaluations' = evaluations
    BY <2>2, <2>3 DEF TeamVerdicts
  <2>4. ASSUME a \in Specialist, NEW v \in Verdict,
               Judged(a, s, v, AnalysisAfter(a, s, v))
        PROVE  TeamVerdicts' = TeamVerdicts
    <3> DEFINE new == [submission |-> s, verdict |-> v]
    <3>1. evaluations' = evaluations \cup {new}
      BY <2>4 DEF Judged
    <3>2. ~OfCoordinator(new)'
      BY <1>2, <2>4, ExconAssumption DEF OfCoordinator
    <3> HIDE DEF new
    <3> QED BY <2>2, <3>1, <3>2 DEF TeamVerdicts
  <2> QED BY <2>3, <2>4 DEF SubmitsAs, Submits, Waits
<1> QED BY <1>5, <1>6

\* Before the coordinator submits, every plan of its own was sent back.
LEMMA PlanFollowsRework ==
  ASSUME Inv, Inv', NEW s, NEW team \in BOOLEAN, NEW recipients, NEW revisionOf,
         SubmitsAs(Coordinator, s, team, recipients, revisionOf)
  PROVE  \A q \in TeamPlans :
           [submission |-> q, verdict |-> "REWORK_REQUIRED"] \in TeamVerdicts
<1> SUFFICES ASSUME NEW q \in TeamPlans
             PROVE  [submission |-> q, verdict |-> "REWORK_REQUIRED"] \in TeamVerdicts
  OBVIOUS
<1>1. q \in Ids /\ submissions[q].actor = Coordinator
  BY DEF TeamPlans, IsTeamPlan
<1>2. SubmitKept(Coordinator, s, team, recipients, revisionOf)
  BY SubmitKeeps
<1>3. /\ q < s /\ q \in Ids' /\ s \in Ids'
      /\ Actor(q)' = Coordinator /\ Actor(s)' = Coordinator
      /\ Has(q, "REWORK_REQUIRED")' <=> Has(q, "REWORK_REQUIRED")
  BY <1>1, <1>2 DEF SubmitKept, Actor, Verdict
<1>4. Has(q, "REWORK_REQUIRED")'
  BY <1>3 DEF Inv, Waiting
<1>5. [submission |-> q, verdict |-> "REWORK_REQUIRED"] \in evaluations
  BY <1>3, <1>4 DEF Has
<1> QED BY <1>1, <1>5 DEF TeamVerdicts, OfCoordinator

LEMMA SubmitIsSeen ==
  ASSUME Inv, Inv', NEW a \in Agent, NEW e \in 1 .. claimEpoch[a],
         NEW team \in BOOLEAN, NEW recipients \in SUBSET Agent,
         NEW revisionOf \in 0 .. Len(submissions),
         Submit(a, e, team, recipients, revisionOf)
  PROVE  [Decision!Next]_(Decision!vars)
<1>1. Submits(a, team, recipients, revisionOf)
  BY SubmitFacts
<1>2. PICK s : s = NewId
  OBVIOUS
<1>3. SubmitsAs(a, s, team, recipients, revisionOf)
  BY <1>1, <1>2 DEF SubmitsAs
<1>4. /\ TeamPlans' = IF a = Coordinator /\ team THEN TeamPlans \cup {s}
                      ELSE TeamPlans
      /\ TeamVerdicts' = TeamVerdicts
      /\ endorsement' = endorsement
  BY <1>3, SubmitPlansOne DEF Submit
<1>5. task[a] = "IN_PROGRESS" /\ task \in [Agent -> TaskState]
  BY <1>1 DEF Submits, Inv, TypeOK
<1>6. Specialist \subseteq Agent /\ Coordinator \notin Specialist
  BY ExconAssumption DEF Agent
<1>7. CASE a = Coordinator
  <2>1. \A b \in Specialist : task'[b] = task[b]
    BY <1>1, <1>5, <1>6, <1>7 DEF Submits, Waits
  <2>2. Accepted' = Accepted
    BY <2>1 DEF Accepted
  <2>3. CASE team
    <3>1. Accepted = Specialist
      BY <1>5, <1>7 DEF Inv, BarrierFollowsRoles, Accepted
    <3>2. s \in Id /\ s \notin TeamPlans
      BY <1>3, SubmitKeeps DEF SubmitKept, TeamPlans
    <3>3. \A q \in TeamPlans :
            [submission |-> q, verdict |-> "REWORK_REQUIRED"] \in TeamVerdicts
      BY <1>3, <1>7, PlanFollowsRework
    <3>4. Decision!Propose(s)
      BY <1>4, <1>7, <2>2, <2>3, <3>1, <3>2, <3>3 DEF Decision!Propose
    <3> QED BY <3>2, <3>4 DEF Decision!Next
  <2>4. CASE ~team
    BY <1>4, <2>2, <2>4 DEF Decision!vars
  <2> QED BY <2>3, <2>4
<1>8. CASE a \in Specialist
  <2>1. \A b \in Specialist : b # a => task'[b] = task[b]
    BY <1>1, <1>5, <1>6 DEF Submits, Waits, Judged
  <2>2. a \notin Accepted
    BY <1>5 DEF Accepted
  <2>3. CASE task'[a] = "ACCEPTED"
    <3>1. Accepted' = Accepted \cup {a}
      BY <1>8, <2>1, <2>3 DEF Accepted
    <3>2. Decision!Accept(a)
      BY <1>4, <1>6, <1>8, <2>2, <3>1 DEF Decision!Accept
    <3> QED BY <1>8, <3>2 DEF Decision!Next
  <2>4. CASE task'[a] # "ACCEPTED"
    <3>1. Accepted' = Accepted
      BY <1>5, <2>1, <2>4 DEF Accepted
    <3> QED BY <1>4, <1>6, <1>8, <3>1 DEF Decision!vars
  <2> QED BY <2>3, <2>4
<1> QED BY <1>7, <1>8 DEF Agent

\* Until the barrier opens no verdict of the team is given, and its votes are
\* endorsements of the one plan that waits.
LEMMA VotesForTheOne ==
  ASSUME Inv, ~endorsement.released
  PROVE  /\ TeamVerdicts = {}
         /\ \A p, q \in TeamPlans : p = q
         /\ \A i \in endorsement.inputs :
              i.source \in TeamPlans /\ i.role \in Endorsers(i.source)
<1>1. \A q \in Ids : Actor(q) = Coordinator => ~Decided(q)
  BY DEF Inv, TeamDecidedByAll, Actor
<1>2. TeamVerdicts = {}
  <2> SUFFICES ASSUME NEW e \in TeamVerdicts PROVE FALSE
    OBVIOUS
  <2>1. e \in evaluations /\ e.submission \in Ids
        /\ submissions[e.submission].actor = Coordinator
    BY DEF TeamVerdicts, OfCoordinator
  <2>2. e.verdict \in Verdict
        /\ e = [submission |-> e.submission, verdict |-> e.verdict]
    BY <2>1 DEF Inv, TypeOK
  <2>3. Decided(e.submission)
    BY <2>1, <2>2 DEF Decided, Has
  <2> QED BY <1>1, <2>1, <2>3 DEF Actor
<1>3. \A q \in Ids : q \in Nat
  BY SubmissionType DEF Inv, Id
<1>4. \A p, q \in Ids : Actor(p) = Coordinator /\ Actor(q) = Coordinator
                          => ~(p < q)
  BY <1>1 DEF Inv, Waiting, Decided, Verdict
<1>5. \A p, q \in TeamPlans : p = q
  BY <1>3, <1>4 DEF TeamPlans, IsTeamPlan, Actor
<1> QED BY <1>2, <1>5 DEF Inv, Plans, TeamPlans

\* The endorsement of a team plan that the barrier takes is a vote, and the one
\* that opens it has the plan judged.
LEMMA EndorseIsSeen ==
  ASSUME Inv, NEW a \in Agent, NEW s \in Ids, Endorse(a, s)
  PROVE  [Decision!Next]_(Decision!vars)
<1>1. Endorses(a, s)
  BY EndorseFacts
<1>2. submissions' = submissions /\ Ids' = Ids
  BY <1>1 DEF Endorses, Ids
<1>3. CASE NotRecorded
  BY <1>2, <1>3, DecisionRests DEF NotRecorded
<1>4. ASSUME Records(a, s),
             \A b \in Specialist : task'[b] = "ACCEPTED" <=> task[b] = "ACCEPTED",
             IF endorsement'.released
             THEN \E v \in Verdict :
                    evaluations' = evaluations
                                     \cup {[submission |-> s, verdict |-> v]}
             ELSE evaluations' = evaluations
      PROVE  [Decision!Next]_(Decision!vars)
  <2>1. a \in Specialist /\ s \in Id /\ s \in TeamPlans
    BY <1>1, <1>4, PlanEndorser, SubmissionType
    DEF Inv, Records, Endorses, TeamPlans
  <2>2. /\ endorsement'.inputs
             = endorsement.inputs \cup {[role |-> a, source |-> s]}
        /\ endorsement'.released <=> Satisfied(endorsement'.inputs)
        /\ ~endorsement.released
    <3>1. endorsement \in Barrier
      BY DEF Inv, TypeOK
    <3>2. endorsement' = WithInput(endorsement, a, s) /\ ~endorsement.released
      BY <1>4 DEF Records
    <3>3. /\ WithInput(endorsement, a, s).inputs
               = endorsement.inputs \cup {[role |-> a, source |-> s]}
          /\ WithInput(endorsement, a, s).released
               <=> Satisfied(WithInput(endorsement, a, s).inputs)
      BY <2>1, <3>1, WithInputType
    <3> QED BY <3>2, <3>3
  <2>3. a \notin Decision!Voters
    <3> SUFFICES ASSUME NEW i \in endorsement.inputs, i.role = a PROVE FALSE
      BY DEF Decision!Voters
    <3>1. a \in Endorsers(s)
      BY <2>1, <2>2, VotesForTheOne
    <3> QED BY <3>1 DEF Endorsers, Endorse, MayEndorse
  <2>4. endorsement'.released <=> Decision!Voters \cup {a} = Specialist
    <3>1. {i.role : i \in endorsement'.inputs} = Decision!Voters \cup {a}
      <4>1. {i.role : i \in endorsement.inputs \cup {[role |-> a, source |-> s]}}
              = {i.role : i \in endorsement.inputs} \cup {a}
        BY RolesAdd
      <4> QED BY <2>2, <4>1 DEF Decision!Voters
    <3> QED BY <2>2, <3>1 DEF Satisfied
  <2>5. Accepted' = Accepted
    BY <1>4 DEF Accepted
  <2>6. TeamPlans' = TeamPlans
    BY <1>2 DEF TeamPlans, IsTeamPlan
  <2>7. IF endorsement'.released
        THEN \E v \in Verdict : TeamVerdicts' = {[submission |-> s, verdict |-> v]}
        ELSE TeamVerdicts' = TeamVerdicts
    <3>1. CASE ~endorsement'.released
      BY <1>2, <1>4, <3>1 DEF TeamVerdicts, OfCoordinator
    <3>2. CASE endorsement'.released
      <4>1. PICK v \in Verdict :
              evaluations' = evaluations \cup {[submission |-> s, verdict |-> v]}
        BY <1>4, <3>2
      <4> DEFINE new == [submission |-> s, verdict |-> v]
      <4>2. OfCoordinator(new)
        BY <2>1 DEF OfCoordinator, TeamPlans, IsTeamPlan
      <4> HIDE DEF new
      <4>3. \A e : OfCoordinator(e)' <=> OfCoordinator(e)
        BY <1>2 DEF OfCoordinator
      <4>4. {e \in evaluations : OfCoordinator(e)} = {}
        BY <2>2, VotesForTheOne DEF TeamVerdicts
      <4>5. evaluations' = evaluations \cup {new}
        BY <4>1 DEF new
      <4>6. TeamVerdicts' = {new}
        BY <4>2, <4>3, <4>4, <4>5 DEF TeamVerdicts
      <4> QED BY <3>2, <4>6 DEF new
    <3> QED BY <3>1, <3>2
  <2>8. Decision!Vote(a, s)
    BY <2>1, <2>2, <2>3, <2>4, <2>5, <2>6, <2>7, VotesForTheOne DEF Decision!Vote
  <2> QED BY <2>1, <2>8 DEF Decision!Next
<1>5. CASE Recorded(a, s)
  BY <1>4, <1>5 DEF Recorded
<1>6. ASSUME NEW v \in Verdict, Opens(a, s, v)
      PROVE  [Decision!Next]_(Decision!vars)
  <2>1. \A b \in Specialist : task'[b] = task[b]
    BY <1>6, ExconAssumption DEF Opens, Judged, Agent
  <2> QED BY <1>4, <1>6, <2>1 DEF Opens, Judged
<1> QED BY <1>1, <1>3, <1>5, <1>6 DEF Endorses

LEMMA DecisionSteps ==
  ASSUME Inv, Inv', [Next]_vars
  PROVE  [Decision!Next]_(Decision!vars)
<1>1. CASE UNCHANGED vars
  BY <1>1, DecisionRests DEF vars, taskVars, resultVars, barrierVars
<1>2. CASE Start \/ Tick
  BY <1>2, DecisionRests DEF Start, Tick, taskVars, resultVars, barrierVars
<1>3. ASSUME NEW a \in Agent, Join(a) \/ Sync(a)
      PROVE  [Decision!Next]_(Decision!vars)
  BY <1>3, DecisionRests DEF Join, Sync, taskVars, resultVars, barrierVars
<1>4. ASSUME NEW a \in Agent, NEW e,
             Claim(a) \/ Begin(a, e) \/ Heartbeat(a, e) \/ Release(a, e)
      PROVE  [Decision!Next]_(Decision!vars)
  <2>1. \A b \in Specialist : task'[b] = "ACCEPTED" <=> task[b] = "ACCEPTED"
    BY <1>4 DEF Claim, Begin, Heartbeat, Release, HoldsLease, Inv, TypeOK, Agent
  <2>2. UNCHANGED <<resultVars, barrierVars>>
    BY <1>4 DEF Claim, Begin, Heartbeat, Release
  <2> QED BY <2>1, <2>2, DecisionRests DEF resultVars, barrierVars
<1>5. ASSUME NEW a \in Agent, NEW e \in 1 .. claimEpoch[a], Work(a, e)
      PROVE  [Decision!Next]_(Decision!vars)
  BY <1>4, <1>5, SubmitIsSeen DEF Work
<1>6. ASSUME NEW a \in Agent, NEW s \in 1 .. Len(submissions), Endorse(a, s)
      PROVE  [Decision!Next]_(Decision!vars)
  BY <1>6, EndorseIsSeen DEF Ids
<1> QED BY <1>1, <1>2, <1>3, <1>4, <1>5, <1>6 DEF Next

\* Claims, leases, grants and receipts of a run are one decision of the team.
THEOREM RunIsADecision == Spec => ImplementsTeamDecision
<1>1. Init => Decision!Init
  <2> SUFFICES ASSUME Init PROVE Decision!Init
    OBVIOUS
  <2>1. submissions = <<>> /\ evaluations = {} /\ endorsement.inputs = {}
    BY DEF Init, NewBarrier
  <2>2. Ids = {}
    BY <2>1 DEF Ids
  <2>3. Accepted = {}
    BY DEF Init, Accepted, Agent
  <2> QED BY <2>1, <2>2, <2>3 DEF Decision!Init, TeamPlans, TeamVerdicts
<1>2. Inv /\ Inv' /\ [Next]_vars => [Decision!Next]_(Decision!vars)
  BY DecisionSteps
<1> QED BY <1>1, <1>2, ExconInvariant, PTL
  DEF Spec, ImplementsTeamDecision, Decision!Spec
-----------------------------------------------------------------------------
(* What a decision of the team promises.                                   *)

\* A plan is there only after all work, a vote only for the plan that waits or
\* was judged, and a verdict only with all votes.
DecisionSound ==
  /\ endorsement.inputs \subseteq [role : Specialist, source : Id]
  /\ TeamPlans # {} => Accepted = Specialist
  /\ \A i \in endorsement.inputs : i.source \in TeamPlans
  /\ \A j \in TeamVerdicts : j.submission \in TeamPlans
  /\ Decision!JudgedByAll /\ Decision!JudgedOnce /\ Decision!OnePlanAtATime

DecisionStands ==
  /\ Accepted \subseteq Accepted'
  /\ TeamPlans \subseteq TeamPlans'
  /\ endorsement.inputs \subseteq (endorsement.inputs)'
  /\ TeamVerdicts \subseteq TeamVerdicts'
  /\ TeamVerdicts # {} => (endorsement.inputs)' = endorsement.inputs

LEMMA VoteKeeps ==
  ASSUME DecisionSound, NEW m \in Specialist, NEW p \in Id, Decision!Vote(m, p)
  PROVE  DecisionSound' /\ DecisionStands
<1> DEFINE vote == [role |-> m, source |-> p]
<1>1. /\ p \in TeamPlans /\ TeamVerdicts = {}
      /\ (endorsement.inputs)' = endorsement.inputs \cup {vote}
      /\ Accepted' = Accepted /\ TeamPlans' = TeamPlans
  BY DEF Decision!Vote
<1>2. vote.role = m /\ vote.source = p
  OBVIOUS
<1>3. vote \in [role : Specialist, source : Id]
  OBVIOUS
<1> HIDE DEF vote
<1>4. \A q \in TeamPlans : q = p
  BY <1>1 DEF DecisionSound, Decision!OnePlanAtATime
<1>5. \A i \in (endorsement.inputs)' :
        i \in [role : Specialist, source : Id] /\ i.source = p
  BY <1>1, <1>2, <1>3, <1>4 DEF DecisionSound
<1>6. CASE TeamVerdicts' = TeamVerdicts
  BY <1>1, <1>4, <1>5, <1>6
  DEF DecisionSound, DecisionStands, Decision!JudgedByAll, Decision!JudgedOnce,
      Decision!OnePlanAtATime
<1>7. CASE TeamVerdicts' # TeamVerdicts
  <2>1. Decision!Voters \cup {m} = Specialist
    BY <1>7 DEF Decision!Vote
  <2>2. PICK v \in Verdict : TeamVerdicts' = {[submission |-> p, verdict |-> v]}
    BY <1>7 DEF Decision!Vote
  <2>3. \A j \in TeamVerdicts' : j.submission = p
    BY <2>2
  <2>4. \A j, k \in TeamVerdicts' : j = k
    BY <2>2
  <2>5. ASSUME NEW n \in Specialist
        PROVE  [role |-> n, source |-> p] \in (endorsement.inputs)'
    <3>1. PICK i \in (endorsement.inputs)' : i.role = n
      BY <1>1, <1>2, <2>1 DEF Decision!Voters
    <3>2. i = [role |-> i.role, source |-> i.source]
      BY <1>5
    <3> QED BY <1>5, <3>1, <3>2
  <2>6. Accepted = Specialist
    BY <1>1 DEF DecisionSound
  <2>7. Decision!JudgedByAll'
    BY <1>1, <2>3, <2>5, <2>6 DEF Decision!JudgedByAll
  <2> QED BY <1>1, <1>4, <1>5, <2>3, <2>4, <2>6, <2>7
          DEF DecisionSound, DecisionStands, Decision!JudgedOnce,
              Decision!OnePlanAtATime
<1> QED BY <1>6, <1>7

LEMMA DecisionKeeps ==
  ASSUME DecisionSound, [Decision!Next]_(Decision!vars)
  PROVE  DecisionSound' /\ DecisionStands
<1>1. CASE UNCHANGED Decision!vars
  <2>1. UNCHANGED <<Accepted, TeamPlans, endorsement.inputs, TeamVerdicts>>
    BY <1>1 DEF Decision!vars
  <2> QED BY <2>1 DEF DecisionSound, DecisionStands, Decision!JudgedByAll,
                      Decision!JudgedOnce, Decision!OnePlanAtATime
<1>2. ASSUME NEW m \in Specialist, Decision!Accept(m)
      PROVE  DecisionSound' /\ DecisionStands
  <2>1. TeamPlans = {}
    BY <1>2 DEF DecisionSound, Decision!Accept
  <2> QED BY <1>2, <2>1
          DEF DecisionSound, DecisionStands, Decision!Accept,
              Decision!JudgedByAll, Decision!JudgedOnce, Decision!OnePlanAtATime
<1>3. ASSUME NEW p \in Id, Decision!Propose(p)
      PROVE  DecisionSound' /\ DecisionStands
  <2>1. /\ TeamPlans' = TeamPlans \cup {p}
        /\ Accepted' = Accepted /\ Accepted = Specialist
        /\ (endorsement.inputs)' = endorsement.inputs
        /\ TeamVerdicts' = TeamVerdicts
        /\ \A q \in TeamPlans :
             [submission |-> q, verdict |-> "REWORK_REQUIRED"] \in TeamVerdicts
    BY <1>3 DEF Decision!Propose
  <2>2. \A q \in TeamPlans : \E j \in TeamVerdicts : j.submission = q
    BY <2>1
  <2>3. Decision!OnePlanAtATime'
    BY <2>1, <2>2 DEF DecisionSound, Decision!OnePlanAtATime
  <2> QED BY <2>1, <2>3
          DEF DecisionSound, DecisionStands, Decision!JudgedByAll, Decision!JudgedOnce
<1> QED BY <1>1, <1>2, <1>3, VoteKeeps DEF Decision!Next

\* Whatever implements the decision of a team keeps its promises: no verdict
\* without the work and the vote of every member, one verdict, one plan before
\* the members at a time, and nothing taken back.
THEOREM DecisionKeepsPromises == ImplementsTeamDecision => Decision!Promises
<1>1. Decision!Init => DecisionSound
  BY DEF Decision!Init, DecisionSound, Decision!JudgedByAll, Decision!JudgedOnce,
         Decision!OnePlanAtATime
<1>2. DecisionSound /\ [Decision!Next]_(Decision!vars) => DecisionSound'
  BY DecisionKeeps
<1>3. DecisionSound => /\ Decision!JudgedByAll
                       /\ Decision!JudgedOnce
                       /\ Decision!OnePlanAtATime
  BY DEF DecisionSound
<1>4. DecisionSound /\ [Decision!Next]_(Decision!vars)
        => [/\ Accepted \subseteq Accepted'
            /\ TeamPlans \subseteq TeamPlans'
            /\ endorsement.inputs \subseteq (endorsement.inputs)'
            /\ TeamVerdicts \subseteq TeamVerdicts'
            /\ TeamVerdicts # {} =>
                 (endorsement.inputs)' = endorsement.inputs]_(Decision!vars)
  BY DecisionKeeps DEF DecisionStands
<1> QED BY <1>1, <1>2, <1>3, <1>4, PTL
  DEF ImplementsTeamDecision, Decision!Spec, Decision!Promises,
      Decision!NothingIsTakenBack

\* So does the run with all its leases, grants and receipts.
THEOREM RunKeepsPromises == Spec => Decision!Promises
BY RunIsADecision, DecisionKeepsPromises, PTL
=============================================================================
