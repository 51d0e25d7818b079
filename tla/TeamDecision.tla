---------------------------- MODULE TeamDecision ----------------------------
(***************************************************************************)
(* What the members of a collaborative run may rely on: no tasks, leases,  *)
(* grants or receipts.  The work of all members comes before any plan, one *)
(* plan at a time is before them, and the vote that completes their number *)
(* has it judged.  That happens once: when the plan is sent back, another  *)
(* one may be proposed, but nobody votes on it.                            *)
(***************************************************************************)
CONSTANTS Member, Plan, Verdict

VARIABLES accepted,  \* the members whose work was accepted
          plans,     \* the plans that were proposed
          votes,     \* [role, source]: who voted for what
          judged     \* [submission, verdict] of plans

vars == <<accepted, plans, votes, judged>>

Voters == {v.role : v \in votes}

Init ==
  /\ accepted = {}
  /\ plans = {}
  /\ votes = {}
  /\ judged = {}

Accept(m) ==
  /\ m \notin accepted
  /\ accepted' = accepted \cup {m}
  /\ UNCHANGED <<plans, votes, judged>>

\* Another plan only when every earlier one was sent back.
Propose(p) ==
  /\ accepted = Member
  /\ p \notin plans
  /\ \A q \in plans : [submission |-> q, verdict |-> "REWORK_REQUIRED"] \in judged
  /\ plans' = plans \cup {p}
  /\ UNCHANGED <<accepted, votes, judged>>

\* The last vote has the plan judged.
Vote(m, p) ==
  /\ p \in plans
  /\ judged = {}
  /\ m \notin Voters
  /\ votes' = votes \cup {[role |-> m, source |-> p]}
  /\ IF Voters \cup {m} = Member
     THEN \E v \in Verdict : judged' = {[submission |-> p, verdict |-> v]}
     ELSE UNCHANGED judged
  /\ UNCHANGED <<accepted, plans>>

Next ==
  \/ \E m \in Member : Accept(m)
  \/ \E p \in Plan : Propose(p) \/ \E m \in Member : Vote(m, p)

Spec == Init /\ [][Next]_vars

-----------------------------------------------------------------------------
(* What follows for the members.                                           *)

\* A verdict is of a plan that every member voted for, after the work of every
\* member was accepted.
JudgedByAll ==
  \A j \in judged :
    /\ j.submission \in plans
    /\ \A m \in Member : [role |-> m, source |-> j.submission] \in votes
    /\ accepted = Member

\* One verdict is given, whatever it is and however many plans there are.
JudgedOnce == \A j, k \in judged : j = k

\* All votes are for one plan, and at most one plan waits.
OnePlanAtATime ==
  /\ \A v, w \in votes : v.source = w.source
  /\ \A p, q \in plans :
       p # q => \E j \in judged : j.submission \in {p, q}

\* Nothing is taken back, and after the verdict no vote is counted.
NothingIsTakenBack ==
  [][/\ accepted \subseteq accepted'
     /\ plans \subseteq plans'
     /\ votes \subseteq votes'
     /\ judged \subseteq judged'
     /\ judged # {} => votes' = votes]_vars

Promises ==
  []JudgedByAll /\ []JudgedOnce /\ []OnePlanAtATime /\ NothingIsTakenBack
=============================================================================
