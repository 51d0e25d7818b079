------------------------- MODULE ReviewedPublication -------------------------
(***************************************************************************)
(* What the owner, the reviewer and the readers of an ingestion may rely   *)
(* on: no stages, jobs, attempts, leases or row versions.  A plan is made  *)
(* once; it is published as it was approved, or never; and the operation   *)
(* that its owner waits for ends the way the ingestion did.                *)
(***************************************************************************)
CONSTANTS Hash, NoHash

VARIABLES place,     \* how far the ingestion is
          plan,      \* its one plan: hash, whether it is risky, and reviewed
          versions,  \* what is committed, for readers once it is published
          outcome    \* what the owner is told

vars == <<place, plan, versions, outcome>>

NoPlan == [hash |-> NoHash, risky |-> FALSE, reviewed |-> FALSE]

Init ==
  /\ place = "DRAFT"
  /\ plan = NoPlan
  /\ versions = {}
  /\ outcome = "none"

\* A plan goes to its review if it is risky, and is approved as it is if not.
Propose(h, risky) ==
  /\ place = "DRAFT"
  /\ plan' = [hash |-> h, risky |-> risky, reviewed |-> FALSE]
  /\ place' = IF risky THEN "REVIEW_REQUIRED" ELSE "APPROVED"
  /\ UNCHANGED <<versions, outcome>>

Approve ==
  /\ place = "REVIEW_REQUIRED"
  /\ place' = "APPROVED"
  /\ plan' = [hash |-> plan.hash, risky |-> plan.risky, reviewed |-> TRUE]
  /\ UNCHANGED <<versions, outcome>>

\* The checks of a draft refuse it; its owner is told later.
RefuseDraft ==
  /\ place = "DRAFT"
  /\ place' = "REJECTED"
  /\ UNCHANGED <<plan, versions, outcome>>

\* A reviewer refuses a plan, and its owner is told at once.
Reject ==
  /\ place = "REVIEW_REQUIRED"
  /\ outcome = "none"
  /\ place' = "REJECTED"
  /\ outcome' = "FAILED"
  /\ UNCHANGED <<plan, versions>>

\* The owner takes back what is not committed, and is told so, now or later.
Cancel ==
  /\ place \in {"DRAFT", "REVIEW_REQUIRED", "APPROVED"}
  /\ outcome = "none"
  /\ place' = "CANCELLED"
  /\ outcome' \in {"none", "CANCELLED"}
  /\ UNCHANGED <<plan, versions>>

Commit ==
  /\ place = "APPROVED"
  /\ place' = "COMMITTED"
  /\ versions' = {plan.hash}
  /\ UNCHANGED <<plan, outcome>>

\* Only while the owner still waits.
Publish ==
  /\ place = "COMMITTED"
  /\ outcome = "none"
  /\ place' = "PUBLISHED"
  /\ UNCHANGED <<plan, versions, outcome>>

\* The owner is told an end.  It may be that of an effort that was given up at
\* any place, but success and cancellation are what they say.
Tell(end) ==
  /\ outcome = "none"
  /\ end = "SUCCEEDED" => place = "PUBLISHED"
  /\ end = "CANCELLED" <=> place = "CANCELLED"
  /\ outcome' = end
  /\ UNCHANGED <<place, plan, versions>>

Next ==
  \/ \E h \in Hash, risky \in BOOLEAN : Propose(h, risky)
  \/ Approve \/ RefuseDraft \/ Reject \/ Cancel
  \/ Commit \/ Publish
  \/ \E end \in {"SUCCEEDED", "FAILED", "CANCELLED"} : Tell(end)

Spec == Init /\ [][Next]_vars

-----------------------------------------------------------------------------
(* What follows for the reviewer, the readers and the owner.               *)

\* At most one version is committed, it is the plan, and a risky one was
\* reviewed.
OnlyThePlan ==
  versions # {} => /\ versions = {plan.hash}
                   /\ plan.hash \in Hash
                   /\ plan.risky => plan.reviewed

\* The owner is told of a success only when the version is there and published,
\* and of a cancellation or after a rejection only when there is none.
OwnerIsTold ==
  /\ outcome = "SUCCEEDED" => versions # {} /\ place = "PUBLISHED"
  /\ outcome = "CANCELLED" => versions = {} /\ place = "CANCELLED"
  /\ place = "REJECTED" => versions = {} /\ outcome \in {"none", "FAILED"}
  /\ place = "CANCELLED" => versions = {} /\ outcome \in {"none", "CANCELLED"}

\* The plan stays as it is but for its review, which is not taken back; so do a
\* version, an end of the ingestion, and what its owner was told; and nothing is
\* published any more when the owner was told an end.
NothingIsRevised ==
  [][/\ plan.hash \in Hash => /\ plan'.hash = plan.hash
                              /\ plan'.risky = plan.risky
                              /\ plan.reviewed => plan'.reviewed
     /\ versions \subseteq versions'
     /\ place \in {"PUBLISHED", "REJECTED", "CANCELLED"} => place' = place
     /\ outcome # "none" =>
          outcome' = outcome /\ (place' = "PUBLISHED" => place = "PUBLISHED")]_vars

Promises == []OnlyThePlan /\ []OwnerIsTold /\ NothingIsRevised
=============================================================================
