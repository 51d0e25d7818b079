----------------------------- MODULE MCJournal ------------------------------
(***************************************************************************)
(* Instances of the command journal.                                       *)
(***************************************************************************)
EXTENDS Journal, TLC

CONSTANTS p1, p2, sync, claim, begin, endorse

BothProcesses == {p1, p2}
\* A sync that issues a task and a plan, the claim of the task, the command that
\* uses the lease of the claim, and the endorsement of the plan.
Commands == {sync, claim, begin, endorse}

BeginNeedsClaim == [r \in Commands |-> IF r = begin THEN claim ELSE NoRequest]
LeaseRunsOut ==
  [r \in Commands |-> IF r = begin THEN {"inTime", "late"} ELSE {"inTime"}]

\* Before the sync nothing may be claimed or endorsed, after the lease has run
\* out nothing be begun.
CommandAdmits(m, r, time) ==
  \/ r = sync
  \/ r = claim /\ Succeeded(m, sync) # {}
  \/ r = begin /\ Succeeded(m, claim) # {} /\ time = "inTime"

\* The barrier of the plan has been released: the endorsement is stored, and
\* then refused; a second one is refused at once.
EndorsementBreaks(m, r, time) ==
  /\ r = endorse
  /\ Succeeded(m, sync) # {}
  /\ \A e \in m : e.request # endorse
=============================================================================
