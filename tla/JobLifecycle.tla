---------------------------- MODULE JobLifecycle ----------------------------
(***************************************************************************)
(* What the job queue promises to those who submit work and wait for its   *)
(* result: no clocks, leases, row versions or rows.  A task is worked on   *)
(* by at most one worker at a time and at most MaxAttempts times; it is    *)
(* queued again only for another attempt or after it was parked for a      *)
(* decision; whoever asks a held task to stop gets it cancelled, whatever  *)
(* its worker thinks of it; and a result never changes.                    *)
(***************************************************************************)
EXTENDS Naturals

CONSTANTS Job, Worker, NoWorker, MaxAttempts

VARIABLE task

Task ==
  [phase : {"new", "queued", "held", "parked", "done"},
   holder : Worker \cup {NoWorker},
   attempts : Nat,
   stopping : BOOLEAN,
   result : {"none", "SUCCEEDED", "FAILED", "CANCELLED"}]

Fresh == [phase |-> "new", holder |-> NoWorker, attempts |-> 0,
          stopping |-> FALSE, result |-> "none"]

Enqueue(old, new) ==
  /\ old.phase = "new"
  /\ new = [old EXCEPT !.phase = "queued"]

Take(old, new) ==
  /\ old.phase = "queued"
  /\ old.attempts < MaxAttempts
  /\ \E w \in Worker : new = [old EXCEPT !.phase = "held", !.holder = w,
                                         !.attempts = @ + 1]

AskToStop(old, new) ==
  /\ old.phase = "held"
  /\ new = [old EXCEPT !.stopping = TRUE]

Retry(old, new) ==
  /\ old.phase = "held"
  /\ ~old.stopping
  /\ old.attempts < MaxAttempts
  /\ new = [old EXCEPT !.phase = "queued", !.holder = NoWorker]

Park(old, new) ==
  /\ old.phase = "held"
  /\ ~old.stopping
  /\ new = [old EXCEPT !.phase = "parked", !.holder = NoWorker]

Wake(old, new) ==
  /\ old.phase = "parked"
  /\ new = [old EXCEPT !.phase = "queued"]

\* A task that nobody holds may be cancelled or given up; only its worker
\* makes it succeed.
Finish(old, new) ==
  /\ old.phase /= "done"
  /\ \E r \in {"SUCCEEDED", "FAILED", "CANCELLED"} :
       /\ r = "SUCCEEDED" => old.phase = "held"
       /\ old.stopping \/ old.phase = "new" => r = "CANCELLED"
       /\ new = [old EXCEPT !.phase = "done", !.holder = NoWorker,
                            !.stopping = FALSE, !.result = r]

Step(old, new) ==
  \/ Enqueue(old, new)
  \/ Take(old, new)
  \/ AskToStop(old, new)
  \/ Retry(old, new)
  \/ Park(old, new)
  \/ Wake(old, new)
  \/ Finish(old, new)

\* A task is new, or already queued when the history begins.
Init == task \in [Job -> {Fresh, [Fresh EXCEPT !.phase = "queued"]}]

\* Tasks move on independently, several in one step when a batch is taken.
Next ==
  /\ DOMAIN task' = Job
  /\ \A j \in Job : task'[j] = task[j] \/ Step(task[j], task'[j])

Spec == Init /\ [][Next]_task

-----------------------------------------------------------------------------
(* What follows for those who wait.                                        *)

\* A task is worked on at most MaxAttempts times.
WithinBudget == \A j \in Job : task[j].attempts <= MaxAttempts

\* A result never changes, and a task that has one is left alone.
ResultStands == [][\A j \in Job : task[j].result /= "none" => task'[j] = task[j]]_task

\* A task that was asked to stop does nothing but end, cancelled.
StopIsObeyed ==
  [][\A j \in Job : task[j].stopping
       => task'[j] = task[j] \/ task'[j].result = "CANCELLED"]_task

\* Success comes from a worker that nobody asked to stop.
SuccessIsEarned ==
  [][\A j \in Job :
       task'[j].result = "SUCCEEDED"
         => \/ task[j].result = "SUCCEEDED"
            \/ task[j].phase = "held" /\ ~task[j].stopping]_task

Promises == []WithinBudget /\ ResultStands /\ StopIsObeyed /\ SuccessIsEarned
=============================================================================
