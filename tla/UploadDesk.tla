----------------------------- MODULE UploadDesk -----------------------------
(***************************************************************************)
(* What callers of the upload commands may rely on: no attempts, locks,    *)
(* grants or faults.  A command under an idempotency key takes effect at   *)
(* one moment or never; what it did is in "done" from then on.             *)
(***************************************************************************)
CONSTANTS Key, Session, NoSession, Part

VARIABLES done,    \* what was done under each key
          status,  \* of every session
          taken,   \* the ingestions that have the session's assets
          stored   \* the objects that are there, of the sessions that are

vars == <<done, status, taken, stored>>

Undone == [kind |-> "none", session |-> NoSession]
IsDone(k, kind, s) == done[k] = [kind |-> kind, session |-> s]

Init ==
  /\ done = [k \in Key |-> Undone]
  /\ status = [s \in Session |-> "none"]
  /\ taken = [s \in Session |-> {}]
  /\ stored = {}

\* A command of a kind takes its session from one status to another.
Moves(k, kind, s, from, to) ==
  /\ done[k] = Undone
  /\ status[s] = from
  /\ done' = [done EXCEPT ![k] = [kind |-> kind, session |-> s]]
  /\ status' = [status EXCEPT ![s] = to]
  /\ UNCHANGED stored

Create(k, s) == Moves(k, "create", s, "none", "WAITING_INPUT") /\ UNCHANGED taken

Complete(k, s) ==
  /\ \A p \in Part : <<s, p>> \in stored
  /\ Moves(k, "complete", s, "WAITING_INPUT", "SUCCEEDED")
  /\ UNCHANGED taken

Cancel(k, s) == Moves(k, "cancel", s, "WAITING_INPUT", "CANCELLED") /\ UNCHANGED taken

Ingest(k, s) ==
  /\ taken[s] = {}
  /\ Moves(k, "ingest", s, "SUCCEEDED", "SUCCEEDED")
  /\ taken' = [taken EXCEPT ![s] = {k}]

\* An object of a session that exists arrives, and never goes.
Store(s, p) ==
  /\ status[s] # "none"
  /\ stored' = stored \cup {<<s, p>>}
  /\ UNCHANGED <<done, status, taken>>

Next ==
  \E s \in Session :
    \/ \E k \in Key : Create(k, s) \/ Complete(k, s) \/ Cancel(k, s) \/ Ingest(k, s)
    \/ \E p \in Part : Store(s, p)

Spec == Init /\ [][Next]_vars

-----------------------------------------------------------------------------
(* What follows for callers.                                               *)

\* No two keys did the same: one session comes of one creation, is completed or
\* cancelled once, and its assets go into one ingestion.
NothingTwice ==
  \A j, k \in Key : done[j] = done[k] /\ done[k] # Undone => j = k

\* A session that somebody completed is never said to be cancelled.
NeverBoth ==
  \A j, k \in Key, s \in Session : ~(IsDone(j, "complete", s) /\ IsDone(k, "cancel", s))

\* An ingestion is of a session that was completed, and has all its objects.
IngestsWhatIsThere ==
  \A k \in Key, s \in Session : IsDone(k, "ingest", s) =>
    /\ \E j \in Key : IsDone(j, "complete", s)
    /\ \A p \in Part : <<s, p>> \in stored

\* What was done under a key stays done, and what was stored stays.
DoneStands ==
  [][/\ \A k \in Key : done[k] # Undone => done'[k] = done[k]
     /\ stored \subseteq stored']_vars

Promises == []NothingTwice /\ []NeverBoth /\ []IngestsWhatIsThere /\ DoneStands
=============================================================================
