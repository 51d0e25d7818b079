-------------------------- MODULE ProjectionOutbox --------------------------
(***************************************************************************)
(* The way of a committed data version into the completion stores: the     *)
(* outbox, the ledger of each target in service.projection_status, the     *)
(* checkpoint of each consumer name, the publication, and the processes    *)
(* that run ProjectionOutboxConsumer behind PublishingProjectionRepository.*)
(*                                                                         *)
(* An event of type data.version.committed is known by its                 *)
(* outbox_event_id, and with it its version, session and operation.  Ids   *)
(* come from an identity column: they are drawn in order, but a            *)
(* transaction commits, or rolls back, later than it draws.                *)
(*                                                                         *)
(* A process derives the name of its consumer from its embedding profile.  *)
(* The vectors of a profile have a collection of their own; every other    *)
(* target is one store that all profiles share.                            *)
(***************************************************************************)
EXTENDS Integers, FiniteSets

CONSTANTS
  Kind,          \* the completion targets
  ReplayedKind,  \* replaySucceededKinds: WEAVIATE
  Profile,       \* embedding profiles, one consumer name each
  Consumer,      \* the processes
  BatchLimit,    \* projectionBatchLimit
  MaxEvent,      \* bound of the model on the ids drawn
  MaxOpen,       \* bound of the model on commits under way at a time
  MaxFaults      \* bound of the model on crashes, refused and lost calls

ASSUME OutboxAssumption ==
  /\ ReplayedKind \subseteq Kind
  /\ BatchLimit \in Nat \ {0}
  /\ MaxEvent \in Nat
  /\ MaxOpen \in Nat
  /\ MaxFaults \in Nat

VARIABLES
  drawn,       \* the last id drawn
  open,        \* ids drawn by transactions that have not ended
  visible,     \* ids of the rows that others can read
  overtaken,   \* those that became visible after a higher one did (history)
  session,     \* session[e]: its state, COMMITTED once e is visible
  operation,   \* operation[e]: its status
  ledger,      \* ledger[e][k]: the row of service.projection_status
  holds,       \* holds[k][p]: the events in the store of k that p reads
  checkpoint,  \* checkpoint[p]: last_outbox_event_id of its consumer name
  lastError,   \* lastError[p]: last_error is PUBLICATION_OPERATION_TERMINAL
  proc,        \* proc[c]: what process c is doing
  faults       \* what went wrong so far

outboxVars == <<drawn, open, visible, overtaken>>
authorityVars == <<session, operation>>
storeVars == <<ledger, holds>>
checkpointVars == <<checkpoint, lastError>>
vars == <<drawn, open, visible, overtaken, session, operation, ledger, holds,
          checkpoint, lastError, proc, faults>>

Event == 1 .. MaxEvent

\* The row of a name's checkpoint is inserted by its first read.
NoCheckpoint == -1

TargetStep == {"none", "mark", "project", "succeed", "fail", "done", "failed"}

Process ==
  [profile : Profile,
   at : {"read", "prepare", "project", "publish", "advance"},
   batch : SUBSET Event,          \* what is left of the batch it read
   target : [Kind -> TargetStep],
   poison : BOOLEAN]              \* publish returned TERMINAL_OPERATION

NoTarget == [k \in Kind |-> "none"]

Fresh(p) == [profile |-> p, at |-> "read", batch |-> {}, target |-> NoTarget,
             poison |-> FALSE]

TypeOK ==
  /\ drawn \in 0 .. MaxEvent
  /\ open \subseteq Event
  /\ visible \subseteq Event
  /\ overtaken \subseteq visible
  /\ session \in [Event -> {"APPROVED", "COMMITTED", "PUBLISHED"}]
  /\ operation \in [Event -> {"RUNNING", "SUCCEEDED", "FAILED"}]
  /\ ledger \in [Event -> [Kind -> {"NONE", "PENDING", "RUNNING", "FAILED",
                                    "SUCCEEDED"}]]
  /\ holds \in [Kind -> [Profile -> SUBSET Event]]
  /\ checkpoint \in [Profile -> {NoCheckpoint} \cup 0 .. MaxEvent]
  /\ lastError \in [Profile -> BOOLEAN]
  /\ proc \in [Consumer -> Process]
  /\ faults \in 0 .. MaxFaults

Faulty == faults < MaxFaults /\ faults' = faults + 1

-----------------------------------------------------------------------------
(* The transactions that commit versions, and the jobs behind them.        *)

\* A commit inserts its outbox row.
CommitDrawsId ==
  /\ drawn < MaxEvent
  /\ Cardinality(open) < MaxOpen
  /\ drawn' = drawn + 1
  /\ open' = open \cup {drawn + 1}
  /\ UNCHANGED <<visible, overtaken, authorityVars, storeVars, checkpointVars,
                 proc, faults>>

CommitEnds(e) ==
  /\ e \in open
  /\ open' = open \ {e}
  /\ visible' = visible \cup {e}
  /\ overtaken' = IF \E f \in visible : f > e THEN overtaken \cup {e} ELSE overtaken
  /\ session' = [session EXCEPT ![e] = "COMMITTED"]
  /\ UNCHANGED <<drawn, operation, storeVars, checkpointVars, proc, faults>>

\* The id is lost; another attempt draws a new one.
CommitRollsBack(e) ==
  /\ e \in open
  /\ open' = open \ {e}
  /\ UNCHANGED <<drawn, visible, overtaken, authorityVars, storeVars,
                 checkpointVars, proc, faults>>

\* The handler that waits for the publication gives up for good.
OperationFails(e) ==
  /\ e \in visible
  /\ operation[e] = "RUNNING"
  /\ operation' = [operation EXCEPT ![e] = "FAILED"]
  /\ UNCHANGED <<outboxVars, session, storeVars, checkpointVars, proc, faults>>

\* It sees the version published, and its job is settled.
OperationSucceeds(e) ==
  /\ session[e] = "PUBLISHED"
  /\ operation[e] = "RUNNING"
  /\ operation' = [operation EXCEPT ![e] = "SUCCEEDED"]
  /\ UNCHANGED <<outboxVars, session, storeVars, checkpointVars, proc, faults>>

-----------------------------------------------------------------------------
(* processBatch.                                                           *)

\* The event a process works on: the first that is left of its batch.
IsHead(c, e) == e \in proc[c].batch /\ \A f \in proc[c].batch : e <= f

After(p) == {e \in visible : e > checkpoint[p]}

\* The first BatchLimit of a set of ids.
Limited(S) == {e \in S : Cardinality({f \in S : f < e}) < BatchLimit}

\* readBatch: the read that seeds the checkpoint of a new name does not see it
\* yet and returns nothing.
ReadBatch(c) ==
  LET p == proc[c].profile
      batch == IF checkpoint[p] = NoCheckpoint THEN {} ELSE Limited(After(p))
  IN  /\ proc[c].at = "read"
      /\ checkpoint' = [checkpoint EXCEPT ![p] = IF @ = NoCheckpoint THEN 0 ELSE @]
      /\ proc' = [proc EXCEPT ![c].at = IF batch = {} THEN "read" ELSE "prepare",
                              ![c].batch = batch]
      /\ UNCHANGED <<outboxVars, authorityVars, storeVars, lastError, faults>>

\* Mutant: the shared ledger decides for every profile.
SkipsByLedger(e, k) == ledger[e][k] = "SUCCEEDED"

\* A target is skipped when its ledger says so, unless only the checkpoint of
\* the profile can tell.
Skips(e, k) == ledger[e][k] = "SUCCEEDED" /\ k \notin ReplayedKind

\* prepare: the missing rows of the ledger, and what is left to do.
Prepare(c, e) ==
  /\ proc[c].at = "prepare"
  /\ IsHead(c, e)
  /\ ledger' = [ledger EXCEPT ![e] =
                  [k \in Kind |-> IF @[k] = "NONE" THEN "PENDING" ELSE @[k]]]
  /\ proc' = [proc EXCEPT ![c].at = "project",
                          ![c].target = [k \in Kind |-> IF Skips(e, k) THEN "done"
                                                                      ELSE "mark"]]
  /\ UNCHANGED <<outboxVars, authorityVars, holds, checkpointVars, faults>>

\* Target k of process c, which works on event e, is at step s.
TargetAt(c, e, k, s) ==
  /\ proc[c].at = "project"
  /\ IsHead(c, e)
  /\ proc[c].target[k] = s

TargetTo(c, k, s) == proc' = [proc EXCEPT ![c].target[k] = s]

\* Mutant: a row that another consumer completed is overwritten.
LedgerOverwritten(e, k, status) == [ledger EXCEPT ![e][k] = status]

\* A row that is not a success yet gets a new status.
LedgerUnlessSucceeded(e, k, status) ==
  [ledger EXCEPT ![e][k] = IF @ = "SUCCEEDED" THEN @ ELSE status]

MarkRunning(c, e, k) ==
  /\ TargetAt(c, e, k, "mark")
  /\ ledger' = LedgerUnlessSucceeded(e, k, "RUNNING")
  /\ TargetTo(c, k, "project")
  /\ UNCHANGED <<outboxVars, authorityVars, holds, checkpointVars, faults>>

\* The external write; it is idempotent.
Project(c, e, k) ==
  /\ TargetAt(c, e, k, "project")
  /\ holds' = [holds EXCEPT ![k] =
       [p \in Profile |-> IF p = proc[c].profile \/ k \notin ReplayedKind
                            THEN @[p] \cup {e} ELSE @[p]]]
  /\ TargetTo(c, k, "succeed")
  /\ UNCHANGED <<outboxVars, authorityVars, ledger, checkpointVars, faults>>

MarkSucceeded(c, e, k) ==
  /\ TargetAt(c, e, k, "succeed")
  /\ ledger' = [ledger EXCEPT ![e][k] = "SUCCEEDED"]
  /\ TargetTo(c, k, "done")
  /\ UNCHANGED <<outboxVars, authorityVars, holds, checkpointVars, faults>>

\* One of the three calls throws; markSucceeded perhaps after its commit.
TargetThrows(c, e, k) ==
  /\ Faulty
  /\ \/ /\ TargetAt(c, e, k, "mark") \/ TargetAt(c, e, k, "project")
        /\ UNCHANGED ledger
     \/ /\ TargetAt(c, e, k, "succeed")
        /\ ledger' \in {ledger, [ledger EXCEPT ![e][k] = "SUCCEEDED"]}
  /\ TargetTo(c, k, "fail")
  /\ UNCHANGED <<outboxVars, authorityVars, holds, checkpointVars>>

\* The failure is recorded, or that fails too and is let go.
MarkFailed(c, e, k) ==
  /\ TargetAt(c, e, k, "fail")
  /\ \/ ledger' = LedgerUnlessSucceeded(e, k, "FAILED") /\ UNCHANGED faults
     \/ Faulty /\ UNCHANGED ledger
  /\ TargetTo(c, k, "failed")
  /\ UNCHANGED <<outboxVars, authorityVars, holds, checkpointVars>>

\* Promise.all is over without a failure.
TargetsDone(c) ==
  /\ proc[c].at = "project"
  /\ \A k \in Kind : proc[c].target[k] = "done"
  /\ proc' = [proc EXCEPT ![c].at = "publish", ![c].target = NoTarget]
  /\ UNCHANGED <<outboxVars, authorityVars, storeVars, checkpointVars, faults>>

\* ProjectionBatchError: the rest of the batch is dropped and read again.
BatchFails(c) ==
  /\ proc[c].at = "project"
  /\ \A k \in Kind : proc[c].target[k] \in {"done", "failed"}
  /\ \E k \in Kind : proc[c].target[k] = "failed"
  /\ proc' = [proc EXCEPT ![c] = Fresh(@.profile)]
  /\ UNCHANGED <<outboxVars, authorityVars, storeVars, checkpointVars, faults>>

\* Mutant: an event of a failed operation is refused.
PublishableOnlyRunning(e) ==
  /\ \A k \in Kind : ledger[e][k] = "SUCCEEDED"
  /\ session[e] = "PUBLISHED" \/ operation[e] = "RUNNING"

\* The gate of publish; otherwise it throws.
Publishable(e) ==
  /\ \A k \in Kind : ledger[e][k] = "SUCCEEDED"
  /\ session[e] = "PUBLISHED" \/ operation[e] \in {"RUNNING", "FAILED"}

\* The version must not be published any more.
IsPoison(e) == session[e] = "COMMITTED" /\ operation[e] = "FAILED"

\* publish: COMMITTED, PROJECTING and PUBLISHED in one transaction.
Publish(c, e) ==
  /\ proc[c].at = "publish"
  /\ IsHead(c, e)
  /\ Publishable(e)
  /\ session' = [session EXCEPT ![e] = IF IsPoison(e) THEN @ ELSE "PUBLISHED"]
  /\ proc' = [proc EXCEPT ![c].at = "advance", ![c].poison = IsPoison(e)]
  /\ UNCHANGED <<outboxVars, operation, storeVars, checkpointVars, faults>>

\* The gate is closed, or the transaction breaks; the batch is dropped.
PublishThrows(c, e) ==
  /\ proc[c].at = "publish"
  /\ IsHead(c, e)
  /\ IF Publishable(e) THEN Faulty ELSE UNCHANGED faults
  /\ proc' = [proc EXCEPT ![c] = Fresh(@.profile)]
  /\ UNCHANGED <<outboxVars, authorityVars, storeVars, checkpointVars>>

\* Mutant: the last writer decides.
CheckpointOfWriter(p, e) == e

\* greatest(last_outbox_event_id, excluded.last_outbox_event_id)
AdvancedCheckpoint(p, e) == IF e > checkpoint[p] THEN e ELSE checkpoint[p]

\* Mutant: the summary is not cleared by a later success.
KeptError(p, e, poison) == lastError[p] \/ poison

\* last_error goes with the event that moves the checkpoint.
AdvancedError(p, e, poison) == IF e > checkpoint[p] THEN poison ELSE lastError[p]

\* advanceCheckpoint, and on to the next event of the batch.
Advance(c, e) ==
  LET p == proc[c].profile
      rest == proc[c].batch \ {e}
  IN  /\ proc[c].at = "advance"
      /\ IsHead(c, e)
      /\ checkpoint' = [checkpoint EXCEPT ![p] = AdvancedCheckpoint(p, e)]
      /\ lastError' = [lastError EXCEPT ![p] = AdvancedError(p, e, proc[c].poison)]
      /\ proc' = [proc EXCEPT ![c] =
                    [Fresh(p) EXCEPT !.batch = rest,
                                     !.at = IF rest = {} THEN "read" ELSE "prepare"]]
      /\ UNCHANGED <<outboxVars, authorityVars, storeVars, faults>>

\* A call to the database throws out of processBatch, or the process dies and
\* is started again, perhaps with another profile.
Crash(c, p) ==
  /\ Faulty
  /\ proc[c] /= Fresh(p)
  /\ proc' = [proc EXCEPT ![c] = Fresh(p)]
  /\ UNCHANGED <<outboxVars, authorityVars, storeVars, checkpointVars>>

-----------------------------------------------------------------------------
Init ==
  /\ drawn = 0
  /\ open = {}
  /\ visible = {}
  /\ overtaken = {}
  /\ session = [e \in Event |-> "APPROVED"]
  /\ operation = [e \in Event |-> "RUNNING"]
  /\ ledger = [e \in Event |-> [k \in Kind |-> "NONE"]]
  /\ holds = [k \in Kind |-> [p \in Profile |-> {}]]
  /\ checkpoint = [p \in Profile |-> NoCheckpoint]
  /\ lastError = [p \in Profile |-> FALSE]
  /\ proc \in [Consumer -> {Fresh(p) : p \in Profile}]
  /\ faults = 0

CommitStep(e) == CommitEnds(e) \/ CommitRollsBack(e)

TargetProceeds(c, e, k) ==
  MarkRunning(c, e, k) \/ Project(c, e, k) \/ MarkSucceeded(c, e, k)
    \/ MarkFailed(c, e, k)

ConsumerStep(c) ==
  \/ ReadBatch(c)
  \/ TargetsDone(c)
  \/ BatchFails(c)
  \/ \E e \in Event :
       \/ Prepare(c, e)
       \/ \E k \in Kind : TargetProceeds(c, e, k)
       \/ Publish(c, e)
       \/ PublishThrows(c, e)
       \/ Advance(c, e)

FaultStep(c) ==
  \/ \E e \in Event, k \in Kind : TargetThrows(c, e, k)
  \/ \E p \in Profile : Crash(c, p)

Next ==
  \/ CommitDrawsId
  \/ \E e \in Event : CommitStep(e) \/ OperationFails(e) \/ OperationSucceeds(e)
  \/ \E c \in Consumer : ConsumerStep(c) \/ FaultStep(c)

Spec == Init /\ [][Next]_vars

\* Transactions end, the loop of every process goes on, and calls return.
Fairness ==
  /\ \A e \in Event : WF_vars(CommitStep(e))
  /\ \A c \in Consumer : WF_vars(ConsumerStep(c))

FairSpec == Spec /\ Fairness

-----------------------------------------------------------------------------
(* Properties.                                                             *)

Over(e) == session[e] = "PUBLISHED" \/ operation[e] = "FAILED"

\* Every target of profile p has event e.
HeldFor(p, e) == \A k \in Kind : e \in holds[k][p]

\* What is published can be found: every ledger of a published version says
\* SUCCEEDED, every shared store holds it and some profile's collection does,
\* although marks, writes and failures of several processes interleave.
PublishedIsComplete ==
  \A e \in Event :
    session[e] = "PUBLISHED"
      => /\ \A k \in Kind : ledger[e][k] = "SUCCEEDED"
         /\ \E p \in Profile : HeldFor(p, e)

\* A checkpoint proves that a profile is complete: every event it has passed
\* is in every store the profile reads, and published or given up.  An event
\* that became visible after a higher one is not counted.
CheckpointCovers ==
  \A p \in Profile, e \in visible \ overtaken :
    e <= checkpoint[p] => HeldFor(p, e) /\ Over(e)

\* The error summary of a checkpoint is about the event it stands at.
ErrorIsOfCheckpoint ==
  \A p \in Profile :
    checkpoint[p] > 0 => (lastError[p] <=> session[checkpoint[p]] /= "PUBLISHED")

\* A checkpoint never goes back, whichever of two processes of one name writes
\* it last.
CheckpointMonotone ==
  [][\A p \in Profile : checkpoint'[p] >= checkpoint[p]]_vars

\* No event is stuck behind a poison one, a failed target or a crash: every
\* process gets past every event of the outbox.
EventIsPassed ==
  \A e \in Event :
    e \in visible ~> \A c \in Consumer : checkpoint[proc[c].profile] >= e

\* An event after a checkpoint is read: the checkpoint of a profile passes no
\* event whose row is there, or still to come, without projecting it.
NothingIsSkipped ==
  \A p \in Profile, e \in visible : e <= checkpoint[p] => HeldFor(p, e)
=============================================================================
