----------------------- MODULE ProjectionOutbox_proofs -----------------------
(***************************************************************************)
(* Proofs about the projection outbox.                                     *)
(*                                                                         *)
(* What a process may rely on is a statement about its own record and the  *)
(* shared tables, GoodProcess.  The tables only ever improve: rows appear  *)
(* behind no batch that is not told of them, stores and successes stay, a  *)
(* checkpoint moves forward.  Grows says so of a step, and GoodKept that   *)
(* it is all that a process at rest needs.  An action then has to show     *)
(* that the tables grow, that they stay sound, and that its own process    *)
(* goes on well.                                                           *)
(***************************************************************************)
EXTENDS ProjectionOutbox, FiniteSetTheorems, TLAPS

\* Event e is the first that is left of the batch of process record x.
HeadOf(x, e) == e \in x.batch /\ \A f \in x.batch : e <= f

\* What comes before an event of the batch is in the batch too, or passed.
InOrder(x) ==
  \A e \in x.batch, f \in visible \ overtaken :
    f < e => f \in x.batch \/ f <= checkpoint[x.profile]

TargetsTrue(x) ==
  x.at = "project" =>
    \A e \in Event, k \in Kind :
      HeadOf(x, e) /\ x.target[k] \in {"succeed", "done"}
        => e \in holds[k][x.profile]

Projected(x) ==
  x.at \in {"publish", "advance"} =>
    \A e \in Event : HeadOf(x, e) => HeldFor(x.profile, e)

GivenUp(e) == session[e] = "COMMITTED" /\ operation[e] = "FAILED"

Judged(x) ==
  x.at = "advance" =>
    \A e \in Event : HeadOf(x, e) =>
      IF x.poison THEN GivenUp(e) ELSE session[e] = "PUBLISHED"

GoodProcess(x) ==
  /\ x.batch \subseteq visible
  /\ InOrder(x)
  /\ TargetsTrue(x)
  /\ Projected(x)
  /\ Judged(x)

GoodIds ==
  /\ open \cup visible \subseteq 1 .. drawn
  /\ open \cap visible = {}
  /\ \A e \in Event : e \in visible <=> session[e] # "APPROVED"

\* A store that all profiles share is one store, and holds what its ledgers
\* call a success.
GoodStores ==
  \A k \in Kind \ ReplayedKind :
    /\ \A p, q \in Profile : holds[k][p] = holds[k][q]
    /\ \A e \in Event, p \in Profile :
         ledger[e][k] = "SUCCEEDED" => e \in holds[k][p]

GoodCheckpoints ==
  \A p \in Profile :
    checkpoint[p] > 0 => checkpoint[p] \in visible /\ Over(checkpoint[p])

Tables ==
  /\ GoodIds
  /\ GoodStores
  /\ GoodCheckpoints
  /\ PublishedIsComplete
  /\ CheckpointCovers
  /\ ErrorIsOfCheckpoint

Processes == \A c \in Consumer : \A x \in Process : proc[c] = x => GoodProcess(x)

Inv ==
  /\ TypeOK
  /\ Tables
  /\ Processes

\* What a step may do to the tables.
Grows ==
  /\ visible \subseteq visible'
  /\ \A f \in visible' \ overtaken' :
       f \in visible \ overtaken \/ \A g \in visible : g < f
  /\ \A p \in Profile : checkpoint[p] <= checkpoint'[p]
  /\ \A k \in Kind, p \in Profile : holds[k][p] \subseteq holds'[k][p]
  /\ \A e \in Event : session[e] = "PUBLISHED" => session'[e] = "PUBLISHED"
  /\ \A e \in Event : operation[e] = "FAILED" => operation'[e] = "FAILED"
  /\ \A e \in Event : GivenUp(e) => GivenUp(e)'
-----------------------------------------------------------------------------
(* Processes.                                                              *)

\* The fields of a process record.
LEMMA ProcessFields ==
  ASSUME NEW x \in Process
  PROVE  /\ x.profile \in Profile
         /\ x.at \in {"read", "prepare", "project", "publish", "advance"}
         /\ x.batch \subseteq Event
         /\ x.target \in [Kind -> TargetStep]
         /\ x.poison \in BOOLEAN
BY DEF Process

\* A batch has one first event.
LEMMA OneHead ==
  ASSUME NEW x \in Process, NEW e, NEW f, HeadOf(x, e), HeadOf(x, f)
  PROVE  e = f
<1>1. e \in Event /\ f \in Event
  BY ProcessFields DEF HeadOf
<1>2. e <= f /\ f <= e
  BY DEF HeadOf
<1> QED BY <1>1, <1>2, OutboxAssumption DEF Event

\* A process that does nothing stays good in tables that grow.
LEMMA GoodKept ==
  ASSUME TypeOK, TypeOK', Grows, NEW x \in Process, GoodProcess(x)
  PROVE  GoodProcess(x)'
<1>1. /\ x.profile \in Profile
      /\ x.batch \subseteq Event
  BY ProcessFields
<1>2. x.batch \subseteq visible'
  BY DEF GoodProcess, Grows
<1>3. InOrder(x)'
  <2> SUFFICES ASSUME NEW e \in x.batch, NEW f \in visible' \ overtaken', f < e
               PROVE  f \in x.batch \/ f <= checkpoint'[x.profile]
    BY DEF InOrder
  <2>1. e \in Nat /\ f \in Nat /\ e \in visible
    BY <1>1, OutboxAssumption DEF TypeOK, Event, GoodProcess
  <2>2. f \in visible \ overtaken
    BY <2>1 DEF Grows
  <2>3. /\ checkpoint[x.profile] \in Int
        /\ checkpoint'[x.profile] \in Int
        /\ checkpoint[x.profile] <= checkpoint'[x.profile]
    BY <1>1, OutboxAssumption DEF TypeOK, NoCheckpoint, Grows
  <2> QED BY <2>1, <2>2, <2>3 DEF GoodProcess, InOrder
<1>4. TargetsTrue(x)'
  BY <1>1 DEF GoodProcess, TargetsTrue, Grows, HeadOf
<1>5. Projected(x)'
  BY <1>1 DEF GoodProcess, Projected, HeldFor, Grows, HeadOf
<1>6. Judged(x)'
  BY <1>1 DEF GoodProcess, Judged, Grows, HeadOf
<1> QED BY <1>2, <1>3, <1>4, <1>5, <1>6 DEF GoodProcess

LEMMA NoneMoves ==
  ASSUME Inv, TypeOK', Grows, proc' = proc
  PROVE  Processes'
<1> SUFFICES ASSUME NEW c \in Consumer, NEW x \in Process, proc[c] = x
             PROVE  GoodProcess(x)'
  BY DEF Processes
<1>1. GoodProcess(x)
  BY DEF Inv, Processes
<1> QED BY <1>1, GoodKept DEF Inv

LEMMA OneMoves ==
  ASSUME Inv, TypeOK', Grows,
         NEW c \in Consumer, NEW y \in Process, proc'[c] = y,
         \A d \in Consumer \ {c} : proc'[d] = proc[d],
         GoodProcess(y)'
  PROVE  Processes'
<1> SUFFICES ASSUME NEW d \in Consumer, NEW x \in Process, proc'[d] = x
             PROVE  GoodProcess(x)'
  BY DEF Processes
<1>1. CASE d = c
  BY <1>1
<1>2. CASE d # c
  <2>1. GoodProcess(x)
    BY <1>2 DEF Inv, Processes
  <2> QED BY <2>1, GoodKept DEF Inv
<1> QED BY <1>1, <1>2

\* A process between two batches relies on nothing.
LEMMA IdleIsGood ==
  ASSUME NEW y \in Process, y.batch = {}
  PROVE  GoodProcess(y) /\ GoodProcess(y)'
BY DEF GoodProcess, InOrder, TargetsTrue, Projected, Judged, HeadOf

\* The record of a process, as a value.
LEMMA ProcessNow ==
  ASSUME Inv, NEW c \in Consumer
  PROVE  \E x \in Process : proc[c] = x /\ GoodProcess(x)
BY DEF Inv, Processes, TypeOK
-----------------------------------------------------------------------------
(* Tables.                                                                 *)

LEMMA CheckpointIsInt ==
  ASSUME TypeOK
  PROVE  \A p \in Profile : checkpoint[p] \in Int /\ checkpoint[p] <= checkpoint[p]
<1>1. \A p \in Profile : checkpoint[p] \in {NoCheckpoint} \cup 0 .. MaxEvent
  BY DEF TypeOK
<1>2. {NoCheckpoint} \cup 0 .. MaxEvent \subseteq Int
  BY OutboxAssumption DEF NoCheckpoint
<1>3. \A p \in Profile : checkpoint[p] \in Int
  BY <1>1, <1>2
<1> QED BY <1>3

\* Most steps make the tables grow in a way that is plain to see.
LEMMA PlainlyGrows ==
  ASSUME visible' = visible, overtaken' = overtaken,
         session' = session, operation' = operation,
         \A p \in Profile : checkpoint[p] <= checkpoint'[p],
         \A k \in Kind, p \in Profile : holds[k][p] \subseteq holds'[k][p]
  PROVE  Grows
BY DEF Grows, GivenUp

LEMMA TablesRest ==
  ASSUME Inv, UNCHANGED <<outboxVars, authorityVars, storeVars, checkpointVars>>
  PROVE  Tables' /\ Grows
<1>1. /\ drawn' = drawn /\ open' = open
      /\ visible' = visible /\ overtaken' = overtaken
      /\ session' = session /\ operation' = operation
      /\ ledger' = ledger /\ holds' = holds
      /\ checkpoint' = checkpoint /\ lastError' = lastError
  BY DEF outboxVars, authorityVars, storeVars, checkpointVars
<1>2. Tables'
  BY <1>1 DEF Inv, Tables, GoodIds, GoodStores, GoodCheckpoints, Over, HeldFor,
              PublishedIsComplete, CheckpointCovers, ErrorIsOfCheckpoint
<1>3. \A p \in Profile : checkpoint[p] <= checkpoint[p]
  BY CheckpointIsInt DEF Inv
<1> QED BY <1>1, <1>2, <1>3 DEF Grows, GivenUp

\* A ledger may forget no success, and learn one only of what is held.
LEMMA TablesOfLedger ==
  ASSUME Inv, UNCHANGED <<outboxVars, authorityVars, holds, checkpointVars>>,
         \A e \in Event, k \in Kind :
           /\ ledger[e][k] = "SUCCEEDED" => ledger'[e][k] = "SUCCEEDED"
           /\ ledger'[e][k] = "SUCCEEDED" /\ k \notin ReplayedKind
                => \A p \in Profile : e \in holds[k][p]
  PROVE  Tables' /\ Grows
<1>1. /\ drawn' = drawn /\ open' = open
      /\ visible' = visible /\ overtaken' = overtaken
      /\ session' = session /\ operation' = operation
      /\ holds' = holds
      /\ checkpoint' = checkpoint /\ lastError' = lastError
  BY DEF outboxVars, authorityVars, checkpointVars
<1>2. GoodIds' /\ GoodCheckpoints' /\ CheckpointCovers' /\ ErrorIsOfCheckpoint'
  BY <1>1 DEF Inv, Tables, GoodIds, GoodCheckpoints, Over, HeldFor,
              CheckpointCovers, ErrorIsOfCheckpoint
<1>3. GoodStores'
  BY <1>1 DEF Inv, Tables, GoodStores
<1>4. PublishedIsComplete'
  BY <1>1 DEF Inv, Tables, PublishedIsComplete, HeldFor
<1>5. \A p \in Profile : checkpoint[p] <= checkpoint[p]
  BY CheckpointIsInt DEF Inv
<1> QED BY <1>1, <1>2, <1>3, <1>4, <1>5 DEF Tables, Grows, GivenUp
-----------------------------------------------------------------------------
(* Transactions and operations.                                            *)

LEMMA InitInv == Init => Inv
<1> SUFFICES ASSUME Init PROVE Inv
  OBVIOUS
<1>1. \A p \in Profile : Fresh(p) \in Process
  BY DEF Fresh, Process, NoTarget, TargetStep
<1>2. TypeOK
  <2>1. proc \in [Consumer -> Process]
    BY <1>1 DEF Init
  <2> QED BY <2>1, OutboxAssumption DEF Init, TypeOK, NoCheckpoint
<1>3. Tables
  BY OutboxAssumption
  DEF Init, Tables, GoodIds, GoodStores, GoodCheckpoints, PublishedIsComplete,
      CheckpointCovers, ErrorIsOfCheckpoint, NoCheckpoint, Event
<1>4. Processes
  <2> SUFFICES ASSUME NEW c \in Consumer, NEW x \in Process, proc[c] = x
               PROVE  GoodProcess(x)
    BY DEF Processes
  <2>1. x.batch = {}
    BY DEF Init, Fresh
  <2> QED BY <2>1, IdleIsGood
<1> QED BY <1>2, <1>3, <1>4 DEF Inv

LEMMA CommitDrawsIdInv ==
  ASSUME Inv, CommitDrawsId
  PROVE  Inv'
<1>1. /\ drawn' = drawn + 1 /\ open' = open \cup {drawn + 1}
      /\ visible' = visible /\ overtaken' = overtaken
      /\ session' = session /\ operation' = operation
      /\ ledger' = ledger /\ holds' = holds
      /\ checkpoint' = checkpoint /\ lastError' = lastError
      /\ proc' = proc /\ faults' = faults /\ drawn < MaxEvent
  BY DEF CommitDrawsId, authorityVars, storeVars, checkpointVars
<1>2. TypeOK'
  BY <1>1, OutboxAssumption DEF Inv, TypeOK, Event
<1>3. GoodIds'
  BY <1>1, OutboxAssumption DEF Inv, TypeOK, Tables, GoodIds, Event
<1>4. /\ GoodStores' /\ GoodCheckpoints' /\ PublishedIsComplete'
      /\ CheckpointCovers' /\ ErrorIsOfCheckpoint'
  BY <1>1 DEF Inv, Tables, GoodStores, GoodCheckpoints, Over, HeldFor,
              PublishedIsComplete, CheckpointCovers, ErrorIsOfCheckpoint
<1>5. \A p \in Profile : checkpoint[p] <= checkpoint[p]
  BY CheckpointIsInt DEF Inv
<1>6. Grows
  BY <1>1, <1>5 DEF Grows, GivenUp
<1> QED BY <1>1, <1>2, <1>3, <1>4, <1>6, NoneMoves DEF Inv, Tables

LEMMA CommitRollsBackInv ==
  ASSUME Inv, NEW e \in Event, CommitRollsBack(e)
  PROVE  Inv'
<1>1. /\ drawn' = drawn /\ open' = open \ {e}
      /\ visible' = visible /\ overtaken' = overtaken
      /\ session' = session /\ operation' = operation
      /\ ledger' = ledger /\ holds' = holds
      /\ checkpoint' = checkpoint /\ lastError' = lastError
      /\ proc' = proc /\ faults' = faults
  BY DEF CommitRollsBack, authorityVars, storeVars, checkpointVars
<1>2. TypeOK'
  BY <1>1 DEF Inv, TypeOK
<1>3. GoodIds'
  BY <1>1 DEF Inv, Tables, GoodIds
<1>4. /\ GoodStores' /\ GoodCheckpoints' /\ PublishedIsComplete'
      /\ CheckpointCovers' /\ ErrorIsOfCheckpoint'
  BY <1>1 DEF Inv, Tables, GoodStores, GoodCheckpoints, Over, HeldFor,
              PublishedIsComplete, CheckpointCovers, ErrorIsOfCheckpoint
<1>5. \A p \in Profile : checkpoint[p] <= checkpoint[p]
  BY CheckpointIsInt DEF Inv
<1>6. Grows
  BY <1>1, <1>5 DEF Grows, GivenUp
<1> QED BY <1>1, <1>2, <1>3, <1>4, <1>6, NoneMoves DEF Inv, Tables

\* An id that becomes visible is above every checkpoint, or overtaken: a
\* checkpoint stands at an event that is visible already.
LEMMA CommitEndsInv ==
  ASSUME Inv, NEW e \in Event, CommitEnds(e)
  PROVE  Inv'
<1>1. /\ drawn' = drawn /\ open' = open \ {e}
      /\ visible' = visible \cup {e}
      /\ overtaken' = IF \E f \in visible : f > e THEN overtaken \cup {e}
                      ELSE overtaken
      /\ session' = [session EXCEPT ![e] = "COMMITTED"]
      /\ operation' = operation
      /\ ledger' = ledger /\ holds' = holds
      /\ checkpoint' = checkpoint /\ lastError' = lastError
      /\ proc' = proc /\ faults' = faults
      /\ e \in open
  BY DEF CommitEnds, storeVars, checkpointVars
<1>2. e \notin visible /\ session[e] = "APPROVED" /\ e \in 1 .. drawn
  BY <1>1 DEF Inv, Tables, GoodIds
<1>3. TypeOK'
  <2>1. session' \in [Event -> {"APPROVED", "COMMITTED", "PUBLISHED"}]
    BY <1>1 DEF Inv, TypeOK
  <2>2. overtaken' \subseteq visible' /\ visible' \subseteq Event
    BY <1>1 DEF Inv, TypeOK
  <2> QED BY <1>1, <2>1, <2>2 DEF Inv, TypeOK
<1>4. /\ \A f \in Event : f # e => session'[f] = session[f]
      /\ session'[e] = "COMMITTED"
  BY <1>1 DEF Inv, TypeOK
<1>5. GoodIds'
  <2>1. open' \cup visible' \subseteq 1 .. drawn' /\ open' \cap visible' = {}
    BY <1>1, <1>2 DEF Inv, Tables, GoodIds
  <2>2. \A f \in Event : f \in visible' <=> session'[f] # "APPROVED"
    BY <1>1, <1>4 DEF Inv, Tables, GoodIds
  <2> QED BY <2>1, <2>2 DEF GoodIds
<1>6. GoodStores'
  BY <1>1 DEF Inv, Tables, GoodStores
<1>7. \A p \in Profile : checkpoint[p] > 0 =>
        checkpoint[p] \in visible /\ checkpoint[p] # e /\ checkpoint[p] \in Event
  BY <1>2 DEF Inv, TypeOK, Tables, GoodCheckpoints
<1>8. GoodCheckpoints' /\ ErrorIsOfCheckpoint'
  BY <1>1, <1>4, <1>7 DEF Inv, Tables, GoodCheckpoints, ErrorIsOfCheckpoint, Over
<1>9. PublishedIsComplete'
  BY <1>1, <1>4 DEF Inv, Tables, PublishedIsComplete, HeldFor
<1>10. CheckpointCovers'
  <2> SUFFICES ASSUME NEW p \in Profile, NEW f \in visible' \ overtaken',
                      f <= checkpoint[p]
               PROVE  HeldFor(p, f)' /\ Over(f)'
    BY <1>1 DEF CheckpointCovers
  <2>1. f # e
    <3> SUFFICES ASSUME f = e PROVE FALSE
      OBVIOUS
    <3>1. e \in Nat \ {0} /\ checkpoint[p] \in Int
      BY OutboxAssumption DEF Inv, TypeOK, Event, NoCheckpoint
    <3>2. checkpoint[p] > 0
      BY <3>1
    <3>3. checkpoint[p] \in visible /\ checkpoint[p] > e
      BY <1>7, <3>1, <3>2
    <3> QED BY <1>1, <3>3
  <2>2. f \in visible \ overtaken /\ f \in Event
    BY <1>1, <2>1 DEF Inv, TypeOK
  <2>3. HeldFor(p, f) /\ Over(f)
    BY <2>2 DEF Inv, Tables, CheckpointCovers
  <2> QED BY <1>1, <1>4, <2>1, <2>2, <2>3 DEF HeldFor, Over
<1>11. Grows
  <2>1. \A p \in Profile : checkpoint[p] <= checkpoint[p]
    BY CheckpointIsInt DEF Inv
  <2>2. \A f \in visible' \ overtaken' :
          f \in visible \ overtaken \/ \A g \in visible : g < f
    <3> SUFFICES ASSUME NEW f \in visible' \ overtaken',
                        f \notin visible \ overtaken, NEW g \in visible
                 PROVE  g < f
      OBVIOUS
    <3>1. f = e
      BY <1>1
    <3>2. ~(g > e) /\ g # e
      BY <1>1, <1>2, <3>1
    <3>3. g \in Nat /\ e \in Nat
      BY OutboxAssumption DEF Inv, TypeOK, Event
    <3> QED BY <3>1, <3>2, <3>3
  <2>3. \A f \in Event : session[f] = "PUBLISHED" => session'[f] = "PUBLISHED"
    BY <1>2, <1>4
  <2>4. \A f \in Event : GivenUp(f) => GivenUp(f)'
    BY <1>1, <1>2, <1>4 DEF GivenUp
  <2> QED BY <1>1, <2>1, <2>2, <2>3, <2>4 DEF Grows
<1> QED BY <1>1, <1>3, <1>5, <1>6, <1>8, <1>9, <1>10, <1>11, NoneMoves
        DEF Inv, Tables

LEMMA OperationEndsInv ==
  ASSUME Inv, NEW e \in Event, OperationFails(e) \/ OperationSucceeds(e)
  PROVE  Inv'
<1>1. /\ UNCHANGED <<outboxVars, session, storeVars, checkpointVars, proc, faults>>
      /\ operation[e] = "RUNNING"
      /\ \E to \in {"FAILED", "SUCCEEDED"} :
           operation' = [operation EXCEPT ![e] = to]
  BY DEF OperationFails, OperationSucceeds
<1>2. /\ drawn' = drawn /\ open' = open
      /\ visible' = visible /\ overtaken' = overtaken
      /\ session' = session
      /\ ledger' = ledger /\ holds' = holds
      /\ checkpoint' = checkpoint /\ lastError' = lastError
      /\ proc' = proc /\ faults' = faults
  BY <1>1 DEF outboxVars, storeVars, checkpointVars
<1>3. /\ operation' \in [Event -> {"RUNNING", "SUCCEEDED", "FAILED"}]
      /\ \A f \in Event : operation[f] = "FAILED" => operation'[f] = "FAILED"
  BY <1>1 DEF Inv, TypeOK
<1>4. TypeOK'
  BY <1>2, <1>3 DEF Inv, TypeOK
<1>5. \A f \in Event : Over(f) => Over(f)'
  BY <1>2, <1>3 DEF Over
<1>6. GoodIds' /\ GoodStores' /\ PublishedIsComplete' /\ ErrorIsOfCheckpoint'
  BY <1>2 DEF Inv, Tables, GoodIds, GoodStores, PublishedIsComplete, HeldFor,
              ErrorIsOfCheckpoint
<1>7. GoodCheckpoints'
  BY <1>2, <1>5 DEF Inv, TypeOK, Tables, GoodCheckpoints
<1>8. CheckpointCovers'
  BY <1>2, <1>5 DEF Inv, TypeOK, Tables, CheckpointCovers, HeldFor
<1>9. Grows
  <2>1. \A p \in Profile : checkpoint[p] <= checkpoint[p]
    BY CheckpointIsInt DEF Inv
  <2> QED BY <1>2, <1>3, <2>1 DEF Grows, GivenUp
<1> QED BY <1>2, <1>4, <1>6, <1>7, <1>8, <1>9, NoneMoves DEF Inv, Tables
-----------------------------------------------------------------------------
(* A target of a process.                                                  *)

LEMMA TargetTypes ==
  ASSUME TypeOK, NEW c \in Consumer, NEW k \in Kind, NEW s \in TargetStep,
         TargetTo(c, k, s)
  PROVE  proc' \in [Consumer -> Process]
<1>1. proc[c] \in Process
  BY DEF TypeOK
<1>2. [proc[c].target EXCEPT ![k] = s] \in [Kind -> TargetStep]
  BY <1>1, ProcessFields
<1>3. [proc[c] EXCEPT !.target = [proc[c].target EXCEPT ![k] = s]] \in Process
  BY <1>1, <1>2 DEF Process
<1> QED BY <1>3 DEF TargetTo, TypeOK

LEMMA TargetMoves ==
  ASSUME Inv, TypeOK', Grows,
         NEW c \in Consumer, NEW e \in Event, NEW k \in Kind,
         NEW from, NEW s \in TargetStep,
         TargetAt(c, e, k, from), TargetTo(c, k, s),
         \A p \in Profile : p = proc[c].profile /\ s \in {"succeed", "done"}
                             => e \in holds'[k][p]
  PROVE  Processes'
<1>1. PICK x \in Process : proc[c] = x /\ GoodProcess(x)
  BY ProcessNow
<1>2. PICK y \in Process : y = [x EXCEPT !.target = [x.target EXCEPT ![k] = s]]
  <2>1. [x.target EXCEPT ![k] = s] \in [Kind -> TargetStep]
    BY ProcessFields
  <2> QED BY <2>1 DEF Process
<1>3. proc'[c] = y /\ \A d \in Consumer \ {c} : proc'[d] = proc[d]
  BY <1>1, <1>2 DEF TargetTo, Inv, TypeOK
<1>4. /\ x.at = "project"
      /\ HeadOf(x, e)
      /\ x.profile \in Profile
      /\ x.profile = proc[c].profile
  BY <1>1, ProcessFields DEF TargetAt, IsHead, HeadOf
<1>5. /\ y.at = "project"
      /\ y.batch = x.batch
      /\ y.profile = x.profile
      /\ y.target[k] = s
      /\ \A j \in Kind : j # k => y.target[j] = x.target[j]
  BY <1>2, <1>4, ProcessFields DEF Process
<1>6. GoodProcess(x)'
  BY <1>1, GoodKept DEF Inv
<1>7. TargetsTrue(y)'
  <2> SUFFICES ASSUME NEW f \in Event, NEW j \in Kind, HeadOf(y, f),
                      y.target[j] \in {"succeed", "done"}
               PROVE  f \in holds'[j][y.profile]
    BY DEF TargetsTrue, HeadOf
  <2>1. HeadOf(x, f)
    BY <1>5 DEF HeadOf
  <2>2. CASE j = k
    BY <1>4, <1>5, <2>1, <2>2, OneHead
  <2>3. CASE j # k
    BY <1>4, <1>5, <1>6, <2>1, <2>3 DEF GoodProcess, TargetsTrue, HeadOf
  <2> QED BY <2>2, <2>3
<1>8. GoodProcess(y)'
  BY <1>5, <1>6, <1>7 DEF GoodProcess, InOrder, Projected, Judged
<1> QED BY <1>3, <1>8, OneMoves

\* MarkRunning, MarkSucceeded, MarkFailed and the ledger's part of a throw.
LEMMA TargetLedger ==
  ASSUME Inv, NEW c \in Consumer, NEW e \in Event, NEW k \in Kind,
         NEW from, NEW s \in {"project", "done", "fail", "failed"},
         TargetAt(c, e, k, from), TargetTo(c, k, s),
         UNCHANGED <<outboxVars, authorityVars, holds, checkpointVars>>,
         faults' \in 0 .. MaxFaults,
         NEW status \in {"NONE", "PENDING", "RUNNING", "FAILED", "SUCCEEDED"},
         ledger' = [ledger EXCEPT ![e][k] = status],
         ledger[e][k] = "SUCCEEDED" => status = "SUCCEEDED",
         status = "SUCCEEDED" => ledger[e][k] = "SUCCEEDED" \/ from = "succeed",
         s = "done" => from = "succeed"
  PROVE  Inv'
<1>1. ledger[e] \in [Kind -> {"NONE", "PENDING", "RUNNING", "FAILED", "SUCCEEDED"}]
  BY DEF Inv, TypeOK
<1>2. /\ ledger' \in [Event -> [Kind -> {"NONE", "PENDING", "RUNNING", "FAILED",
                                        "SUCCEEDED"}]]
      /\ \A f \in Event, j \in Kind :
           ledger'[f][j] = IF f = e /\ j = k THEN status ELSE ledger[f][j]
  BY <1>1 DEF Inv, TypeOK
<1>3. s \in TargetStep
  BY DEF TargetStep
<1>4. TypeOK'
  BY <1>2, <1>3, TargetTypes
  DEF Inv, TypeOK, outboxVars, authorityVars, checkpointVars
<1>5. from = "succeed" =>
        /\ \A p \in Profile : p = proc[c].profile => e \in holds[k][p]
        /\ k \notin ReplayedKind => \A p \in Profile : e \in holds[k][p]
  <2>1. PICK x \in Process : proc[c] = x /\ GoodProcess(x)
    BY ProcessNow
  <2>2. from = "succeed" => e \in holds[k][x.profile]
    BY <2>1 DEF TargetAt, IsHead, HeadOf, GoodProcess, TargetsTrue
  <2>3. x.profile \in Profile /\ x.profile = proc[c].profile
    BY <2>1, ProcessFields
  <2> QED BY <2>2, <2>3 DEF Inv, Tables, GoodStores
<1>6. \A f \in Event, j \in Kind :
        /\ ledger[f][j] = "SUCCEEDED" => ledger'[f][j] = "SUCCEEDED"
        /\ ledger'[f][j] = "SUCCEEDED" /\ j \notin ReplayedKind
             => \A p \in Profile : f \in holds[j][p]
  BY <1>2, <1>5 DEF Inv, Tables, GoodStores
<1>7. Tables' /\ Grows
  BY <1>6, TablesOfLedger
<1>8. Processes'
  BY <1>3, <1>4, <1>5, <1>7, TargetMoves
<1> QED BY <1>4, <1>7, <1>8 DEF Inv

LEMMA MarkRunningInv ==
  ASSUME Inv, NEW c \in Consumer, NEW e \in Event, NEW k \in Kind,
         MarkRunning(c, e, k)
  PROVE  Inv'
<1>1. PICK status \in {"NONE", "PENDING", "RUNNING", "FAILED", "SUCCEEDED"} :
        /\ status = IF ledger[e][k] = "SUCCEEDED" THEN "SUCCEEDED" ELSE "RUNNING"
  OBVIOUS
<1>2. ledger' = [ledger EXCEPT ![e][k] = status]
  BY <1>1 DEF MarkRunning, LedgerUnlessSucceeded
<1>3. faults' \in 0 .. MaxFaults
  BY DEF MarkRunning, Inv, TypeOK
<1> QED BY <1>1, <1>2, <1>3, TargetLedger DEF MarkRunning

LEMMA MarkSucceededInv ==
  ASSUME Inv, NEW c \in Consumer, NEW e \in Event, NEW k \in Kind,
         MarkSucceeded(c, e, k)
  PROVE  Inv'
<1>1. faults' \in 0 .. MaxFaults
  BY DEF MarkSucceeded, Inv, TypeOK
<1> QED BY <1>1, TargetLedger DEF MarkSucceeded

LEMMA MarkFailedInv ==
  ASSUME Inv, NEW c \in Consumer, NEW e \in Event, NEW k \in Kind,
         MarkFailed(c, e, k)
  PROVE  Inv'
<1>1. PICK status \in {"NONE", "PENDING", "RUNNING", "FAILED", "SUCCEEDED"} :
        /\ ledger' = [ledger EXCEPT ![e][k] = status]
        /\ ledger[e][k] = "SUCCEEDED" => status = "SUCCEEDED"
        /\ status = "SUCCEEDED" => ledger[e][k] = "SUCCEEDED"
  <2>1. CASE ledger' = LedgerUnlessSucceeded(e, k, "FAILED")
    <3>1. CASE ledger[e][k] = "SUCCEEDED"
      BY <2>1, <3>1 DEF LedgerUnlessSucceeded
    <3>2. CASE ledger[e][k] # "SUCCEEDED"
      BY <2>1, <3>2 DEF LedgerUnlessSucceeded
    <3> QED BY <3>1, <3>2
  <2>2. CASE ledger' = ledger
    <3>1. /\ ledger[e][k] \in {"NONE", "PENDING", "RUNNING", "FAILED", "SUCCEEDED"}
          /\ ledger = [ledger EXCEPT ![e][k] = ledger[e][k]]
      BY DEF Inv, TypeOK
    <3> QED BY <2>2, <3>1
  <2> QED BY <2>1, <2>2 DEF MarkFailed
<1>2. faults' \in 0 .. MaxFaults
  BY OutboxAssumption DEF MarkFailed, Faulty, Inv, TypeOK
<1> QED BY <1>1, <1>2, TargetLedger DEF MarkFailed

LEMMA TargetThrowsInv ==
  ASSUME Inv, NEW c \in Consumer, NEW e \in Event, NEW k \in Kind,
         TargetThrows(c, e, k)
  PROVE  Inv'
<1>1. faults' \in 0 .. MaxFaults
  BY OutboxAssumption DEF TargetThrows, Faulty, Inv, TypeOK
<1>2. /\ ledger[e][k] \in {"NONE", "PENDING", "RUNNING", "FAILED", "SUCCEEDED"}
      /\ ledger = [ledger EXCEPT ![e][k] = ledger[e][k]]
  BY DEF Inv, TypeOK
<1>3. CASE (TargetAt(c, e, k, "mark") \/ TargetAt(c, e, k, "project"))
           /\ ledger' = ledger
  BY <1>1, <1>2, <1>3, TargetLedger DEF TargetThrows
<1>4. CASE TargetAt(c, e, k, "succeed") /\ ledger' = ledger
  BY <1>1, <1>2, <1>4, TargetLedger DEF TargetThrows
<1>5. CASE TargetAt(c, e, k, "succeed")
           /\ ledger' = [ledger EXCEPT ![e][k] = "SUCCEEDED"]
  BY <1>1, <1>5, TargetLedger DEF TargetThrows
<1> QED BY <1>3, <1>4, <1>5 DEF TargetThrows

LEMMA ProjectInv ==
  ASSUME Inv, NEW c \in Consumer, NEW e \in Event, NEW k \in Kind,
         Project(c, e, k)
  PROVE  Inv'
<1>1. /\ drawn' = drawn /\ open' = open
      /\ visible' = visible /\ overtaken' = overtaken
      /\ session' = session /\ operation' = operation
      /\ ledger' = ledger
      /\ checkpoint' = checkpoint /\ lastError' = lastError
      /\ faults' = faults
      /\ TargetTo(c, k, "succeed")
      /\ TargetAt(c, e, k, "project")
  BY DEF Project, outboxVars, authorityVars, checkpointVars
<1>2. /\ \A j \in Kind, p \in Profile : j # k => holds'[j][p] = holds[j][p]
      /\ \A p \in Profile :
           holds'[k][p] = IF p = proc[c].profile \/ k \notin ReplayedKind
                          THEN holds[k][p] \cup {e} ELSE holds[k][p]
      /\ holds' \in [Kind -> [Profile -> SUBSET Event]]
  BY DEF Project, Inv, TypeOK
<1>3. "succeed" \in TargetStep
  BY DEF TargetStep
<1>4. TypeOK'
  BY <1>1, <1>2, <1>3, TargetTypes DEF Inv, TypeOK
<1>5. \A j \in Kind, p \in Profile : holds[j][p] \subseteq holds'[j][p]
  BY <1>2
<1>6. Grows
  <2>1. \A p \in Profile : checkpoint[p] <= checkpoint[p]
    BY CheckpointIsInt DEF Inv
  <2> QED BY <1>1, <1>5, <2>1, PlainlyGrows
<1>7. GoodStores'
  <2> SUFFICES ASSUME NEW j \in Kind \ ReplayedKind
               PROVE  /\ \A p, q \in Profile : holds'[j][p] = holds'[j][q]
                      /\ \A f \in Event, p \in Profile :
                           ledger[f][j] = "SUCCEEDED" => f \in holds'[j][p]
    BY <1>1 DEF GoodStores
  <2>1. /\ \A p, q \in Profile : holds[j][p] = holds[j][q]
        /\ \A f \in Event, p \in Profile :
             ledger[f][j] = "SUCCEEDED" => f \in holds[j][p]
    BY DEF Inv, Tables, GoodStores
  <2>2. CASE j = k
    <3>1. \A p \in Profile : holds'[j][p] = holds[j][p] \cup {e}
      BY <1>2, <2>2
    <3>2. \A p, q \in Profile : holds'[j][p] = holds'[j][q]
      BY <2>1, <3>1
    <3>3. \A f \in Event, p \in Profile :
            ledger[f][j] = "SUCCEEDED" => f \in holds'[j][p]
      BY <2>1, <3>1
    <3> QED BY <3>2, <3>3
  <2>3. CASE j # k
    <3>1. \A p \in Profile : holds'[j][p] = holds[j][p]
      BY <1>2, <2>3
    <3> QED BY <2>1, <3>1
  <2> QED BY <2>2, <2>3
<1>8. \A p \in Profile, f \in Event : HeldFor(p, f) => HeldFor(p, f)'
  BY <1>5 DEF HeldFor
<1>9. PublishedIsComplete'
  BY <1>1, <1>8 DEF Inv, Tables, PublishedIsComplete
<1>10. CheckpointCovers'
  BY <1>1, <1>8 DEF Inv, TypeOK, Tables, CheckpointCovers, Over
<1>11. GoodIds' /\ GoodCheckpoints' /\ ErrorIsOfCheckpoint'
  BY <1>1 DEF Inv, Tables, GoodIds, GoodCheckpoints, Over, ErrorIsOfCheckpoint
<1>12. \A p \in Profile : p = proc[c].profile => e \in holds'[k][p]
  BY <1>2
<1>13. Processes'
  BY <1>1, <1>3, <1>4, <1>6, <1>12, TargetMoves
<1> QED BY <1>4, <1>7, <1>9, <1>10, <1>11, <1>13 DEF Inv, Tables
-----------------------------------------------------------------------------
(* A process on its own.                                                   *)

\* The tables rest, and one process goes on well.
LEMMA ProcessGoesOn ==
  ASSUME Inv, UNCHANGED <<outboxVars, authorityVars, storeVars, checkpointVars>>,
         faults' \in 0 .. MaxFaults,
         NEW c \in Consumer, NEW y \in Process,
         proc' = [proc EXCEPT ![c] = y], GoodProcess(y)'
  PROVE  Inv'
<1>1. Tables' /\ Grows
  BY TablesRest
<1>2. /\ proc' \in [Consumer -> Process]
      /\ proc'[c] = y
      /\ \A d \in Consumer \ {c} : proc'[d] = proc[d]
  BY DEF Inv, TypeOK
<1>3. TypeOK'
  BY <1>2 DEF Inv, TypeOK, outboxVars, authorityVars, storeVars, checkpointVars
<1>4. Processes'
  BY <1>1, <1>2, <1>3, OneMoves
<1> QED BY <1>1, <1>3, <1>4 DEF Inv

LEMMA FreshIsIdle ==
  ASSUME NEW p \in Profile
  PROVE  Fresh(p) \in Process /\ GoodProcess(Fresh(p))'
<1>1. Fresh(p) \in Process
  BY DEF Fresh, Process, NoTarget, TargetStep
<1>2. Fresh(p).batch = {}
  BY DEF Fresh
<1> QED BY <1>1, <1>2, IdleIsGood

\* BatchFails, PublishThrows and Crash.
LEMMA StartsOverInv ==
  ASSUME Inv, NEW c \in Consumer,
         BatchFails(c) \/ (\E e \in Event : PublishThrows(c, e))
           \/ (\E p \in Profile : Crash(c, p))
  PROVE  Inv'
<1>1. proc[c].profile \in Profile
  BY ProcessNow, ProcessFields
<1>2. /\ UNCHANGED <<outboxVars, authorityVars, storeVars, checkpointVars>>
      /\ faults' = faults \/ Faulty
      /\ \E p \in Profile : proc' = [proc EXCEPT ![c] = Fresh(p)]
  BY <1>1 DEF BatchFails, PublishThrows, Crash
<1>3. faults' \in 0 .. MaxFaults
  BY <1>2, OutboxAssumption DEF Faulty, Inv, TypeOK
<1>4. PICK p \in Profile : proc' = [proc EXCEPT ![c] = Fresh(p)]
  BY <1>2
<1>5. PICK y \in Process : y = Fresh(p) /\ GoodProcess(y)'
  BY FreshIsIdle
<1> QED BY <1>2, <1>3, <1>4, <1>5, ProcessGoesOn

LEMMA TargetsDoneInv ==
  ASSUME Inv, NEW c \in Consumer, TargetsDone(c)
  PROVE  Inv'
<1>1. PICK x \in Process : proc[c] = x /\ GoodProcess(x)
  BY ProcessNow
<1>2. PICK y \in Process : y = [x EXCEPT !.at = "publish", !.target = NoTarget]
  BY DEF Process, NoTarget, TargetStep
<1>3. proc' = [proc EXCEPT ![c] = y] /\ faults' \in 0 .. MaxFaults
  BY <1>1, <1>2 DEF TargetsDone, Inv, TypeOK
<1>4. /\ UNCHANGED <<outboxVars, authorityVars, storeVars, checkpointVars>>
      /\ x.at = "project"
      /\ \A k \in Kind : x.target[k] = "done"
  BY <1>1 DEF TargetsDone
<1>5. /\ y.at = "publish"
      /\ y.batch = x.batch
      /\ y.profile = x.profile
  BY <1>2 DEF Process
<1>6. Tables' /\ Grows
  BY <1>4, TablesRest
<1>7. Projected(y)'
  BY <1>1, <1>4, <1>5
  DEF GoodProcess, TargetsTrue, Projected, HeadOf, HeldFor, storeVars
<1>8. GoodProcess(y)'
  BY <1>1, <1>4, <1>5, <1>7
  DEF GoodProcess, InOrder, TargetsTrue, Judged, outboxVars, checkpointVars
<1> QED BY <1>3, <1>4, <1>8, ProcessGoesOn

LEMMA PrepareInv ==
  ASSUME Inv, NEW c \in Consumer, NEW e \in Event, Prepare(c, e)
  PROVE  Inv'
<1>1. PICK x \in Process : proc[c] = x /\ GoodProcess(x)
  BY ProcessNow
<1>2. /\ x.at = "prepare" /\ HeadOf(x, e)
      /\ ledger' = [ledger EXCEPT ![e] =
                      [k \in Kind |-> IF @[k] = "NONE" THEN "PENDING" ELSE @[k]]]
      /\ UNCHANGED <<outboxVars, authorityVars, holds, checkpointVars, faults>>
  BY <1>1 DEF Prepare, IsHead, HeadOf
<1>3. PICK y \in Process :
        y = [x EXCEPT !.at = "project",
                      !.target = [k \in Kind |-> IF Skips(e, k) THEN "done"
                                                               ELSE "mark"]]
  BY DEF Process, TargetStep
<1>4. /\ proc' \in [Consumer -> Process]
      /\ proc'[c] = y
      /\ \A d \in Consumer \ {c} : proc'[d] = proc[d]
  BY <1>1, <1>3 DEF Prepare, Inv, TypeOK
<1>5. /\ ledger' \in [Event -> [Kind -> {"NONE", "PENDING", "RUNNING", "FAILED",
                                        "SUCCEEDED"}]]
      /\ \A f \in Event, k \in Kind :
           ledger'[f][k] = "SUCCEEDED" <=> ledger[f][k] = "SUCCEEDED"
  BY <1>2 DEF Inv, TypeOK
<1>6. TypeOK'
  BY <1>2, <1>4, <1>5 DEF Inv, TypeOK, outboxVars, authorityVars, checkpointVars
<1>7. \A f \in Event, k \in Kind :
        /\ ledger[f][k] = "SUCCEEDED" => ledger'[f][k] = "SUCCEEDED"
        /\ ledger'[f][k] = "SUCCEEDED" /\ k \notin ReplayedKind
             => \A p \in Profile : f \in holds[k][p]
  BY <1>5 DEF Inv, Tables, GoodStores
<1>8. Tables' /\ Grows
  BY <1>2, <1>7, TablesOfLedger
<1>9. /\ y.at = "project"
      /\ y.batch = x.batch
      /\ y.profile = x.profile /\ x.profile \in Profile
      /\ \A k \in Kind : y.target[k] = IF Skips(e, k) THEN "done" ELSE "mark"
  BY <1>3, ProcessFields DEF Process
<1>10. GoodProcess(x)'
  BY <1>1, <1>6, <1>8, GoodKept DEF Inv
<1>11. TargetsTrue(y)'
  <2> SUFFICES ASSUME NEW f \in Event, NEW k \in Kind, HeadOf(y, f),
                      y.target[k] \in {"succeed", "done"}
               PROVE  f \in holds'[k][y.profile]
    BY DEF TargetsTrue, HeadOf
  <2>1. f = e
    BY <1>2, <1>9, OneHead DEF HeadOf
  <2>2. Skips(e, k)
    BY <1>9
  <2> QED BY <1>2, <1>9, <2>1, <2>2 DEF Skips, Inv, Tables, GoodStores
<1>12. GoodProcess(y)'
  BY <1>9, <1>10, <1>11 DEF GoodProcess, InOrder, Projected, Judged
<1>13. Processes'
  BY <1>4, <1>6, <1>8, <1>12, OneMoves
<1> QED BY <1>6, <1>8, <1>13 DEF Inv
-----------------------------------------------------------------------------
(* The batch, the publication and the checkpoint.                          *)

\* A batch leaves out nothing that comes before one of its events.
LEMMA LimitedInOrder ==
  ASSUME NEW S \in SUBSET Event, NEW e \in Limited(S), NEW f \in S, f < e
  PROVE  f \in Limited(S)
<1>1. IsFiniteSet(Event) /\ Event \subseteq Nat
  BY FS_Interval, OutboxAssumption DEF Event
<1>2. IsFiniteSet({g \in S : g < e}) /\ IsFiniteSet({g \in S : g < f})
  BY <1>1, FS_Subset
<1>3. {g \in S : g < f} \subseteq {g \in S : g < e}
  <2> SUFFICES ASSUME NEW g \in S, g < f PROVE g < e
    OBVIOUS
  <2>1. e \in Nat /\ f \in Nat /\ g \in Nat
    BY <1>1 DEF Limited
  <2> QED BY <2>1
<1>4. Cardinality({g \in S : g < f}) <= Cardinality({g \in S : g < e})
  BY <1>2, <1>3, FS_Subset
<1>5. /\ Cardinality({g \in S : g < f}) \in Nat
      /\ Cardinality({g \in S : g < e}) \in Nat
  BY <1>2, FS_CardinalityType
<1>6. Cardinality({g \in S : g < e}) < BatchLimit
  BY DEF Limited
<1> QED BY <1>4, <1>5, <1>6, OutboxAssumption DEF Limited

LEMMA ReadBatchInv ==
  ASSUME Inv, NEW c \in Consumer, ReadBatch(c)
  PROVE  Inv'
<1>1. PICK x \in Process : proc[c] = x /\ GoodProcess(x)
  BY ProcessNow
<1> DEFINE p == x.profile
           batch == IF checkpoint[p] = NoCheckpoint THEN {} ELSE Limited(After(p))
<1>2. p \in Profile
  BY ProcessFields
<1>3. batch \subseteq visible /\ batch \subseteq Event
  BY DEF Limited, After, Inv, TypeOK
<1>4. PICK y \in Process :
        y = [x EXCEPT !.at = IF batch = {} THEN "read" ELSE "prepare",
                      !.batch = batch]
  BY <1>3 DEF Process
<1>5. /\ checkpoint' = [checkpoint EXCEPT ![p] = IF @ = NoCheckpoint THEN 0 ELSE @]
      /\ drawn' = drawn /\ open' = open
      /\ visible' = visible /\ overtaken' = overtaken
      /\ session' = session /\ operation' = operation
      /\ ledger' = ledger /\ holds' = holds
      /\ lastError' = lastError /\ faults' = faults
      /\ proc' = [proc EXCEPT ![c] = y]
  BY <1>1, <1>4
  DEF ReadBatch, outboxVars, authorityVars, storeVars, Inv, TypeOK
<1>6. /\ proc' \in [Consumer -> Process]
      /\ proc'[c] = y
      /\ \A d \in Consumer \ {c} : proc'[d] = proc[d]
  BY <1>5 DEF Inv, TypeOK
<1>7. /\ checkpoint' \in [Profile -> {NoCheckpoint} \cup 0 .. MaxEvent]
      /\ \A q \in Profile : checkpoint[q] # NoCheckpoint
                              => checkpoint'[q] = checkpoint[q]
      /\ \A q \in Profile : checkpoint[q] = NoCheckpoint
                              => checkpoint'[q] \in {NoCheckpoint, 0}
  BY <1>2, <1>5, OutboxAssumption DEF Inv, TypeOK
<1>8. ASSUME NEW q \in Profile
      PROVE  /\ checkpoint[q] <= checkpoint'[q]
             /\ checkpoint'[q] > 0 => checkpoint'[q] = checkpoint[q]
  <2>1. CASE checkpoint[q] = NoCheckpoint
    BY <1>7, <2>1 DEF NoCheckpoint
  <2>2. CASE checkpoint[q] # NoCheckpoint
    BY <1>7, <2>2, CheckpointIsInt DEF Inv
  <2> QED BY <2>1, <2>2
<1>9. TypeOK'
  BY <1>5, <1>6, <1>7 DEF Inv, TypeOK
<1>10. Grows
  <2>1. \A q \in Profile : checkpoint[q] <= checkpoint'[q]
    BY <1>8
  <2>2. \A k \in Kind, q \in Profile : holds[k][q] \subseteq holds'[k][q]
    BY <1>5
  <2> QED BY <1>5, <2>1, <2>2, PlainlyGrows
<1>11. /\ GoodIds' /\ GoodStores' /\ GoodCheckpoints'
       /\ PublishedIsComplete' /\ ErrorIsOfCheckpoint'
  BY <1>5, <1>8 DEF Inv, Tables, GoodIds, GoodStores, GoodCheckpoints, Over,
                    HeldFor, PublishedIsComplete, ErrorIsOfCheckpoint
<1>12. CheckpointCovers'
  <2> SUFFICES ASSUME NEW q \in Profile, NEW f \in visible \ overtaken,
                      f <= checkpoint'[q]
               PROVE  HeldFor(q, f)' /\ Over(f)'
    BY <1>5 DEF CheckpointCovers
  <2>1. f \in Nat \ {0} /\ checkpoint'[q] \in Int
    BY <1>9, OutboxAssumption DEF Inv, TypeOK, Event, NoCheckpoint
  <2>2. checkpoint'[q] > 0
    BY <2>1
  <2>3. checkpoint'[q] = checkpoint[q]
    BY <1>8, <2>2
  <2> QED BY <1>5, <2>3 DEF Inv, Tables, CheckpointCovers, HeldFor, Over
<1>13. /\ y.batch = batch
       /\ y.profile = p
       /\ y.at \in {"read", "prepare"}
  BY <1>4 DEF Process
<1>14. InOrder(y)'
  <2> SUFFICES ASSUME NEW e \in batch, NEW f \in visible \ overtaken, f < e
               PROVE  f \in batch \/ f <= checkpoint'[p]
    BY <1>5, <1>13 DEF InOrder
  <2>1. /\ checkpoint[p] # NoCheckpoint
        /\ batch = Limited(After(p))
    OBVIOUS
  <2>2. checkpoint'[p] = checkpoint[p]
    BY <1>2, <1>7, <2>1
  <2>3. f \in Nat /\ checkpoint[p] \in Int
    BY <1>2, OutboxAssumption DEF Inv, TypeOK, Event, NoCheckpoint
  <2>4. After(p) \subseteq Event
    BY DEF After, Inv, TypeOK
  <2>5. CASE f \in After(p)
    BY <2>1, <2>4, <2>5, LimitedInOrder
  <2>6. CASE f \notin After(p)
    BY <2>2, <2>3, <2>6 DEF After
  <2> QED BY <2>5, <2>6
<1>15. GoodProcess(y)'
  BY <1>3, <1>5, <1>13, <1>14 DEF GoodProcess, TargetsTrue, Projected, Judged
<1>16. Processes'
  BY <1>6, <1>9, <1>10, <1>15, OneMoves
<1> QED BY <1>9, <1>11, <1>12, <1>16 DEF Inv, Tables

\* A publication changes no session that a checkpoint calls given up.
LEMMA PublishInv ==
  ASSUME Inv, NEW c \in Consumer, NEW e \in Event, Publish(c, e)
  PROVE  Inv'
<1>1. PICK x \in Process : proc[c] = x /\ GoodProcess(x)
  BY ProcessNow
<1>2. /\ x.at = "publish" /\ HeadOf(x, e) /\ Publishable(e)
      /\ session' = [session EXCEPT ![e] = IF IsPoison(e) THEN @ ELSE "PUBLISHED"]
      /\ drawn' = drawn /\ open' = open
      /\ visible' = visible /\ overtaken' = overtaken
      /\ operation' = operation
      /\ ledger' = ledger /\ holds' = holds
      /\ checkpoint' = checkpoint /\ lastError' = lastError
      /\ faults' = faults
  BY <1>1 DEF Publish, IsHead, HeadOf, outboxVars, storeVars, checkpointVars
<1>3. PICK y \in Process : y = [x EXCEPT !.at = "advance", !.poison = IsPoison(e)]
  <2>1. IsPoison(e) \in BOOLEAN
    BY DEF IsPoison
  <2> QED BY <2>1 DEF Process
<1>4. /\ proc' \in [Consumer -> Process]
      /\ proc'[c] = y
      /\ \A d \in Consumer \ {c} : proc'[d] = proc[d]
  BY <1>1, <1>3 DEF Publish, Inv, TypeOK
<1>5. /\ y.at = "advance"
      /\ y.batch = x.batch
      /\ y.profile = x.profile /\ x.profile \in Profile
      /\ y.poison <=> IsPoison(e)
  BY <1>3, ProcessFields DEF Process
<1>6. /\ session' \in [Event -> {"APPROVED", "COMMITTED", "PUBLISHED"}]
      /\ \A f \in Event : f # e => session'[f] = session[f]
      /\ IsPoison(e) => session'[e] = session[e]
      /\ ~IsPoison(e) => session'[e] = "PUBLISHED"
  BY <1>2 DEF Inv, TypeOK
<1>7. TypeOK'
  BY <1>2, <1>4, <1>6 DEF Inv, TypeOK
<1>8. e \in visible /\ session[e] \in {"COMMITTED", "PUBLISHED"}
  BY <1>1, <1>2 DEF GoodProcess, HeadOf, Inv, TypeOK, Tables, GoodIds
<1>9. GoodIds'
  <2>1. \A f \in Event : f \in visible <=> session'[f] # "APPROVED"
    BY <1>6, <1>8 DEF Inv, Tables, GoodIds
  <2> QED BY <1>2, <2>1 DEF Inv, Tables, GoodIds
<1>10. ASSUME NEW f \in Event
       PROVE  /\ Over(f) => Over(f)' /\ session'[f] = session[f]
              /\ GivenUp(f) => GivenUp(f)'
              /\ session[f] = "PUBLISHED" => session'[f] = "PUBLISHED"
  BY <1>2, <1>6, <1>8 DEF Over, GivenUp, IsPoison
<1>11. \A p \in Profile : checkpoint[p] > 0 =>
         checkpoint[p] \in Event /\ Over(checkpoint[p])
  BY DEF Inv, TypeOK, Tables, GoodCheckpoints
<1>12. GoodCheckpoints'
  <2> SUFFICES ASSUME NEW p \in Profile, checkpoint[p] > 0
               PROVE  checkpoint[p] \in visible /\ Over(checkpoint[p])'
    BY <1>2 DEF GoodCheckpoints, Over
  <2>1. checkpoint[p] \in visible /\ checkpoint[p] \in Event /\ Over(checkpoint[p])
    BY <1>11 DEF Inv, Tables, GoodCheckpoints
  <2> QED BY <1>2, <1>10, <2>1 DEF Over
<1>13. GoodStores' /\ ErrorIsOfCheckpoint'
  <2>1. GoodStores'
    BY <1>2 DEF Inv, Tables, GoodStores
  <2>2. ASSUME NEW p \in Profile, checkpoint[p] > 0
        PROVE  lastError[p] <=> session'[checkpoint[p]] # "PUBLISHED"
    <3>1. session'[checkpoint[p]] = session[checkpoint[p]]
      BY <1>10, <1>11, <2>2
    <3> QED BY <2>2, <3>1 DEF Inv, Tables, ErrorIsOfCheckpoint
  <2> QED BY <1>2, <2>1, <2>2 DEF ErrorIsOfCheckpoint
<1>14. HeldFor(x.profile, e)
  BY <1>1, <1>2 DEF GoodProcess, Projected
<1>15. PublishedIsComplete'
  <2> SUFFICES ASSUME NEW f \in Event, session'[f] = "PUBLISHED"
               PROVE  /\ \A k \in Kind : ledger[f][k] = "SUCCEEDED"
                      /\ \E p \in Profile : HeldFor(p, f)
    BY <1>2 DEF PublishedIsComplete, HeldFor
  <2>1. CASE f = e
    BY <1>2, <1>5, <1>14, <2>1 DEF Publishable
  <2>2. CASE f # e
    BY <1>6, <2>2 DEF Inv, Tables, PublishedIsComplete
  <2> QED BY <2>1, <2>2
<1>16. CheckpointCovers'
  <2> SUFFICES ASSUME NEW p \in Profile, NEW f \in visible \ overtaken,
                      f <= checkpoint[p]
               PROVE  HeldFor(p, f) /\ Over(f)'
    BY <1>2 DEF CheckpointCovers, HeldFor, Over
  <2>1. HeldFor(p, f) /\ Over(f) /\ f \in Event
    BY DEF Inv, TypeOK, Tables, CheckpointCovers
  <2> QED BY <1>10, <2>1
<1>17. Grows
  <2>1. \A p \in Profile : checkpoint[p] <= checkpoint[p]
    BY CheckpointIsInt DEF Inv
  <2>2. ASSUME NEW f \in Event, session[f] = "PUBLISHED"
        PROVE  session'[f] = "PUBLISHED"
    BY <1>10, <2>2
  <2>3. ASSUME NEW f \in Event, session[f] = "COMMITTED", operation[f] = "FAILED"
        PROVE  session'[f] = "COMMITTED"
    BY <1>2, <1>10, <2>3 DEF GivenUp
  <2>4. \A k \in Kind, p \in Profile : holds[k][p] \subseteq holds'[k][p]
    BY <1>2
  <2>5. \A f \in visible' \ overtaken' : f \in visible \ overtaken
    BY <1>2
  <2> QED BY <1>2, <2>1, <2>2, <2>3, <2>4, <2>5 DEF Grows, GivenUp
<1>18. GoodProcess(x)'
  BY <1>1, <1>7, <1>17, GoodKept DEF Inv
<1>19. Projected(y)'
  <2> SUFFICES ASSUME NEW f \in Event, HeadOf(y, f)
               PROVE  HeldFor(y.profile, f)'
    BY DEF Projected, HeadOf
  <2>1. f = e
    BY <1>2, <1>5, OneHead DEF HeadOf
  <2> QED BY <1>2, <1>5, <1>14, <2>1 DEF HeldFor
<1>20. Judged(y)'
  <2> SUFFICES ASSUME NEW f \in Event, HeadOf(y, f)
               PROVE  IF y.poison THEN GivenUp(f)' ELSE session'[f] = "PUBLISHED"
    BY DEF Judged, HeadOf
  <2>1. f = e
    BY <1>2, <1>5, OneHead DEF HeadOf
  <2> QED BY <1>2, <1>5, <1>6, <2>1 DEF IsPoison, GivenUp
<1>21. GoodProcess(y)'
  BY <1>5, <1>18, <1>19, <1>20 DEF GoodProcess, InOrder, TargetsTrue
<1>22. Processes'
  BY <1>4, <1>7, <1>17, <1>21, OneMoves
<1> QED BY <1>7, <1>9, <1>12, <1>13, <1>15, <1>16, <1>22 DEF Inv, Tables

\* The event is the first that is left, so nothing before it is passed over.
LEMMA AdvanceInv ==
  ASSUME Inv, NEW c \in Consumer, NEW e \in Event, Advance(c, e)
  PROVE  Inv'
<1>1. PICK x \in Process : proc[c] = x /\ GoodProcess(x)
  BY ProcessNow
<1> DEFINE p == x.profile
           rest == x.batch \ {e}
<1>2. p \in Profile /\ x.batch \subseteq Event /\ x.poison \in BOOLEAN
  BY ProcessFields
<1>3. PICK y \in Process :
        y = [Fresh(p) EXCEPT !.batch = rest,
                             !.at = IF rest = {} THEN "read" ELSE "prepare"]
  <2>1. rest \in SUBSET Event
    BY <1>2
  <2> QED BY <1>2, <2>1 DEF Fresh, Process, NoTarget, TargetStep
<1>4. /\ x.at = "advance" /\ HeadOf(x, e)
      /\ checkpoint' = [checkpoint EXCEPT ![p] = AdvancedCheckpoint(p, e)]
      /\ lastError' = [lastError EXCEPT ![p] = AdvancedError(p, e, x.poison)]
      /\ drawn' = drawn /\ open' = open
      /\ visible' = visible /\ overtaken' = overtaken
      /\ session' = session /\ operation' = operation
      /\ ledger' = ledger /\ holds' = holds /\ faults' = faults
      /\ proc' = [proc EXCEPT ![c] = y]
  BY <1>1, <1>3 DEF Advance, IsHead, HeadOf, outboxVars, authorityVars, storeVars
<1>5. /\ proc' \in [Consumer -> Process]
      /\ proc'[c] = y
      /\ \A d \in Consumer \ {c} : proc'[d] = proc[d]
  BY <1>4 DEF Inv, TypeOK
<1>6. /\ y.batch = rest
      /\ y.profile = p
      /\ y.at \in {"read", "prepare"}
  BY <1>3 DEF Fresh
<1>7. /\ e \in Nat \ {0}
      /\ \A q \in Profile : checkpoint[q] \in Int
      /\ \A f \in visible : f \in Nat \ {0}
  BY OutboxAssumption DEF Inv, TypeOK, Event, NoCheckpoint
<1>8. /\ \A q \in Profile : q # p => /\ checkpoint'[q] = checkpoint[q]
                                      /\ lastError'[q] = lastError[q]
      /\ e > checkpoint[p] => checkpoint'[p] = e /\ lastError'[p] = x.poison
      /\ ~(e > checkpoint[p]) => /\ checkpoint'[p] = checkpoint[p]
                                 /\ lastError'[p] = lastError[p]
  BY <1>2, <1>4 DEF Inv, TypeOK, AdvancedCheckpoint, AdvancedError
<1>9. TypeOK'
  <2>1. AdvancedCheckpoint(p, e) \in {NoCheckpoint} \cup 0 .. MaxEvent
    BY <1>2, OutboxAssumption DEF AdvancedCheckpoint, Event, Inv, TypeOK
  <2>2. AdvancedError(p, e, x.poison) \in BOOLEAN
    BY <1>2 DEF AdvancedError, Inv, TypeOK
  <2>3. /\ checkpoint' \in [Profile -> {NoCheckpoint} \cup 0 .. MaxEvent]
        /\ lastError' \in [Profile -> BOOLEAN]
    BY <1>2, <1>4, <2>1, <2>2 DEF Inv, TypeOK
  <2> QED BY <1>4, <1>5, <2>3 DEF Inv, TypeOK
<1>10. \A q \in Profile : checkpoint[q] <= checkpoint'[q]
  BY <1>2, <1>7, <1>8
<1>11. Grows
  BY <1>4, <1>10, PlainlyGrows
<1>12. GoodIds' /\ GoodStores' /\ PublishedIsComplete'
  BY <1>4 DEF Inv, Tables, GoodIds, GoodStores, PublishedIsComplete, HeldFor
<1>13. /\ e \in visible
       /\ HeldFor(p, e)
       /\ IF x.poison THEN GivenUp(e) ELSE session[e] = "PUBLISHED"
  BY <1>1, <1>4 DEF GoodProcess, Projected, Judged, HeadOf
<1>14. Over(e)
  BY <1>13 DEF Over, GivenUp
<1>15. GoodCheckpoints'
  <2> SUFFICES ASSUME NEW q \in Profile, checkpoint'[q] > 0
               PROVE  checkpoint'[q] \in visible /\ Over(checkpoint'[q])
    BY <1>4 DEF GoodCheckpoints, Over
  <2>1. CASE q = p /\ e > checkpoint[p]
    BY <1>8, <1>13, <1>14, <2>1
  <2>2. CASE ~(q = p /\ e > checkpoint[p])
    BY <1>8, <2>2 DEF Inv, Tables, GoodCheckpoints
  <2> QED BY <2>1, <2>2
<1>16. ErrorIsOfCheckpoint'
  <2> SUFFICES ASSUME NEW q \in Profile, checkpoint'[q] > 0
               PROVE  lastError'[q] <=> session[checkpoint'[q]] # "PUBLISHED"
    BY <1>4 DEF ErrorIsOfCheckpoint
  <2>1. CASE q = p /\ e > checkpoint[p]
    BY <1>2, <1>8, <1>13, <2>1 DEF GivenUp
  <2>2. CASE ~(q = p /\ e > checkpoint[p])
    BY <1>8, <2>2 DEF Inv, Tables, ErrorIsOfCheckpoint
  <2> QED BY <2>1, <2>2
<1>17. CheckpointCovers'
  <2> SUFFICES ASSUME NEW q \in Profile, NEW f \in visible \ overtaken,
                      f <= checkpoint'[q]
               PROVE  HeldFor(q, f) /\ Over(f)
    BY <1>4 DEF CheckpointCovers, HeldFor, Over
  <2>1. CASE f <= checkpoint[q]
    BY <2>1 DEF Inv, Tables, CheckpointCovers
  <2>2. CASE ~(f <= checkpoint[q])
    <3>1. q = p /\ e > checkpoint[p] /\ checkpoint'[p] = e
      BY <1>8, <2>2
    <3>2. CASE f = e
      BY <1>13, <1>14, <3>1, <3>2
    <3>3. CASE f # e
      <4>1. f < e
        BY <1>7, <3>1, <3>3
      <4>2. f \in x.batch
        BY <1>1, <1>4, <2>2, <3>1, <4>1 DEF GoodProcess, InOrder, HeadOf
      <4>3. e <= f
        BY <1>4, <4>2 DEF HeadOf
      <4> QED BY <1>7, <4>1, <4>3
    <3> QED BY <3>2, <3>3
  <2> QED BY <2>1, <2>2
<1>18. InOrder(y)'
  <2> SUFFICES ASSUME NEW g \in rest, NEW f \in visible \ overtaken, f < g
               PROVE  f \in rest \/ f <= checkpoint'[p]
    BY <1>4, <1>6 DEF InOrder
  <2>1. f \in x.batch \/ f <= checkpoint[p]
    BY <1>1 DEF GoodProcess, InOrder
  <2>2. f = e => f <= checkpoint'[p]
    BY <1>2, <1>7, <1>8
  <2>3. f <= checkpoint[p] => f <= checkpoint'[p]
    BY <1>2, <1>7, <1>8
  <2> QED BY <2>1, <2>2, <2>3
<1>19. GoodProcess(y)'
  BY <1>1, <1>4, <1>6, <1>18
  DEF GoodProcess, TargetsTrue, Projected, Judged
<1>20. Processes'
  BY <1>5, <1>9, <1>11, <1>19, OneMoves
<1> QED BY <1>9, <1>12, <1>15, <1>16, <1>17, <1>20 DEF Inv, Tables
-----------------------------------------------------------------------------
(* The theorems.                                                           *)

LEMMA StutterInv ==
  ASSUME Inv, UNCHANGED vars
  PROVE  Inv'
<1>1. /\ UNCHANGED <<outboxVars, authorityVars, storeVars, checkpointVars>>
      /\ proc' = proc /\ faults' = faults
  BY DEF vars, outboxVars, authorityVars, storeVars, checkpointVars
<1>2. Tables' /\ Grows
  BY <1>1, TablesRest
<1>3. TypeOK'
  BY <1>1 DEF Inv, TypeOK, outboxVars, authorityVars, storeVars, checkpointVars
<1> QED BY <1>1, <1>2, <1>3, NoneMoves DEF Inv

LEMMA InvStep == Inv /\ [Next]_vars => Inv'
<1> SUFFICES ASSUME Inv, [Next]_vars PROVE Inv'
  OBVIOUS
<1>1. CASE UNCHANGED vars
  BY <1>1, StutterInv
<1>2. CASE CommitDrawsId
  BY <1>2, CommitDrawsIdInv
<1>3. ASSUME NEW e \in Event,
             CommitStep(e) \/ OperationFails(e) \/ OperationSucceeds(e)
      PROVE  Inv'
  BY <1>3, CommitEndsInv, CommitRollsBackInv, OperationEndsInv DEF CommitStep
<1>4. ASSUME NEW c \in Consumer, ConsumerStep(c)
      PROVE  Inv'
  <2>1. CASE ReadBatch(c)
    BY <2>1, ReadBatchInv
  <2>2. CASE TargetsDone(c)
    BY <2>2, TargetsDoneInv
  <2>3. CASE BatchFails(c) \/ \E e \in Event : PublishThrows(c, e)
    BY <2>3, StartsOverInv
  <2>4. ASSUME NEW e \in Event, NEW k \in Kind, TargetProceeds(c, e, k)
        PROVE  Inv'
    BY <2>4, MarkRunningInv, ProjectInv, MarkSucceededInv, MarkFailedInv
       DEF TargetProceeds
  <2>5. ASSUME NEW e \in Event, Prepare(c, e) \/ Publish(c, e) \/ Advance(c, e)
        PROVE  Inv'
    BY <2>5, PrepareInv, PublishInv, AdvanceInv
  <2> QED BY <1>4, <2>1, <2>2, <2>3, <2>4, <2>5 DEF ConsumerStep
<1>5. ASSUME NEW c \in Consumer, FaultStep(c)
      PROVE  Inv'
  BY <1>5, TargetThrowsInv, StartsOverInv DEF FaultStep
<1> QED BY <1>1, <1>2, <1>3, <1>4, <1>5 DEF Next

\* What holds of the tables and of what every process relies on, always.
THEOREM OutboxInvariant == Spec => []Inv
<1>1. Init => Inv
  BY InitInv
<1>2. Inv /\ [Next]_vars => Inv'
  BY InvStep
<1> QED BY <1>1, <1>2, PTL DEF Spec

\* The rows and the processes of the consumer have their types.
THEOREM OutboxTypes == Spec => []TypeOK
<1>1. Inv => TypeOK
  BY DEF Inv
<1> QED BY <1>1, OutboxInvariant, PTL

\* However many processes, profiles and targets there are, a published version
\* is in every shared store and in the collection of some profile.
THEOREM PublishedStaysComplete == Spec => []PublishedIsComplete
<1>1. Inv => PublishedIsComplete
  BY DEF Inv, Tables
<1> QED BY <1>1, OutboxInvariant, PTL

\* A checkpoint passes only what its profile holds in every store, and what is
\* published or given up, unless it became visible too late.
THEOREM CheckpointsCover == Spec => []CheckpointCovers
<1>1. Inv => CheckpointCovers
  BY DEF Inv, Tables
<1> QED BY <1>1, OutboxInvariant, PTL

\* The error of a checkpoint row and its event are always of one write.
THEOREM ErrorsBelong == Spec => []ErrorIsOfCheckpoint
<1>1. Inv => ErrorIsOfCheckpoint
  BY DEF Inv, Tables
<1> QED BY <1>1, OutboxInvariant, PTL

\* No write of a checkpoint, by whichever process of its name, moves it back.
THEOREM CheckpointsNeverGoBack == Spec => CheckpointMonotone
<1>1. ASSUME Inv, [Next]_vars
      PROVE  [\A p \in Profile : checkpoint'[p] >= checkpoint[p]]_vars
  <2>1. \A p \in Profile : checkpoint[p] \in Int
    BY <1>1, OutboxAssumption DEF Inv, TypeOK, NoCheckpoint
  <2>2. CASE checkpoint' = checkpoint
    BY <2>1, <2>2
  <2>3. ASSUME NEW c \in Consumer, ReadBatch(c) \/ \E e \in Event : Advance(c, e)
        PROVE  \A p \in Profile : checkpoint'[p] >= checkpoint[p]
    <3> SUFFICES ASSUME NEW p \in Profile PROVE checkpoint'[p] >= checkpoint[p]
      OBVIOUS
    <3>1. CASE ReadBatch(c)
      BY <1>1, <2>1, <3>1 DEF ReadBatch, NoCheckpoint, Inv, TypeOK
    <3>2. CASE \E e \in Event : Advance(c, e)
      <4>1. PICK e \in Event : Advance(c, e)
        BY <3>2
      <4>2. e \in Nat
        BY OutboxAssumption DEF Event
      <4>3. /\ proc[c].profile \in Profile
            /\ checkpoint' = [checkpoint EXCEPT
                  ![proc[c].profile] = AdvancedCheckpoint(proc[c].profile, e)]
        BY <1>1, <4>1, ProcessNow, ProcessFields DEF Advance
      <4> QED BY <1>1, <2>1, <4>2, <4>3 DEF AdvancedCheckpoint, Inv, TypeOK
    <3> QED BY <2>3, <3>1, <3>2
  <2>4. CASE UNCHANGED vars
    BY <2>2, <2>4 DEF vars
  <2>5. CASE CommitDrawsId
    BY <2>2, <2>5 DEF CommitDrawsId, checkpointVars
  <2>6. CASE \E e \in Event :
               CommitStep(e) \/ OperationFails(e) \/ OperationSucceeds(e)
    BY <2>2, <2>6
    DEF CommitStep, CommitEnds, CommitRollsBack, OperationFails,
        OperationSucceeds, checkpointVars
  <2>7. ASSUME NEW c \in Consumer, FaultStep(c)
        PROVE  checkpoint' = checkpoint
    BY <2>7 DEF FaultStep, TargetThrows, Crash, checkpointVars
  <2>8. ASSUME NEW c \in Consumer, ConsumerStep(c)
        PROVE  \/ checkpoint' = checkpoint
               \/ ReadBatch(c) \/ \E e \in Event : Advance(c, e)
    <3>1. ASSUME NEW e \in Event, NEW k \in Kind, TargetProceeds(c, e, k)
          PROVE  checkpoint' = checkpoint
      BY <3>1 DEF TargetProceeds, MarkRunning, Project, MarkSucceeded,
                  MarkFailed, checkpointVars
    <3>2. ASSUME NEW e \in Event, Prepare(c, e) \/ Publish(c, e) \/ PublishThrows(c, e)
          PROVE  checkpoint' = checkpoint
      BY <3>2 DEF Prepare, Publish, PublishThrows, checkpointVars
    <3>3. ASSUME TargetsDone(c) \/ BatchFails(c)
          PROVE  checkpoint' = checkpoint
      BY <3>3 DEF TargetsDone, BatchFails, checkpointVars
    <3> QED BY <2>8, <3>1, <3>2, <3>3 DEF ConsumerStep
  <2> QED BY <1>1, <2>2, <2>3, <2>4, <2>5, <2>6, <2>7, <2>8 DEF Next
<1> QED BY <1>1, OutboxInvariant, PTL DEF Spec, CheckpointMonotone
=============================================================================
