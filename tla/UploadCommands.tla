---------------------------- MODULE UploadCommands ----------------------------
(***************************************************************************)
(* Commands of the Data Foundation on uploads: CommandTransactions.run,    *)
(* with its ledger of idempotency keys, around creating, completing and    *)
(* cancelling an upload session and creating an ingestion of its assets.   *)
(*                                                                         *)
(* A command is one transaction, but the object store is outside of it: a  *)
(* plan opens an upload there, a completion makes an object, and neither   *)
(* is rolled back.  A caller whose answer is lost sends the command again  *)
(* with its key, perhaps while the first attempt is still running.         *)
(*                                                                         *)
(* A session is known by its operation, its assets are its parts.  An      *)
(* ingestion takes the assets of one session and is known by the key of    *)
(* the command that created it.                                            *)
(***************************************************************************)
EXTENDS Integers, FiniteSets

CONSTANTS
  Attempt,      \* requests that can be under way at a time
  MaxKey,       \* bound of the model on the idempotency keys drawn
  MaxSession,   \* bound of the model on the session ids drawn
  Width,        \* objects of a session
  Multipart,    \* those of them that are uploaded in parts
  MaxAuthz,     \* bound of the model on changes of the caller's grants
  MaxFaults     \* bound of the model on what goes wrong

ASSUME UploadAssumption ==
  /\ MaxKey \in Nat
  /\ MaxSession \in Nat
  /\ Width \in Nat \ {0}
  /\ Multipart \subseteq 1 .. Width
  /\ MaxAuthz \in Nat \ {0}
  /\ MaxFaults \in Nat

VARIABLES
  ledger,    \* ledger[k]: the outbox row with key k
  upload,    \* upload[s]: the operation of session s
  bound,     \* bound[s]: the ingestions that have the assets of s
  drawn,     \* the last session id drawn
  object,    \* object[s][p]: part p of session s in the object store
  expired,   \* sessions whose expiresAt has passed
  authz,     \* the caller's authz_version
  attempt,   \* attempt[a]: the run of attempt a
  faults     \* what went wrong so far

tableVars == <<ledger, upload, bound>>
clientVars == <<expired, authz>>
vars == <<ledger, upload, bound, drawn, object, expired, authz, attempt, faults>>

Key == 1 .. MaxKey
NoKey == 0
Session == 1 .. MaxSession
Part == 1 .. Width
Authz == 1 .. MaxAuthz
NoSession == 0

Kind == {"create", "complete", "cancel", "ingest"}

\* An entry tells the request, the session that it is about, and the
\* policy_version of its row.
NoEntry == [kind |-> "none", named |-> NoSession, session |-> NoSession, authz |-> 0]
Entry == [kind : Kind, named : {NoSession} \cup Session, session : Session,
          authz : Authz]

\* policy is the row's policy_version, assets that of its assets.
NoUpload == [status |-> "none", policy |-> 0, assets |-> 0]
UploadRow == [status : {"none", "WAITING_INPUT", "SUCCEEDED", "CANCELLED"},
              policy : {0} \cup Authz, assets : {0} \cup Authz]

\* planned: an upload is open or a URL signed; parts: the parts are there;
\* stored: the object is; aborted: a compensation has removed it.
ObjectState == {"none", "planned", "parts", "stored", "aborted"}

Run ==
  [at : {"idle", "key", "replay", "plan", "row", "objects", "assets", "commit",
         "undo", "compensate"},
   key : Key \cup {NoKey},
   kind : Kind,
   named : {NoSession} \cup Session,  \* the session that the request names
   session : {NoSession} \cup Session, \* the one it works on
   done : 0 .. Width,                 \* objects planned or finished
   late : BOOLEAN,                    \* its timestamp is after expiresAt
   authz : Authz,
   free : BOOLEAN]                    \* it read that no ingestion has the assets

NoRun == [at |-> "idle", key |-> NoKey, kind |-> "create", named |-> NoSession,
          session |-> NoSession, done |-> 0, late |-> FALSE, authz |-> 1, free |-> FALSE]

TypeOK ==
  /\ ledger \in [Key -> Entry \cup {NoEntry}]
  /\ upload \in [Session -> UploadRow]
  /\ bound \in [Session -> SUBSET Key]
  /\ drawn \in 0 .. MaxSession
  /\ object \in [Session -> [Part -> ObjectState]]
  /\ expired \subseteq Session
  /\ authz \in Authz
  /\ attempt \in [Attempt -> Run]
  /\ faults \in 0 .. MaxFaults

Faulty == faults < MaxFaults /\ faults' = faults + 1

-----------------------------------------------------------------------------
(* Locks.  They go with the phase of the transaction.                      *)

\* pg_advisory_xact_lock of the key.
HoldsKey(a) == attempt[a].at \notin {"idle", "key", "compensate"}
KeyIsFree(a) ==
  \A b \in Attempt \ {a} : HoldsKey(b) => attempt[b].key /= attempt[a].key

\* for update of the operation, of the assets.
HoldsRow(b, s) ==
  /\ attempt[b].session = s
  /\ \/ attempt[b].at = "objects"
     \/ attempt[b].at = "commit" /\ attempt[b].kind \in {"complete", "cancel"}

\* Mutant: the row is read for share first, and that lock is raised.
NobodyShares(a, s) ==
  \A b \in Attempt \ {a} :
    /\ ~HoldsRow(b, s)
    /\ ~(attempt[b].at \in {"row", "replay"} /\ attempt[b].session = s)

\* Mutant: the row is read without a lock.
RowIsRead(a, s) == TRUE

RowIsFree(a, s) == \A b \in Attempt \ {a} : ~HoldsRow(b, s)

AssetsAreFree(a, s) ==
  \A b \in Attempt \ {a} :
    ~(attempt[b].session = s /\ attempt[b].at = "commit" /\ attempt[b].kind = "ingest")

-----------------------------------------------------------------------------
(* run.                                                                    *)

Goes(a, new) == attempt' = [attempt EXCEPT ![a] = new]

Ends(a) == Goes(a, NoRun)

IsUsed(k) == ledger[k] /= NoEntry \/ \E a \in Attempt : attempt[a].key = k

\* A request arrives with its key and takes its timestamp and its grants.  The
\* keys that are not in use are alike, and the least of them is drawn.
Start(a, k, kind, s) ==
  /\ attempt[a].at = "idle"
  /\ \A j \in 1 .. k - 1 : IsUsed(j)
  /\ IF kind = "create" THEN s = NoSession
                        ELSE s \in Session /\ upload[s].status /= "none"
  /\ Goes(a, [at |-> "key", key |-> k, kind |-> kind, named |-> s, session |-> s,
              done |-> 0, late |-> s \in expired, authz |-> authz, free |-> FALSE])
  /\ UNCHANGED <<tableVars, drawn, object, clientVars, faults>>

\* Rows of a later policy_version are hidden from an older context.
Sees(a, policy) == policy \in 1 .. attempt[a].authz

SameRequest(a, entry) ==
  entry.kind = attempt[a].kind /\ entry.named = attempt[a].named

\* The lock of the key is granted and the ledger has a row of it: another
\* request is refused, the same one gets its stored answer, unless the answer
\* has to be signed again.
FindsEntry(a) ==
  LET entry == ledger[attempt[a].key]
  IN  /\ attempt[a].at = "key"
      /\ KeyIsFree(a)
      /\ Sees(a, entry.authz)
      /\ IF SameRequest(a, entry) /\ entry.kind = "create"
           THEN Goes(a, [attempt[a] EXCEPT !.at = "replay",
                                           !.session = entry.session])
           ELSE Ends(a)
      /\ UNCHANGED <<tableVars, drawn, object, clientVars, faults>>

\* The replay of a creation signs the targets of a session that is open; it
\* fails or succeeds without an effect.
Replay(a) ==
  /\ attempt[a].at = "replay"
  /\ RowIsFree(a, attempt[a].session)
  /\ Ends(a)
  /\ UNCHANGED <<tableVars, drawn, object, clientVars, faults>>

FirstPhase(kind) ==
  CASE kind = "create" -> "plan"
    [] kind = "ingest" -> "assets"
    [] OTHER -> "row"

\* No row of the key is visible, so the action runs.  A creation draws the ids
\* of its session and assets; the statement that locks the assets reads
\* whether they are bound before it waits for the lock.
Acts(a) ==
  LET r == attempt[a]
      creates == r.kind = "create"
  IN  /\ r.at = "key"
      /\ KeyIsFree(a)
      /\ ~Sees(a, ledger[r.key].authz)
      /\ creates => drawn < MaxSession
      /\ drawn' = IF creates THEN drawn + 1 ELSE drawn
      /\ Goes(a, [r EXCEPT !.at = FirstPhase(r.kind),
                           !.session = IF creates THEN drawn + 1 ELSE @,
                           !.free = /\ r.kind = "ingest"
                                    /\ Sees(a, upload[r.named].assets)
                                    /\ \A k \in bound[r.named] :
                                         ~Sees(a, ledger[k].authz)])
      /\ UNCHANGED <<tableVars, object, clientVars, faults>>

\* The creations beyond the bound of the model end in an error.
RunsOut(a) ==
  /\ attempt[a].at = "key"
  /\ KeyIsFree(a)
  /\ attempt[a].kind = "create"
  /\ drawn = MaxSession
  /\ Ends(a)
  /\ UNCHANGED <<tableVars, drawn, object, clientVars, faults>>

\* The unique index on the key of operations and of outbox rows.
KeyIsNew(a) == ledger[attempt[a].key] = NoEntry

\* The ledger takes the row of the key, or the transaction is rolled back.
Inserts(a) ==
  IF KeyIsNew(a) THEN Goes(a, [attempt[a] EXCEPT !.at = "commit"]) ELSE Ends(a)

EntryOf(a) == [kind |-> attempt[a].kind, named |-> attempt[a].named,
               session |-> attempt[a].session, authz |-> attempt[a].authz]

\* The rows that the transaction of a writes.
Effect(a) ==
  LET r == attempt[a]
      s == r.session
  IN  /\ ledger' = [ledger EXCEPT ![r.key] = EntryOf(a)]
      /\ upload' = CASE r.kind = "create" ->
                          [upload EXCEPT ![s].status = "WAITING_INPUT",
                                         ![s].policy = r.authz]
                     [] r.kind = "complete" ->
                          [upload EXCEPT ![s].status = "SUCCEEDED",
                                         ![s].assets = r.authz]
                     [] r.kind = "cancel" ->
                          [upload EXCEPT ![s].status = "CANCELLED"]
                     [] r.kind = "ingest" -> upload
      /\ bound' = IF r.kind = "ingest" THEN [bound EXCEPT ![s] = @ \cup {r.key}]
                                       ELSE bound

\* commit, and the caller has its answer.
Commit(a) ==
  /\ attempt[a].at = "commit"
  /\ Effect(a)
  /\ Ends(a)
  /\ UNCHANGED <<drawn, object, clientVars, faults>>

\* Mutant: an error compensates even when commit was sent.
CompensatesAlways(a) == IF attempt[a].kind = "create" THEN "compensate" ELSE "idle"

\* commitAttempted: nothing is taken back once commit may have happened.
AfterCommitError(a) == "idle"

\* commit is sent and its answer is lost, or the signal is aborted before it
\* is sent.
CommitBreaks(a) ==
  /\ attempt[a].at = "commit"
  /\ Faulty
  /\ Effect(a) \/ UNCHANGED tableVars
  /\ IF AfterCommitError(a) = "idle" THEN Ends(a)
       ELSE Goes(a, [attempt[a] EXCEPT !.at = AfterCommitError(a)])
  /\ UNCHANGED <<drawn, object, clientVars>>

\* Another error: the transaction is rolled back.  The plans of a creation are
\* taken back, by its handler or after the rollback.
Fails(a) ==
  /\ attempt[a].at \notin {"idle", "undo", "compensate"}
  /\ Faulty
  /\ \/ /\ attempt[a].kind = "create"
        /\ \/ /\ attempt[a].at = "plan"
              /\ Goes(a, [attempt[a] EXCEPT !.at = "undo"])
           \/ /\ attempt[a].at = "commit"
              /\ Goes(a, [attempt[a] EXCEPT !.at = "compensate"])
     \/ ~(attempt[a].kind = "create" /\ attempt[a].at \in {"plan", "commit"}) /\ Ends(a)
  /\ UNCHANGED <<tableVars, drawn, object, clientVars>>

\* The process dies.
Crash(a) ==
  /\ attempt[a].at /= "idle"
  /\ Faulty
  /\ Ends(a)
  /\ UNCHANGED <<tableVars, drawn, object, clientVars>>

\* abortQuarantineObject for every plan that is known; one that fails is let go.
Undo(a) ==
  LET s == attempt[a].session
  IN  /\ attempt[a].at \in {"undo", "compensate"}
      /\ \E P \in SUBSET (1 .. attempt[a].done) :
           /\ object' = [object EXCEPT ![s] =
                [p \in Part |-> IF p \in P THEN "aborted" ELSE @[p]]]
           /\ IF P = 1 .. attempt[a].done THEN UNCHANGED faults ELSE Faulty
      /\ Ends(a)
      /\ UNCHANGED <<tableVars, drawn, clientVars>>

-----------------------------------------------------------------------------
(* The actions of the commands.                                            *)

\* data.uploadSession.create: planQuarantinePut or planQuarantineMultipart.
Plan(a, p) ==
  /\ attempt[a].at = "plan"
  /\ p = attempt[a].done + 1
  /\ object' = [object EXCEPT ![attempt[a].session][p] = "planned"]
  /\ Goes(a, [attempt[a] EXCEPT !.done = p])
  /\ UNCHANGED <<tableVars, drawn, clientVars, faults>>

\* The upload is opened, but the answer does not say so.
PlanBreaks(a, p) ==
  /\ attempt[a].at = "plan"
  /\ p = attempt[a].done + 1
  /\ p \in Multipart
  /\ Faulty
  /\ object' = [object EXCEPT ![attempt[a].session][p] = "planned"]
  /\ Goes(a, [attempt[a] EXCEPT !.at = "undo"])
  /\ UNCHANGED <<tableVars, drawn, clientVars>>

\* insertOperation, in the handler of the creation; a key that only the ledger
\* has is refused after it.
InsertSession(a) ==
  /\ attempt[a].at = "plan"
  /\ attempt[a].done = Width
  /\ Goes(a, [attempt[a] EXCEPT !.at =
       IF KeyIsNew(a) THEN "commit"
       ELSE IF ledger[attempt[a].key].kind \in {"create", "ingest"} THEN "undo"
       ELSE "compensate"])
  /\ UNCHANGED <<tableVars, drawn, object, clientVars, faults>>

\* assertSessionOpen, for a completion; the status, for a cancellation.
IsOpen(a, s) ==
  /\ Sees(a, upload[s].policy)
  /\ upload[s].status = "WAITING_INPUT"
  /\ attempt[a].kind = "complete" => ~attempt[a].late

\* data.uploadSession.complete and data.operation.cancel lock the operation.
LockRow(a) ==
  LET r == attempt[a]
  IN  /\ r.at = "row"
      /\ RowIsFree(a, r.session)
      /\ \/ ~IsOpen(a, r.session) /\ Ends(a)
         \/ IsOpen(a, r.session) /\ r.kind = "cancel" /\ Inserts(a)
         \/ /\ IsOpen(a, r.session)
            /\ r.kind = "complete"
            /\ Goes(a, [r EXCEPT !.at = "objects"])
      /\ UNCHANGED <<tableVars, drawn, object, clientVars, faults>>

\* completeQuarantineMultipart makes an object of parts that are there.
Finished(s, p) == IF object[s][p] = "parts" THEN "stored" ELSE object[s][p]

\* verifyQuarantineObject
Verified(state, p) == state = "stored"

\* One asset of a completion: an error of the multipart completion is forgiven
\* when the object is there.
FinishObject(a, p) ==
  LET s == attempt[a].session
      state == Finished(s, p)
  IN  /\ attempt[a].at = "objects"
      /\ p = attempt[a].done + 1
      /\ object' = [object EXCEPT ![s][p] = state]
      /\ \/ ~Verified(state, p) /\ Ends(a)
         \/ Verified(state, p) /\ p = Width /\ Inserts(a)
         \/ /\ Verified(state, p)
            /\ p < Width
            /\ Goes(a, [attempt[a] EXCEPT !.done = p])
      /\ UNCHANGED <<tableVars, drawn, clientVars, faults>>

\* The caller goes away while the object is made.
FinishBreaks(a, p) ==
  LET s == attempt[a].session
  IN  /\ attempt[a].at = "objects"
      /\ p = attempt[a].done + 1
      /\ Faulty
      /\ object' = [object EXCEPT ![s][p] = Finished(s, p)]
      /\ Ends(a)
      /\ UNCHANGED <<tableVars, drawn, clientVars>>

\* Mutant: what was read before the lock is believed.
ReadAsUnbound(a, s) == TRUE

\* input_asset_one_ingestion_per_asset
NotBound(a, s) == bound[s] = {}

\* data.ingestion.create has its locks: it goes on if it saw the assets and saw
\* them free, and if the index on the assets agrees.
LockAssets(a) ==
  LET r == attempt[a]
      s == r.session
  IN  /\ r.at = "assets"
      /\ AssetsAreFree(a, s)
      /\ IF r.free /\ NotBound(a, s) THEN Inserts(a) ELSE Ends(a)
      /\ UNCHANGED <<tableVars, drawn, object, clientVars, faults>>

-----------------------------------------------------------------------------
(* The caller, its grants, and time.                                       *)

\* The targets of a session that was answered are used.
ClientUploads(s, p) ==
  /\ upload[s].status /= "none"
  /\ object[s][p] = "planned"
  /\ object' = [object EXCEPT ![s][p] = IF p \in Multipart THEN "parts" ELSE "stored"]
  /\ UNCHANGED <<tableVars, drawn, clientVars, attempt, faults>>

Expire(s) ==
  /\ upload[s].status /= "none"
  /\ s \notin expired
  /\ expired' = expired \cup {s}
  /\ UNCHANGED <<tableVars, drawn, object, authz, attempt, faults>>

GrantsChange ==
  /\ authz < MaxAuthz
  /\ authz' = authz + 1
  /\ UNCHANGED <<tableVars, drawn, object, expired, attempt, faults>>

-----------------------------------------------------------------------------
Init ==
  /\ ledger = [k \in Key |-> NoEntry]
  /\ upload = [s \in Session |-> NoUpload]
  /\ bound = [s \in Session |-> {}]
  /\ drawn = 0
  /\ object = [s \in Session |-> [p \in Part |-> "none"]]
  /\ expired = {}
  /\ authz = 1
  /\ attempt = [a \in Attempt |-> NoRun]
  /\ faults = 0

\* Steps that wait for a lock.
Waits(a) ==
  FindsEntry(a) \/ Acts(a) \/ RunsOut(a) \/ Replay(a) \/ LockRow(a) \/ LockAssets(a)

Proceeds(a) ==
  \/ InsertSession(a)
  \/ Commit(a)
  \/ Undo(a)
  \/ \E p \in Part : Plan(a, p) \/ FinishObject(a, p)

Breaks(a) ==
  \/ CommitBreaks(a)
  \/ Fails(a)
  \/ Crash(a)
  \/ \E p \in Part : PlanBreaks(a, p) \/ FinishBreaks(a, p)

Next ==
  \/ \E a \in Attempt :
       \/ \E k \in Key, kind \in Kind, s \in {NoSession} \cup Session :
            Start(a, k, kind, s)
       \/ Waits(a)
       \/ Proceeds(a)
       \/ Breaks(a)
  \/ \E s \in Session : Expire(s) \/ \E p \in Part : ClientUploads(s, p)
  \/ GrantsChange

Spec == Init /\ [][Next]_vars

-----------------------------------------------------------------------------
(* Properties.                                                             *)

\* The keys under which a command of a kind about session s was committed.
KeysOf(kind, s) == {k \in Key : ledger[k].kind = kind /\ ledger[k].session = s}

\* A command is done once for all the attempts of its key: every session,
\* completion, cancellation and ingestion has exactly one row of the ledger, a
\* session is not both completed and cancelled, and its assets are in at most
\* one ingestion, although callers with grants of different age do not see each
\* other's rows and the bound assets are read before their lock is granted.
LedgerMatches ==
  \A s \in Session :
    /\ Cardinality(KeysOf("create", s)) = IF upload[s].status = "none" THEN 0 ELSE 1
    /\ Cardinality(KeysOf("complete", s))
         = IF upload[s].status = "SUCCEEDED" THEN 1 ELSE 0
    /\ Cardinality(KeysOf("cancel", s))
         = IF upload[s].status = "CANCELLED" THEN 1 ELSE 0
    /\ bound[s] = KeysOf("ingest", s)
    /\ Cardinality(bound[s]) <= 1
    /\ bound[s] /= {} => upload[s].status = "SUCCEEDED"

\* The object store has what the tables say: no object of a session that was
\* committed is taken back, and those of a completed one are there, although a
\* creation may commit without knowing it and a completion may be repeated.
ObjectsMatch ==
  \A s \in Session, p \in Part :
    /\ upload[s].status /= "none" => object[s][p] \in {"planned", "parts", "stored"}
    /\ upload[s].status = "SUCCEEDED" => object[s][p] = "stored"

\* The requests under way never all wait for one another: the lock of the key
\* is taken before that of a row, and who holds a row waits for no lock.
SomeRequestMoves ==
  (\E a \in Attempt : attempt[a].at /= "idle")
    => \E a \in Attempt : ENABLED (Waits(a) \/ Proceeds(a))

\* The lock that an attempt waits for is free, and its next part is one of its
\* session.
Unhindered(a) ==
  LET r == attempt[a]
  IN  /\ r.at /= "idle"
      /\ r.at = "key" => KeyIsFree(a)
      /\ r.at \in {"replay", "row"} => RowIsFree(a, r.session)
      /\ r.at = "assets" => AssetsAreFree(a, r.session)
      /\ r.at = "plan" => r.done = Width \/ r.done + 1 \in Part
      /\ r.at = "objects" => r.done + 1 \in Part

\* The same as SomeRequestMoves, said of the locks: no circle of attempts waits.
NoCircleWaits ==
  (\E a \in Attempt : attempt[a].at /= "idle") => \E a \in Attempt : Unhindered(a)

\* Nothing that a caller was told is undone: an answer in the ledger stays, a
\* session goes from open to completed or cancelled and no further, who has its
\* assets keeps them, and the objects of a committed session only come nearer
\* to being stored, whatever attempt is rolled back beside it.
SessionsGoOneWay ==
  [][/\ \A k \in Key : ledger[k] /= NoEntry => ledger'[k] = ledger[k]
     /\ \A s \in Session :
          /\ \/ upload'[s].status = upload[s].status
             \/ upload[s].status = "none" /\ upload'[s].status = "WAITING_INPUT"
             \/ /\ upload[s].status = "WAITING_INPUT"
                /\ upload'[s].status \in {"SUCCEEDED", "CANCELLED"}
          /\ bound[s] /= {} => bound'[s] = bound[s]
          /\ upload[s].status /= "none" => \A p \in Part :
               \/ object'[s][p] = object[s][p]
               \/ object[s][p] = "planned" /\ object'[s][p] \in {"parts", "stored"}
               \/ object[s][p] = "parts" /\ object'[s][p] = "stored"]_vars

\* What was done under each key, what became of each session, and the objects
\* that are there of the sessions that exist.
Deeds == [k \in Key |-> [kind |-> ledger[k].kind, session |-> ledger[k].session]]
Statuses == [s \in Session |-> upload[s].status]
Present ==
  {x \in Session \X Part :
     upload[x[1]].status /= "none" /\ object[x[1]][x[2]] = "stored"}

Desk == INSTANCE UploadDesk WITH
  done <- Deeds, status <- Statuses, taken <- bound, stored <- Present

\* Through repeated and rolled back attempts, lost commits, hidden rows and a
\* store that no transaction covers, every command is done at one moment or not
\* at all, and a completion only when its objects are there to stay.
ImplementsUploadDesk == Desk!Spec
=============================================================================
