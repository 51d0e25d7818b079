----------------------- MODULE UploadCommands_proofs -----------------------
(***************************************************************************)
(* Proofs about the commands on uploads.                                   *)
(*                                                                         *)
(* A run may rely on a statement about its own record and the tables,      *)
(* GoodRun; what keeps another run from breaking it is that the two are    *)
(* Apart: they never hold the same key, row or assets, and never create    *)
(* the same session.  A step of the store's objects touches a session that *)
(* nobody else creates, or takes an object of a committed one further.     *)
(***************************************************************************)
EXTENDS UploadCommands, FiniteSetTheorems, TLAPS

KeyHeld(r) == r.at \notin {"idle", "key", "compensate"}
Creating(r) == r.kind = "create" /\ r.at \in {"plan", "commit", "undo", "compensate"}
RowHeld(r) ==
  \/ r.at = "objects"
  \/ r.at = "commit" /\ r.kind \in {"complete", "cancel"}
Binding(r) == r.at = "commit" /\ r.kind = "ingest"

Apart(r, q) ==
  /\ KeyHeld(r) /\ KeyHeld(q) => r.key # q.key
  /\ Creating(r) /\ Creating(q) => r.session # q.session
  /\ RowHeld(r) /\ RowHeld(q) => r.session # q.session
  /\ Binding(r) /\ Binding(q) => r.session # q.session

Exclusive == \A a, b \in Attempt : a # b => Apart(attempt[a], attempt[b])

Committed(s) == upload[s].status # "none"

GoodKind(r) ==
  /\ r.at # "idle" => r.key \in Key
  /\ r.at \in {"plan", "undo", "compensate", "replay"} => r.kind = "create"
  /\ r.at = "row" => r.kind \in {"complete", "cancel"}
  /\ r.at = "objects" => r.kind = "complete"
  /\ r.at = "assets" => r.kind = "ingest"

GoodSession(r) ==
  /\ r.kind # "create" =>
       r.session = r.named /\ r.session \in Session /\ Committed(r.session)
  /\ Creating(r) => r.session \in 1 .. drawn /\ ~Committed(r.session)

GoodObjects(r) ==
  /\ r.at \in {"key", "row"} => r.done = 0
  /\ r.at = "plan" => \A p \in 1 .. r.done : object[r.session][p] = "planned"
  /\ r.at = "commit" /\ r.kind = "create" =>
       \A p \in Part : object[r.session][p] = "planned"
  /\ r.at = "objects" => \A p \in 1 .. r.done : object[r.session][p] = "stored"
  /\ r.at = "commit" /\ r.kind = "complete" =>
       \A p \in Part : object[r.session][p] = "stored"

GoodRow(r) ==
  /\ RowHeld(r) => upload[r.session].status = "WAITING_INPUT"
  /\ r.free => r.kind = "ingest" /\ upload[r.session].status = "SUCCEEDED"
  /\ Binding(r) => r.free /\ bound[r.session] = {}
  /\ r.at = "commit" => ledger[r.key] = NoEntry

GoodRun(r) ==
  /\ GoodKind(r)
  /\ GoodSession(r)
  /\ GoodObjects(r)
  /\ GoodRow(r)

Runs == \A a \in Attempt : \A r \in Run : attempt[a] = r => GoodRun(r)

About(k, kind, s) == ledger[k].kind = kind /\ ledger[k].session = s

\* Two keys are never of the same command.
OneEntry ==
  \A k, l \in Key, kind \in Kind, s \in Session :
    About(k, kind, s) /\ About(l, kind, s) => k = l

EntriesMatch ==
  \A s \in Session :
    /\ upload[s].status = "none" <=> \A k \in Key : ~About(k, "create", s)
    /\ upload[s].status = "SUCCEEDED" <=> \E k \in Key : About(k, "complete", s)
    /\ upload[s].status = "CANCELLED" <=> \E k \in Key : About(k, "cancel", s)
    /\ bound[s] = KeysOf("ingest", s)
    /\ bound[s] # {} => upload[s].status = "SUCCEEDED"
    /\ upload[s].assets # 0 => upload[s].status = "SUCCEEDED"
    /\ Committed(s) => s <= drawn

Tables ==
  /\ OneEntry
  /\ EntriesMatch
  /\ ObjectsMatch

Inv ==
  /\ TypeOK
  /\ Tables
  /\ Runs
  /\ Exclusive

-----------------------------------------------------------------------------
(* Runs.                                                                   *)

\* The record of an attempt, and what the invariant says of it.
LEMMA RunNow ==
  ASSUME Inv, NEW a \in Attempt
  PROVE  attempt[a] \in Run /\ GoodRun(attempt[a])
<1>1. attempt[a] \in Run
  BY DEF Inv, TypeOK
<1> QED BY <1>1 DEF Inv, Runs

LEMMA RunFields ==
  ASSUME NEW r \in Run
  PROVE  /\ r.at \in {"idle", "key", "replay", "plan", "row", "objects", "assets",
                      "commit", "undo", "compensate"}
         /\ r.key \in Key \cup {NoKey}
         /\ r.kind \in Kind
         /\ r.named \in {NoSession} \cup Session
         /\ r.session \in {NoSession} \cup Session
         /\ r.done \in 0 .. Width
         /\ r.late \in BOOLEAN
         /\ r.authz \in Authz
         /\ r.free \in BOOLEAN
BY DEF Run

\* An attempt that has ended is good, and in nobody's way.
LEMMA RunEnded ==
  ASSUME TypeOK
  PROVE  /\ NoRun \in Run
         /\ GoodRun(NoRun)
         /\ \A r \in Run : Apart(NoRun, r)
<1>1. NoRun \in Run
  BY UploadAssumption DEF NoRun, Run, Key, NoKey, Kind, NoSession, Session, Authz
<1>2. GoodRun(NoRun)
  BY DEF NoRun, GoodRun, GoodKind, GoodSession, GoodObjects, GoodRow, Creating,
         RowHeld, Binding
<1>3. \A r \in Run : Apart(NoRun, r)
  BY DEF NoRun, Apart, KeyHeld, Creating, RowHeld, Binding
<1> QED BY <1>1, <1>2, <1>3

LEMMA ApartIsSymmetric ==
  ASSUME NEW r, NEW q, Apart(r, q)
  PROVE  Apart(q, r)
BY DEF Apart

\* Tables that stay as they are leave a good run good.
LEMMA RunStays ==
  ASSUME TypeOK, UNCHANGED <<tableVars, object>>, drawn' \in drawn .. MaxSession,
         NEW r \in Run, GoodRun(r)
  PROVE  GoodRun(r)'
<1>1. /\ ledger' = ledger
      /\ upload' = upload
      /\ bound' = bound
      /\ object' = object
  BY DEF tableVars
<1>2. GoodSession(r)'
  BY <1>1 DEF GoodRun, GoodSession, Committed, TypeOK
<1> QED BY <1>1, <1>2 DEF GoodRun, GoodKind, GoodObjects, GoodRow

\* A step of one run that leaves the tables and the objects alone.
LEMMA RunMoves ==
  ASSUME Inv, NEW a \in Attempt, NEW r \in Run,
         attempt' = [attempt EXCEPT ![a] = r],
         UNCHANGED <<tableVars, object, clientVars>>,
         drawn' \in drawn .. MaxSession,
         faults' \in 0 .. MaxFaults,
         GoodRun(r)',
         \A b \in Attempt : b # a => Apart(r, attempt[b])
  PROVE  Inv'
<1>1. /\ ledger' = ledger
      /\ upload' = upload
      /\ bound' = bound
      /\ object' = object
      /\ expired' = expired
      /\ authz' = authz
  BY DEF tableVars, clientVars
<1>2. TypeOK'
  <2>1. drawn' \in 0 .. MaxSession
    BY UploadAssumption DEF Inv, TypeOK
  <2>2. attempt' \in [Attempt -> Run]
    BY DEF Inv, TypeOK
  <2> QED BY <1>1, <2>1, <2>2 DEF Inv, TypeOK
<1>3. Tables'
  <2>1. OneEntry'
    BY <1>1 DEF Inv, Tables, OneEntry, About
  <2>2. EntriesMatch'
    <3>1. \A s \in Session : Committed(s)' => s <= drawn'
      BY <1>1, UploadAssumption
      DEF Inv, TypeOK, Tables, EntriesMatch, Committed, Session
    <3> QED BY <1>1, <3>1 DEF Inv, Tables, EntriesMatch, About, KeysOf
  <2>3. ObjectsMatch'
    BY <1>1 DEF Inv, Tables, ObjectsMatch
  <2> QED BY <2>1, <2>2, <2>3 DEF Tables
<1>4. Runs'
  <2> SUFFICES ASSUME NEW b \in Attempt, NEW q \in Run, attempt'[b] = q
               PROVE  GoodRun(q)'
    BY DEF Runs
  <2>1. CASE b = a
    <3>1. q = r
      BY <2>1 DEF Inv, TypeOK
    <3> QED BY <3>1
  <2>2. CASE b # a
    <3>1. attempt[b] = q
      BY <2>2 DEF Inv, TypeOK
    <3>2. GoodRun(q)
      BY <3>1 DEF Inv, Runs
    <3> QED BY <3>2, RunStays DEF Inv
  <2> QED BY <2>1, <2>2
<1>5. Exclusive'
  <2> SUFFICES ASSUME NEW b \in Attempt, NEW c \in Attempt, b # c
               PROVE  Apart(attempt'[b], attempt'[c])
    BY DEF Exclusive
  <2>1. \A d \in Attempt : attempt'[d] = IF d = a THEN r ELSE attempt[d]
    BY DEF Inv, TypeOK
  <2>2. CASE b = a
    BY <2>1, <2>2
  <2>3. CASE c = a
    BY <2>1, <2>3, ApartIsSymmetric
  <2>4. CASE b # a /\ c # a
    BY <2>1, <2>4 DEF Inv, Exclusive
  <2> QED BY <2>2, <2>3, <2>4
<1> QED BY <1>2, <1>3, <1>4, <1>5 DEF Inv

\* A run that ends without an effect.
LEMMA RunEnds ==
  ASSUME Inv, NEW a \in Attempt, Ends(a),
         UNCHANGED <<tableVars, drawn, object, clientVars>>,
         faults' \in 0 .. MaxFaults
  PROVE  Inv'
<1>1. drawn' \in drawn .. MaxSession
  BY UploadAssumption DEF Inv, TypeOK
<1>2. GoodRun(NoRun)'
  BY <1>1, RunEnded, RunStays DEF Inv
<1>3. \A b \in Attempt : b # a => Apart(NoRun, attempt[b])
  BY RunEnded, RunNow DEF Inv
<1> QED BY <1>1, <1>2, <1>3, RunEnded, RunMoves DEF Ends, Goes, Inv

-----------------------------------------------------------------------------
(* The steps of a run that leave the tables alone.                         *)

LEMMA StartKeeps ==
  ASSUME Inv, NEW a \in Attempt, NEW k \in Key, NEW kind \in Kind,
         NEW s \in {NoSession} \cup Session, Start(a, k, kind, s)
  PROVE  Inv'
<1>1. PICK r \in Run :
        r = [at |-> "key", key |-> k, kind |-> kind, named |-> s, session |-> s,
             done |-> 0, late |-> s \in expired, authz |-> authz, free |-> FALSE]
  <2>1. /\ 0 \in 0 .. Width
        /\ authz \in Authz
        /\ (s \in expired) \in BOOLEAN
    BY UploadAssumption DEF Inv, TypeOK
  <2> QED BY <2>1 DEF Run
<1>2. /\ attempt' = [attempt EXCEPT ![a] = r]
      /\ UNCHANGED <<tableVars, object, clientVars>>
      /\ drawn' \in drawn .. MaxSession
      /\ faults' \in 0 .. MaxFaults
  BY <1>1, UploadAssumption DEF Start, Goes, Inv, TypeOK
<1>3. GoodRun(r)
  BY <1>1 DEF GoodRun, GoodKind, GoodSession, GoodObjects, GoodRow, Creating, RowHeld,
         Binding, Start, Committed, Kind
<1>4. \A b \in Attempt : b # a => Apart(r, attempt[b])
  BY <1>1 DEF Apart, KeyHeld, Creating, RowHeld, Binding
<1>5. GoodRun(r)'
  BY <1>2, <1>3, RunStays DEF Inv
<1> QED BY <1>2, <1>4, <1>5, RunMoves

\* The key is in nobody else's hands when its lock is granted.
LEMMA KeyGranted ==
  ASSUME Inv, NEW a \in Attempt, KeyIsFree(a),
         NEW b \in Attempt, b # a, KeyHeld(attempt[b])
  PROVE  attempt[b].key # attempt[a].key
BY DEF KeyIsFree, HoldsKey, KeyHeld

LEMMA FindsEntryKeeps ==
  ASSUME Inv, NEW a \in Attempt, FindsEntry(a)
  PROVE  Inv'
<1> DEFINE entry == ledger[attempt[a].key]
<1>1. /\ attempt[a] \in Run
      /\ GoodRun(attempt[a])
      /\ attempt[a].at = "key"
      /\ KeyIsFree(a)
  BY RunNow DEF FindsEntry
<1>2. /\ UNCHANGED <<tableVars, drawn, object, clientVars>>
      /\ drawn' \in drawn .. MaxSession
      /\ faults' \in 0 .. MaxFaults
  BY UploadAssumption DEF FindsEntry, Inv, TypeOK
<1>3. CASE Ends(a)
  BY <1>2, <1>3, RunEnds
<1>4. CASE /\ SameRequest(a, entry)
           /\ entry.kind = "create"
           /\ Goes(a, [attempt[a] EXCEPT !.at = "replay", !.session = entry.session])
  <2>1. attempt[a].key \in Key /\ attempt[a].kind = "create"
    BY <1>1, <1>4 DEF GoodRun, GoodKind, SameRequest
  <2>2. entry \in Entry
    BY <1>4, <2>1 DEF Inv, TypeOK, NoEntry
  <2>3. PICK r \in Run :
          r = [attempt[a] EXCEPT !.at = "replay", !.session = entry.session]
    BY <1>1, <2>2 DEF Run, Entry
  <2>4. GoodRun(r)
    BY <1>1, <2>1, <2>3 DEF GoodRun, GoodKind, GoodSession, GoodObjects, GoodRow, Creating,
                      RowHeld, Binding, Run
  <2>5. \A b \in Attempt : b # a => Apart(r, attempt[b])
    BY <1>1, <2>1, <2>3, KeyGranted
    DEF Apart, KeyHeld, Creating, RowHeld, Binding, Run
  <2>6. GoodRun(r)'
    BY <1>2, <2>4, RunStays DEF Inv
  <2> QED BY <1>2, <1>4, <2>3, <2>5, <2>6, RunMoves DEF Goes
<1> QED BY <1>3, <1>4 DEF FindsEntry

\* A row that the context sees has a policy.
LEMMA SeenIsThere ==
  ASSUME Inv, NEW a \in Attempt, NEW policy, Sees(a, policy)
  PROVE  policy # 0
BY DEF Sees

LEMMA ActsKeeps ==
  ASSUME Inv, NEW a \in Attempt, Acts(a)
  PROVE  Inv'
<1> DEFINE o == attempt[a]
           creates == o.kind = "create"
           free == /\ o.kind = "ingest"
                   /\ Sees(a, upload[o.named].assets)
                   /\ \A k \in bound[o.named] : ~Sees(a, ledger[k].authz)
           new == [o EXCEPT !.at = FirstPhase(o.kind),
                            !.session = IF creates THEN drawn + 1 ELSE @,
                            !.free = free]
<1>1. /\ o \in Run
      /\ GoodRun(o)
      /\ o.at = "key"
      /\ KeyIsFree(a)
  BY RunNow DEF Acts
<1>2. /\ attempt' = [attempt EXCEPT ![a] = new]
      /\ UNCHANGED <<tableVars, object, clientVars>>
      /\ faults' \in 0 .. MaxFaults
      /\ creates => drawn < MaxSession
      /\ drawn' = IF creates THEN drawn + 1 ELSE drawn
  BY DEF Acts, Goes, Inv, TypeOK
<1>3. /\ drawn \in 0 .. MaxSession
      /\ drawn' \in drawn .. MaxSession
  BY <1>2, UploadAssumption DEF Inv, TypeOK
<1>4. o.kind \in Kind
  BY <1>1, RunFields
<1>5. FirstPhase(o.kind) = CASE o.kind = "create" -> "plan"
                             [] o.kind = "ingest" -> "assets"
                             [] OTHER -> "row"
  BY DEF FirstPhase
<1>6. PICK r \in Run : r = new
  <2>1. FirstPhase(o.kind) \in {"plan", "assets", "row"}
    BY <1>4, <1>5 DEF Kind
  <2>2. creates => drawn + 1 \in Session
    BY <1>2, <1>3, UploadAssumption DEF Session
  <2>3. free \in BOOLEAN
    OBVIOUS
  <2> QED BY <1>1, <2>1, <2>2, <2>3 DEF Run
<1>7. /\ attempt' = [attempt EXCEPT ![a] = r]
      /\ r.at = FirstPhase(o.kind)
      /\ r.key = o.key
      /\ r.kind = o.kind
      /\ r.named = o.named
      /\ r.session = IF creates THEN drawn + 1 ELSE o.session
      /\ r.done = o.done
      /\ r.free = free
  BY <1>1, <1>2, <1>6 DEF Run
<1>8. GoodRun(r)'
  <2>1. GoodKind(r)'
    BY <1>1, <1>4, <1>5, <1>7 DEF GoodRun, GoodKind, Kind
  <2>2. GoodSession(r)'
    <3>1. CASE creates
      <4>1. ~Committed(drawn + 1)
        BY <1>2, <1>3, <3>1, UploadAssumption
        DEF Inv, Tables, EntriesMatch, Session
      <4> QED BY <1>2, <1>3, <1>7, <3>1, <4>1 DEF GoodSession, Committed, tableVars
    <3>2. CASE ~creates
      BY <1>1, <1>2, <1>7, <3>2
      DEF GoodRun, GoodSession, Creating, Committed, tableVars
    <3> QED BY <3>1, <3>2
  <2>3. GoodObjects(r)'
    BY <1>1, <1>4, <1>5, <1>7 DEF GoodRun, GoodObjects, Kind
  <2>4. GoodRow(r)'
    <3>1. r.free => o.kind = "ingest" /\ upload[r.session].status = "SUCCEEDED"
      <4> SUFFICES ASSUME free PROVE upload[r.session].status = "SUCCEEDED"
        BY <1>7
      <4>1. /\ r.session \in Session
            /\ r.session = o.named
        BY <1>1, <1>7 DEF GoodRun, GoodSession
      <4>2. upload[r.session].assets # 0
        BY <4>1, SeenIsThere
      <4> QED BY <4>1, <4>2 DEF Inv, Tables, EntriesMatch
    <3>2. ~RowHeld(r) /\ ~Binding(r) /\ r.at # "commit"
      BY <1>4, <1>5, <1>7 DEF RowHeld, Binding, Kind
    <3> QED BY <1>2, <1>7, <3>1, <3>2 DEF GoodRow, tableVars
  <2> QED BY <2>1, <2>2, <2>3, <2>4 DEF GoodRun
<1>9. \A b \in Attempt : b # a => Apart(r, attempt[b])
  <2> SUFFICES ASSUME NEW b \in Attempt, b # a
               PROVE  Apart(r, attempt[b])
    OBVIOUS
  <2>1. KeyHeld(attempt[b]) => r.key # attempt[b].key
    BY <1>1, <1>7, KeyGranted
  <2>2. Creating(r) /\ Creating(attempt[b]) => r.session # attempt[b].session
    <3> SUFFICES ASSUME Creating(r), Creating(attempt[b])
                 PROVE  r.session # attempt[b].session
      OBVIOUS
    <3>1. attempt[b].session \in 1 .. drawn
      BY RunNow DEF GoodRun, GoodSession
    <3>2. r.session = drawn + 1
      BY <1>7 DEF Creating
    <3> QED BY <1>3, <3>1, <3>2
  <2>3. ~RowHeld(r) /\ ~Binding(r)
    BY <1>4, <1>5, <1>7 DEF RowHeld, Binding, Kind
  <2> QED BY <2>1, <2>2, <2>3 DEF Apart
<1> QED BY <1>2, <1>3, <1>7, <1>8, <1>9, RunMoves

LEMMA EndsKeep ==
  ASSUME Inv, NEW a \in Attempt, Replay(a) \/ RunsOut(a) \/ Crash(a)
  PROVE  Inv'
<1>1. /\ Ends(a)
      /\ UNCHANGED <<tableVars, drawn, object, clientVars>>
  BY DEF Replay, RunsOut, Crash
<1>2. faults' \in 0 .. MaxFaults
  BY UploadAssumption DEF Replay, RunsOut, Crash, Faulty, Inv, TypeOK
<1> QED BY <1>1, <1>2, RunEnds

\* No other run holds the row, or the assets, that record r would hold.
Alone(a, r) ==
  \A b \in Attempt : b # a =>
    /\ RowHeld(r) /\ RowHeld(attempt[b]) => r.session # attempt[b].session
    /\ Binding(r) /\ Binding(attempt[b]) => r.session # attempt[b].session

\* A run that changes its phase only, and gets no nearer to the others.
LEMMA PhaseMoves ==
  ASSUME Inv, NEW a \in Attempt, NEW q \in Run, attempt[a] = q,
         NEW to \in {"undo", "compensate", "commit", "objects"},
         NEW r \in Run, r = [q EXCEPT !.at = to],
         Goes(a, [attempt[a] EXCEPT !.at = to]),
         UNCHANGED <<tableVars, drawn, object, clientVars>>,
         faults' \in 0 .. MaxFaults,
         GoodRun(r),
         KeyHeld(r) => KeyHeld(q),
         Creating(r) => Creating(q),
         Alone(a, r)
  PROVE  Inv'
<1>1. /\ attempt' = [attempt EXCEPT ![a] = r]
      /\ drawn' \in drawn .. MaxSession
  BY UploadAssumption DEF Goes, Inv, TypeOK
<1>2. GoodRun(r)'
  BY <1>1, RunStays DEF Inv
<1>3. \A b \in Attempt : b # a => Apart(r, attempt[b])
  <2> SUFFICES ASSUME NEW b \in Attempt, b # a
               PROVE  Apart(r, attempt[b])
    OBVIOUS
  <2>1. Apart(q, attempt[b])
    BY DEF Inv, Exclusive
  <2>2. r.key = q.key /\ r.session = q.session
    BY DEF Run
  <2> QED BY <2>1, <2>2 DEF Apart, Alone
<1> QED BY <1>1, <1>2, <1>3, RunMoves

LEMMA FailsKeeps ==
  ASSUME Inv, NEW a \in Attempt, Fails(a)
  PROVE  Inv'
<1>1. PICK q \in Run : q = attempt[a] /\ GoodRun(q)
  BY RunNow
<1>2. /\ UNCHANGED <<tableVars, drawn, object, clientVars>>
      /\ faults' \in 0 .. MaxFaults
  BY UploadAssumption DEF Fails, Faulty, Inv, TypeOK
<1>3. CASE Ends(a)
  BY <1>2, <1>3, RunEnds
<1>4. ASSUME NEW to \in {"undo", "compensate"},
             q.kind = "create", q.at \in {"plan", "commit"},
             Goes(a, [attempt[a] EXCEPT !.at = to])
      PROVE  Inv'
  <2>0. PICK r \in Run : r = [q EXCEPT !.at = to]
    BY DEF Run
  <2>1. /\ r.at = to /\ r.kind = q.kind /\ r.session = q.session /\ r.key = q.key
        /\ r.free = q.free /\ r.named = q.named /\ r.done = q.done
    BY <2>0 DEF Run
  <2>2. GoodRun(r)
    <3>1. GoodKind(r)
      BY <1>1, <1>4, <2>1 DEF GoodRun, GoodKind
    <3>2. GoodSession(r)
      BY <1>1, <1>4, <2>1 DEF GoodRun, GoodSession, Creating
    <3>3. GoodObjects(r)
      BY <1>4, <2>1 DEF GoodObjects
    <3>4. GoodRow(r)
      BY <1>1, <1>4, <2>1 DEF GoodRun, GoodRow, RowHeld, Binding
    <3> QED BY <3>1, <3>2, <3>3, <3>4 DEF GoodRun
  <2>3. /\ KeyHeld(r) => KeyHeld(q)
        /\ Creating(r) => Creating(q)
        /\ Alone(a, r)
    BY <1>4, <2>1 DEF KeyHeld, Creating, RowHeld, Binding, Alone
  <2> QED BY <1>1, <1>2, <1>4, <2>0, <2>2, <2>3, PhaseMoves
<1>5. \/ Ends(a)
      \/ /\ q.kind = "create"
         /\ \/ q.at = "plan" /\ Goes(a, [attempt[a] EXCEPT !.at = "undo"])
            \/ q.at = "commit" /\ Goes(a, [attempt[a] EXCEPT !.at = "compensate"])
  BY <1>1 DEF Fails
<1> QED BY <1>3, <1>4, <1>5

LEMMA InsertSessionKeeps ==
  ASSUME Inv, NEW a \in Attempt, InsertSession(a)
  PROVE  Inv'
<1>1. PICK q \in Run : q = attempt[a] /\ GoodRun(q)
  BY RunNow
<1>2. /\ UNCHANGED <<tableVars, drawn, object, clientVars>>
      /\ faults' \in 0 .. MaxFaults
      /\ q.at = "plan" /\ q.done = Width /\ q.kind = "create"
  BY <1>1 DEF InsertSession, Inv, TypeOK, GoodRun, GoodKind
<1>3. PICK to \in {"commit", "undo", "compensate"} :
        /\ Goes(a, [attempt[a] EXCEPT !.at = to])
        /\ to = "commit" => KeyIsNew(a)
  <2>1. CASE KeyIsNew(a)
    BY <2>1 DEF InsertSession
  <2>2. CASE ~KeyIsNew(a) /\ ledger[attempt[a].key].kind \in {"create", "ingest"}
    BY <2>2 DEF InsertSession
  <2>3. CASE ~KeyIsNew(a) /\ ledger[attempt[a].key].kind \notin {"create", "ingest"}
    BY <2>3 DEF InsertSession
  <2> QED BY <2>1, <2>2, <2>3
<1>0. PICK r \in Run : r = [q EXCEPT !.at = to]
  BY DEF Run
<1>4. /\ r.at = to /\ r.kind = q.kind /\ r.session = q.session /\ r.key = q.key
      /\ r.free = q.free /\ r.named = q.named /\ r.done = q.done
  BY <1>0 DEF Run
<1>5. GoodRun(r)
  <2>1. GoodKind(r)
    BY <1>1, <1>2, <1>4 DEF GoodRun, GoodKind
  <2>2. GoodSession(r)
    BY <1>1, <1>2, <1>4 DEF GoodRun, GoodSession, Creating
  <2>3. GoodObjects(r)
    BY <1>1, <1>2, <1>4 DEF GoodRun, GoodObjects, Part
  <2>4. GoodRow(r)
    BY <1>1, <1>2, <1>3, <1>4 DEF GoodRun, GoodRow, RowHeld, Binding, KeyIsNew
  <2> QED BY <2>1, <2>2, <2>3, <2>4 DEF GoodRun
<1>6. /\ KeyHeld(r) => KeyHeld(q)
      /\ Creating(r) => Creating(q)
      /\ Alone(a, r)
  BY <1>2, <1>4 DEF KeyHeld, Creating, RowHeld, Binding, Alone
<1> QED BY <1>0, <1>1, <1>2, <1>3, <1>5, <1>6, PhaseMoves

\* Nobody else holds the row when its lock is granted.
LEMMA RowGranted ==
  ASSUME Inv, NEW a \in Attempt, RowIsFree(a, attempt[a].session),
         NEW b \in Attempt, b # a, RowHeld(attempt[b])
  PROVE  attempt[b].session # attempt[a].session
BY DEF RowIsFree, HoldsRow, RowHeld

LEMMA LockRowKeeps ==
  ASSUME Inv, NEW a \in Attempt, LockRow(a)
  PROVE  Inv'
<1>1. PICK q \in Run : q = attempt[a] /\ GoodRun(q)
  BY RunNow
<1>2. /\ UNCHANGED <<tableVars, drawn, object, clientVars>>
      /\ faults' \in 0 .. MaxFaults
      /\ q.at = "row" /\ q.kind \in {"complete", "cancel"} /\ q.done = 0
      /\ RowIsFree(a, q.session)
  BY <1>1 DEF LockRow, Inv, TypeOK, GoodRun, GoodKind, GoodObjects
<1>3. CASE Ends(a)
  BY <1>2, <1>3, RunEnds
<1>4. ASSUME NEW to \in {"commit", "objects"},
             Goes(a, [attempt[a] EXCEPT !.at = to]),
             upload[q.session].status = "WAITING_INPUT",
             to = "commit" => q.kind = "cancel" /\ ledger[q.key] = NoEntry,
             to = "objects" => q.kind = "complete"
      PROVE  Inv'
  <2>0. PICK r \in Run : r = [q EXCEPT !.at = to]
    BY DEF Run
  <2>1. /\ r.at = to /\ r.kind = q.kind /\ r.session = q.session /\ r.key = q.key
        /\ r.free = q.free /\ r.named = q.named /\ r.done = q.done
    BY <2>0 DEF Run
  <2>2. GoodRun(r)
    <3>1. GoodKind(r)
      BY <1>1, <1>2, <1>4, <2>1 DEF GoodRun, GoodKind
    <3>2. GoodSession(r)
      BY <1>1, <1>2, <1>4, <2>1 DEF GoodRun, GoodSession, Creating
    <3>3. GoodObjects(r)
      <4>1. 1 .. r.done = {}
        BY <1>2, <2>1
      <4> QED BY <1>2, <1>4, <2>1, <4>1 DEF GoodObjects
    <3>4. GoodRow(r)
      BY <1>1, <1>2, <1>4, <2>1 DEF GoodRun, GoodRow, RowHeld, Binding
    <3> QED BY <3>1, <3>2, <3>3, <3>4 DEF GoodRun
  <2>3. /\ KeyHeld(r) => KeyHeld(q)
        /\ Creating(r) => Creating(q)
        /\ ~Binding(r)
    BY <1>2, <2>1 DEF KeyHeld, Creating, Binding
  <2>4. \A b \in Attempt : b # a /\ RowHeld(attempt[b])
                             => q.session # attempt[b].session
    BY <1>1, <1>2, RowGranted
  <2>5. Alone(a, r)
    BY <2>1, <2>3, <2>4 DEF Alone
  <2> QED BY <1>1, <1>2, <1>4, <2>0, <2>2, <2>3, <2>5, PhaseMoves
<1>5. \/ Ends(a)
      \/ /\ IsOpen(a, attempt[a].session)
         /\ \/ q.kind = "cancel" /\ Inserts(a)
            \/ q.kind = "complete" /\ Goes(a, [attempt[a] EXCEPT !.at = "objects"])
  BY <1>1 DEF LockRow
<1>6. CASE IsOpen(a, attempt[a].session) /\ q.kind = "cancel" /\ Inserts(a)
  <2>1. upload[q.session].status = "WAITING_INPUT"
    BY <1>1, <1>6 DEF IsOpen
  <2>2. CASE KeyIsNew(a) /\ Goes(a, [attempt[a] EXCEPT !.at = "commit"])
    BY <1>1, <1>4, <1>6, <2>1, <2>2 DEF KeyIsNew
  <2> QED BY <1>3, <1>6, <2>2 DEF Inserts
<1>7. CASE /\ IsOpen(a, attempt[a].session)
           /\ q.kind = "complete"
           /\ Goes(a, [attempt[a] EXCEPT !.at = "objects"])
  BY <1>1, <1>4, <1>7 DEF IsOpen
<1> QED BY <1>3, <1>5, <1>6, <1>7

LEMMA LockAssetsKeeps ==
  ASSUME Inv, NEW a \in Attempt, LockAssets(a)
  PROVE  Inv'
<1>1. PICK q \in Run : q = attempt[a] /\ GoodRun(q)
  BY RunNow
<1>2. /\ UNCHANGED <<tableVars, drawn, object, clientVars>>
      /\ faults' \in 0 .. MaxFaults
      /\ q.at = "assets" /\ q.kind = "ingest"
      /\ AssetsAreFree(a, q.session)
  BY <1>1 DEF LockAssets, Inv, TypeOK, GoodRun, GoodKind
<1>3. CASE Ends(a)
  BY <1>2, <1>3, RunEnds
<1>4. CASE /\ q.free
           /\ KeyIsNew(a)
           /\ NotBound(a, q.session)
           /\ Goes(a, [attempt[a] EXCEPT !.at = "commit"])
  <2>0. PICK r \in Run : r = [q EXCEPT !.at = "commit"]
    BY DEF Run
  <2>1. /\ r.at = "commit" /\ r.kind = q.kind /\ r.session = q.session
        /\ r.key = q.key /\ r.free = q.free /\ r.named = q.named
    BY <2>0 DEF Run
  <2>2. GoodRun(r)
    <3>1. GoodKind(r)
      BY <1>1, <1>2, <2>1 DEF GoodRun, GoodKind
    <3>2. GoodSession(r)
      BY <1>1, <1>2, <2>1 DEF GoodRun, GoodSession, Creating
    <3>3. GoodObjects(r)
      BY <1>2, <2>1 DEF GoodObjects
    <3>4. GoodRow(r)
      BY <1>1, <1>2, <1>4, <2>1
      DEF GoodRun, GoodRow, RowHeld, Binding, KeyIsNew, NotBound
    <3> QED BY <3>1, <3>2, <3>3, <3>4 DEF GoodRun
  <2>3. /\ KeyHeld(r) => KeyHeld(q)
        /\ Creating(r) => Creating(q)
        /\ ~RowHeld(r)
    BY <1>2, <2>1 DEF KeyHeld, Creating, RowHeld
  <2>4. \A b \in Attempt : b # a /\ Binding(attempt[b])
                             => q.session # attempt[b].session
    BY <1>2 DEF AssetsAreFree, Binding
  <2>5. Alone(a, r)
    BY <2>1, <2>3, <2>4 DEF Alone
  <2> QED BY <1>1, <1>2, <1>4, <2>0, <2>2, <2>3, <2>5, PhaseMoves
<1>5. Ends(a) \/ /\ q.free
                 /\ KeyIsNew(a)
                 /\ NotBound(a, q.session)
                 /\ Goes(a, [attempt[a] EXCEPT !.at = "commit"])
  BY <1>1 DEF LockAssets, Inserts
<1> QED BY <1>3, <1>4, <1>5

-----------------------------------------------------------------------------
(* Commits.                                                                *)

\* What the commit of run q does to session s, by its kind.
Creates(q, s) ==
  /\ q.kind = "create"
  /\ upload[s].status = "none" /\ upload'[s].status = "WAITING_INPUT"
  /\ upload'[s].assets = upload[s].assets
  /\ bound' = bound

Completes(q, s) ==
  /\ q.kind = "complete"
  /\ upload[s].status = "WAITING_INPUT" /\ upload'[s].status = "SUCCEEDED"
  /\ bound' = bound

Cancels(q, s) ==
  /\ q.kind = "cancel"
  /\ upload[s].status = "WAITING_INPUT" /\ upload'[s].status = "CANCELLED"
  /\ upload'[s].assets = upload[s].assets
  /\ bound' = bound

Ingests(q, s) ==
  /\ q.kind = "ingest"
  /\ upload[s].status = "SUCCEEDED"
  /\ upload' = upload
  /\ bound[s] = {}
  /\ bound' = [bound EXCEPT ![s] = {q.key}]

\* The row of a session of which two fields are written.
LEMMA RowOpened ==
  ASSUME upload \in [Session -> UploadRow], NEW s \in Session, NEW policy \in Authz,
         upload' = [upload EXCEPT ![s].status = "WAITING_INPUT", ![s].policy = policy]
  PROVE  /\ upload' \in [Session -> UploadRow]
         /\ \A t \in Session : t # s => upload'[t] = upload[t]
         /\ upload'[s].status = "WAITING_INPUT"
         /\ upload'[s].assets = upload[s].assets
<1>1. upload[s] \in UploadRow
  OBVIOUS
<1>2. [upload[s] EXCEPT !.status = "WAITING_INPUT", !.policy = policy] \in UploadRow
  BY <1>1 DEF UploadRow
<1> QED BY <1>1, <1>2 DEF UploadRow

LEMMA RowCompleted ==
  ASSUME upload \in [Session -> UploadRow], NEW s \in Session, NEW policy \in Authz,
         upload' = [upload EXCEPT ![s].status = "SUCCEEDED", ![s].assets = policy]
  PROVE  /\ upload' \in [Session -> UploadRow]
         /\ \A t \in Session : t # s => upload'[t] = upload[t]
         /\ upload'[s].status = "SUCCEEDED"
<1>1. upload[s] \in UploadRow
  OBVIOUS
<1>2. [upload[s] EXCEPT !.status = "SUCCEEDED", !.assets = policy] \in UploadRow
  BY <1>1 DEF UploadRow
<1> QED BY <1>1, <1>2 DEF UploadRow

LEMMA EffectOfCommit ==
  ASSUME Inv, NEW a \in Attempt, NEW q \in Run, q = attempt[a],
         q.at = "commit", Effect(a)
  PROVE  /\ q.key \in Key
         /\ q.session \in Session
         /\ ledger[q.key] = NoEntry
         /\ \E e \in Entry : /\ e.kind = q.kind
                             /\ e.session = q.session
                             /\ ledger' = [ledger EXCEPT ![q.key] = e]
         /\ upload' \in [Session -> UploadRow]
         /\ bound' \in [Session -> SUBSET Key]
         /\ \A t \in Session : t # q.session => upload'[t] = upload[t]
         /\ \/ Creates(q, q.session)
            \/ Completes(q, q.session)
            \/ Cancels(q, q.session)
            \/ Ingests(q, q.session)
<1>1. GoodRun(q)
  BY RunNow
<1>2. q.key \in Key /\ ledger[q.key] = NoEntry
  BY <1>1 DEF GoodRun, GoodKind, GoodRow
<1>3. q.session \in Session
  BY <1>1, UploadAssumption
  DEF GoodRun, GoodSession, Creating, Session, Inv, TypeOK
<1>4. /\ q.kind \in Kind
      /\ q.authz \in Authz
      /\ q.named \in {NoSession} \cup Session
  BY RunFields
<1>5. EntryOf(a) \in Entry /\ EntryOf(a).kind = q.kind /\ EntryOf(a).session = q.session
  BY <1>3, <1>4 DEF EntryOf, Entry
<1>6. ledger' = [ledger EXCEPT ![q.key] = EntryOf(a)]
  BY DEF Effect
<1>7. /\ upload \in [Session -> UploadRow]
      /\ bound \in [Session -> SUBSET Key]
  BY DEF Inv, TypeOK
<1>8. CASE q.kind = "create"
  <2>1. /\ upload' = [upload EXCEPT ![q.session].status = "WAITING_INPUT",
                                    ![q.session].policy = q.authz]
        /\ bound' = bound
    BY <1>8 DEF Effect
  <2>2. upload[q.session].status = "none"
    BY <1>1, <1>3, <1>7, <1>8
    DEF GoodRun, GoodSession, Creating, Committed, UploadRow
  <2>3. /\ upload' \in [Session -> UploadRow]
        /\ upload'[q.session].status = "WAITING_INPUT"
        /\ upload'[q.session].assets = upload[q.session].assets
        /\ \A t \in Session : t # q.session => upload'[t] = upload[t]
    BY <1>3, <1>4, <1>7, <2>1, RowOpened
  <2> QED BY <1>2, <1>3, <1>5, <1>6, <1>7, <1>8, <2>1, <2>2, <2>3 DEF Creates
<1>9. CASE q.kind = "complete"
  <2>1. /\ upload' = [upload EXCEPT ![q.session].status = "SUCCEEDED",
                                    ![q.session].assets = q.authz]
        /\ bound' = bound
    BY <1>9 DEF Effect
  <2>2. upload[q.session].status = "WAITING_INPUT"
    BY <1>1, <1>9 DEF GoodRun, GoodRow, RowHeld
  <2>3. /\ upload' \in [Session -> UploadRow]
        /\ upload'[q.session].status = "SUCCEEDED"
        /\ \A t \in Session : t # q.session => upload'[t] = upload[t]
    BY <1>3, <1>4, <1>7, <2>1, RowCompleted
  <2> QED BY <1>2, <1>3, <1>5, <1>6, <1>7, <1>9, <2>1, <2>2, <2>3 DEF Completes
<1>10. CASE q.kind = "cancel"
  <2>1. /\ upload' = [upload EXCEPT ![q.session].status = "CANCELLED"]
        /\ bound' = bound
    BY <1>10 DEF Effect
  <2>2. upload[q.session].status = "WAITING_INPUT"
    BY <1>1, <1>10 DEF GoodRun, GoodRow, RowHeld
  <2>3. [upload[q.session] EXCEPT !.status = "CANCELLED"] \in UploadRow
    BY <1>3, <1>7 DEF UploadRow
  <2>4. [upload[q.session] EXCEPT !.status = "CANCELLED"].status = "CANCELLED"
        /\ [upload[q.session] EXCEPT !.status = "CANCELLED"].assets
             = upload[q.session].assets
    BY <1>3, <1>7 DEF UploadRow
  <2>5. /\ upload' \in [Session -> UploadRow]
        /\ upload'[q.session].status = "CANCELLED"
        /\ upload'[q.session].assets = upload[q.session].assets
        /\ \A t \in Session : t # q.session => upload'[t] = upload[t]
    BY <1>3, <1>7, <2>1, <2>3, <2>4
  <2> QED BY <1>2, <1>3, <1>5, <1>6, <1>7, <1>10, <2>1, <2>2, <2>5 DEF Cancels
<1>11. CASE q.kind = "ingest"
  <2>1. upload' = upload
    BY <1>11 DEF Effect
  <2>2. /\ upload[q.session].status = "SUCCEEDED"
        /\ bound[q.session] = {}
    BY <1>1, <1>11 DEF GoodRun, GoodRow, Binding
  <2>3. bound' = [bound EXCEPT ![q.session] = {q.key}]
    BY <1>3, <1>7, <1>11, <2>2 DEF Effect
  <2> QED BY <1>2, <1>3, <1>5, <1>6, <1>7, <1>11, <2>1, <2>2, <2>3 DEF Ingests
<1> QED BY <1>4, <1>8, <1>9, <1>10, <1>11 DEF Kind

\* The tables after a commit.
LEMMA CommitKeepsTables ==
  ASSUME Inv, UNCHANGED <<drawn, object>>,
         NEW q \in Run, q.at = "commit", GoodRun(q), q.key \in Key,
         q.session \in Session, q.session \in 1 .. drawn, ledger[q.key] = NoEntry,
         NEW e \in Entry, ledger' = [ledger EXCEPT ![q.key] = e],
         e.kind = q.kind, e.session = q.session,
         \A t \in Session : t # q.session => upload'[t] = upload[t],
         \/ Creates(q, q.session) \/ Completes(q, q.session)
         \/ Cancels(q, q.session) \/ Ingests(q, q.session)
  PROVE  Tables'
<1>0. PICK k \in Key, s \in Session : k = q.key /\ s = q.session
  OBVIOUS
<1>a. /\ s \in 1 .. drawn
      /\ ledger[k] = NoEntry
      /\ e.kind = q.kind /\ e.session = s
      /\ ledger' = [ledger EXCEPT ![k] = e]
      /\ \A t \in Session : t # s => upload'[t] = upload[t]
      /\ Creates(q, s) \/ Completes(q, s) \/ Cancels(q, s) \/ Ingests(q, s)
  BY <1>0
<1>b. /\ q.kind = "create" => \A p \in Part : object[s][p] = "planned"
      /\ q.kind = "complete" => \A p \in Part : object[s][p] = "stored"
  BY <1>0 DEF GoodRun, GoodObjects
<1> USE <1>0, <1>a
<1>1. q.kind \in Kind
  BY RunFields
<1>2. /\ ledger \in [Key -> Entry \cup {NoEntry}]
      /\ \A l \in Key : ledger'[l] = IF l = k THEN e ELSE ledger[l]
  BY DEF Inv, TypeOK
<1>3. \A kind \in Kind, t \in Session : ~About(k, kind, t)
  BY DEF About, NoEntry, Kind
<1>4. \A l \in Key, kind \in Kind, t \in Session :
        About(l, kind, t)' <=> About(l, kind, t) \/ (l = k /\ kind = q.kind /\ t = s)
  BY <1>2, <1>3 DEF About
<1>5. \A l \in Key : ~About(l, q.kind, s)
  <2>1. CASE Creates(q, s)
    BY <2>1 DEF Creates, Inv, Tables, EntriesMatch
  <2>2. CASE Completes(q, s)
    BY <2>2 DEF Completes, Inv, Tables, EntriesMatch
  <2>3. CASE Cancels(q, s)
    BY <2>3 DEF Cancels, Inv, Tables, EntriesMatch
  <2>4. CASE Ingests(q, s)
    BY <2>4 DEF Ingests, Inv, Tables, EntriesMatch, KeysOf, About
  <2> QED BY <2>1, <2>2, <2>3, <2>4
<1>6. OneEntry'
  <2> SUFFICES ASSUME NEW l \in Key, NEW m \in Key, NEW kind \in Kind,
                      NEW t \in Session, About(l, kind, t)', About(m, kind, t)'
               PROVE  l = m
    BY DEF OneEntry
  <2> QED BY <1>4, <1>5 DEF Inv, Tables, OneEntry, About
<1>7. \A kind \in Kind, t \in Session :
        (\E l \in Key : About(l, kind, t)')
          <=> (\E l \in Key : About(l, kind, t)) \/ (kind = q.kind /\ t = s)
  BY <1>4 DEF About
<1>8. \A t \in Session :
        /\ upload[t].status = "none" <=> ~\E l \in Key : About(l, "create", t)
        /\ upload[t].status = "SUCCEEDED" <=> \E l \in Key : About(l, "complete", t)
        /\ upload[t].status = "CANCELLED" <=> \E l \in Key : About(l, "cancel", t)
  BY DEF Inv, Tables, EntriesMatch
<1>9. \A t \in Session :
        /\ upload'[t].status = "none" <=> ~\E l \in Key : About(l, "create", t)'
        /\ upload'[t].status = "SUCCEEDED" <=> \E l \in Key : About(l, "complete", t)'
        /\ upload'[t].status = "CANCELLED" <=> \E l \in Key : About(l, "cancel", t)'
  <2> SUFFICES ASSUME NEW t \in Session
               PROVE  /\ upload'[t].status = "none"
                           <=> ~\E l \in Key : About(l, "create", t)'
                      /\ upload'[t].status = "SUCCEEDED"
                           <=> \E l \in Key : About(l, "complete", t)'
                      /\ upload'[t].status = "CANCELLED"
                           <=> \E l \in Key : About(l, "cancel", t)'
    OBVIOUS
  <2>1. CASE t # s
    BY <1>7, <1>8, <2>1 DEF Kind
  <2>2. CASE t = s /\ Creates(q, s)
    BY <1>7, <1>8, <2>2 DEF Kind, Creates
  <2>3. CASE t = s /\ Completes(q, s)
    BY <1>7, <1>8, <2>3 DEF Kind, Completes
  <2>4. CASE t = s /\ Cancels(q, s)
    BY <1>7, <1>8, <2>4 DEF Kind, Cancels
  <2>5. CASE t = s /\ Ingests(q, s)
    BY <1>7, <1>8, <2>5 DEF Kind, Ingests
  <2> QED BY <2>1, <2>2, <2>3, <2>4, <2>5
<1>10. \A t \in Session : bound'[t] = KeysOf("ingest", t)'
  <2> SUFFICES ASSUME NEW t \in Session
               PROVE  bound'[t] = KeysOf("ingest", t)'
    OBVIOUS
  <2>1. bound[t] = {l \in Key : About(l, "ingest", t)}
    BY DEF Inv, Tables, EntriesMatch, KeysOf, About
  <2>2. bound'[t] = {l \in Key : About(l, "ingest", t)'}
    <3>1. CASE Ingests(q, s) /\ t = s
      BY <1>4, <2>1, <3>1 DEF Ingests, Kind, Inv, TypeOK
    <3>2. CASE Ingests(q, s) /\ t # s
      BY <1>4, <2>1, <3>2 DEF Ingests, Kind, Inv, TypeOK
    <3>3. CASE ~Ingests(q, s)
      BY <1>4, <2>1, <3>3 DEF Creates, Completes, Cancels, Kind
    <3> QED BY <3>1, <3>2, <3>3
  <2> QED BY <2>2 DEF KeysOf, About
<1>11. \A t \in Session :
         /\ bound'[t] # {} => upload'[t].status = "SUCCEEDED"
         /\ upload'[t].assets # 0 => upload'[t].status = "SUCCEEDED"
         /\ Committed(t)' => t <= drawn'
  <2> SUFFICES ASSUME NEW t \in Session
               PROVE  /\ bound'[t] # {} => upload'[t].status = "SUCCEEDED"
                      /\ upload'[t].assets # 0 => upload'[t].status = "SUCCEEDED"
                      /\ Committed(t)' => t <= drawn'
    OBVIOUS
  <2>1. /\ bound[t] # {} => upload[t].status = "SUCCEEDED"
        /\ upload[t].assets # 0 => upload[t].status = "SUCCEEDED"
        /\ Committed(t) => t <= drawn
    BY DEF Inv, Tables, EntriesMatch
  <2>2. CASE t # s
    <3>1. bound'[t] = bound[t]
      BY <2>2 DEF Creates, Completes, Cancels, Ingests, Inv, TypeOK
    <3> QED BY <2>1, <2>2, <3>1 DEF Committed
  <2>3. CASE t = s
    <3>1. t <= drawn'
      BY <2>3, UploadAssumption DEF Session, Inv, TypeOK
    <3> QED BY <2>1, <2>3, <3>1 DEF Creates, Completes, Cancels, Ingests
  <2> QED BY <2>2, <2>3
<1>12. EntriesMatch'
  BY <1>9, <1>10, <1>11 DEF EntriesMatch
<1>13. ObjectsMatch'
  <2> SUFFICES ASSUME NEW t \in Session, NEW p \in Part
               PROVE  /\ upload'[t].status # "none"
                           => object[t][p] \in {"planned", "parts", "stored"}
                      /\ upload'[t].status = "SUCCEEDED" => object[t][p] = "stored"
    BY DEF ObjectsMatch
  <2>1. /\ upload[t].status # "none" => object[t][p] \in {"planned", "parts", "stored"}
        /\ upload[t].status = "SUCCEEDED" => object[t][p] = "stored"
    BY DEF Inv, Tables, ObjectsMatch
  <2> QED BY <1>b, <2>1 DEF Creates, Completes, Cancels, Ingests
<1> QED BY <1>6, <1>12, <1>13 DEF Tables

\* A run that is apart from the one that commits stays good.
LEMMA CommitKeepsRun ==
  ASSUME Inv, UNCHANGED <<drawn, object>>,
         NEW q \in Run, q.at = "commit", GoodRun(q), q.key \in Key,
         q.session \in Session,
         NEW e \in Entry, ledger' = [ledger EXCEPT ![q.key] = e],
         \A t \in Session : t # q.session => upload'[t] = upload[t],
         \/ Creates(q, q.session) \/ Completes(q, q.session)
         \/ Cancels(q, q.session) \/ Ingests(q, q.session),
         NEW x \in Run, GoodRun(x), Apart(q, x)
  PROVE  GoodRun(x)'
<1> DEFINE s == q.session
<1>1. GoodKind(x)'
  BY DEF GoodRun, GoodKind
<1>2. Creating(x) => x.session \in Session
  BY UploadAssumption DEF GoodRun, GoodSession, Session, Inv, TypeOK
<1>3. Creating(x) => x.session # s
  <2>1. CASE q.kind = "create"
    BY <2>1 DEF Creating, Apart
  <2>2. CASE q.kind # "create"
    BY <2>2 DEF GoodRun, GoodSession
  <2> QED BY <2>1, <2>2
<1>4. \A t \in Session : Committed(t) => Committed(t)'
  BY DEF Committed, Creates, Completes, Cancels, Ingests
<1>5. GoodSession(x)'
  BY <1>2, <1>3, <1>4 DEF GoodRun, GoodSession, Committed
<1>6. GoodObjects(x)'
  BY DEF GoodRun, GoodObjects
<1>7. (RowHeld(x) \/ x.free \/ Binding(x)) => x.session \in Session /\ Committed(x.session)
  BY DEF GoodRun, GoodKind, GoodSession, GoodRow, RowHeld, Binding
<1>8. RowHeld(x) => upload'[x.session].status = "WAITING_INPUT"
  <2> SUFFICES ASSUME RowHeld(x)
               PROVE  upload'[x.session].status = "WAITING_INPUT"
    OBVIOUS
  <2>1. upload[x.session].status = "WAITING_INPUT"
    BY DEF GoodRun, GoodRow
  <2>2. CASE x.session # s
    BY <1>7, <2>1, <2>2
  <2>3. CASE x.session = s
    BY <2>1, <2>3 DEF Apart, RowHeld, Creates, Completes, Cancels, Ingests
  <2> QED BY <2>2, <2>3
<1>9. x.free => x.kind = "ingest" /\ upload'[x.session].status = "SUCCEEDED"
  <2> SUFFICES ASSUME x.free
               PROVE  x.kind = "ingest" /\ upload'[x.session].status = "SUCCEEDED"
    OBVIOUS
  <2>1. x.kind = "ingest" /\ upload[x.session].status = "SUCCEEDED"
    BY DEF GoodRun, GoodRow
  <2> QED BY <1>7, <2>1 DEF Creates, Completes, Cancels, Ingests
<1>10. Binding(x) => x.free /\ bound'[x.session] = {}
  <2> SUFFICES ASSUME Binding(x)
               PROVE  x.free /\ bound'[x.session] = {}
    OBVIOUS
  <2>1. x.free /\ bound[x.session] = {}
    BY DEF GoodRun, GoodRow
  <2>2. CASE Ingests(q, s)
    <3>1. x.session # s
      BY <2>2 DEF Apart, Binding, Ingests
    <3> QED BY <1>7, <2>1, <2>2, <3>1 DEF Ingests, Inv, TypeOK
  <2>3. CASE ~Ingests(q, s)
    BY <2>1, <2>3 DEF Creates, Completes, Cancels
  <2> QED BY <2>2, <2>3
<1>11. x.at = "commit" => ledger'[x.key] = NoEntry
  BY DEF Apart, KeyHeld, GoodRun, GoodKind, GoodRow, Inv, TypeOK
<1>12. GoodRow(x)'
  BY <1>8, <1>9, <1>10, <1>11 DEF GoodRow
<1> QED BY <1>1, <1>5, <1>6, <1>12 DEF GoodRun

\* A commit, and the end of its run.
LEMMA EffectKeeps ==
  ASSUME Inv, NEW a \in Attempt, attempt[a].at = "commit", Effect(a), Ends(a),
         UNCHANGED <<drawn, object, clientVars>>,
         faults' \in 0 .. MaxFaults
  PROVE  Inv'
<1>1. PICK q \in Run : q = attempt[a] /\ GoodRun(q)
  BY RunNow
<1>2. /\ q.at = "commit"
      /\ q.key \in Key
      /\ q.session \in Session
      /\ ledger[q.key] = NoEntry
      /\ upload' \in [Session -> UploadRow]
      /\ bound' \in [Session -> SUBSET Key]
      /\ \A t \in Session : t # q.session => upload'[t] = upload[t]
      /\ \/ Creates(q, q.session) \/ Completes(q, q.session)
         \/ Cancels(q, q.session) \/ Ingests(q, q.session)
  BY <1>1, EffectOfCommit
<1>3. PICK e \in Entry : /\ e.kind = q.kind
                         /\ e.session = q.session
                         /\ ledger' = [ledger EXCEPT ![q.key] = e]
  BY <1>1, <1>2, EffectOfCommit
<1>4. /\ attempt' = [attempt EXCEPT ![a] = NoRun]
      /\ \A b \in Attempt : attempt'[b] = IF b = a THEN NoRun ELSE attempt[b]
  BY DEF Ends, Goes, Inv, TypeOK
<1>5. TypeOK'
  <2>1. ledger' \in [Key -> Entry \cup {NoEntry}]
    BY <1>2, <1>3 DEF Inv, TypeOK
  <2>2. attempt' \in [Attempt -> Run]
    BY <1>4, RunEnded DEF Inv, TypeOK
  <2> QED BY <1>2, <2>1, <2>2 DEF Inv, TypeOK, clientVars
<1>6. Tables'
  <2>1. q.session \in 1 .. drawn
    <3>1. CASE q.kind = "create"
      BY <1>1, <1>2, <3>1 DEF GoodRun, GoodSession, Creating
    <3>2. CASE q.kind # "create"
      BY <1>1, <3>2, UploadAssumption
      DEF GoodRun, GoodSession, Inv, TypeOK, Tables, EntriesMatch, Session
    <3> QED BY <3>1, <3>2
  <2> QED BY <1>1, <1>2, <1>3, <2>1, CommitKeepsTables
<1>7. Runs'
  <2> SUFFICES ASSUME NEW b \in Attempt, NEW x \in Run, attempt'[b] = x
               PROVE  GoodRun(x)'
    BY DEF Runs
  <2>1. CASE b = a
    <3>1. x = NoRun
      BY <1>4, <2>1
    <3> QED BY <3>1 DEF NoRun, GoodRun, GoodKind, GoodSession, GoodObjects, GoodRow,
                        Creating, RowHeld, Binding
  <2>2. CASE b # a
    <3>1. attempt[b] = x
      BY <1>4, <2>2
    <3>2. GoodRun(x) /\ Apart(q, x)
      BY <1>1, <2>2, <3>1 DEF Inv, Runs, Exclusive
    <3> QED BY <1>1, <1>2, <1>3, <3>2, CommitKeepsRun
  <2> QED BY <2>1, <2>2
<1>8. Exclusive'
  <2> SUFFICES ASSUME NEW b \in Attempt, NEW c \in Attempt, b # c
               PROVE  Apart(attempt'[b], attempt'[c])
    BY DEF Exclusive
  <2>1. CASE b = a
    BY <1>4, <2>1, RunEnded, RunNow DEF Inv
  <2>2. CASE c = a
    BY <1>4, <2>2, RunEnded, RunNow, ApartIsSymmetric DEF Inv
  <2>3. CASE b # a /\ c # a
    BY <1>4, <2>3 DEF Inv, Exclusive
  <2> QED BY <2>1, <2>2, <2>3
<1> QED BY <1>5, <1>6, <1>7, <1>8 DEF Inv
-----------------------------------------------------------------------------
(* Steps of the object store.                                              *)

\* Only objects of the sessions own change as they like; one of a committed
\* session goes on until it is stored.
Harmless(own) ==
  \A s \in Session, p \in Part :
    \/ object'[s][p] = object[s][p]
    \/ s \in own
    \/ /\ Committed(s)
       /\ object[s][p] # "stored"
       /\ object'[s][p] \in {"parts", "stored"}

LEMMA ObjectsKeepTables ==
  ASSUME Inv, UNCHANGED <<tableVars, drawn>>,
         NEW own, \A s \in own : ~Committed(s), Harmless(own)
  PROVE  Tables'
<1>1. ledger' = ledger /\ upload' = upload /\ bound' = bound /\ drawn' = drawn
  BY DEF tableVars
<1>2. OneEntry'
  BY <1>1 DEF Inv, Tables, OneEntry, About
<1>3. EntriesMatch'
  BY <1>1 DEF Inv, Tables, EntriesMatch, About, KeysOf, Committed
<1>4. ObjectsMatch'
  <2> SUFFICES ASSUME NEW s \in Session, NEW p \in Part, Committed(s)
               PROVE  /\ object'[s][p] \in {"planned", "parts", "stored"}
                      /\ upload[s].status = "SUCCEEDED" => object'[s][p] = "stored"
    BY <1>1 DEF ObjectsMatch, Committed
  <2>1. /\ object[s][p] \in {"planned", "parts", "stored"}
        /\ upload[s].status = "SUCCEEDED" => object[s][p] = "stored"
    BY DEF Inv, Tables, ObjectsMatch, Committed
  <2> QED BY <2>1 DEF Harmless
<1> QED BY <1>2, <1>3, <1>4 DEF Tables

LEMMA ObjectsKeepRun ==
  ASSUME Inv, UNCHANGED <<tableVars, drawn>>,
         NEW own, Harmless(own),
         NEW x \in Run, GoodRun(x),
         Creating(x) => x.session \notin own,
         x.kind = "complete" => x.session \notin own
  PROVE  GoodRun(x)'
<1>1. ledger' = ledger /\ upload' = upload /\ bound' = bound /\ drawn' = drawn
  BY DEF tableVars
<1>2. GoodKind(x)' /\ GoodSession(x)' /\ GoodRow(x)'
  BY <1>1 DEF GoodRun, GoodKind, GoodSession, GoodRow, Committed
<1>3. GoodObjects(x)'
  <2>1. /\ drawn \in 0 .. MaxSession
        /\ x.done \in 0 .. Width
        /\ \A p \in 1 .. x.done : p \in Part
    BY RunFields, UploadAssumption DEF Inv, TypeOK, Part
  <2>2. CASE x.at = "plan" \/ (x.at = "commit" /\ x.kind = "create")
    <3>1. Creating(x)
      BY <2>2 DEF GoodRun, GoodKind, Creating
    <3>2. x.session \in Session /\ ~Committed(x.session) /\ x.session \notin own
      BY <2>1, <3>1, UploadAssumption DEF GoodRun, GoodSession, Session
    <3>3. \A p \in Part : object'[x.session][p] = object[x.session][p]
      BY <3>2 DEF Harmless
    <3> QED BY <2>1, <2>2, <3>3 DEF GoodRun, GoodObjects
  <2>3. CASE x.at = "objects" \/ (x.at = "commit" /\ x.kind = "complete")
    <3>1. x.kind = "complete"
      BY <2>3 DEF GoodRun, GoodKind
    <3>2. x.session \in Session /\ x.session \notin own
      BY <3>1 DEF GoodRun, GoodSession
    <3>3. \A p \in Part : object[x.session][p] = "stored"
                            => object'[x.session][p] = "stored"
      BY <3>2 DEF Harmless
    <3> QED BY <2>1, <2>3, <3>1, <3>3 DEF GoodRun, GoodObjects
  <2>4. CASE ~(x.at = "plan" \/ x.at = "objects"
               \/ (x.at = "commit" /\ x.kind \in {"create", "complete"}))
    BY <2>4 DEF GoodRun, GoodObjects
  <2> QED BY <2>2, <2>3, <2>4
<1> QED BY <1>2, <1>3 DEF GoodRun

\* A step of a run on the objects of the session that it creates, or of one
\* that was committed.
LEMMA RunWorks ==
  ASSUME Inv, NEW a \in Attempt, NEW q \in Run, q = attempt[a],
         NEW r \in Run, attempt' = [attempt EXCEPT ![a] = r],
         UNCHANGED <<tableVars, drawn, clientVars>>,
         faults' \in 0 .. MaxFaults,
         object' \in [Session -> [Part -> ObjectState]],
         NEW own, own = IF Creating(q) THEN {q.session} ELSE {},
         Harmless(own),
         GoodRun(r)',
         \A b \in Attempt : b # a => Apart(r, attempt[b])
  PROVE  Inv'
<1>0. GoodRun(q)
  BY RunNow
<1>1. /\ ledger' = ledger
      /\ upload' = upload
      /\ bound' = bound
      /\ drawn' = drawn
      /\ expired' = expired
      /\ authz' = authz
  BY DEF tableVars, clientVars
<1>2. TypeOK'
  <2>1. attempt' \in [Attempt -> Run]
    BY DEF Inv, TypeOK
  <2> QED BY <1>1, <2>1 DEF Inv, TypeOK
<1>3. Tables'
  <2>1. \A s \in own : ~Committed(s)
    BY <1>0 DEF GoodRun, GoodSession
  <2> QED BY <2>1, ObjectsKeepTables
<1>4. Runs'
  <2> SUFFICES ASSUME NEW b \in Attempt, NEW x \in Run, attempt'[b] = x
               PROVE  GoodRun(x)'
    BY DEF Runs
  <2>1. CASE b = a
    <3>1. x = r
      BY <2>1 DEF Inv, TypeOK
    <3> QED BY <3>1
  <2>2. CASE b # a
    <3>1. attempt[b] = x
      BY <2>2 DEF Inv, TypeOK
    <3>2. GoodRun(x) /\ Apart(q, x)
      BY <2>2, <3>1 DEF Inv, Runs, Exclusive
    <3>3. Creating(x) => x.session \notin own
      BY <3>2 DEF Apart
    <3>4. x.kind = "complete" => x.session \notin own
      BY <1>0, <3>2 DEF GoodRun, GoodSession
    <3> QED BY <3>2, <3>3, <3>4, ObjectsKeepRun
  <2> QED BY <2>1, <2>2
<1>5. Exclusive'
  <2> SUFFICES ASSUME NEW b \in Attempt, NEW c \in Attempt, b # c
               PROVE  Apart(attempt'[b], attempt'[c])
    BY DEF Exclusive
  <2>1. \A d \in Attempt : attempt'[d] = IF d = a THEN r ELSE attempt[d]
    BY DEF Inv, TypeOK
  <2>2. CASE b = a
    BY <2>1, <2>2
  <2>3. CASE c = a
    BY <2>1, <2>3, ApartIsSymmetric
  <2>4. CASE b # a /\ c # a
    BY <2>1, <2>4 DEF Inv, Exclusive
  <2> QED BY <2>2, <2>3, <2>4
<1> QED BY <1>2, <1>3, <1>4, <1>5 DEF Inv

\* A run works on a session of the model.
LEMMA SessionOfRun ==
  ASSUME Inv, NEW q \in Run, GoodRun(q), Creating(q)
  PROVE  q.session \in Session
BY UploadAssumption DEF GoodRun, GoodSession, Session, Inv, TypeOK

LEMMA PlanKeeps ==
  ASSUME Inv, NEW a \in Attempt, NEW p \in Part, Plan(a, p) \/ PlanBreaks(a, p)
  PROVE  Inv'
<1>1. PICK q \in Run : q = attempt[a] /\ GoodRun(q)
  BY RunNow
<1>2. /\ q.at = "plan"
      /\ q.kind = "create"
      /\ Creating(q)
      /\ p = q.done + 1
      /\ UNCHANGED <<tableVars, drawn, clientVars>>
      /\ object' = [object EXCEPT ![q.session][p] = "planned"]
  BY <1>1 DEF Plan, PlanBreaks, GoodRun, GoodKind, Creating
<1>3. faults' \in 0 .. MaxFaults
  BY UploadAssumption DEF Plan, PlanBreaks, Faulty, Inv, TypeOK
<1>4. /\ q.session \in Session
      /\ q.done \in 0 .. Width
  BY <1>1, <1>2, SessionOfRun, RunFields
<1>5. /\ object' \in [Session -> [Part -> ObjectState]]
      /\ object'[q.session][p] = "planned"
      /\ \A t \in Session, i \in Part :
           t # q.session \/ i # p => object'[t][i] = object[t][i]
  <2>1. /\ object \in [Session -> [Part -> ObjectState]]
        /\ object[q.session] \in [Part -> ObjectState]
        /\ "planned" \in ObjectState
    BY <1>4 DEF Inv, TypeOK, ObjectState
  <2> QED BY <1>2, <1>4, <2>1
<1>6. Harmless({q.session})
  BY <1>5 DEF Harmless
<1>7. \A i \in 1 .. p : object'[q.session][i] = "planned"
  <2> SUFFICES ASSUME NEW i \in 1 .. p
               PROVE  object'[q.session][i] = "planned"
    OBVIOUS
  <2>1. i \in Part
    BY UploadAssumption DEF Part
  <2>2. CASE i # p
    <3>1. i \in 1 .. q.done
      BY <1>2, <1>4, <2>2, UploadAssumption DEF Part
    <3>2. object[q.session][i] = "planned"
      BY <1>1, <1>2, <3>1 DEF GoodRun, GoodObjects
    <3> QED BY <1>4, <1>5, <2>1, <2>2, <3>2
  <2> QED BY <1>5, <2>2
<1>8. PICK r \in Run : /\ r = [q EXCEPT !.done = p] \/ r = [q EXCEPT !.at = "undo"]
                       /\ attempt' = [attempt EXCEPT ![a] = r]
  <2>1. [q EXCEPT !.done = p] \in Run /\ [q EXCEPT !.at = "undo"] \in Run
    BY <1>2, UploadAssumption DEF Run, Part
  <2> QED BY <1>1, <2>1 DEF Plan, PlanBreaks, Goes
<1>9. /\ r.at = "undo" \/ (r.at = "plan" /\ r.done = p)
      /\ r.key = q.key /\ r.kind = q.kind /\ r.session = q.session
      /\ r.named = q.named /\ r.free = q.free
  BY <1>2, <1>8 DEF Run
<1>10. GoodRun(r)'
  <2>1. GoodKind(r)'
    BY <1>1, <1>2, <1>9 DEF GoodRun, GoodKind
  <2>2. GoodSession(r)'
    BY <1>1, <1>2, <1>9 DEF GoodRun, GoodSession, Creating, Committed, tableVars
  <2>3. GoodObjects(r)'
    BY <1>7, <1>9 DEF GoodObjects
  <2>4. GoodRow(r)'
    BY <1>1, <1>2, <1>9 DEF GoodRun, GoodRow, RowHeld, Binding
  <2> QED BY <2>1, <2>2, <2>3, <2>4 DEF GoodRun
<1>11. \A b \in Attempt : b # a => Apart(r, attempt[b])
  <2> SUFFICES ASSUME NEW b \in Attempt, b # a
               PROVE  Apart(r, attempt[b])
    OBVIOUS
  <2>1. Apart(q, attempt[b])
    BY <1>1 DEF Inv, Exclusive
  <2> QED BY <1>2, <1>9, <2>1 DEF Apart, KeyHeld, Creating, RowHeld, Binding
<1>12. PICK own : own = {q.session}
  OBVIOUS
<1> QED BY <1>1, <1>2, <1>3, <1>5, <1>6, <1>8, <1>10, <1>11, <1>12, RunWorks

LEMMA UndoKeeps ==
  ASSUME Inv, NEW a \in Attempt, Undo(a)
  PROVE  Inv'
<1>1. PICK q \in Run : q = attempt[a] /\ GoodRun(q)
  BY RunNow
<1>2. /\ Creating(q)
      /\ UNCHANGED <<tableVars, drawn, clientVars>>
      /\ attempt' = [attempt EXCEPT ![a] = NoRun]
  BY <1>1 DEF Undo, GoodRun, GoodKind, Creating, Ends, Goes
<1>3. PICK P \in SUBSET (1 .. q.done) :
        /\ object' = [object EXCEPT ![q.session] =
             [p \in Part |-> IF p \in P THEN "aborted" ELSE @[p]]]
        /\ IF P = 1 .. q.done THEN UNCHANGED faults ELSE Faulty
  BY <1>1 DEF Undo
<1>4. faults' \in 0 .. MaxFaults
  BY <1>3, UploadAssumption DEF Faulty, Inv, TypeOK
<1>5. q.session \in Session
  BY <1>1, <1>2, SessionOfRun
<1>6. object \in [Session -> [Part -> ObjectState]]
  BY DEF Inv, TypeOK
<1>7. PICK new \in [Part -> ObjectState] : object' = [object EXCEPT ![q.session] = new]
  <2>1. [p \in Part |-> IF p \in P THEN "aborted" ELSE object[q.session][p]]
          \in [Part -> ObjectState]
    BY <1>5, <1>6 DEF ObjectState
  <2> QED BY <1>3, <2>1
<1>8. /\ object' \in [Session -> [Part -> ObjectState]]
      /\ \A t \in Session : t # q.session => object'[t] = object[t]
  BY <1>5, <1>6, <1>7
<1>9. Harmless({q.session})
  BY <1>8 DEF Harmless
<1>10. NoRun \in Run /\ \A b \in Attempt : b # a => Apart(NoRun, attempt[b])
  BY RunEnded, RunNow DEF Inv
<1>11. GoodRun(NoRun)'
  BY DEF NoRun, GoodRun, GoodKind, GoodSession, GoodObjects, GoodRow, Creating,
         RowHeld, Binding
<1>12. PICK own : own = {q.session}
  OBVIOUS
<1> QED BY <1>1, <1>2, <1>4, <1>8, <1>9, <1>10, <1>11, <1>12, RunWorks
\* Completing an object takes it from its parts to the store, or leaves it.
LEMMA FinishedObject ==
  ASSUME Inv, NEW s \in Session, NEW p \in Part, Committed(s),
         object' = [object EXCEPT ![s][p] = Finished(s, p)]
  PROVE  /\ object' \in [Session -> [Part -> ObjectState]]
         /\ object'[s][p] = Finished(s, p)
         /\ \A t \in Session, i \in Part :
              t # s \/ i # p => object'[t][i] = object[t][i]
         /\ Harmless({})
<1>1. /\ Finished(s, p) \in ObjectState
      /\ \/ Finished(s, p) = object[s][p]
         \/ object[s][p] = "parts" /\ Finished(s, p) = "stored"
  <2>1. object[s][p] \in ObjectState
    BY DEF Inv, TypeOK
  <2> QED BY <2>1 DEF Finished, ObjectState
<1>2. /\ object' \in [Session -> [Part -> ObjectState]]
      /\ object'[s][p] = Finished(s, p)
      /\ \A t \in Session, i \in Part :
           t # s \/ i # p => object'[t][i] = object[t][i]
  <2>1. /\ object \in [Session -> [Part -> ObjectState]]
        /\ object[s] \in [Part -> ObjectState]
    BY DEF Inv, TypeOK
  <2> QED BY <1>1, <2>1
<1>3. Harmless({})
  <2> SUFFICES ASSUME NEW t \in Session, NEW i \in Part, object'[t][i] # object[t][i]
               PROVE  /\ Committed(t)
                      /\ object[t][i] # "stored"
                      /\ object'[t][i] \in {"parts", "stored"}
    BY DEF Harmless
  <2>1. t = s /\ i = p
    BY <1>2
  <2> QED BY <1>1, <1>2, <2>1
<1> QED BY <1>2, <1>3

LEMMA FinishKeeps ==
  ASSUME Inv, NEW a \in Attempt, NEW p \in Part, FinishObject(a, p) \/ FinishBreaks(a, p)
  PROVE  Inv'
<1>1. PICK q \in Run : q = attempt[a] /\ GoodRun(q)
  BY RunNow
<1>2. /\ q.at = "objects"
      /\ q.kind = "complete"
      /\ ~Creating(q)
      /\ RowHeld(q)
      /\ p = q.done + 1
      /\ UNCHANGED <<tableVars, drawn, clientVars>>
      /\ object' = [object EXCEPT ![q.session][p] = Finished(q.session, p)]
  BY <1>1 DEF FinishObject, FinishBreaks, GoodRun, GoodKind, Creating, RowHeld
<1>3. faults' \in 0 .. MaxFaults
  BY UploadAssumption DEF FinishObject, FinishBreaks, Faulty, Inv, TypeOK
<1>4. /\ q.session \in Session
      /\ Committed(q.session)
      /\ q.done \in 0 .. Width
      /\ q.key \in Key
  BY <1>1, <1>2, RunFields DEF GoodRun, GoodKind, GoodSession
<1>5. /\ object' \in [Session -> [Part -> ObjectState]]
      /\ object'[q.session][p] = Finished(q.session, p)
      /\ \A t \in Session, i \in Part :
           t # q.session \/ i # p => object'[t][i] = object[t][i]
      /\ Harmless({})
  <2>1. PICK s \in Session : s = q.session
    BY <1>4
  <2>2. Committed(s) /\ object' = [object EXCEPT ![s][p] = Finished(s, p)]
    BY <1>2, <1>4, <2>1
  <2>3. /\ object' \in [Session -> [Part -> ObjectState]]
        /\ object'[s][p] = Finished(s, p)
        /\ \A t \in Session, i \in Part :
             t # s \/ i # p => object'[t][i] = object[t][i]
        /\ Harmless({})
    BY <2>2, FinishedObject
  <2> QED BY <2>1, <2>3
<1>6. PICK own : own = {}
  OBVIOUS
<1>7. CASE Ends(a)
  <2>1. attempt' = [attempt EXCEPT ![a] = NoRun]
    BY <1>7 DEF Ends, Goes
  <2>2. NoRun \in Run /\ \A b \in Attempt : b # a => Apart(NoRun, attempt[b])
    BY RunEnded, RunNow DEF Inv
  <2>3. GoodRun(NoRun)'
    BY DEF NoRun, GoodRun, GoodKind, GoodSession, GoodObjects, GoodRow, Creating,
           RowHeld, Binding
  <2> QED BY <1>1, <1>2, <1>3, <1>5, <1>6, <2>1, <2>2, <2>3, RunWorks
<1>8. CASE /\ Verified(Finished(q.session, p), p)
           /\ \/ /\ p = Width
                 /\ KeyIsNew(a)
                 /\ Goes(a, [attempt[a] EXCEPT !.at = "commit"])
              \/ Goes(a, [attempt[a] EXCEPT !.done = p])
  <2>1. PICK r \in Run :
          /\ \/ r = [q EXCEPT !.at = "commit"] /\ p = Width /\ KeyIsNew(a)
             \/ r = [q EXCEPT !.done = p]
          /\ attempt' = [attempt EXCEPT ![a] = r]
    <3>1. [q EXCEPT !.done = p] \in Run /\ [q EXCEPT !.at = "commit"] \in Run
      BY <1>2, UploadAssumption DEF Run, Part
    <3> QED BY <1>1, <1>8, <3>1 DEF Goes
  <2>2. /\ \/ r.at = "commit" /\ p = Width /\ ledger[r.key] = NoEntry
           \/ r.at = "objects" /\ r.done = p
        /\ r.key = q.key /\ r.kind = q.kind /\ r.session = q.session
        /\ r.named = q.named /\ r.free = q.free
    BY <1>1, <1>2, <2>1 DEF Run, KeyIsNew
  <2>3. \A i \in 1 .. p : object'[q.session][i] = "stored"
    <3> SUFFICES ASSUME NEW i \in 1 .. p
                 PROVE  object'[q.session][i] = "stored"
      OBVIOUS
    <3>1. i \in Part
      BY UploadAssumption DEF Part
    <3>2. CASE i # p
      <4>1. i \in 1 .. q.done
        BY <1>2, <1>4, <3>2, UploadAssumption DEF Part
      <4>2. object[q.session][i] = "stored"
        BY <1>1, <1>2, <4>1 DEF GoodRun, GoodObjects
      <4> QED BY <1>4, <1>5, <3>1, <3>2, <4>2
    <3>3. CASE i = p
      BY <1>5, <1>8, <3>3 DEF Verified
    <3> QED BY <3>2, <3>3
  <2>4. GoodRun(r)'
    <3>1. GoodKind(r)'
      BY <1>1, <1>2, <2>2 DEF GoodRun, GoodKind
    <3>2. GoodSession(r)'
      BY <1>1, <1>2, <2>2 DEF GoodRun, GoodSession, Creating, Committed, tableVars
    <3>3. GoodObjects(r)'
      BY <1>2, <2>2, <2>3 DEF GoodObjects, Part
    <3>4. GoodRow(r)'
      BY <1>1, <1>2, <2>2 DEF GoodRun, GoodRow, RowHeld, Binding, tableVars
    <3> QED BY <3>1, <3>2, <3>3, <3>4 DEF GoodRun
  <2>5. \A b \in Attempt : b # a => Apart(r, attempt[b])
    <3> SUFFICES ASSUME NEW b \in Attempt, b # a
                 PROVE  Apart(r, attempt[b])
      OBVIOUS
    <3>1. Apart(q, attempt[b])
      BY <1>1 DEF Inv, Exclusive
    <3> QED BY <1>2, <2>2, <3>1 DEF Apart, KeyHeld, Creating, RowHeld, Binding
  <2> QED BY <1>1, <1>2, <1>3, <1>5, <1>6, <2>1, <2>4, <2>5, RunWorks
<1>9. \/ Ends(a)
      \/ /\ Verified(Finished(q.session, p), p)
         /\ \/ p = Width /\ KeyIsNew(a) /\ Goes(a, [attempt[a] EXCEPT !.at = "commit"])
            \/ Goes(a, [attempt[a] EXCEPT !.done = p])
  BY <1>1 DEF FinishObject, FinishBreaks, Inserts
<1> QED BY <1>7, <1>8, <1>9

LEMMA ClientUploadsKeeps ==
  ASSUME Inv, NEW s \in Session, NEW p \in Part, ClientUploads(s, p)
  PROVE  Inv'
<1>1. /\ Committed(s)
      /\ object[s][p] = "planned"
      /\ UNCHANGED <<tableVars, drawn, clientVars, attempt, faults>>
  BY DEF ClientUploads, Committed
<1>2. PICK state \in {"parts", "stored"} : object' = [object EXCEPT ![s][p] = state]
  BY DEF ClientUploads
<1>3. /\ object' \in [Session -> [Part -> ObjectState]]
      /\ object'[s][p] = state
      /\ \A t \in Session, i \in Part :
           t # s \/ i # p => object'[t][i] = object[t][i]
  <2>1. /\ object \in [Session -> [Part -> ObjectState]]
        /\ object[s] \in [Part -> ObjectState]
        /\ state \in ObjectState
    BY <1>2 DEF Inv, TypeOK, ObjectState
  <2> QED BY <1>2, <2>1
<1>4. Harmless({})
  BY <1>1, <1>3 DEF Harmless
<1>5. TypeOK'
  BY <1>1, <1>3 DEF Inv, TypeOK, tableVars, clientVars
<1>6. Tables'
  BY <1>1, <1>4, ObjectsKeepTables
<1>7. Runs'
  <2> SUFFICES ASSUME NEW b \in Attempt, NEW x \in Run, attempt'[b] = x
               PROVE  GoodRun(x)'
    BY DEF Runs
  <2>1. GoodRun(x)
    BY <1>1 DEF Inv, Runs
  <2> QED BY <1>1, <1>4, <2>1, ObjectsKeepRun
<1>8. Exclusive'
  BY <1>1 DEF Inv, Exclusive
<1> QED BY <1>5, <1>6, <1>7, <1>8 DEF Inv

LEMMA OutsideKeeps ==
  ASSUME Inv, GrantsChange \/ (\E s \in Session : Expire(s)) \/ UNCHANGED vars
  PROVE  Inv'
<1>1. /\ UNCHANGED <<tableVars, drawn, object, attempt, faults>>
      /\ expired' \subseteq Session
      /\ authz' \in Authz
  BY UploadAssumption
  DEF GrantsChange, Expire, Inv, TypeOK, Authz, vars, tableVars
<1>2. TypeOK'
  BY <1>1 DEF Inv, TypeOK, tableVars
<1>3. Harmless({})
  BY <1>1 DEF Harmless
<1>4. Tables'
  BY <1>1, <1>3, ObjectsKeepTables
<1>5. Runs'
  <2> SUFFICES ASSUME NEW b \in Attempt, NEW x \in Run, attempt'[b] = x
               PROVE  GoodRun(x)'
    BY DEF Runs
  <2>1. GoodRun(x)
    BY <1>1 DEF Inv, Runs
  <2> QED BY <1>1, <1>3, <2>1, ObjectsKeepRun
<1>6. Exclusive'
  BY <1>1 DEF Inv, Exclusive
<1> QED BY <1>2, <1>4, <1>5, <1>6 DEF Inv
\* commit, whether its answer arrives or not.
LEMMA CommitKeeps ==
  ASSUME Inv, NEW a \in Attempt, Commit(a) \/ CommitBreaks(a)
  PROVE  Inv'
<1>1. /\ attempt[a].at = "commit"
      /\ Ends(a)
      /\ UNCHANGED <<drawn, object, clientVars>>
      /\ Effect(a) \/ UNCHANGED tableVars
  BY DEF Commit, CommitBreaks, AfterCommitError
<1>2. faults' \in 0 .. MaxFaults
  BY UploadAssumption DEF Commit, CommitBreaks, Faulty, Inv, TypeOK
<1>3. CASE Effect(a)
  BY <1>1, <1>2, <1>3, EffectKeeps
<1>4. CASE UNCHANGED tableVars
  BY <1>1, <1>2, <1>4, RunEnds
<1> QED BY <1>1, <1>3, <1>4

-----------------------------------------------------------------------------
(* The invariant.                                                          *)

LEMMA InitHolds ==
  ASSUME Init
  PROVE  Inv
<1> USE UploadAssumption
<1>1. NoRun \in Run
  BY DEF NoRun, Run, Key, NoKey, Kind, NoSession, Session, Authz
<1>2. TypeOK
  <2>1. NoUpload \in UploadRow
    BY DEF NoUpload, UploadRow
  <2> QED BY <1>1, <2>1 DEF Init, TypeOK, Session, Key, Part, Authz, ObjectState
<1>3. Tables
  <2>1. \A k \in Key, kind \in Kind, s \in Session : ~About(k, kind, s)
    BY DEF Init, About, NoEntry, Kind
  <2>2. OneEntry
    BY <2>1 DEF OneEntry
  <2>3. \A s \in Session : upload[s].status = "none" /\ upload[s].assets = 0
    BY DEF Init, NoUpload
  <2>4. \A s \in Session : bound[s] = {} /\ KeysOf("ingest", s) = {}
    BY <2>1 DEF Init, KeysOf, About, Kind
  <2>5. EntriesMatch
    BY <2>1, <2>3, <2>4 DEF EntriesMatch, Committed, Kind
  <2>6. ObjectsMatch
    BY <2>3 DEF ObjectsMatch
  <2> QED BY <2>2, <2>5, <2>6 DEF Tables
<1>4. \A a \in Attempt : attempt[a] = NoRun
  BY DEF Init
<1>5. GoodRun(NoRun)
  BY DEF NoRun, GoodRun, GoodKind, GoodSession, GoodObjects, GoodRow, Creating,
         RowHeld, Binding
<1>6. Runs
  BY <1>4, <1>5 DEF Runs
<1>7. Exclusive
  BY <1>1, <1>2, <1>4, RunEnded DEF Exclusive
<1> QED BY <1>2, <1>3, <1>6, <1>7 DEF Inv

LEMMA StepKeeps ==
  ASSUME Inv, [Next]_vars
  PROVE  Inv'
<1>1. ASSUME NEW a \in Attempt, NEW k \in Key, NEW kind \in Kind,
             NEW s \in {NoSession} \cup Session, Start(a, k, kind, s)
      PROVE  Inv'
  BY <1>1, StartKeeps
<1>2. ASSUME NEW a \in Attempt, Waits(a)
      PROVE  Inv'
  BY <1>2, FindsEntryKeeps, ActsKeeps, EndsKeep, LockRowKeeps, LockAssetsKeeps
  DEF Waits
<1>3. ASSUME NEW a \in Attempt, Proceeds(a)
      PROVE  Inv'
  BY <1>3, InsertSessionKeeps, CommitKeeps, UndoKeeps, PlanKeeps, FinishKeeps
  DEF Proceeds
<1>4. ASSUME NEW a \in Attempt, Breaks(a)
      PROVE  Inv'
  BY <1>4, CommitKeeps, FailsKeeps, EndsKeep, PlanKeeps, FinishKeeps DEF Breaks
<1>5. ASSUME NEW s \in Session, NEW p \in Part, ClientUploads(s, p)
      PROVE  Inv'
  BY <1>5, ClientUploadsKeeps
<1>6. CASE GrantsChange \/ (\E s \in Session : Expire(s)) \/ UNCHANGED vars
  BY <1>6, OutsideKeeps
<1> QED BY <1>1, <1>2, <1>3, <1>4, <1>5, <1>6 DEF Next

\* The tables, the objects and the runs agree as Inv says, in every state.
THEOREM UploadInvariant == Spec => []Inv
<1>1. Init => Inv
  BY InitHolds
<1>2. Inv /\ [Next]_vars => Inv'
  BY StepKeeps
<1> QED BY <1>1, <1>2, PTL DEF Spec

\* Every table, object and run has its type.
THEOREM UploadTypes == Spec => []TypeOK
<1>1. Inv => TypeOK
  BY DEF Inv
<1> QED BY <1>1, UploadInvariant, PTL

\* A set whose elements are all the same has at most one.
LEMMA AtMostOne ==
  ASSUME NEW S, \A x, y \in S : x = y
  PROVE  /\ S = {} => Cardinality(S) = 0
         /\ S # {} => Cardinality(S) = 1
<1>1. CASE S = {}
  BY <1>1, FS_EmptySet
<1>2. CASE S # {}
  <2>1. PICK x : S = {x}
    BY <1>2
  <2> QED BY <1>2, <2>1, FS_Singleton
<1> QED BY <1>1, <1>2

LEMMA LedgerFromEntries ==
  ASSUME OneEntry, EntriesMatch
  PROVE  LedgerMatches
<1> SUFFICES ASSUME NEW s \in Session
             PROVE  /\ Cardinality(KeysOf("create", s))
                         = IF upload[s].status = "none" THEN 0 ELSE 1
                    /\ Cardinality(KeysOf("complete", s))
                         = IF upload[s].status = "SUCCEEDED" THEN 1 ELSE 0
                    /\ Cardinality(KeysOf("cancel", s))
                         = IF upload[s].status = "CANCELLED" THEN 1 ELSE 0
                    /\ bound[s] = KeysOf("ingest", s)
                    /\ Cardinality(bound[s]) <= 1
                    /\ bound[s] # {} => upload[s].status = "SUCCEEDED"
  BY DEF LedgerMatches
<1>1. ASSUME NEW kind \in Kind
      PROVE  /\ KeysOf(kind, s) = {} => Cardinality(KeysOf(kind, s)) = 0
             /\ KeysOf(kind, s) # {} => Cardinality(KeysOf(kind, s)) = 1
  <2>1. \A k, l \in KeysOf(kind, s) : k = l
    BY DEF OneEntry, About, KeysOf
  <2> QED BY <2>1, AtMostOne
<1>2. /\ upload[s].status = "none" <=> KeysOf("create", s) = {}
      /\ upload[s].status = "SUCCEEDED" <=> KeysOf("complete", s) # {}
      /\ upload[s].status = "CANCELLED" <=> KeysOf("cancel", s) # {}
  BY DEF EntriesMatch, About, KeysOf
<1>3. /\ bound[s] = KeysOf("ingest", s)
      /\ bound[s] # {} => upload[s].status = "SUCCEEDED"
  BY DEF EntriesMatch
<1>4. Cardinality(bound[s]) <= 1
  <2>1. Cardinality(KeysOf("ingest", s)) \in {0, 1}
    BY <1>1 DEF Kind
  <2> QED BY <1>3, <2>1
<1>5. /\ "create" \in Kind
      /\ "complete" \in Kind
      /\ "cancel" \in Kind
  BY DEF Kind
<1> QED BY <1>1, <1>2, <1>3, <1>4, <1>5

\* However many attempts share its key, a command is done once, and the rows
\* of the sessions, their assets and the ledger tell the same.
THEOREM CommandsAreDoneOnce == Spec => []LedgerMatches
<1>1. Inv => LedgerMatches
  BY LedgerFromEntries DEF Inv, Tables
<1> QED BY <1>1, UploadInvariant, PTL

\* No object of a committed session is taken back, and a completed session has
\* all of them.
THEOREM ObjectsAreKept == Spec => []ObjectsMatch
<1>1. Inv => ObjectsMatch
  BY DEF Inv, Tables
<1> QED BY <1>1, UploadInvariant, PTL

-----------------------------------------------------------------------------
(* Waiting.  A lock of a key is waited for before any other is held, and   *)
(* who holds a row or assets waits for nothing, so from any attempt at     *)
(* most two others lead to one that can go on.                             *)

\* A completion at work has an object before it.
Unfinished == \A a \in Attempt : attempt[a].at = "objects" => attempt[a].done < Width

LEMMA OneRunUnfinished ==
  ASSUME Inv, Unfinished, NEW a \in Attempt, NEW r, Goes(a, r),
         r.at = "objects" => r.done < Width
  PROVE  Unfinished'
<1>1. attempt \in [Attempt -> Run]
  BY DEF Inv, TypeOK
<1> QED BY <1>1 DEF Goes, Unfinished

LEMMA PhaseUnfinished ==
  ASSUME Inv, Unfinished, NEW a \in Attempt, NEW to, to # "objects",
         Goes(a, [attempt[a] EXCEPT !.at = to])
  PROVE  Unfinished'
<1>1. [attempt[a] EXCEPT !.at = to].at = to
  BY DEF Inv, TypeOK, Run
<1> QED BY <1>1, OneRunUnfinished

LEMMA EndsUnfinished ==
  ASSUME Inv, Unfinished, NEW a \in Attempt, Ends(a)
  PROVE  Unfinished'
BY OneRunUnfinished DEF Ends, NoRun

LEMMA InsertsUnfinished ==
  ASSUME Inv, Unfinished, NEW a \in Attempt, Inserts(a)
  PROVE  Unfinished'
BY PhaseUnfinished, EndsUnfinished DEF Inserts

LEMMA WaitsUnfinished ==
  ASSUME Inv, Unfinished, NEW a \in Attempt, Waits(a)
  PROVE  Unfinished'
<1>1. attempt[a] \in Run /\ GoodRun(attempt[a])
  BY RunNow
<1>2. CASE FindsEntry(a)
  <2> DEFINE r == [attempt[a] EXCEPT !.at = "replay",
                                     !.session = ledger[attempt[a].key].session]
  <2>1. r.at = "replay"
    BY <1>1 DEF Run
  <2>2. Goes(a, r) \/ Ends(a)
    BY <1>2 DEF FindsEntry
  <2> QED BY <2>1, <2>2, OneRunUnfinished, EndsUnfinished
<1>3. CASE Acts(a)
  <2>1. PICK s, f :
          Goes(a, [attempt[a] EXCEPT !.at = FirstPhase(attempt[a].kind),
                                     !.session = s, !.free = f])
    BY <1>3 DEF Acts
  <2> DEFINE r == [attempt[a] EXCEPT !.at = FirstPhase(attempt[a].kind),
                                     !.session = s, !.free = f]
  <2>2. r.at = FirstPhase(attempt[a].kind)
    BY <1>1 DEF Run
  <2>3. FirstPhase(attempt[a].kind) # "objects"
    BY DEF FirstPhase
  <2> QED BY <2>1, <2>2, <2>3, OneRunUnfinished
<1>4. CASE RunsOut(a) \/ Replay(a)
  BY <1>4, EndsUnfinished DEF RunsOut, Replay
<1>5. CASE LockRow(a)
  <2> DEFINE r == [attempt[a] EXCEPT !.at = "objects"]
  <2>1. r.done = attempt[a].done
    BY <1>1 DEF Run
  <2>2. attempt[a].done = 0
    BY <1>1, <1>5 DEF LockRow, GoodRun, GoodObjects
  <2>3. r.done < Width
    BY <2>1, <2>2, UploadAssumption
  <2>4. Goes(a, r) \/ Ends(a) \/ Inserts(a)
    BY <1>5 DEF LockRow
  <2> HIDE DEF r
  <2> QED BY <2>3, <2>4, OneRunUnfinished, EndsUnfinished, InsertsUnfinished
<1>6. CASE LockAssets(a)
  BY <1>6, EndsUnfinished, InsertsUnfinished DEF LockAssets
<1> QED BY <1>2, <1>3, <1>4, <1>5, <1>6 DEF Waits

LEMMA ProceedsUnfinished ==
  ASSUME Inv, Unfinished, NEW a \in Attempt, Proceeds(a)
  PROVE  Unfinished'
<1>1. attempt[a] \in Run
  BY RunNow
<1>2. CASE InsertSession(a)
  BY <1>2, PhaseUnfinished DEF InsertSession
<1>3. CASE Commit(a) \/ Undo(a)
  BY <1>3, EndsUnfinished DEF Commit, Undo
<1>4. ASSUME NEW p \in Part, Plan(a, p)
      PROVE  Unfinished'
  <2> DEFINE r == [attempt[a] EXCEPT !.done = p]
  <2>1. r.at = "plan"
    BY <1>1, <1>4 DEF Plan, Run
  <2> QED BY <1>4, <2>1, OneRunUnfinished DEF Plan
<1>5. ASSUME NEW p \in Part, FinishObject(a, p)
      PROVE  Unfinished'
  <2> DEFINE r == [attempt[a] EXCEPT !.done = p]
  <2>1. r.done = p
    BY <1>1 DEF Run
  <2>2. Ends(a) \/ Inserts(a) \/ (p < Width /\ Goes(a, r))
    BY <1>5 DEF FinishObject
  <2> HIDE DEF r
  <2> QED BY <2>1, <2>2, OneRunUnfinished, EndsUnfinished, InsertsUnfinished
<1> QED BY <1>2, <1>3, <1>4, <1>5 DEF Proceeds

LEMMA BreaksUnfinished ==
  ASSUME Inv, Unfinished, NEW a \in Attempt, Breaks(a)
  PROVE  Unfinished'
<1>1. CASE CommitBreaks(a)
  BY <1>1, EndsUnfinished DEF CommitBreaks, AfterCommitError
<1>2. CASE Fails(a)
  BY <1>2, EndsUnfinished, PhaseUnfinished DEF Fails
<1>3. CASE Crash(a)
  BY <1>3, EndsUnfinished DEF Crash
<1>4. ASSUME NEW p \in Part, PlanBreaks(a, p) \/ FinishBreaks(a, p)
      PROVE  Unfinished'
  BY <1>4, EndsUnfinished, PhaseUnfinished DEF PlanBreaks, FinishBreaks
<1> QED BY <1>1, <1>2, <1>3, <1>4 DEF Breaks

LEMMA UnfinishedStays == Inv /\ Unfinished /\ [Next]_vars => Unfinished'
<1> SUFFICES ASSUME Inv, Unfinished, [Next]_vars PROVE Unfinished'
  OBVIOUS
<1>1. ASSUME NEW a \in Attempt, NEW k \in Key, NEW kind \in Kind,
             NEW s \in {NoSession} \cup Session, Start(a, k, kind, s)
      PROVE  Unfinished'
  BY <1>1, OneRunUnfinished DEF Start
<1>2. CASE attempt' = attempt
  BY <1>2 DEF Unfinished
<1> QED BY <1>1, <1>2, WaitsUnfinished, ProceedsUnfinished, BreaksUnfinished
  DEF Next, Expire, ClientUploads, GrantsChange, vars

\* Who waits neither for a key nor for a row or assets can go on.
LEMMA BusyIsUnhindered ==
  ASSUME Inv, Unfinished, NEW b \in Attempt,
         attempt[b].at \notin {"idle", "key", "replay", "row", "assets"}
  PROVE  Unhindered(b)
<1>1. attempt[b].done \in 0 .. Width /\ Width \in Nat
  BY RunNow, RunFields, UploadAssumption
<1>2. attempt[b].at = "plan" => attempt[b].done = Width \/ attempt[b].done + 1 \in Part
  BY <1>1 DEF Part
<1>3. attempt[b].at = "objects" => attempt[b].done + 1 \in Part
  BY <1>1 DEF Part, Unfinished
<1> QED BY <1>2, <1>3 DEF Unhindered

LEMMA RowsComeFree ==
  ASSUME Inv, Unfinished, NEW b \in Attempt, attempt[b].at \notin {"idle", "key"}
  PROVE  \E c \in Attempt : Unhindered(c)
<1>1. CASE attempt[b].at \in {"replay", "row"}
  <2>1. CASE RowIsFree(b, attempt[b].session)
    BY <1>1, <2>1 DEF Unhindered
  <2>2. CASE ~RowIsFree(b, attempt[b].session)
    <3>1. PICK c \in Attempt : attempt[c].at \in {"objects", "commit"}
      BY <2>2 DEF RowIsFree, HoldsRow
    <3> QED BY <3>1, BusyIsUnhindered
  <2> QED BY <2>1, <2>2
<1>2. CASE attempt[b].at = "assets"
  <2>1. CASE AssetsAreFree(b, attempt[b].session)
    BY <1>2, <2>1 DEF Unhindered
  <2>2. CASE ~AssetsAreFree(b, attempt[b].session)
    <3>1. PICK c \in Attempt : attempt[c].at = "commit"
      BY <2>2 DEF AssetsAreFree
    <3> QED BY <3>1, BusyIsUnhindered
  <2> QED BY <2>1, <2>2
<1> QED BY <1>1, <1>2, BusyIsUnhindered

\* However many requests there are, they never all wait for one another.
THEOREM RequestsNeverAllWait == Spec => []NoCircleWaits
<1>1. Init => Unfinished
  BY DEF Init, Unfinished, NoRun
<1>2. Inv /\ Unfinished => NoCircleWaits
  <2> SUFFICES ASSUME Inv, Unfinished, NEW a \in Attempt, attempt[a].at # "idle"
               PROVE  \E c \in Attempt : Unhindered(c)
    BY DEF NoCircleWaits
  <2>1. CASE attempt[a].at = "key" /\ KeyIsFree(a)
    BY <2>1 DEF Unhindered
  <2>2. CASE attempt[a].at = "key" /\ ~KeyIsFree(a)
    <3>1. PICK b \in Attempt : attempt[b].at \notin {"idle", "key"}
      BY <2>2 DEF KeyIsFree, HoldsKey
    <3> QED BY <3>1, RowsComeFree
  <2> QED BY <2>1, <2>2, RowsComeFree
<1> QED BY <1>1, <1>2, UploadInvariant, UnfinishedStays, PTL DEF Spec
-----------------------------------------------------------------------------
(* One way: the step of SessionsGoOneWay, tables and objects.              *)

TablesGoOn ==
  /\ \A k \in Key : ledger[k] # NoEntry => ledger'[k] = ledger[k]
  /\ \A s \in Session :
       /\ \/ upload'[s].status = upload[s].status
          \/ upload[s].status = "none" /\ upload'[s].status = "WAITING_INPUT"
          \/ /\ upload[s].status = "WAITING_INPUT"
             /\ upload'[s].status \in {"SUCCEEDED", "CANCELLED"}
       /\ bound[s] # {} => bound'[s] = bound[s]

ObjectsGoOn ==
  \A s \in Session : Committed(s) => \A p \in Part :
    \/ object'[s][p] = object[s][p]
    \/ object[s][p] = "planned" /\ object'[s][p] \in {"parts", "stored"}
    \/ object[s][p] = "parts" /\ object'[s][p] = "stored"

LEMMA TablesStay ==
  ASSUME UNCHANGED tableVars
  PROVE  TablesGoOn
BY DEF TablesGoOn, tableVars

LEMMA ObjectsStay ==
  ASSUME UNCHANGED object
  PROVE  ObjectsGoOn
BY DEF ObjectsGoOn

\* A commit finds its key new and its session where the command may take it.
LEMMA EffectGoesOn ==
  ASSUME Inv, NEW a \in Attempt, attempt[a].at = "commit", Effect(a)
  PROVE  TablesGoOn
<1>1. PICK q \in Run : q = attempt[a]
  BY RunNow
<1>2. /\ q.key \in Key
      /\ q.session \in Session
      /\ ledger[q.key] = NoEntry
      /\ \E e \in Entry : ledger' = [ledger EXCEPT ![q.key] = e]
      /\ \A t \in Session : t # q.session => upload'[t] = upload[t]
      /\ \/ Creates(q, q.session)
         \/ Completes(q, q.session)
         \/ Cancels(q, q.session)
         \/ Ingests(q, q.session)
  BY <1>1, EffectOfCommit
<1>3. PICK s \in Session : s = q.session
  BY <1>2
<1>4. Creates(q, s) \/ Completes(q, s) \/ Cancels(q, s) \/ Ingests(q, s)
  BY <1>2, <1>3
<1>5. \A k \in Key : ledger[k] # NoEntry => ledger'[k] = ledger[k]
  BY <1>2 DEF Inv, TypeOK
<1>6. \A t \in Session : bound[t] # {} => bound'[t] = bound[t]
  BY <1>4 DEF Creates, Completes, Cancels, Ingests, Inv, TypeOK
<1>7. \/ upload'[s].status = upload[s].status
      \/ upload[s].status = "none" /\ upload'[s].status = "WAITING_INPUT"
      \/ /\ upload[s].status = "WAITING_INPUT"
         /\ upload'[s].status \in {"SUCCEEDED", "CANCELLED"}
  BY <1>4 DEF Creates, Completes, Cancels, Ingests
<1>8. \A t \in Session : t # s => upload'[t] = upload[t]
  BY <1>2, <1>3
<1> QED BY <1>5, <1>6, <1>7, <1>8 DEF TablesGoOn

\* A creation that plans or takes back its objects is not committed.
LEMMA CreationGoesOn ==
  ASSUME Inv, NEW a \in Attempt, NEW p \in Part,
         Plan(a, p) \/ PlanBreaks(a, p) \/ Undo(a)
  PROVE  TablesGoOn /\ ObjectsGoOn
<1>1. PICK q \in Run : q = attempt[a] /\ GoodRun(q)
  BY RunNow
<1>2. Creating(q) /\ UNCHANGED tableVars
  BY <1>1 DEF Plan, PlanBreaks, Undo, Creating, GoodRun, GoodKind
<1>3. ~Committed(q.session)
  BY <1>1, <1>2 DEF GoodRun, GoodSession
<1>4. \A s \in Session : s # q.session => object'[s] = object[s]
  BY <1>1 DEF Plan, PlanBreaks, Undo, Inv, TypeOK
<1>5. ObjectsGoOn
  BY <1>3, <1>4 DEF ObjectsGoOn
<1> QED BY <1>2, <1>5, TablesStay

LEMMA FinishGoesOn ==
  ASSUME Inv, NEW a \in Attempt, NEW p \in Part,
         FinishObject(a, p) \/ FinishBreaks(a, p)
  PROVE  TablesGoOn /\ ObjectsGoOn
<1>1. PICK s : s = attempt[a].session
  OBVIOUS
<1>2. object' = [object EXCEPT ![s][p] = Finished(s, p)] /\ UNCHANGED tableVars
  BY <1>1 DEF FinishObject, FinishBreaks
<1>3. \A t \in Session, i \in Part :
        object'[t][i] = object[t][i] \/ (t = s /\ i = p /\ object'[t][i] = Finished(s, p))
  BY <1>2 DEF Inv, TypeOK
<1>4. ObjectsGoOn
  BY <1>3 DEF ObjectsGoOn, Finished
<1> QED BY <1>2, <1>4, TablesStay

LEMMA ClientGoesOn ==
  ASSUME Inv, NEW s \in Session, NEW p \in Part, ClientUploads(s, p)
  PROVE  TablesGoOn /\ ObjectsGoOn
<1>1. PICK state \in {"parts", "stored"} : object' = [object EXCEPT ![s][p] = state]
  BY DEF ClientUploads
<1>2. \A t \in Session, i \in Part :
        object'[t][i] = object[t][i] \/ (t = s /\ i = p /\ object'[t][i] = state)
  BY <1>1 DEF Inv, TypeOK
<1>3. ObjectsGoOn
  BY <1>2 DEF ObjectsGoOn, ClientUploads
<1> QED BY <1>3, TablesStay DEF ClientUploads

LEMMA StepGoesOn ==
  ASSUME Inv, Next
  PROVE  TablesGoOn /\ ObjectsGoOn
<1>1. ASSUME NEW a \in Attempt, NEW k \in Key, NEW kind \in Kind,
             NEW s \in {NoSession} \cup Session, Start(a, k, kind, s)
      PROVE  TablesGoOn /\ ObjectsGoOn
  BY <1>1, TablesStay, ObjectsStay DEF Start
<1>2. ASSUME NEW a \in Attempt, Waits(a)
      PROVE  TablesGoOn /\ ObjectsGoOn
  BY <1>2, TablesStay, ObjectsStay
  DEF Waits, FindsEntry, Acts, RunsOut, Replay, LockRow, LockAssets
<1>3. ASSUME NEW a \in Attempt, Commit(a) \/ CommitBreaks(a)
      PROVE  TablesGoOn /\ ObjectsGoOn
  BY <1>3, EffectGoesOn, TablesStay, ObjectsStay DEF Commit, CommitBreaks
<1>4. ASSUME NEW a \in Attempt, InsertSession(a) \/ Fails(a) \/ Crash(a)
      PROVE  TablesGoOn /\ ObjectsGoOn
  BY <1>4, TablesStay, ObjectsStay DEF InsertSession, Fails, Crash
<1>5. ASSUME NEW a \in Attempt, Undo(a)
      PROVE  TablesGoOn /\ ObjectsGoOn
  <2>1. 1 \in Part
    BY UploadAssumption DEF Part
  <2> QED BY <1>5, <2>1, CreationGoesOn
<1>6. ASSUME NEW a \in Attempt, Proceeds(a)
      PROVE  TablesGoOn /\ ObjectsGoOn
  BY <1>3, <1>4, <1>5, <1>6, CreationGoesOn, FinishGoesOn DEF Proceeds
<1>7. ASSUME NEW a \in Attempt, Breaks(a)
      PROVE  TablesGoOn /\ ObjectsGoOn
  BY <1>3, <1>4, <1>7, CreationGoesOn, FinishGoesOn DEF Breaks
<1>8. ASSUME NEW s \in Session, NEW p \in Part, ClientUploads(s, p)
      PROVE  TablesGoOn /\ ObjectsGoOn
  BY <1>8, ClientGoesOn
<1>9. CASE GrantsChange \/ \E s \in Session : Expire(s)
  BY <1>9, TablesStay, ObjectsStay DEF GrantsChange, Expire
<1> QED BY <1>1, <1>2, <1>6, <1>7, <1>8, <1>9 DEF Next

\* No attempt undoes what another one committed.
THEOREM NothingIsUndone == Spec => SessionsGoOneWay
<1>1. Inv /\ [Next]_vars => [TablesGoOn /\ ObjectsGoOn]_vars
  BY StepGoesOn
<1>2. [TablesGoOn /\ ObjectsGoOn]_vars =>
        [/\ \A k \in Key : ledger[k] /= NoEntry => ledger'[k] = ledger[k]
         /\ \A s \in Session :
              /\ \/ upload'[s].status = upload[s].status
                 \/ upload[s].status = "none" /\ upload'[s].status = "WAITING_INPUT"
                 \/ /\ upload[s].status = "WAITING_INPUT"
                    /\ upload'[s].status \in {"SUCCEEDED", "CANCELLED"}
              /\ bound[s] /= {} => bound'[s] = bound[s]
              /\ upload[s].status /= "none" => \A p \in Part :
                   \/ object'[s][p] = object[s][p]
                   \/ object[s][p] = "planned" /\ object'[s][p] \in {"parts", "stored"}
                   \/ object[s][p] = "parts" /\ object'[s][p] = "stored"]_vars
  BY DEF TablesGoOn, ObjectsGoOn, Committed
<1> QED BY <1>1, <1>2, UploadInvariant, PTL DEF Spec, SessionsGoOneWay
-----------------------------------------------------------------------------
(* The commands as a desk: what a step does to the tables is done by one   *)
(* commit, and what it does to the objects of a committed session is to    *)
(* store one of them.                                                      *)

LEMMA DeskRests ==
  ASSUME UNCHANGED tableVars, UNCHANGED object
  PROVE  UNCHANGED Desk!vars
BY DEF Desk!vars, tableVars, Deeds, Statuses, Present

\* The objects of sessions that do not exist are not seen.
LEMMA DeskSeesNothing ==
  ASSUME UNCHANGED tableVars,
         \A s \in Session : Committed(s) => object'[s] = object[s]
  PROVE  UNCHANGED Desk!vars
<1>1. UNCHANGED <<Deeds, Statuses, bound>>
  BY DEF tableVars, Deeds, Statuses
<1>2. Present' = Present
  BY DEF Present, Committed, tableVars
<1> QED BY <1>1, <1>2 DEF Desk!vars

\* One object goes on: its session has it now, or had it before.
LEMMA DeskStores ==
  ASSUME Inv, UNCHANGED tableVars, ObjectsGoOn, NEW s \in Session, NEW p \in Part,
         \A t \in Session, i \in Part : object'[t][i] = object[t][i] \/ (t = s /\ i = p)
  PROVE  [Desk!Next]_(Desk!vars)
<1>1. UNCHANGED <<Deeds, Statuses, bound>>
  BY DEF tableVars, Deeds, Statuses
<1>2. \A t \in Session, i \in Part :
        <<t, i>> \in Present' <=> upload[t].status # "none" /\ object'[t][i] = "stored"
  BY DEF Present, tableVars
<1>3. \A t \in Session, i \in Part :
        <<t, i>> \in Present <=> upload[t].status # "none" /\ object[t][i] = "stored"
  BY DEF Present
<1>4. Present \subseteq Session \X Part /\ Present' \subseteq Session \X Part
  BY DEF Present
<1>5. Present \subseteq Present'
  BY <1>2, <1>3, <1>4 DEF ObjectsGoOn, Committed
<1>6. \A t \in Session, i \in Part :
        <<t, i>> \in Present' => <<t, i>> \in Present \/ (t = s /\ i = p)
  BY <1>2, <1>3
<1>7. CASE <<s, p>> \in Present'
  <2>1. Present' = Present \cup {<<s, p>>}
    BY <1>4, <1>5, <1>6, <1>7
  <2>2. Statuses[s] # "none"
    BY <1>2, <1>7 DEF Statuses
  <2>3. Desk!Store(s, p)
    BY <1>1, <2>1, <2>2 DEF Desk!Store
  <2> QED BY <2>3 DEF Desk!Next
<1>8. CASE <<s, p>> \notin Present'
  <2>1. Present' = Present
    BY <1>4, <1>5, <1>6, <1>8
  <2> QED BY <1>1, <2>1 DEF Desk!vars
<1> QED BY <1>7, <1>8

\* A commit does its command.  What it creates has objects that nobody could
\* upload yet, what it completes has all of them.
LEMMA DeskCommits ==
  ASSUME Inv, NEW a \in Attempt, attempt[a].at = "commit", Effect(a), UNCHANGED object
  PROVE  [Desk!Next]_(Desk!vars)
<1>1. PICK q \in Run : q = attempt[a] /\ GoodRun(q)
  BY RunNow
<1>2. /\ q.key \in Key
      /\ q.session \in Session
      /\ ledger[q.key] = NoEntry
      /\ \E e \in Entry : /\ e.kind = q.kind
                          /\ e.session = q.session
                          /\ ledger' = [ledger EXCEPT ![q.key] = e]
      /\ \A t \in Session : t # q.session => upload'[t] = upload[t]
      /\ \/ Creates(q, q.session)
         \/ Completes(q, q.session)
         \/ Cancels(q, q.session)
         \/ Ingests(q, q.session)
  BY <1>1, EffectOfCommit
<1>3. PICK k \in Key, s \in Session : k = q.key /\ s = q.session
  BY <1>2
<1>4. PICK e \in Entry : /\ e.kind = q.kind
                         /\ e.session = s
                         /\ ledger' = [ledger EXCEPT ![k] = e]
  BY <1>2, <1>3
<1>5. /\ Deeds[k] = Desk!Undone
      /\ Deeds' = [Deeds EXCEPT ![k] = [kind |-> q.kind, session |-> s]]
  <2>1. Deeds[k] = Desk!Undone
    BY <1>2, <1>3 DEF Deeds, Desk!Undone, NoEntry
  <2>2. ledger'[k] = e /\ \A l \in Key : l # k => ledger'[l] = ledger[l]
    BY <1>4 DEF Inv, TypeOK
  <2>3. Deeds' = [Deeds EXCEPT ![k] = [kind |-> q.kind, session |-> s]]
    BY <1>4, <2>2 DEF Deeds
  <2> QED BY <2>1, <2>3
<1>6. \A t \in Session : t # s => upload'[t] = upload[t]
  BY <1>2, <1>3
<1>7. /\ Statuses[s] = upload[s].status
      /\ Statuses' = [Statuses EXCEPT ![s] = upload'[s].status]
  BY <1>6 DEF Statuses
<1>8. \A p \in Part : upload[s].status = "none"
        => object[s][p] = "planned" \/ upload'[s].status = "none"
  BY <1>1, <1>2, <1>3 DEF GoodRun, GoodObjects, Creates, Completes, Cancels, Ingests
<1>9. Present' = Present
  <2>1. \A t \in Session, p \in Part :
          (upload'[t].status # "none" /\ object[t][p] = "stored")
            <=> (upload[t].status # "none" /\ object[t][p] = "stored")
    BY <1>2, <1>3, <1>6, <1>8 DEF Creates, Completes, Cancels, Ingests
  <2> QED BY <2>1 DEF Present
<1>10. CASE Creates(q, s)
  <2>1. Desk!Create(k, s)
    BY <1>5, <1>7, <1>9, <1>10 DEF Creates, Desk!Create, Desk!Moves
  <2> QED BY <2>1 DEF Desk!Next
<1>11. CASE Completes(q, s)
  <2>1. \A p \in Part : object[s][p] = "stored"
    BY <1>1, <1>3, <1>11 DEF GoodRun, GoodObjects, Completes
  <2>2. \A p \in Part : <<s, p>> \in Present
    BY <1>11, <2>1 DEF Present, Completes
  <2>3. Desk!Complete(k, s)
    BY <1>5, <1>7, <1>9, <1>11, <2>2 DEF Completes, Desk!Complete, Desk!Moves
  <2> QED BY <2>3 DEF Desk!Next
<1>12. CASE Cancels(q, s)
  <2>1. Desk!Cancel(k, s)
    BY <1>5, <1>7, <1>9, <1>12 DEF Cancels, Desk!Cancel, Desk!Moves
  <2> QED BY <2>1 DEF Desk!Next
<1>13. CASE Ingests(q, s)
  <2>1. Desk!Ingest(k, s)
    BY <1>3, <1>5, <1>7, <1>9, <1>13 DEF Ingests, Desk!Ingest, Desk!Moves
  <2> QED BY <2>1 DEF Desk!Next
<1> QED BY <1>2, <1>3, <1>10, <1>11, <1>12, <1>13

\* A creation works on the objects of a session that does not exist yet.
LEMMA CreationIsUnseen ==
  ASSUME Inv, NEW a \in Attempt, NEW p \in Part,
         Plan(a, p) \/ PlanBreaks(a, p) \/ Undo(a)
  PROVE  UNCHANGED Desk!vars
<1>1. PICK q \in Run : q = attempt[a] /\ GoodRun(q)
  BY RunNow
<1>2. Creating(q) /\ UNCHANGED tableVars
  BY <1>1 DEF Plan, PlanBreaks, Undo, Creating, GoodRun, GoodKind
<1>3. ~Committed(q.session)
  BY <1>1, <1>2 DEF GoodRun, GoodSession
<1>4. \A s \in Session : s # q.session => object'[s] = object[s]
  BY <1>1 DEF Plan, PlanBreaks, Undo, Inv, TypeOK
<1> QED BY <1>2, <1>3, <1>4, DeskSeesNothing

LEMMA ObjectIsStored ==
  ASSUME Inv, NEW p \in Part,
         \/ \E a \in Attempt : FinishObject(a, p) \/ FinishBreaks(a, p)
         \/ \E s \in Session : ClientUploads(s, p)
  PROVE  [Desk!Next]_(Desk!vars)
<1>1. CASE \E s \in Session : ClientUploads(s, p)
  <2>1. PICK s \in Session : ClientUploads(s, p)
    BY <1>1
  <2>2. \A t \in Session, i \in Part :
          object'[t][i] = object[t][i] \/ (t = s /\ i = p)
    BY <2>1 DEF ClientUploads, Inv, TypeOK
  <2>3. ObjectsGoOn /\ UNCHANGED tableVars
    BY <2>1, ClientGoesOn DEF ClientUploads
  <2> QED BY <2>2, <2>3, DeskStores
<1>2. ASSUME NEW a \in Attempt, FinishObject(a, p) \/ FinishBreaks(a, p)
      PROVE  [Desk!Next]_(Desk!vars)
  <2>1. PICK q \in Run : q = attempt[a] /\ GoodRun(q)
    BY RunNow
  <2>2. q.session \in Session
    BY <1>2, <2>1 DEF FinishObject, FinishBreaks, GoodRun, GoodKind, GoodSession
  <2>3. PICK s \in Session : s = q.session
    BY <2>2
  <2>4. \A t \in Session, i \in Part :
          object'[t][i] = object[t][i] \/ (t = s /\ i = p)
    BY <1>2, <2>1, <2>3 DEF FinishObject, FinishBreaks, Inv, TypeOK
  <2>5. ObjectsGoOn /\ UNCHANGED tableVars
    BY <1>2, FinishGoesOn DEF FinishObject, FinishBreaks
  <2> QED BY <2>4, <2>5, DeskStores
<1> QED BY <1>1, <1>2

LEMMA DeskSteps ==
  ASSUME Inv, [Next]_vars
  PROVE  [Desk!Next]_(Desk!vars)
<1>1. CASE UNCHANGED vars
  BY <1>1, DeskRests DEF vars, tableVars
<1>2. ASSUME NEW a \in Attempt, NEW k \in Key, NEW kind \in Kind,
             NEW s \in {NoSession} \cup Session, Start(a, k, kind, s)
      PROVE  [Desk!Next]_(Desk!vars)
  BY <1>2, DeskRests DEF Start
<1>3. ASSUME NEW a \in Attempt, Waits(a)
      PROVE  [Desk!Next]_(Desk!vars)
  BY <1>3, DeskRests DEF Waits, FindsEntry, Acts, RunsOut, Replay, LockRow, LockAssets
<1>4. ASSUME NEW a \in Attempt, Commit(a) \/ CommitBreaks(a)
      PROVE  [Desk!Next]_(Desk!vars)
  BY <1>4, DeskCommits, DeskRests DEF Commit, CommitBreaks
<1>5. ASSUME NEW a \in Attempt, InsertSession(a) \/ Fails(a) \/ Crash(a)
      PROVE  [Desk!Next]_(Desk!vars)
  BY <1>5, DeskRests DEF InsertSession, Fails, Crash
<1>6. ASSUME NEW a \in Attempt, Undo(a)
      PROVE  [Desk!Next]_(Desk!vars)
  <2>1. 1 \in Part
    BY UploadAssumption DEF Part
  <2> QED BY <1>6, <2>1, CreationIsUnseen
<1>7. ASSUME NEW a \in Attempt, Proceeds(a) \/ Breaks(a)
      PROVE  [Desk!Next]_(Desk!vars)
  BY <1>4, <1>5, <1>6, <1>7, CreationIsUnseen, ObjectIsStored DEF Proceeds, Breaks
<1>8. ASSUME NEW s \in Session, NEW p \in Part, ClientUploads(s, p)
      PROVE  [Desk!Next]_(Desk!vars)
  BY <1>8, ObjectIsStored
<1>9. CASE GrantsChange \/ \E s \in Session : Expire(s)
  BY <1>9, DeskRests DEF GrantsChange, Expire
<1> QED BY <1>1, <1>2, <1>3, <1>7, <1>8, <1>9 DEF Next

\* The attempts with their locks, lost answers and an object store that knows
\* no transaction are one desk at which each command is done at once.
THEOREM UploadsAreADesk == Spec => ImplementsUploadDesk
<1>1. Init => Desk!Init
  <2> SUFFICES ASSUME Init PROVE Desk!Init
    OBVIOUS
  <2>1. Deeds = [k \in Key |-> Desk!Undone]
    BY DEF Init, Deeds, Desk!Undone, NoEntry
  <2>2. Statuses = [s \in Session |-> "none"] /\ Present = {}
    BY DEF Init, Statuses, Present, NoUpload
  <2> QED BY <2>1, <2>2 DEF Init, Desk!Init
<1>2. Inv /\ [Next]_vars => [Desk!Next]_(Desk!vars)
  BY DeskSteps
<1> QED BY <1>1, <1>2, UploadInvariant, PTL DEF Spec, ImplementsUploadDesk, Desk!Spec
-----------------------------------------------------------------------------
(* What a desk promises.                                                   *)

Deed(kind, s) == [kind |-> kind, session |-> s]

\* Every deed is told by the status of its session, and by its assets.
DeskSound ==
  /\ bound = [s \in Session |-> bound[s]]
  /\ \A k \in Key :
       \/ Deeds[k] = Desk!Undone
       \/ \E kind \in Kind, s \in Session : Deeds[k] = Deed(kind, s)
  /\ \A j, k \in Key : Deeds[j] = Deeds[k] /\ Deeds[k] # Desk!Undone => j = k
  /\ \A k \in Key, s \in Session :
       /\ Deeds[k] = Deed("create", s) => Statuses[s] # "none"
       /\ Deeds[k] = Deed("complete", s) => Statuses[s] = "SUCCEEDED"
       /\ Deeds[k] = Deed("cancel", s) => Statuses[s] = "CANCELLED"
       /\ Deeds[k] = Deed("ingest", s) => Statuses[s] = "SUCCEEDED" /\ bound[s] # {}
  /\ \A s \in Session : Statuses[s] = "SUCCEEDED" =>
       /\ \E j \in Key : Deeds[j] = Deed("complete", s)
       /\ \A p \in Part : <<s, p>> \in Present

DeskStands ==
  /\ \A k \in Key : Deeds[k] # Desk!Undone => Deeds'[k] = Deeds[k]
  /\ Present \subseteq Present'

LEMMA DeskRows ==
  /\ Deeds = [k \in Key |-> Deeds[k]] /\ Deeds' = [k \in Key |-> Deeds'[k]]
  /\ Statuses = [s \in Session |-> Statuses[s]]
  /\ Statuses' = [s \in Session |-> Statuses'[s]]
BY DEF Deeds, Statuses

\* A deed is new, its session comes to where the deed says, and no other
\* deed is of the status that its session leaves.
LEMMA DeskMoves ==
  ASSUME DeskSound, NEW k \in Key, NEW s \in Session,
         \/ Desk!Create(k, s) \/ Desk!Complete(k, s)
         \/ Desk!Cancel(k, s) \/ Desk!Ingest(k, s)
  PROVE  DeskSound' /\ DeskStands
<1>1. PICK kind \in Kind :
        /\ Deeds[k] = Desk!Undone
        /\ Deeds' = [Deeds EXCEPT ![k] = Deed(kind, s)]
        /\ \/ kind = "create" /\ Desk!Create(k, s)
           \/ kind = "complete" /\ Desk!Complete(k, s)
           \/ kind = "cancel" /\ Desk!Cancel(k, s)
           \/ kind = "ingest" /\ Desk!Ingest(k, s)
  BY DEF Desk!Create, Desk!Complete, Desk!Cancel, Desk!Ingest, Desk!Moves, Deed, Kind
<1>2. PICK to :
        /\ Statuses' = [Statuses EXCEPT ![s] = to]
        /\ \/ kind = "create" /\ Statuses[s] = "none" /\ to = "WAITING_INPUT"
           \/ kind = "complete" /\ Statuses[s] = "WAITING_INPUT" /\ to = "SUCCEEDED"
           \/ kind = "cancel" /\ Statuses[s] = "WAITING_INPUT" /\ to = "CANCELLED"
           \/ kind = "ingest" /\ Statuses[s] = "SUCCEEDED" /\ to = "SUCCEEDED"
  BY <1>1 DEF Desk!Create, Desk!Complete, Desk!Cancel, Desk!Ingest, Desk!Moves
<1>3. /\ Present' = Present
      /\ kind = "complete" => \A p \in Part : <<s, p>> \in Present
      /\ kind # "ingest" => bound' = bound
      /\ kind = "ingest" => bound[s] = {} /\ bound' = [bound EXCEPT ![s] = {k}]
  BY <1>1 DEF Desk!Create, Desk!Complete, Desk!Cancel, Desk!Ingest, Desk!Moves
<1>4. /\ Deeds'[k] = Deed(kind, s)
      /\ \A l \in Key : l # k => Deeds'[l] = Deeds[l]
      /\ Statuses'[s] = to
      /\ \A t \in Session : t # s => Statuses'[t] = Statuses[t]
  BY <1>1, <1>2, DeskRows
<1>5. /\ bound' = [t \in Session |-> bound'[t]]
      /\ \A t \in Session : bound[t] # {} => bound'[t] # {}
      /\ kind = "ingest" => bound'[s] # {}
  BY <1>3 DEF DeskSound
<1>6. \A j \in Key : Deeds[j] # Deed(kind, s)
  BY <1>2, <1>3 DEF DeskSound
<1>7. /\ Deed(kind, s) # Desk!Undone
      /\ \A m, n, t, u : Deed(m, t) = Deed(n, u) => m = n /\ t = u
  BY DEF Deed, Desk!Undone, Kind
<1>8. \A j, l \in Key : Deeds'[j] = Deeds'[l] /\ Deeds'[l] # Desk!Undone => j = l
  BY <1>4, <1>6 DEF DeskSound
<1>9. ASSUME NEW l \in Key, NEW t \in Session
      PROVE  /\ Deeds'[l] = Deed("create", t) => Statuses'[t] # "none"
             /\ Deeds'[l] = Deed("complete", t) => Statuses'[t] = "SUCCEEDED"
             /\ Deeds'[l] = Deed("cancel", t) => Statuses'[t] = "CANCELLED"
             /\ Deeds'[l] = Deed("ingest", t)
                  => Statuses'[t] = "SUCCEEDED" /\ bound'[t] # {}
  <2>1. CASE l = k
    BY <1>2, <1>4, <1>5, <1>7, <2>1
  <2>2. CASE l # k /\ t # s
    BY <1>4, <1>5, <2>2 DEF DeskSound
  <2>3. CASE l # k /\ t = s
    <3>1. Deeds'[l] = Deeds[l]
      BY <1>4, <2>3
    <3>2. /\ Deeds[l] = Deed("complete", s) \/ Deeds[l] = Deed("ingest", s)
               => to = "SUCCEEDED"
          /\ Deeds[l] # Deed("cancel", s) \/ to = "CANCELLED"
          /\ to # "none"
      BY <1>2 DEF DeskSound
    <3>3. Deeds[l] = Deed("ingest", s) => bound'[s] # {}
      BY <1>5 DEF DeskSound
    <3> QED BY <1>4, <2>3, <3>1, <3>2, <3>3
  <2> QED BY <2>1, <2>2, <2>3
<1>10. ASSUME NEW t \in Session, Statuses'[t] = "SUCCEEDED"
       PROVE  /\ \E j \in Key : Deeds'[j] = Deed("complete", t)
              /\ \A p \in Part : <<t, p>> \in Present'
  <2>1. CASE Statuses[t] = "SUCCEEDED"
    <3>1. PICK j \in Key : Deeds[j] = Deed("complete", t)
      BY <2>1 DEF DeskSound
    <3>2. Deeds[j] # Desk!Undone
      BY <3>1 DEF Deed, Desk!Undone
    <3>3. Deeds'[j] = Deed("complete", t)
      BY <1>1, <1>4, <3>1, <3>2
    <3> QED BY <1>3, <2>1, <3>3 DEF DeskSound
  <2>2. CASE Statuses[t] # "SUCCEEDED"
    <3>1. t = s /\ kind = "complete"
      BY <1>2, <1>4, <1>10, <2>2
    <3> QED BY <1>3, <1>4, <3>1
  <2> QED BY <2>1, <2>2
<1>11. \A l \in Key :
         \/ Deeds'[l] = Desk!Undone
         \/ \E m \in Kind, t \in Session : Deeds'[l] = Deed(m, t)
  BY <1>4 DEF DeskSound
<1>12. DeskSound'
  BY <1>5, <1>8, <1>9, <1>10, <1>11 DEF DeskSound, Desk!Undone
<1>13. DeskStands
  BY <1>1, <1>3, <1>4 DEF DeskStands
<1> QED BY <1>12, <1>13

LEMMA DeskKeeps ==
  ASSUME DeskSound, [Desk!Next]_(Desk!vars)
  PROVE  DeskSound' /\ DeskStands
<1>1. CASE UNCHANGED Desk!vars
  BY <1>1 DEF Desk!vars, DeskSound, DeskStands, Desk!Undone
<1>2. ASSUME NEW s \in Session, NEW p \in Part, Desk!Store(s, p)
      PROVE  DeskSound' /\ DeskStands
  <2>1. /\ UNCHANGED <<Deeds, Statuses, bound>>
        /\ Present' = Present \cup {<<s, p>>}
    BY <1>2 DEF Desk!Store
  <2> QED BY <2>1 DEF DeskSound, DeskStands, Desk!Undone
<1> QED BY <1>1, <1>2, DeskMoves DEF Desk!Next

\* Whatever implements the desk keeps its promises: no command is done twice, a
\* session is not both completed and cancelled, an ingestion has all its
\* objects, and what was done stays done.
THEOREM DeskKeepsPromises == ImplementsUploadDesk => Desk!Promises
<1>1. Desk!Init => DeskSound
  <2> SUFFICES ASSUME Desk!Init PROVE DeskSound
    OBVIOUS
  <2>1. /\ \A k \in Key : Deeds[k] = Desk!Undone
        /\ \A s \in Session : Statuses[s] = "none"
        /\ bound = [s \in Session |-> {}]
    BY DEF Desk!Init
  <2>2. \A kind \in Kind, s \in Session : Deed(kind, s) # Desk!Undone
    BY DEF Deed, Desk!Undone, Kind
  <2> QED BY <2>1, <2>2 DEF DeskSound, Kind
<1>2. DeskSound /\ [Desk!Next]_(Desk!vars) => DeskSound'
  BY DeskKeeps
<1>3. DeskSound => Desk!NothingTwice
  BY DEF DeskSound, Desk!NothingTwice
<1>4. DeskSound => Desk!NeverBoth
  <2> SUFFICES ASSUME DeskSound, NEW j \in Key, NEW k \in Key, NEW s \in Session,
                      Deeds[j] = Deed("complete", s), Deeds[k] = Deed("cancel", s)
               PROVE  FALSE
    BY Zenon DEF Desk!NeverBoth, Desk!IsDone, Deed
  <2>1. Statuses[s] = "SUCCEEDED" /\ Statuses[s] = "CANCELLED"
    BY DEF DeskSound
  <2> QED BY <2>1
<1>5. DeskSound => Desk!IngestsWhatIsThere
  <2> SUFFICES ASSUME DeskSound, NEW k \in Key, NEW s \in Session,
                      Deeds[k] = Deed("ingest", s)
               PROVE  /\ \E j \in Key : Deeds[j] = Deed("complete", s)
                      /\ \A p \in Part : <<s, p>> \in Present
    BY Zenon DEF Desk!IngestsWhatIsThere, Desk!IsDone, Deed
  <2>1. Statuses[s] = "SUCCEEDED"
    BY DEF DeskSound
  <2> QED BY <2>1 DEF DeskSound
<1>6. DeskSound /\ [Desk!Next]_(Desk!vars)
        => [/\ \A k \in Key : Deeds[k] # Desk!Undone => Deeds'[k] = Deeds[k]
            /\ Present \subseteq Present']_(Desk!vars)
  BY DeskKeeps DEF DeskStands
<1> QED BY <1>1, <1>2, <1>3, <1>4, <1>5, <1>6, PTL
  DEF ImplementsUploadDesk, Desk!Spec, Desk!Promises, Desk!DoneStands

\* So do the attempts, whatever fails and however often a request is sent.
THEOREM UploadsKeepPromises == Spec => Desk!Promises
BY UploadsAreADesk, DeskKeepsPromises, PTL
=============================================================================
