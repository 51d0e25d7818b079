------------------------------ MODULE Journal -------------------------------
(***************************************************************************)
(* The command journal of EXCON v2 (v2-postgres-journal-service.ts): API   *)
(* processes that answer from memory, and a PostgreSQL journal of intents  *)
(* and outcomes that rebuilds the memory of the next process.  A process   *)
(* holds one session; the advisory lock of that session makes it the       *)
(* writer.  Every command appends its intent, runs in memory with freshly  *)
(* drawn ids and times, appends its outcome with what it drew, and only    *)
(* then answers.                                                           *)
(*                                                                         *)
(* What the in-memory service computes is abstracted to the effects it has *)
(* performed.  An effect names its request, its intent (from which the     *)
(* service derives lease tokens) and its tape, the start that drew its ids *)
(* and the time it read; two results are equal exactly if all of these     *)
(* are, as their hashes are in the code.  How the service judges a command *)
(* after some effects and at some time is left open: any judgement may be  *)
(* put for Admits and Breaks.                                              *)
(***************************************************************************)
EXTENDS Naturals, Sequences, FiniteSets

CONSTANTS
  Process,      \* API processes
  NoProcess,
  Request,      \* commands under one Idempotency-Key each
  NoRequest,
  NeedsToken,   \* [Request -> Request \cup {NoRequest}]: whose lease it uses
  Readings,     \* the times that a request may read, as far as they matter to it
  Admits(_, _, _),  \* (memory, request, time): the service does the command
  Breaks(_, _, _),  \* it throws, and part of the command is done
  Open,         \* the outcome of an intent that has none
  MaxBoots,     \* bound of the model on starts of processes
  MaxSends,     \* bound of the model on requests that are sent
  MaxWaiting,   \* bound of the model on requests that wait at a time
  MaxFaults     \* bound of the model on crashes, lost calls and restarts

Tape == [boot : Nat, time : UNION {Readings[r] : r \in Request}]
Kind == {"succeeded", "broken", "rejected"}
Result == [request : Request, intent : Nat, tape : Tape, kind : Kind]

ASSUME JournalAssumption ==
  /\ NoProcess \notin Process
  /\ NoRequest \notin Request
  /\ NeedsToken \in [Request -> Request \cup {NoRequest}]
  /\ \A r \in Request : Readings[r] # {}
  /\ Open \notin Result
  /\ MaxBoots \in Nat
  /\ MaxSends \in Nat
  /\ MaxWaiting \in Nat
  /\ MaxFaults \in Nat

VARIABLES
  journal,    \* v2_command_intents with their v2_command_outcomes, in order
  holder,     \* whose session holds the advisory lock
  pc,         \* what each process is doing
  boot,       \* the start each process is in
  boots,      \* the starts there were
  loaded,     \* the entries a process has read
  replayed,   \* how many of them it has been through
  mem,        \* the effects its in-memory service holds
  command,    \* the intent a process is working on, and its result
  sent,       \* requests whose caller waits for an answer
  sends,      \* how many were sent
  answers,    \* every answer the callers of a request were given
  faults

processVars == <<pc, boot, boots, loaded, replayed, mem, command>>
callerVars == <<sent, sends, answers>>
vars == <<journal, holder, processVars, callerVars, faults>>

\* What stays in memory: a command that throws half way leaves a trace as one
\* that succeeds does, and only the second is kept under its key.
Effect == {x \in Result : x.kind # "rejected"}

Outcome == Result \cup {Open}
Entry == [request : Request, outcome : Outcome]
Idle == [request |-> NoRequest, intent |-> 0, result |-> Open]
-----------------------------------------------------------------------------
(* The in-memory service.                                                  *)

Succeeded(m, r) == {e \in m : e.request = r /\ e.kind = "succeeded"}

\* What the service makes of command r in memory m at some time.
Judgement(m, r, time) ==
  IF Admits(m, r, time) THEN "succeeded"
  ELSE IF Breaks(m, r, time) THEN "broken"
  ELSE "rejected"

\* Mutant: the idempotency cache is not part of what a replay rebuilds.
ExecutionUncached(m, r, i, t) ==
  [request |-> r, intent |-> i, tape |-> t, kind |-> Judgement(m, r, t.time)]

\* The result of command r in memory m, run as intent i with tape t: a request
\* that has succeeded before gets its first response again, any other is judged,
\* also one that was refused before.
Execution(m, r, i, t) ==
  IF Succeeded(m, r) # {} THEN CHOOSE e \in Succeeded(m, r) : TRUE
  ELSE [request |-> r, intent |-> i, tape |-> t,
        kind |-> Judgement(m, r, t.time)]

\* Mutant: a rejected command leaves its trace in memory.
AfterAnything(m, x) == m \cup {x}

\* The memory after it.
After(m, x) == IF x.kind = "rejected" THEN m ELSE m \cup {x}

\* The outcomes of the first n of some entries, and the effects among them.
Outcomes(entries, n) ==
  {entries[i].outcome : i \in {j \in 1 .. n : entries[j].outcome # Open}}
Recorded(entries, n) == {x \in Outcomes(entries, n) : x.kind # "rejected"}
-----------------------------------------------------------------------------
Init ==
  /\ journal = <<>>
  /\ holder = NoProcess
  /\ pc = [p \in Process |-> "down"]
  /\ boot = [p \in Process |-> 0]
  /\ boots = 0
  /\ loaded = [p \in Process |-> <<>>]
  /\ replayed = [p \in Process |-> 0]
  /\ mem = [p \in Process |-> {}]
  /\ command = [p \in Process |-> Idle]
  /\ sent = {}
  /\ sends = 0
  /\ answers = [r \in Request |-> {}]
  /\ faults = 0

Goto(p, to) == pc' = [pc EXCEPT ![p] = to]
Fault == faults < MaxFaults /\ faults' = faults + 1

\* Mutant: the session goes back to the pool with its lock.
FreedByNobody(p) == holder

Freed(p) == IF holder = p THEN NoProcess ELSE holder

\* A process whose start failed or that ended: its session and its memory are
\* gone.
Down(p) ==
  /\ Goto(p, "down")
  /\ holder' = Freed(p)
  /\ loaded' = [loaded EXCEPT ![p] = <<>>]
  /\ replayed' = [replayed EXCEPT ![p] = 0]
  /\ mem' = [mem EXCEPT ![p] = {}]
  /\ command' = [command EXCEPT ![p] = Idle]
  /\ UNCHANGED <<boot, boots>>
-----------------------------------------------------------------------------
(* Starting: create, #acquireWriter and #recover.                          *)

\* pg_try_advisory_lock: a start that finds the lock taken changes nothing.
WriterIsFree == holder = NoProcess

AcquireWriter(p) ==
  /\ pc[p] = "down"
  /\ WriterIsFree
  /\ boots < MaxBoots
  /\ boots' = boots + 1
  /\ boot' = [boot EXCEPT ![p] = boots + 1]
  /\ holder' = p
  /\ Goto(p, "load")
  /\ UNCHANGED <<journal, loaded, replayed, mem, command, callerVars, faults>>

Load(p) ==
  /\ pc[p] = "load"
  /\ holder = p
  /\ loaded' = [loaded EXCEPT ![p] = journal]
  /\ Goto(p, "recover")
  /\ UNCHANGED <<journal, holder, boot, boots, replayed, mem, command,
                 callerVars, faults>>

AtEntry(p) == pc[p] = "recover" /\ replayed[p] < Len(loaded[p])
NextEntry(p) == loaded[p][replayed[p] + 1]

\* Mutant: the replay draws new ids.
TapeOfReplayFresh(p) == [NextEntry(p).outcome.tape EXCEPT !.boot = boot[p]]

\* The generation tape that a replay is run with.  A response that was repeated
\* has nothing on its tape but what the first one has.
TapeOfReplay(p) == NextEntry(p).outcome.tape

ReplayResult(p) ==
  Execution(mem[p], NextEntry(p).request, replayed[p] + 1, TapeOfReplay(p))

\* An entry with an outcome is run again and compared with it.
Replay(p) ==
  /\ AtEntry(p)
  /\ NextEntry(p).outcome # Open
  /\ LET x == ReplayResult(p)
     IN  /\ x = NextEntry(p).outcome
         /\ mem' = [mem EXCEPT ![p] = After(@, x)]
  /\ replayed' = [replayed EXCEPT ![p] = replayed[p] + 1]
  /\ UNCHANGED <<journal, holder, pc, boot, boots, loaded, command,
                 callerVars, faults>>

\* JOURNAL_REPLAY_DRIFT: the start fails.
Drifts(p) ==
  /\ AtEntry(p)
  /\ NextEntry(p).outcome # Open
  /\ ReplayResult(p) # NextEntry(p).outcome

\* What a live command draws: ids of this start, and a time.
LiveTapes(p, r) == [boot : {boot[p]}, time : Readings[r]]

\* An intent without an outcome is run live, and its outcome is appended.
Reexecute(p) ==
  /\ AtEntry(p)
  /\ NextEntry(p).outcome = Open
  /\ \E t \in LiveTapes(p, NextEntry(p).request) :
     LET i == replayed[p] + 1
         r == NextEntry(p).request
         x == Execution(mem[p], r, i, t)
     IN  /\ mem' = [mem EXCEPT ![p] = After(@, x)]
         /\ command' = [command EXCEPT
                          ![p] = [request |-> r, intent |-> i, result |-> x]]
  /\ Goto(p, "reappend")
  /\ UNCHANGED <<journal, holder, boot, boots, loaded, replayed, callerVars,
                 faults>>

Ready(p) ==
  /\ pc[p] = "recover"
  /\ replayed[p] = Len(loaded[p])
  /\ Goto(p, "ready")
  /\ UNCHANGED <<journal, holder, boot, boots, loaded, replayed, mem, command,
                 callerVars, faults>>
-----------------------------------------------------------------------------
(* Commands: #mutate, one at a time for each process.                      *)

WasDone(r) == \E x \in answers[r] : x.kind = "succeeded"

\* A caller sends a request until it has succeeded, also after a refusal; one
\* that uses a lease has got it before.
Send(r) ==
  /\ r \notin sent
  /\ ~WasDone(r)
  /\ NeedsToken[r] # NoRequest => WasDone(NeedsToken[r])
  /\ sends < MaxSends
  /\ Cardinality(sent) < MaxWaiting
  /\ sends' = sends + 1
  /\ sent' = sent \cup {r}
  /\ UNCHANGED <<journal, holder, processVars, answers, faults>>

\* The lease token of an effect is derived from its intent.  A process knows
\* the tokens that it has drawn; sealCommandArguments refuses any other
\* before anything is written.
KnowsToken(p, r) ==
  NeedsToken[r] # NoRequest =>
    \E e \in mem[p], x \in answers[NeedsToken[r]] :
      e.kind = "succeeded" /\ x.kind = "succeeded" /\ e.intent = x.intent

\* A process takes up a request, or a repetition of one that comes late.
Mutate(p, r) ==
  /\ pc[p] = "ready"
  /\ KnowsToken(p, r)
  /\ \/ r \in sent /\ UNCHANGED faults
     \/ r \notin sent /\ answers[r] # {} /\ Fault
  /\ command' = [command EXCEPT
                   ![p] = [request |-> r, intent |-> 0, result |-> Open]]
  /\ Goto(p, "intent")
  /\ UNCHANGED <<journal, holder, boot, boots, loaded, replayed, mem,
                 callerVars>>

\* An insert goes through the one session of the process.
CanAppend(p) == holder = p

AppendIntent(p) ==
  /\ pc[p] = "intent"
  /\ CanAppend(p)
  /\ journal' = Append(journal,
                       [request |-> command[p].request, outcome |-> Open])
  /\ command' = [command EXCEPT ![p].intent = Len(journal) + 1]
  /\ Goto(p, "execute")
  /\ UNCHANGED <<holder, boot, boots, loaded, replayed, mem, callerVars,
                 faults>>

Execute(p) ==
  /\ pc[p] = "execute"
  /\ \E t \in LiveTapes(p, command[p].request) :
     LET x == Execution(mem[p], command[p].request, command[p].intent, t)
     IN  /\ mem' = [mem EXCEPT ![p] = After(@, x)]
         /\ command' = [command EXCEPT ![p].result = x]
  /\ Goto(p, "outcome")
  /\ UNCHANGED <<journal, holder, boot, boots, loaded, replayed, callerVars,
                 faults>>

Closed(p) ==
  journal' = [journal EXCEPT ![command[p].intent] =
                [request |-> journal[command[p].intent].request,
                 outcome |-> command[p].result]]

\* The outcome of a live command; the caller is answered when it is durable.
AppendOutcome(p) ==
  /\ pc[p] = "outcome"
  /\ CanAppend(p)
  /\ Closed(p)
  /\ Goto(p, "return")
  /\ UNCHANGED <<holder, boot, boots, loaded, replayed, mem, command,
                 callerVars, faults>>

\* The outcome of an intent that recovery found without one.
AppendRecovered(p) ==
  /\ pc[p] = "reappend"
  /\ CanAppend(p)
  /\ Closed(p)
  /\ replayed' = [replayed EXCEPT ![p] = replayed[p] + 1]
  /\ command' = [command EXCEPT ![p] = Idle]
  /\ Goto(p, "recover")
  /\ UNCHANGED <<holder, boot, boots, loaded, mem, callerVars, faults>>

\* Mutant: the answer goes out while the outcome is being written.
MayReturnEarly(p) == pc[p] \in {"outcome", "return"}

MayReturn(p) == pc[p] = "return"

Return(p) ==
  /\ MayReturn(p)
  /\ answers' = [answers EXCEPT
                   ![command[p].request] = @ \cup {command[p].result}]
  /\ sent' = sent \ {command[p].request}
  /\ command' = [command EXCEPT ![p] = Idle]
  /\ Goto(p, "ready")
  /\ UNCHANGED <<journal, holder, boot, boots, loaded, replayed, mem, sends,
                 faults>>
-----------------------------------------------------------------------------
(* Faults.                                                                 *)

\* The answer of the service is lost on its way: the caller asks again.
AnswerLost(p) ==
  /\ MayReturn(p)
  /\ Fault
  /\ command' = [command EXCEPT ![p] = Idle]
  /\ Goto(p, "ready")
  /\ UNCHANGED <<journal, holder, boot, boots, loaded, replayed, mem,
                 callerVars>>

Unready(p) ==
  /\ Goto(p, "unready")
  /\ command' = [command EXCEPT ![p] = Idle]
  /\ UNCHANGED <<boot, boots, loaded, replayed, mem>>

\* Mutant: a command whose outcome could not be written fails alone.
StaysReady(p) ==
  /\ Goto(p, "ready")
  /\ command' = [command EXCEPT ![p] = Idle]
  /\ UNCHANGED <<boot, boots, loaded, replayed, mem>>

\* What a failed insert or command makes of a process that serves commands.
GivesUp(p) == Unready(p)

\* An insert fails and leaves nothing behind: always when the session is gone,
\* and now and then by itself.  The process serves no command any more and
\* keeps its session.
InsertFails(p) ==
  /\ pc[p] \in {"intent", "outcome"}
  /\ \/ holder # p /\ UNCHANGED faults
     \/ holder = p /\ Fault
  /\ GivesUp(p)
  /\ UNCHANGED <<journal, holder, callerVars>>

\* An insert committed and the session broke before its answer.
InsertUnheard(p) ==
  /\ pc[p] \in {"execute", "return"}
  /\ holder = p
  /\ Fault
  /\ GivesUp(p)
  /\ holder' = NoProcess
  /\ UNCHANGED <<journal, callerVars>>

\* A command throws what is no error of the domain.  Its intent stays open: the
\* process serves no command any more, and a start that meets it again fails.
\* What it left in memory nobody reads.
ExecutionThrows(p) ==
  /\ \/ pc[p] = "execute" /\ GivesUp(p) /\ UNCHANGED holder
     \/ AtEntry(p) /\ Down(p)
  /\ Fault
  /\ UNCHANGED <<journal, callerVars>>

\* The session breaks; the process learns it from its next insert.
SessionLost(p) ==
  /\ holder = p
  /\ Fault
  /\ holder' = NoProcess
  /\ UNCHANGED <<journal, processVars, callerVars>>

\* A start fails: its journal drifts, or its session is gone.
StartFails(p) ==
  /\ \/ Drifts(p)
     \/ pc[p] \in {"load", "reappend"} /\ holder # p
  /\ Down(p)
  /\ UNCHANGED <<journal, callerVars, faults>>

\* The process dies at any point.
Crash(p) ==
  /\ pc[p] # "down"
  /\ Fault
  /\ Down(p)
  /\ UNCHANGED <<journal, callerVars>>

\* close, after the commands before it: of a process that serves no command
\* any more it is the way back, and nothing in the repository makes anybody go
\* it; of one that serves it is a restart.
Close(p) ==
  /\ \/ pc[p] = "unready" /\ UNCHANGED faults
     \/ pc[p] = "ready" /\ Fault
  /\ Down(p)
  /\ UNCHANGED <<journal, callerVars>>
-----------------------------------------------------------------------------
Start(p) ==
  AcquireWriter(p) \/ Load(p) \/ Replay(p) \/ Reexecute(p)
  \/ AppendRecovered(p) \/ Ready(p) \/ StartFails(p)
Serve(p) ==
  AppendIntent(p) \/ Execute(p) \/ AppendOutcome(p) \/ Return(p)
  \/ InsertFails(p)
Break(p) ==
  AnswerLost(p) \/ InsertUnheard(p) \/ ExecutionThrows(p) \/ SessionLost(p)
  \/ Crash(p)

Next ==
  \/ \E r \in Request : Send(r)
  \/ \E p \in Process, r \in Request : Mutate(p, r)
  \/ \E p \in Process : Start(p) \/ Serve(p) \/ Break(p) \/ Close(p)

Spec == Init /\ [][Next]_vars

\* A running process goes on, one that is down is started again (compose
\* restarts what ends), and a request that a process may take up is taken up.
\* Nothing says that an unready process is closed, or that a fault does not
\* happen: the second is bounded by MaxFaults.
Fairness ==
  /\ \A p \in Process : WF_vars(Start(p) \/ Serve(p))
  /\ \A r \in Request : WF_vars(r \in sent /\ \E p \in Process : Mutate(p, r))
FairSpec == Spec /\ Fairness
-----------------------------------------------------------------------------
TypeOK ==
  /\ journal \in Seq(Entry)
  /\ holder \in Process \cup {NoProcess}
  /\ pc \in [Process -> {"down", "load", "recover", "reappend", "ready",
                         "intent", "execute", "outcome", "return",
                         "unready"}]
  /\ boots \in Nat
  /\ boot \in [Process -> Nat]
  /\ loaded \in [Process -> Seq(Entry)]
  /\ replayed \in [Process -> Nat]
  /\ mem \in [Process -> SUBSET Effect]
  /\ command \in [Process -> [request : Request \cup {NoRequest},
                              intent : Nat, result : Outcome]]
  /\ sends \in Nat
  /\ sent \subseteq Request
  /\ answers \in [Request -> SUBSET Result]
  /\ faults \in Nat

\* The memory of the writer is the journal: while the lock is held by a ready
\* process no intent is open and its memory holds the recorded effects and no
\* other, whatever crashed or failed before it started.
WriterIsCurrent ==
  \A p \in Process :
    holder = p /\ pc[p] = "ready"
      => /\ \A i \in 1 .. Len(journal) : journal[i].outcome # Open
         /\ mem[p] = Recorded(journal, Len(journal))

\* The journal never drifts: every start can replay what any earlier process
\* recorded, including the outcomes of intents that a crash left open and
\* that were run again with other ids and times.
RecoveryAgrees == \A p \in Process : ~Drifts(p)

\* What a caller was told stays so.  Every answer is on record as an outcome of
\* its request; callers of a request that are told of a success are all told of
\* the same, and whoever was refused was so by an earlier intent; and the ready
\* writer has what any answer says was done, the lease of a claim or the half of
\* a command that broke.
AnswersStand ==
  \A r \in Request : \A x \in answers[r] :
    /\ \E i \in 1 .. Len(journal) :
         /\ journal[i].request = r
         /\ journal[i].outcome = x
    /\ \A y \in answers[r] :
         x.kind = "succeeded" =>
           \/ y = x
           \/ y.kind # "succeeded" /\ y.intent < x.intent
    /\ \A p \in Process :
         holder = p /\ pc[p] = "ready" /\ x.kind # "rejected" => x \in mem[p]

\* Queries are answered from memory, between two commands, by every process that
\* is ready, also by one that has lost its session and does not know it while
\* another is the writer.  What they see was on record and complete at some
\* time: the effects of a first part of the journal, and none that was tried
\* and lost, or done again with other ids.
QueriesSeeRecord ==
  \A p \in Process : pc[p] = "ready" =>
    \E n \in 0 .. Len(journal) :
      /\ \A i \in 1 .. n : journal[i].outcome # Open
      /\ mem[p] = Recorded(journal, n)

\* The decisions are the outcomes on record, a repeated one counted once.
Log == INSTANCE CommandLog WITH log <- Outcomes(journal, Len(journal))

\* Through crashes, broken sessions, repeated requests and restarts the service
\* is a log of commands that succeed at most once each, that are judged in one
\* order, also when they were refused before, and answered as they were judged.
ImplementsCommandLog == Log!Spec

\* Whether some process is the writer, or can become it without being closed.
WriterPossible ==
  \E p \in Process :
    IF holder = NoProcess THEN pc[p] = "down"
    ELSE holder = p /\ pc[p] # "unready"

\* Every request is answered in the end, when faults do, unless from some time on
\* the lock is with a process that serves no command and that nobody closes, or
\* there are only such processes left.
SentIsAnswered ==
  []<>WriterPossible => \A r \in Request : (r \in sent ~> r \notin sent)
=============================================================================
