--------------------------- MODULE Journal_proofs ---------------------------
(***************************************************************************)
(* Proofs about the command journal.                                       *)
(*                                                                         *)
(* The invariant has three parts.  Sound speaks of the journal alone: that *)
(* each outcome came from some intent and can be replayed.  Local speaks   *)
(* of a process, whether or not it still has its session: a replay that    *)
(* lost the lock goes on with an older journal and must still not drift.   *)
(* Writer says what the holder of the lock has beyond that.  The first     *)
(* group of lemmas follows a journal, as a value, through the two ways in  *)
(* which it grows.                                                         *)
(***************************************************************************)
EXTENDS Journal, TLAPS

IsClosed(entries, i) == entries[i].outcome # Open
AllClosed(entries) == \A i \in 1 .. Len(entries) : IsClosed(entries, i)

\* An outcome is of the request of its entry, and came first from an intent that
\* has it on record: from its own, unless it repeats a success.
Origin(entries) ==
  \A i \in 1 .. Len(entries) :
    IsClosed(entries, i) =>
      LET x == entries[i].outcome
      IN  /\ x.request = entries[i].request
          /\ x.intent \in 1 .. i
          /\ entries[x.intent].outcome = x
          /\ x.kind # "succeeded" => x.intent = i

\* Every outcome is what its command gives after the outcomes before it.
Replayable(entries) ==
  \A i \in 1 .. Len(entries) :
    IsClosed(entries, i)
      => entries[i].outcome
           = Execution(Recorded(entries, i - 1), entries[i].request, i,
                       entries[i].outcome.tape)

OnlyLastOpen(entries) ==
  \A i \in 1 .. Len(entries) : ~IsClosed(entries, i) => i = Len(entries)

Sound(entries) ==
  /\ entries \in Seq(Entry)
  /\ Origin(entries)
  /\ Replayable(entries)
  /\ OnlyLastOpen(entries)

\* The entries that a starting process has still to replay.
CatchesUp(p) ==
  /\ replayed[p] <= Len(loaded[p])
  /\ Len(loaded[p]) <= Len(journal)
  /\ \A i \in 1 .. replayed[p] : IsClosed(journal, i)
  /\ mem[p] = Recorded(journal, replayed[p])
  /\ \A i \in replayed[p] + 1 .. Len(loaded[p]) :
       IsClosed(loaded[p], i) => loaded[p][i] = journal[i]

HasReturned(p) ==
  /\ command[p].intent \in 1 .. Len(journal)
  /\ IsClosed(journal, command[p].intent)
  /\ journal[command[p].intent].request = command[p].request
  /\ journal[command[p].intent].outcome = command[p].result

Local(p) ==
  /\ pc[p] \in {"down", "load"} => mem[p] = {} /\ replayed[p] = 0
  /\ pc[p] \in {"intent", "execute", "outcome", "return", "reappend"}
       => command[p].request \in Request
  /\ pc[p] = "recover" => CatchesUp(p)
  /\ pc[p] = "return" => HasReturned(p)

AtLast(p) ==
  /\ command[p].intent = Len(journal)
  /\ Len(journal) > 0
  /\ ~IsClosed(journal, Len(journal))
  /\ journal[Len(journal)].request = command[p].request

Executed(p) ==
  /\ AtLast(p)
  /\ command[p].result \in Result
  /\ command[p].result
       = Execution(Recorded(journal, Len(journal)), command[p].request,
                   Len(journal), command[p].result.tape)
  /\ mem[p] = After(Recorded(journal, Len(journal)), command[p].result)

Writer(p) ==
  /\ pc[p] # "down"
  /\ pc[p] \in {"ready", "intent", "return"}
       => AllClosed(journal) /\ mem[p] = Recorded(journal, Len(journal))
  /\ pc[p] = "execute" => AtLast(p) /\ mem[p] = Recorded(journal, Len(journal))
  /\ pc[p] \in {"outcome", "reappend"} => Executed(p)
  /\ pc[p] \in {"recover", "reappend"} =>
       /\ Len(loaded[p]) = Len(journal)
       /\ \A i \in replayed[p] + 1 .. Len(loaded[p]) : loaded[p][i] = journal[i]
  /\ pc[p] = "reappend" => replayed[p] + 1 = Len(journal)

AnswersRecorded ==
  \A r \in Request : \A x \in answers[r] :
    \E i \in 1 .. Len(journal) :
      /\ journal[i].request = r
      /\ IsClosed(journal, i)
      /\ journal[i].outcome = x

Inv ==
  /\ TypeOK
  /\ Sound(journal)
  /\ \A p \in Process : Local(p)
  /\ \A p \in Process : holder = p => Writer(p)
  /\ AnswersRecorded
-----------------------------------------------------------------------------
(* Results and journals as values.                                         *)

\* The two kinds of result: what succeeded before under the same key, or the
\* judgement of this run.
LEMMA ExecutionCases ==
  ASSUME NEW m, NEW r, NEW i, NEW t, NEW x, x = Execution(m, r, i, t)
  PROVE  \/ /\ Succeeded(m, r) # {}
            /\ x \in m
            /\ x.request = r
            /\ x.kind = "succeeded"
         \/ /\ Succeeded(m, r) = {}
            /\ x = [request |-> r, intent |-> i, tape |-> t,
                    kind |-> Judgement(m, r, t.time)]
<1>1. CASE Succeeded(m, r) # {}
  <2>1. x = CHOOSE e \in Succeeded(m, r) : TRUE
    BY <1>1 DEF Execution
  <2>2. x \in Succeeded(m, r)
    BY <1>1, <2>1
  <2> QED BY <1>1, <2>2 DEF Succeeded
<1>2. CASE Succeeded(m, r) = {}
  BY <1>2 DEF Execution
<1> QED BY <1>1, <1>2

LEMMA ExecutionType ==
  ASSUME NEW m \in SUBSET Effect, NEW r \in Request, NEW i \in Nat,
         NEW t \in Tape
  PROVE  Execution(m, r, i, t) \in Result
<1> DEFINE x == Execution(m, r, i, t)
<1>1. Judgement(m, r, t.time) \in Kind
  BY DEF Judgement, Kind
<1>2. x = Execution(m, r, i, t)
  OBVIOUS
<1> HIDE DEF x
<1>3. x \in m \/ x = [request |-> r, intent |-> i, tape |-> t,
                      kind |-> Judgement(m, r, t.time)]
  BY <1>2, ExecutionCases
<1> QED BY <1>1, <1>2, <1>3 DEF Result, Effect

\* A result names its tape: run with it, the command has this result again.
LEMMA ExecutionTape ==
  ASSUME NEW m, NEW r, NEW i, NEW t, NEW x, x = Execution(m, r, i, t)
  PROVE  x = Execution(m, r, i, x.tape)
<1>1. CASE Succeeded(m, r) # {}
  BY <1>1 DEF Execution
<1>2. CASE Succeeded(m, r) = {}
  <2>1. x.tape = t
    BY <1>2, ExecutionCases
  <2> QED BY <2>1
<1> QED BY <1>1, <1>2

\* What a live command draws is a tape.
LEMMA LiveTapesType ==
  ASSUME TypeOK, NEW p \in Process, NEW r \in Request
  PROVE  LiveTapes(p, r) \subseteq Tape
BY DEF TypeOK, LiveTapes, Tape

\* The outcomes of closed entries are results, and among them are the effects
\* that are recorded.
LEMMA RecordedType ==
  ASSUME NEW entries \in Seq(Entry), NEW n \in Nat, n <= Len(entries)
  PROVE  /\ Outcomes(entries, n) \subseteq Result
         /\ Recorded(entries, n) \in SUBSET Effect
         /\ \A x \in Outcomes(entries, n) :
              \E i \in 1 .. n : IsClosed(entries, i) /\ entries[i].outcome = x
         /\ \A i \in 1 .. n :
              IsClosed(entries, i) => entries[i].outcome \in Outcomes(entries, n)
<1>1. ASSUME NEW i \in 1 .. n, entries[i].outcome # Open
      PROVE  entries[i].outcome \in Result
  <2>1. entries[i] \in Entry
    OBVIOUS
  <2> QED BY <2>1, <1>1 DEF Entry, Outcome
<1>2. Outcomes(entries, n) \subseteq Result
  BY <1>1 DEF Outcomes
<1> QED BY <1>2 DEF Outcomes, Recorded, IsClosed, Effect

\* An appended intent leaves every earlier entry and what is recorded.
WithIntent(entries, r) == Append(entries, [request |-> r, outcome |-> Open])

Appends(next, entries, r) ==
  /\ next \in Seq(Entry)
  /\ Len(entries) \in Nat
  /\ Len(next) = Len(entries) + 1
  /\ \A i \in 1 .. Len(entries) : next[i] = entries[i]
  /\ next[Len(next)].request = r
  /\ ~IsClosed(next, Len(next))
  /\ \A n \in 0 .. Len(entries) : Recorded(next, n) = Recorded(entries, n)
  /\ Outcomes(next, Len(next)) = Outcomes(entries, Len(entries))
  /\ Recorded(next, Len(next)) = Recorded(entries, Len(entries))

LEMMA AppendedIntent ==
  ASSUME NEW entries, Sound(entries), AllClosed(entries), NEW r \in Request,
         NEW next, next = WithIntent(entries, r)
  PROVE  Sound(next) /\ Appends(next, entries, r)
<1>1. entries \in Seq(Entry)
  BY DEF Sound
<1>2. [request |-> r, outcome |-> Open] \in Entry
  BY DEF Entry, Outcome
<1>3. /\ next \in Seq(Entry)
      /\ Len(next) = Len(entries) + 1
      /\ Len(entries) \in Nat
      /\ \A i \in 1 .. Len(entries) : next[i] = entries[i]
      /\ next[Len(next)] = [request |-> r, outcome |-> Open]
  BY <1>1, <1>2 DEF WithIntent
<1>4. ~IsClosed(next, Len(next))
  BY <1>3 DEF IsClosed
<1>5. \A i \in 1 .. Len(entries) : IsClosed(next, i) <=> IsClosed(entries, i)
  BY <1>3 DEF IsClosed
<1>6. \A n \in 0 .. Len(entries) : Outcomes(next, n) = Outcomes(entries, n)
  BY <1>3 DEF Outcomes
<1>7. Outcomes(next, Len(next)) = Outcomes(entries, Len(entries))
  BY <1>3, <1>4 DEF Outcomes, IsClosed
<1>8. /\ \A n \in 0 .. Len(entries) : Recorded(next, n) = Recorded(entries, n)
      /\ Recorded(next, Len(next)) = Recorded(entries, Len(entries))
  BY <1>6, <1>7 DEF Recorded
<1>9. Origin(next)
  <2> SUFFICES ASSUME NEW i \in 1 .. Len(next), IsClosed(next, i)
               PROVE  LET x == next[i].outcome
                      IN  /\ x.request = next[i].request
                          /\ x.intent \in 1 .. i
                          /\ next[x.intent].outcome = x
                          /\ x.kind # "succeeded" => x.intent = i
    BY DEF Origin
  <2>1. i \in 1 .. Len(entries) /\ IsClosed(entries, i) /\ next[i] = entries[i]
    BY <1>3, <1>4, <1>5
  <2> DEFINE x == entries[i].outcome
  <2>2. /\ x.request = entries[i].request
        /\ x.intent \in 1 .. i
        /\ entries[x.intent].outcome = x
        /\ x.kind # "succeeded" => x.intent = i
    BY <2>1 DEF Sound, Origin
  <2>3. next[x.intent] = entries[x.intent]
    BY <1>3, <2>1, <2>2
  <2> QED BY <2>1, <2>2, <2>3
<1>10. Replayable(next)
  BY <1>3, <1>4, <1>5, <1>8 DEF Sound, Replayable
<1>11. OnlyLastOpen(next)
  BY <1>3, <1>4, <1>5 DEF OnlyLastOpen, AllClosed
<1> QED
  BY <1>3, <1>4, <1>7, <1>8, <1>9, <1>10, <1>11 DEF Sound, Appends

\* The last intent of some entries is open, and gets an outcome.
OpenLast(entries, last) ==
  /\ last \in Nat \ {0}
  /\ last = Len(entries)
  /\ ~IsClosed(entries, last)

ClosedWith(entries, last, x) ==
  [entries EXCEPT ![last] = [request |-> entries[last].request, outcome |-> x]]

\* How the entries, the outcomes and the recorded effects change.
Closes(next, entries, last, x) ==
  /\ next \in Seq(Entry)
  /\ Len(next) = last
  /\ \A i \in 1 .. last - 1 : next[i] = entries[i]
  /\ next[last].request = entries[last].request
  /\ next[last].outcome = x
  /\ AllClosed(next)
  /\ \A n \in 0 .. last - 1 : Recorded(next, n) = Recorded(entries, n)
  /\ Outcomes(next, last) = Outcomes(entries, last) \cup {x}
  /\ Recorded(next, last) = After(Recorded(entries, last), x)
  /\ Recorded(entries, last) = Recorded(entries, last - 1)

LEMMA ClosedEntries ==
  ASSUME NEW entries, Sound(entries), NEW last, OpenLast(entries, last),
         NEW x \in Result, NEW next, next = ClosedWith(entries, last, x)
  PROVE  Closes(next, entries, last, x)
<1> DEFINE e == [request |-> entries[last].request, outcome |-> x]
<1>0. /\ entries \in Seq(Entry)
      /\ OnlyLastOpen(entries)
      /\ last \in Nat \ {0}
      /\ last = Len(entries)
      /\ ~IsClosed(entries, last)
  BY DEF Sound, OpenLast
<1> USE <1>0
<1>1. entries[last] \in Entry
  OBVIOUS
<1>2. e \in Entry
  BY <1>1 DEF Entry, Outcome
<1>3. /\ next[last] = e
      /\ Len(next) = last
      /\ \A i \in 1 .. last - 1 : next[i] = entries[i]
      /\ next \in Seq(Entry)
  BY <1>2 DEF ClosedWith
<1>4. x # Open
  BY JournalAssumption
<1>5. next[last].request = entries[last].request /\ next[last].outcome = x
  BY <1>3
<1> HIDE DEF e
<1>6. \A i \in 1 .. last - 1 : entries[i].outcome # Open
  BY DEF OnlyLastOpen, IsClosed
<1>7. AllClosed(next)
  BY <1>3, <1>4, <1>5, <1>6 DEF AllClosed, IsClosed
<1>8. ASSUME NEW n \in 0 .. last - 1
      PROVE  Outcomes(next, n) = Outcomes(entries, n)
  <2>1. \A j \in 1 .. n : next[j] = entries[j]
    BY <1>3
  <2> QED BY <2>1 DEF Outcomes
<1>9. Outcomes(entries, last) = Outcomes(entries, last - 1)
  BY DEF Outcomes, IsClosed
<1>10. Outcomes(next, last) = Outcomes(next, last - 1) \cup {x}
  BY <1>3, <1>4, <1>5 DEF Outcomes
<1>11. Outcomes(next, last - 1) = Outcomes(entries, last)
  <2>1. last - 1 \in 0 .. last - 1
    OBVIOUS
  <2> QED BY <1>8, <1>9, <2>1
<1>12. Recorded(next, last) = After(Recorded(entries, last), x)
  BY <1>10, <1>11 DEF After, Recorded
<1>13. /\ \A n \in 0 .. last - 1 : Recorded(next, n) = Recorded(entries, n)
       /\ Recorded(entries, last) = Recorded(entries, last - 1)
  BY <1>8, <1>9 DEF Recorded
<1> QED BY <1>3, <1>5, <1>7, <1>10, <1>11, <1>12, <1>13 DEF Closes

\* A journal whose last intent gets the result of running it stays sound.
LEMMA ClosedSound ==
  ASSUME NEW entries, Sound(entries), NEW last, OpenLast(entries, last),
         NEW r \in Request, r = entries[last].request,
         NEW m, m = Recorded(entries, last), NEW x \in Result,
         x = Execution(m, r, last, x.tape), NEW next,
         Closes(next, entries, last, x)
  PROVE  Sound(next)
<1>0. /\ entries \in Seq(Entry)
      /\ last \in Nat \ {0}
      /\ last = Len(entries)
      /\ ~IsClosed(entries, last)
      /\ next \in Seq(Entry)
      /\ Len(next) = last
      /\ \A i \in 1 .. last - 1 : next[i] = entries[i]
      /\ next[last].request = r
      /\ next[last].outcome = x
      /\ AllClosed(next)
      /\ \A n \in 0 .. last - 1 : Recorded(next, n) = Recorded(entries, n)
      /\ m = Recorded(entries, last - 1)
  BY DEF Sound, OpenLast, Closes
<1> USE <1>0
<1>1. \A i \in 1 .. last - 1 : IsClosed(next, i) /\ IsClosed(entries, i)
  BY DEF Sound, OnlyLastOpen, AllClosed
<1>2. Origin(next)
  <2> SUFFICES ASSUME NEW i \in 1 .. last
               PROVE  LET y == next[i].outcome
                      IN  /\ y.request = next[i].request
                          /\ y.intent \in 1 .. i
                          /\ next[y.intent].outcome = y
                          /\ y.kind # "succeeded" => y.intent = i
    BY DEF Origin
  <2>1. ASSUME NEW j \in 1 .. last - 1, NEW y, y = entries[j].outcome
        PROVE  /\ y.request = entries[j].request
               /\ y.intent \in 1 .. j
               /\ next[y.intent].outcome = y
               /\ y.kind # "succeeded" => y.intent = j
    <3>1. /\ y.request = entries[j].request
          /\ y.intent \in 1 .. j
          /\ entries[y.intent].outcome = y
          /\ y.kind # "succeeded" => y.intent = j
      BY <1>1, <2>1 DEF Sound, Origin
    <3>2. next[y.intent] = entries[y.intent]
      BY <3>1
    <3> QED BY <3>1, <3>2
  <2>2. CASE i # last
    <3>1. i \in 1 .. last - 1 /\ next[i] = entries[i]
      BY <2>2
    <3> QED BY <2>1, <3>1
  <2>3. CASE i = last /\ x \in m /\ x.request = r /\ x.kind = "succeeded"
    <3>1. last - 1 \in Nat /\ last - 1 <= Len(entries)
      OBVIOUS
    <3>2. x \in Outcomes(entries, last - 1)
      BY <2>3 DEF Recorded
    <3>3. PICK j \in 1 .. last - 1 : entries[j].outcome = x
      BY <3>1, <3>2, RecordedType
    <3>4. x.intent \in 1 .. j /\ next[x.intent].outcome = x
      BY <2>1, <3>3
    <3>5. x.intent \in 1 .. last
      BY <3>3, <3>4
    <3> QED BY <2>3, <3>4, <3>5
  <2>4. CASE i = last /\ x.request = r /\ x.intent = last
    BY <2>4
  <2>5. \/ x \in m /\ x.request = r /\ x.kind = "succeeded"
        \/ x = [request |-> r, intent |-> last, tape |-> x.tape,
                kind |-> Judgement(m, r, x.tape.time)]
    BY ExecutionCases
  <2>6. \/ x \in m /\ x.request = r /\ x.kind = "succeeded"
        \/ x.request = r /\ x.intent = last
    BY <2>5
  <2> QED BY <2>2, <2>3, <2>4, <2>6
<1>3. Replayable(next)
  <2> SUFFICES ASSUME NEW i \in 1 .. last
               PROVE  next[i].outcome
                        = Execution(Recorded(next, i - 1), next[i].request, i,
                                    next[i].outcome.tape)
    BY DEF Replayable
  <2>1. CASE i = last
    BY <2>1
  <2>2. CASE i # last
    <3>1. i \in 1 .. last - 1 /\ i - 1 \in 0 .. last - 1
      BY <2>2
    <3> QED BY <1>1, <3>1 DEF Sound, Replayable
  <2> QED BY <2>1, <2>2
<1>4. OnlyLastOpen(next)
  BY DEF AllClosed, OnlyLastOpen
<1> QED BY <1>2, <1>3, <1>4 DEF Sound

\* Both together: the last intent gets the result of running it.
LEMMA ClosedLast ==
  ASSUME NEW entries, Sound(entries), NEW last, OpenLast(entries, last),
         NEW x \in Result,
         x = Execution(Recorded(entries, last), entries[last].request, last,
                       x.tape),
         NEW next, next = ClosedWith(entries, last, x)
  PROVE  Sound(next) /\ Closes(next, entries, last, x)
<1> DEFINE r == entries[last].request
           m == Recorded(entries, last)
<1>1. entries \in Seq(Entry) /\ last \in 1 .. Len(entries)
  BY DEF Sound, OpenLast
<1>2. r \in Request
  <2>1. entries[last] \in Entry
    BY <1>1
  <2> QED BY <2>1 DEF Entry
<1>3. Closes(next, entries, last, x)
  BY ClosedEntries
<1>4. /\ r = entries[last].request
      /\ m = Recorded(entries, last)
      /\ x = Execution(m, r, last, x.tape)
  OBVIOUS
<1> HIDE DEF r, m
<1>5. Sound(next)
  BY <1>2, <1>3, <1>4, ClosedSound
<1> QED BY <1>3, <1>5

\* A request succeeds at one intent, which all its later outcomes repeat, and
\* was refused before that only.
LEMMA SuccessOnce ==
  ASSUME NEW entries, Sound(entries),
         NEW i \in 1 .. Len(entries), IsClosed(entries, i),
         NEW j \in 1 .. Len(entries), IsClosed(entries, j),
         entries[i].request = entries[j].request,
         NEW x, x = entries[i].outcome, x.kind = "succeeded",
         NEW y, y = entries[j].outcome
  PROVE  y = x \/ (y.kind # "succeeded" /\ y.intent < x.intent)
<1>1. entries \in Seq(Entry) /\ Len(entries) \in Nat
  BY DEF Sound
<1>2. ASSUME NEW u \in 1 .. Len(entries), IsClosed(entries, u),
             NEW z, z = entries[u].outcome
      PROVE  /\ z.intent \in 1 .. Len(entries)
             /\ z.intent <= u
             /\ z.request = entries[u].request
             /\ entries[z.intent].outcome = z
             /\ IsClosed(entries, z.intent)
             /\ entries[z.intent].request = z.request
  <2>1. /\ z.intent \in 1 .. u
        /\ z.request = entries[u].request
        /\ entries[z.intent].outcome = z
    BY <1>2 DEF Sound, Origin
  <2>2. z.intent \in 1 .. Len(entries) /\ IsClosed(entries, z.intent)
    BY <1>1, <1>2, <2>1 DEF IsClosed
  <2>3. entries[z.intent].request = z.request
    BY <2>1, <2>2 DEF Sound, Origin
  <2> QED BY <1>1, <2>1, <2>2, <2>3
\* An outcome whose intent comes after a success of the request repeats one that
\* was on record before.
<1>3. ASSUME NEW u \in 1 .. Len(entries), IsClosed(entries, u),
             NEW z, z = entries[u].outcome, z.intent = u,
             NEW v \in 1 .. u - 1, IsClosed(entries, v),
             entries[v].request = entries[u].request,
             entries[v].outcome.kind = "succeeded"
      PROVE  FALSE
  <2> DEFINE r == entries[u].request
             m == Recorded(entries, u - 1)
             w == entries[v].outcome
  <2>1. u - 1 \in Nat /\ u - 1 <= Len(entries) /\ v \in 1 .. Len(entries)
    BY <1>1
  <2>2. w \in Outcomes(entries, u - 1)
    BY <1>1, <1>3, <2>1, RecordedType
  <2>3. w \in m /\ w.request = r /\ w.kind = "succeeded"
    BY <1>2, <1>3, <2>1, <2>2 DEF Recorded
  <2>4. z = Execution(m, r, u, z.tape)
    BY <1>3 DEF Sound, Replayable
  <2> HIDE DEF m, r, w
  <2>5. w \in Succeeded(m, r)
    BY <2>3 DEF Succeeded
  <2>6. z \in m
    BY <2>4, <2>5, ExecutionCases
  <2>7. PICK k \in 1 .. u - 1 : IsClosed(entries, k) /\ entries[k].outcome = z
    BY <1>1, <2>1, <2>6, RecordedType DEF Recorded, m
  <2>8. z.intent <= k
    BY <1>1, <1>2, <2>1, <2>7
  <2> QED BY <1>3, <2>7, <2>8
<1>4. /\ x.intent \in 1 .. Len(entries)
      /\ entries[x.intent].outcome = x
      /\ IsClosed(entries, x.intent)
      /\ x.request = entries[i].request
      /\ entries[x.intent].request = x.request
  BY <1>2
<1>5. /\ y.intent \in 1 .. Len(entries)
      /\ entries[y.intent].outcome = y
      /\ IsClosed(entries, y.intent)
      /\ y.request = entries[j].request
      /\ entries[y.intent].request = y.request
  BY <1>2
<1>6. ~(x.intent < y.intent)
  <2> SUFFICES ASSUME x.intent < y.intent PROVE FALSE
    OBVIOUS
  <2>1. x.intent \in 1 .. y.intent - 1
    BY <1>4, <1>5
  <2> QED BY <1>3, <1>4, <1>5, <2>1
<1>7. y.kind = "succeeded" => ~(y.intent < x.intent)
  <2> SUFFICES ASSUME y.kind = "succeeded", y.intent < x.intent PROVE FALSE
    OBVIOUS
  <2> DEFINE u == x.intent
             v == y.intent
  <2>1. /\ u \in 1 .. Len(entries)
        /\ v \in 1 .. u - 1
        /\ entries[u].outcome = x
        /\ entries[v].outcome = y
        /\ entries[v].outcome.kind = "succeeded"
    BY <1>4, <1>5
  <2>2. entries[v].request = entries[u].request
    BY <1>4, <1>5
  <2>3. IsClosed(entries, u) /\ IsClosed(entries, v) /\ x.intent = u
    BY <1>4, <1>5
  <2> HIDE DEF u, v
  <2> QED BY <1>3, <2>1, <2>2, <2>3
<1>8. x.intent = y.intent => x = y
  BY <1>4, <1>5
<1>9. x.intent \in Nat /\ y.intent \in Nat
  BY <1>1, <1>4, <1>5
<1>10. x.intent = y.intent \/ y.intent < x.intent
  BY <1>6, <1>9
<1> QED BY <1>7, <1>8, <1>10

\* What is recorded up to an entry, from what is recorded before it.
LEMMA RecordedNext ==
  ASSUME NEW entries \in Seq(Entry), NEW n \in Nat, n < Len(entries)
  PROVE  /\ IsClosed(entries, n + 1)
              => Recorded(entries, n + 1)
                   = After(Recorded(entries, n), entries[n + 1].outcome)
         /\ ~IsClosed(entries, n + 1)
              => Recorded(entries, n + 1) = Recorded(entries, n)
<1> DEFINE Ends(k) == {j \in 1 .. k : entries[j].outcome # Open}
<1>1. /\ IsClosed(entries, n + 1) => Ends(n + 1) = Ends(n) \cup {n + 1}
      /\ ~IsClosed(entries, n + 1) => Ends(n + 1) = Ends(n)
  BY DEF IsClosed
<1>2. \A k : Outcomes(entries, k) = {entries[i].outcome : i \in Ends(k)}
  BY DEF Outcomes
<1> HIDE DEF Ends
<1>3. CASE IsClosed(entries, n + 1)
  <2>1. Outcomes(entries, n + 1)
          = Outcomes(entries, n) \cup {entries[n + 1].outcome}
    BY <1>1, <1>2, <1>3
  <2> QED BY <1>3, <2>1 DEF After, Recorded
<1>4. CASE ~IsClosed(entries, n + 1)
  BY <1>1, <1>2, <1>4 DEF Recorded
<1> QED BY <1>3, <1>4

LEMMA RecordedNothing == ASSUME NEW entries PROVE Recorded(entries, 0) = {}
BY DEF Recorded, Outcomes

\* How a journal may grow: what is closed stays as it is.
Grows(old, new) ==
  /\ Len(old) <= Len(new)
  /\ \A i \in 1 .. Len(old) : IsClosed(old, i) => new[i] = old[i]
  /\ \A n \in 0 .. Len(old) :
       (\A i \in 1 .. n : IsClosed(old, i))
         => Recorded(new, n) = Recorded(old, n)

LEMMA AppendedGrows ==
  ASSUME NEW entries, NEW r, NEW next, Appends(next, entries, r)
  PROVE  Grows(entries, next)
BY DEF Appends, Grows

LEMMA ClosedGrows ==
  ASSUME NEW entries, NEW last, OpenLast(entries, last), NEW x,
         NEW next, Closes(next, entries, last, x)
  PROVE  Grows(entries, next)
<1>1. /\ last \in Nat \ {0}
      /\ last = Len(entries)
      /\ ~IsClosed(entries, last)
      /\ Len(next) = last
      /\ \A i \in 1 .. last - 1 : next[i] = entries[i]
      /\ \A n \in 0 .. last - 1 : Recorded(next, n) = Recorded(entries, n)
  BY DEF OpenLast, Closes
<1>2. ASSUME NEW n \in 0 .. last, \A i \in 1 .. n : IsClosed(entries, i)
      PROVE  n \in 0 .. last - 1
  BY <1>1, <1>2
<1> QED BY <1>1, <1>2 DEF Grows
-----------------------------------------------------------------------------
(* Steps.                                                                  *)

\* A step that leaves process q alone.
Stays(q) ==
  /\ pc'[q] = pc[q]
  /\ boot'[q] = boot[q]
  /\ loaded'[q] = loaded[q]
  /\ replayed'[q] = replayed[q]
  /\ mem'[q] = mem[q]
  /\ command'[q] = command[q]

OthersStay(p) == \A q \in Process \ {p} : Stays(q)

LEMMA LocalStays ==
  ASSUME TypeOK, NEW q \in Process, Local(q), Stays(q), Grows(journal, journal'),
         journal' \in Seq(Entry)
  PROVE  Local(q)'
<1>1. /\ replayed[q] \in Nat
      /\ Len(loaded[q]) \in Nat
      /\ Len(journal) \in Nat
      /\ Len(journal') \in Nat
  BY DEF TypeOK
<1>2. CatchesUp(q) => CatchesUp(q)'
  <2> SUFFICES ASSUME CatchesUp(q) PROVE CatchesUp(q)'
    OBVIOUS
  <2>1. replayed[q] <= Len(journal)
    BY <1>1 DEF CatchesUp
  <2>2. \A i \in 1 .. replayed[q] :
          i \in 1 .. Len(journal) /\ journal'[i] = journal[i]
    BY <1>1, <2>1 DEF CatchesUp, Grows
  <2>3. \A i \in 1 .. replayed[q] : IsClosed(journal, i)'
    BY <2>2 DEF CatchesUp, IsClosed
  <2>4. Recorded(journal', replayed[q]) = Recorded(journal, replayed[q])
    <3>1. replayed[q] \in 0 .. Len(journal)
      BY <1>1, <2>1
    <3> QED BY <3>1 DEF CatchesUp, Grows
  <2>5. \A i \in replayed[q] + 1 .. Len(loaded[q]) :
          IsClosed(loaded[q], i) => loaded[q][i] = journal'[i]
    BY <1>1 DEF CatchesUp, Grows, IsClosed
  <2>6. Len(loaded[q]) <= Len(journal')
    BY <1>1 DEF CatchesUp, Grows
  <2> QED BY <2>3, <2>4, <2>5, <2>6 DEF CatchesUp, Stays, IsClosed
<1>3. HasReturned(q) => HasReturned(q)'
  BY <1>1 DEF HasReturned, Stays, Grows, IsClosed
<1> QED BY <1>2, <1>3 DEF Local, Stays

LEMMA AnswersStay ==
  ASSUME TypeOK, AnswersRecorded, Grows(journal, journal'), answers' = answers,
         journal' \in Seq(Entry)
  PROVE  AnswersRecorded'
<1> SUFFICES ASSUME NEW r \in Request, NEW x \in answers[r]
             PROVE  \E i \in 1 .. Len(journal') :
                      /\ journal'[i].request = r
                      /\ IsClosed(journal', i)
                      /\ journal'[i].outcome = x
  BY DEF AnswersRecorded
<1>1. PICK i \in 1 .. Len(journal) :
        /\ journal[i].request = r
        /\ IsClosed(journal, i)
        /\ journal[i].outcome = x
  BY DEF AnswersRecorded
<1>2. i \in 1 .. Len(journal') /\ journal'[i] = journal[i]
  <2>1. Len(journal) \in Nat /\ Len(journal') \in Nat
    BY DEF TypeOK
  <2> QED BY <1>1, <2>1 DEF Grows
<1> QED BY <1>1, <1>2 DEF IsClosed

LEMMA GrowsNot ==
  ASSUME TypeOK, journal' = journal
  PROVE  Grows(journal, journal') /\ journal' \in Seq(Entry)
<1>1. journal \in Seq(Entry) /\ Len(journal) \in Nat
  BY DEF TypeOK
<1> QED BY <1>1 DEF Grows

\* A step of process p that writes nothing.
LEMMA WritesNothing ==
  ASSUME Inv, NEW p \in Process, TypeOK', journal' = journal, OthersStay(p),
         Local(p)', holder' = p => Writer(p)',
         holder' \in {holder, NoProcess, p}, AnswersRecorded'
  PROVE  Inv'
<1>1. Sound(journal)'
  BY DEF Inv
<1>2. ASSUME NEW q \in Process \ {p}
      PROVE  Local(q)'
  BY GrowsNot, LocalStays DEF Inv, OthersStay
<1>3. ASSUME NEW q \in Process \ {p}, holder' = q
      PROVE  Writer(q)'
  <2>1. holder = q
    BY <1>3, JournalAssumption
  <2>2. Writer(q) /\ Stays(q)
    BY <2>1 DEF Inv, OthersStay
  <2> QED BY <2>2 DEF Writer, Stays, AllClosed, AtLast, Executed
<1> QED BY <1>1, <1>2, <1>3 DEF Inv

\* A step in which the writer p adds to the journal.
LEMMA WriterWrites ==
  ASSUME Inv, NEW p \in Process, TypeOK', Grows(journal, journal'),
         Sound(journal)', OthersStay(p), Local(p)', Writer(p)', holder' = p,
         answers' = answers
  PROVE  Inv'
<1>1. TypeOK /\ journal' \in Seq(Entry)
  BY DEF Inv, TypeOK
<1>2. ASSUME NEW q \in Process \ {p}
      PROVE  Local(q)'
  BY <1>1, LocalStays DEF Inv, OthersStay
<1>3. AnswersRecorded'
  BY <1>1, AnswersStay DEF Inv
<1>4. ASSUME NEW q \in Process, holder' = q
      PROVE  Writer(q)'
  BY <1>4
<1> QED BY <1>2, <1>3, <1>4 DEF Inv
-----------------------------------------------------------------------------
(* One lemma for each action.                                              *)

LEMMA SendInv ==
  ASSUME Inv, NEW r \in Request, Send(r)
  PROVE  Inv'
<1>1. TypeOK'
  BY DEF Inv, TypeOK, Send, processVars
<1>2. \A q \in Process : Stays(q)
  BY DEF Send, processVars, Stays
<1>3. journal' = journal /\ holder' = holder /\ answers' = answers
  BY DEF Send
<1>4. Grows(journal, journal') /\ journal' \in Seq(Entry) /\ TypeOK
  BY <1>3, GrowsNot DEF Inv
<1>5. \A q \in Process : Local(q)'
  BY <1>2, <1>4, LocalStays DEF Inv
<1>6. ASSUME NEW q \in Process, holder' = q
      PROVE  Writer(q)'
  <2>1. Writer(q) /\ Stays(q)
    BY <1>2, <1>3, <1>6 DEF Inv
  <2> QED BY <1>3, <2>1 DEF Writer, Stays, AllClosed, AtLast, Executed
<1>7. AnswersRecorded'
  BY <1>3, <1>4, AnswersStay DEF Inv
<1>8. Sound(journal)'
  BY <1>3 DEF Inv
<1> QED BY <1>1, <1>5, <1>6, <1>7, <1>8 DEF Inv

LEMMA AcquireWriterInv ==
  ASSUME Inv, NEW p \in Process, AcquireWriter(p)
  PROVE  Inv'
<1>1. TypeOK'
  BY DEF Inv, TypeOK, AcquireWriter, Goto, callerVars
<1>2. OthersStay(p)
  BY DEF Inv, TypeOK, AcquireWriter, Goto, OthersStay, Stays
<1>3. pc'[p] = "load" /\ mem'[p] = {} /\ replayed'[p] = 0
  BY DEF Inv, TypeOK, AcquireWriter, Goto, Local
<1>4. Local(p)' /\ Writer(p)'
  BY <1>3 DEF Local, Writer
<1>5. journal' = journal /\ holder' = p /\ answers' = answers
  BY DEF AcquireWriter, callerVars
<1>6. AnswersRecorded'
  BY <1>5 DEF Inv, AnswersRecorded
<1> QED BY <1>1, <1>2, <1>4, <1>5, <1>6, WritesNothing

LEMMA LoadInv ==
  ASSUME Inv, NEW p \in Process, Load(p)
  PROVE  Inv'
<1>1. TypeOK'
  BY DEF Inv, TypeOK, Load, Goto, callerVars
<1>2. OthersStay(p)
  BY DEF Inv, TypeOK, Load, Goto, OthersStay, Stays
<1>3. /\ pc'[p] = "recover"
      /\ loaded'[p] = journal
      /\ mem'[p] = {}
      /\ replayed'[p] = 0
  BY DEF Inv, TypeOK, Load, Goto, Local
<1>4. journal' = journal /\ holder' = holder /\ answers' = answers
  BY DEF Load, callerVars
<1>5. Len(journal) \in Nat
  BY DEF Inv, TypeOK
<1>6. CatchesUp(p)'
  BY <1>3, <1>4, <1>5, RecordedNothing DEF CatchesUp
<1>7. Local(p)' /\ Writer(p)'
  BY <1>3, <1>4, <1>6 DEF Local, Writer
<1>8. AnswersRecorded'
  BY <1>4 DEF Inv, AnswersRecorded
<1> QED BY <1>1, <1>2, <1>4, <1>7, <1>8, WritesNothing

\* The entry that a replay has come to.
LEMMA AtNextEntry ==
  ASSUME Inv, NEW p \in Process, AtEntry(p), NEW n, n = replayed[p]
  PROVE  /\ n \in Nat
         /\ n < Len(loaded[p])
         /\ Len(loaded[p]) \in Nat
         /\ Len(journal) \in Nat
         /\ n < Len(journal)
         /\ NextEntry(p) = loaded[p][n + 1]
         /\ NextEntry(p) \in Entry
         /\ CatchesUp(p)
         /\ mem[p] = Recorded(journal, n)
         /\ NextEntry(p).outcome # Open
              => IsClosed(journal, n + 1) /\ NextEntry(p) = journal[n + 1]
<1>1. CatchesUp(p)
  BY DEF Inv, Local, AtEntry
<1>2. /\ n \in Nat
      /\ n < Len(loaded[p])
      /\ loaded[p] \in Seq(Entry)
      /\ Len(loaded[p]) \in Nat
      /\ Len(journal) \in Nat
  BY DEF AtEntry, Inv, TypeOK
<1>3. n < Len(journal)
  BY <1>1, <1>2 DEF CatchesUp
<1>4. NextEntry(p) = loaded[p][n + 1] /\ NextEntry(p) \in Entry
  BY <1>2 DEF NextEntry
<1>5. mem[p] = Recorded(journal, n)
  BY <1>1 DEF CatchesUp
<1>6. NextEntry(p).outcome # Open
        => IsClosed(journal, n + 1) /\ NextEntry(p) = journal[n + 1]
  BY <1>1, <1>2, <1>4 DEF CatchesUp, IsClosed
<1> QED BY <1>1, <1>2, <1>3, <1>4, <1>5, <1>6

LEMMA ReplayInv ==
  ASSUME Inv, NEW p \in Process, Replay(p)
  PROVE  Inv'
<1> DEFINE n == replayed[p]
           x == ReplayResult(p)
<1>1. AtEntry(p) /\ NextEntry(p).outcome # Open
  BY DEF Replay
<1>2. /\ n \in Nat
      /\ n < Len(loaded[p])
      /\ Len(loaded[p]) \in Nat
      /\ Len(journal) \in Nat
      /\ n < Len(journal)
      /\ CatchesUp(p)
      /\ mem[p] = Recorded(journal, n)
      /\ IsClosed(journal, n + 1)
      /\ NextEntry(p) = journal[n + 1]
      /\ NextEntry(p) \in Entry
  BY <1>1, AtNextEntry
<1>3. x = journal[n + 1].outcome
  BY <1>2 DEF Replay
<1>4. /\ journal' = journal
      /\ holder' = holder
      /\ answers' = answers
      /\ pc' = pc
      /\ loaded' = loaded
      /\ boot' = boot
      /\ command' = command
      /\ mem' = [mem EXCEPT ![p] = After(mem[p], x)]
      /\ replayed' = [replayed EXCEPT ![p] = n + 1]
  BY DEF Replay, callerVars
<1>5. /\ mem \in [Process -> SUBSET Effect]
      /\ replayed \in [Process -> Nat]
      /\ journal \in Seq(Entry)
  BY DEF Inv, TypeOK
<1>6. pc[p] = "recover"
  BY <1>1 DEF AtEntry
<1>7. x \in Result
  <2>1. NextEntry(p).outcome \in Result
    BY <1>1, <1>2 DEF Entry, Outcome
  <2> QED BY <1>2, <1>3, <2>1
<1> HIDE DEF n, x
<1>8. mem'[p] = After(mem[p], x) /\ replayed'[p] = n + 1
  BY <1>4, <1>5
<1>9. After(mem[p], x) \in SUBSET Effect
  BY <1>5, <1>7 DEF After, Effect
<1>10. TypeOK'
  <2>1. mem' \in [Process -> SUBSET Effect]
    BY <1>4, <1>5, <1>9
  <2>2. replayed' \in [Process -> Nat]
    BY <1>2, <1>4, <1>5
  <2> QED BY <2>1, <2>2 DEF Inv, TypeOK, Replay, callerVars
<1>11. OthersStay(p)
  BY <1>4, <1>5 DEF OthersStay, Stays
<1>12. mem'[p] = Recorded(journal, n + 1)
  BY <1>2, <1>3, <1>5, <1>8, RecordedNext
<1>13. n = replayed[p]
  BY DEF n
<1>14. CatchesUp(p)'
  <2>1. \A i \in 1 .. n + 1 : IsClosed(journal, i)
    BY <1>2, <1>13 DEF CatchesUp
  <2>2. \A i \in (n + 1) + 1 .. Len(loaded[p]) :
          IsClosed(loaded[p], i) => loaded[p][i] = journal[i]
    BY <1>2, <1>13 DEF CatchesUp
  <2>3. n + 1 <= Len(loaded[p]) /\ Len(loaded[p]) <= Len(journal)
    BY <1>2 DEF CatchesUp
  <2> QED BY <1>4, <1>8, <1>12, <2>1, <2>2, <2>3 DEF CatchesUp, IsClosed
<1>15. Local(p)'
  BY <1>4, <1>6, <1>14 DEF Local
<1>16. ASSUME holder' = p
       PROVE  Writer(p)'
  <2>1. Writer(p)
    BY <1>4, <1>16 DEF Inv
  <2>2. /\ Len(loaded[p]) = Len(journal)
        /\ \A i \in n + 1 .. Len(loaded[p]) : loaded[p][i] = journal[i]
    BY <1>6, <1>13, <2>1 DEF Writer
  <2>3. \A i \in (n + 1) + 1 .. Len(loaded[p]) : loaded[p][i] = journal[i]
    BY <1>2, <2>2
  <2> QED BY <1>4, <1>6, <1>8, <2>2, <2>3 DEF Writer
<1>17. AnswersRecorded'
  BY <1>4 DEF Inv, AnswersRecorded
<1> QED BY <1>4, <1>10, <1>11, <1>15, <1>16, <1>17, WritesNothing

LEMMA ReadyInv ==
  ASSUME Inv, NEW p \in Process, Ready(p)
  PROVE  Inv'
<1>1. TypeOK'
  BY DEF Inv, TypeOK, Ready, Goto, callerVars
<1>2. OthersStay(p)
  BY DEF Inv, TypeOK, Ready, Goto, OthersStay, Stays
<1>3. /\ pc'[p] = "ready"
      /\ mem' = mem
      /\ journal' = journal
      /\ holder' = holder
      /\ answers' = answers
  BY DEF Inv, TypeOK, Ready, Goto, callerVars
<1>4. Local(p)'
  BY <1>3 DEF Local
<1>5. ASSUME holder' = p
      PROVE  Writer(p)'
  <2>1. Writer(p) /\ CatchesUp(p)
    BY <1>3, <1>5 DEF Inv, Local, Ready
  <2>2. replayed[p] = Len(journal)
    BY <2>1 DEF Writer, Ready
  <2>3. AllClosed(journal) /\ mem[p] = Recorded(journal, Len(journal))
    BY <2>1, <2>2 DEF CatchesUp, AllClosed
  <2> QED BY <1>3, <2>3 DEF Writer, AllClosed
<1>6. AnswersRecorded'
  BY <1>3 DEF Inv, AnswersRecorded
<1> QED BY <1>1, <1>2, <1>3, <1>4, <1>5, <1>6, WritesNothing

LEMMA MutateInv ==
  ASSUME Inv, NEW p \in Process, NEW r \in Request, Mutate(p, r)
  PROVE  Inv'
<1>1. [request |-> r, intent |-> 0, result |-> Open] \in
        [request : Request \cup {NoRequest}, intent : Nat, result : Outcome]
  BY DEF Outcome
<1>2. TypeOK'
  BY <1>1 DEF Inv, TypeOK, Mutate, Goto, callerVars, Fault
<1>3. OthersStay(p)
  BY DEF Inv, TypeOK, Mutate, Goto, OthersStay, Stays
<1>4. /\ pc[p] = "ready"
      /\ pc'[p] = "intent"
      /\ command'[p].request = r
      /\ mem' = mem
      /\ journal' = journal
      /\ holder' = holder
      /\ answers' = answers
  BY DEF Inv, TypeOK, Mutate, Goto, callerVars
<1>5. Local(p)'
  BY <1>4 DEF Local
<1>6. holder' = p => Writer(p)'
  BY <1>4 DEF Inv, Writer, AllClosed
<1>7. AnswersRecorded'
  BY <1>4 DEF Inv, AnswersRecorded
<1> QED BY <1>2, <1>3, <1>4, <1>5, <1>6, <1>7, WritesNothing

LEMMA ReexecuteInv ==
  ASSUME Inv, NEW p \in Process, Reexecute(p)
  PROVE  Inv'
<1> DEFINE n == replayed[p]
           r == NextEntry(p).request
<1>1. AtEntry(p) /\ NextEntry(p).outcome = Open
  BY DEF Reexecute
<1>2. /\ n \in Nat
      /\ n < Len(loaded[p])
      /\ Len(loaded[p]) \in Nat
      /\ Len(journal) \in Nat
      /\ n < Len(journal)
      /\ mem[p] = Recorded(journal, n)
      /\ NextEntry(p) = loaded[p][n + 1]
      /\ NextEntry(p) \in Entry
  BY <1>1, AtNextEntry
<1>3. /\ journal \in Seq(Entry)
      /\ mem \in [Process -> SUBSET Effect]
      /\ command \in [Process -> [request : Request \cup {NoRequest},
                                  intent : Nat, result : Outcome]]
      /\ pc \in [Process -> {"down", "load", "recover", "reappend", "ready",
                             "intent", "execute", "outcome", "return",
                             "unready"}]
      /\ LiveTapes(p, r) \subseteq Tape
      /\ r \in Request
  BY <1>2, LiveTapesType DEF Inv, TypeOK, Entry
<1>4. PICK t \in LiveTapes(p, r) :
        LET x == Execution(mem[p], r, n + 1, t) IN
        /\ journal' = journal
        /\ holder' = holder
        /\ answers' = answers
        /\ loaded' = loaded
        /\ boot' = boot
        /\ replayed' = replayed
        /\ pc' = [pc EXCEPT ![p] = "reappend"]
        /\ mem' = [mem EXCEPT ![p] = After(mem[p], x)]
        /\ command' = [command EXCEPT
                ![p] = [request |-> r, intent |-> n + 1, result |-> x]]
  BY DEF Reexecute, Goto, callerVars
<1> DEFINE x == Execution(mem[p], r, n + 1, t)
<1>5. pc[p] = "recover"
  BY <1>1 DEF AtEntry
<1>6. n = replayed[p] /\ r = NextEntry(p).request
  OBVIOUS
<1>7. x \in Result
  BY <1>2, <1>3, ExecutionType
<1>8. x = Execution(mem[p], r, n + 1, x.tape)
  BY ExecutionTape
<1>9. /\ mem' = [mem EXCEPT ![p] = After(mem[p], x)]
      /\ command' = [command EXCEPT
              ![p] = [request |-> r, intent |-> n + 1, result |-> x]]
  BY <1>4
<1> HIDE DEF n, r, x
<1>10. /\ pc'[p] = "reappend"
       /\ mem'[p] = After(mem[p], x)
       /\ command'[p] = [request |-> r, intent |-> n + 1, result |-> x]
  BY <1>3, <1>4, <1>9
<1>11. After(mem[p], x) \in SUBSET Effect
  BY <1>3, <1>7 DEF After, Effect
<1>12. TypeOK'
  <2>1. mem' \in [Process -> SUBSET Effect]
    BY <1>3, <1>9, <1>11
  <2>2. command' \in [Process -> [request : Request \cup {NoRequest},
                                  intent : Nat, result : Outcome]]
    BY <1>2, <1>3, <1>7, <1>9 DEF Outcome
  <2>3. pc' \in [Process -> {"down", "load", "recover", "reappend", "ready",
                             "intent", "execute", "outcome", "return",
                             "unready"}]
    BY <1>3, <1>4
  <2> QED BY <2>1, <2>2, <2>3 DEF Inv, TypeOK, Reexecute, callerVars
<1>13. OthersStay(p)
  BY <1>3, <1>4 DEF OthersStay, Stays
<1>14. Local(p)'
  BY <1>3, <1>10 DEF Local
<1>15. ASSUME holder' = p
       PROVE  Writer(p)'
  <2>1. Writer(p)
    BY <1>4, <1>15 DEF Inv
  <2>2. /\ Len(loaded[p]) = Len(journal)
        /\ \A i \in n + 1 .. Len(loaded[p]) : loaded[p][i] = journal[i]
    BY <1>5, <1>6, <2>1 DEF Writer
  <2>3. loaded[p][n + 1] = journal[n + 1] /\ ~IsClosed(journal, n + 1)
    BY <1>1, <1>2, <2>2 DEF IsClosed
  <2>4. n + 1 = Len(journal)
    BY <1>2, <2>3 DEF Inv, Sound, OnlyLastOpen
  <2>5. mem[p] = Recorded(journal, Len(journal))
    BY <1>2, <1>3, <2>3, <2>4, RecordedNext
  <2>6. Executed(p)'
    <3>1. command'[p].intent = Len(journal) /\ Len(journal) > 0
      BY <1>2, <1>10, <2>4
    <3>2. ~IsClosed(journal, Len(journal))
      BY <2>3, <2>4
    <3>3. journal[Len(journal)].request = command'[p].request
      BY <1>2, <1>6, <1>10, <2>3, <2>4
    <3>4. command'[p].result
            = Execution(Recorded(journal, Len(journal)), command'[p].request,
                        Len(journal), command'[p].result.tape)
      BY <1>8, <1>10, <2>4, <2>5
    <3>5. mem'[p] = After(Recorded(journal, Len(journal)), command'[p].result)
      BY <1>10, <2>5
    <3>6. command'[p].result \in Result
      BY <1>7, <1>10
    <3> QED
      BY <1>4, <3>1, <3>2, <3>3, <3>4, <3>5, <3>6
      DEF Executed, AtLast, IsClosed
  <2> QED BY <1>4, <1>6, <1>10, <2>2, <2>4, <2>6 DEF Writer
<1>16. AnswersRecorded'
  BY <1>4 DEF Inv, AnswersRecorded
<1> QED BY <1>4, <1>12, <1>13, <1>14, <1>15, <1>16, WritesNothing

LEMMA AppendIntentInv ==
  ASSUME Inv, NEW p \in Process, AppendIntent(p)
  PROVE  Inv'
<1> DEFINE r == command[p].request
<1>1. /\ holder = p
      /\ pc[p] = "intent"
      /\ holder' = holder
      /\ answers' = answers
      /\ boot' = boot
      /\ mem' = mem
      /\ loaded' = loaded
      /\ replayed' = replayed
  BY DEF AppendIntent, CanAppend, callerVars
<1>2. r \in Request /\ AllClosed(journal)
      /\ mem[p] = Recorded(journal, Len(journal))
  BY <1>1 DEF Inv, Local, Writer
<1>3. journal' = WithIntent(journal, r)
  BY DEF AppendIntent, WithIntent
<1> HIDE DEF r
<1>4. Sound(journal') /\ Appends(journal', journal, r)
  BY <1>2, <1>3, AppendedIntent DEF Inv
<1>5. Grows(journal, journal')
  BY <1>4, AppendedGrows
<1>6. command \in [Process -> [request : Request \cup {NoRequest},
                               intent : Nat, result : Outcome]]
  BY DEF Inv, TypeOK
<1>7. /\ command' = [command EXCEPT ![p].intent = Len(journal) + 1]
      /\ Len(journal') = Len(journal) + 1
      /\ Len(journal) \in Nat
      /\ journal' \in Seq(Entry)
      /\ ~IsClosed(journal', Len(journal'))
      /\ journal'[Len(journal')].request = r
      /\ Recorded(journal', Len(journal')) = Recorded(journal, Len(journal))
  BY <1>4 DEF AppendIntent, Appends
<1>8. command' \in [Process -> [request : Request \cup {NoRequest},
                                intent : Nat, result : Outcome]]
  <2> DEFINE k == Len(journal) + 1
  <2>1. k \in Nat /\ command' = [command EXCEPT ![p].intent = k]
    BY <1>7
  <2> HIDE DEF k
  <2> QED BY <1>6, <2>1
<1>9. TypeOK'
  <2>1. pc' \in [Process -> {"down", "load", "recover", "reappend", "ready",
                             "intent", "execute", "outcome", "return",
                             "unready"}]
    BY DEF Inv, TypeOK, AppendIntent, Goto
  <2> QED BY <1>7, <1>8, <2>1 DEF Inv, TypeOK, AppendIntent, callerVars
<1>10. OthersStay(p)
  BY <1>1, <1>6, <1>7 DEF Inv, TypeOK, AppendIntent, Goto, OthersStay, Stays
<1>11. pc'[p] = "execute"
  BY DEF Inv, TypeOK, AppendIntent, Goto
<1>12. command'[p].request = r /\ command'[p].intent = Len(journal')
  BY <1>6, <1>7 DEF r
<1>13. Local(p)'
  BY <1>2, <1>11, <1>12 DEF Local
<1>14. AtLast(p)'
  BY <1>7, <1>12 DEF AtLast, IsClosed
<1>15. Writer(p)'
  BY <1>1, <1>2, <1>7, <1>11, <1>14 DEF Writer
<1>16. Sound(journal)'
  BY <1>4
<1> QED BY <1>1, <1>5, <1>9, <1>10, <1>13, <1>15, <1>16, WriterWrites

LEMMA ExecuteInv ==
  ASSUME Inv, NEW p \in Process, Execute(p)
  PROVE  Inv'
<1> DEFINE r == command[p].request
           i == command[p].intent
<1>1. PICK t \in LiveTapes(p, r) :
        LET x == Execution(mem[p], r, i, t) IN
        /\ pc[p] = "execute"
        /\ journal' = journal
        /\ holder' = holder
        /\ answers' = answers
        /\ boot' = boot
        /\ loaded' = loaded
        /\ replayed' = replayed
        /\ pc' = [pc EXCEPT ![p] = "outcome"]
        /\ mem' = [mem EXCEPT ![p] = After(mem[p], x)]
        /\ command' = [command EXCEPT ![p].result = x]
  BY DEF Execute, Goto, callerVars
<1>2. /\ mem \in [Process -> SUBSET Effect]
      /\ command \in [Process -> [request : Request \cup {NoRequest},
                                  intent : Nat, result : Outcome]]
      /\ pc \in [Process -> {"down", "load", "recover", "reappend", "ready",
                             "intent", "execute", "outcome", "return",
                             "unready"}]
      /\ i \in Nat
  BY DEF Inv, TypeOK
<1>3. r \in Request
  BY <1>1 DEF Inv, Local
<1>4. r = command[p].request /\ i = command[p].intent
  OBVIOUS
<1> DEFINE x == Execution(mem[p], r, i, t)
<1>5. x \in Result /\ x = Execution(mem[p], r, i, x.tape)
  <2>1. t \in Tape
    BY <1>3, LiveTapesType DEF Inv
  <2>2. x \in Result
    BY <1>2, <1>3, <2>1, ExecutionType
  <2> QED BY <2>2, ExecutionTape
<1>6. /\ mem' = [mem EXCEPT ![p] = After(mem[p], x)]
      /\ command' = [command EXCEPT ![p].result = x]
  BY <1>1
<1> HIDE DEF r, i, x
<1>7. /\ pc'[p] = "outcome"
      /\ mem'[p] = After(mem[p], x)
      /\ command'[p].request = r
      /\ command'[p].intent = i
      /\ command'[p].result = x
  BY <1>1, <1>2, <1>4, <1>6
<1>8. After(mem[p], x) \in SUBSET Effect
  BY <1>2, <1>5 DEF After, Effect
<1>9. TypeOK'
  <2>1. mem' \in [Process -> SUBSET Effect]
    BY <1>2, <1>6, <1>8
  <2>2. command' \in [Process -> [request : Request \cup {NoRequest},
                                  intent : Nat, result : Outcome]]
    BY <1>2, <1>5, <1>6 DEF Outcome
  <2>3. pc' \in [Process -> {"down", "load", "recover", "reappend", "ready",
                             "intent", "execute", "outcome", "return",
                             "unready"}]
    BY <1>1, <1>2
  <2> QED BY <2>1, <2>2, <2>3 DEF Inv, TypeOK, Execute, callerVars
<1>10. OthersStay(p)
  BY <1>1, <1>2 DEF OthersStay, Stays
<1>11. Local(p)'
  BY <1>3, <1>7 DEF Local
<1>12. ASSUME holder' = p
       PROVE  Writer(p)'
  <2>1. AtLast(p) /\ mem[p] = Recorded(journal, Len(journal))
    BY <1>1, <1>12 DEF Inv, Writer
  <2>2. i = Len(journal)
    BY <1>4, <2>1 DEF AtLast
  <2>3. AtLast(p)'
    BY <1>1, <1>4, <1>7, <2>1 DEF AtLast, IsClosed
  <2>4. Executed(p)'
    BY <1>1, <1>5, <1>7, <2>1, <2>2, <2>3 DEF Executed
  <2> QED BY <1>7, <2>4 DEF Writer
<1>13. AnswersRecorded'
  BY <1>1 DEF Inv, AnswersRecorded
<1> QED BY <1>1, <1>9, <1>10, <1>11, <1>12, <1>13, WritesNothing

\* The outcome that the writer appends.
LEMMA OutcomeCloses ==
  ASSUME Inv, NEW p \in Process, pc[p] \in {"outcome", "reappend"}, holder = p,
         Closed(p), NEW n, n = Len(journal)
  PROVE  /\ n \in Nat \ {0}
         /\ command[p].intent = n
         /\ command[p].request \in Request
         /\ journal[n].request = command[p].request
         /\ Sound(journal')
         /\ OpenLast(journal, n)
         /\ command[p].result \in Result
         /\ command[p].result
              = Execution(Recorded(journal, n), command[p].request, n,
                          command[p].result.tape)
         /\ Closes(journal', journal, n, command[p].result)
         /\ Grows(journal, journal')
         /\ mem[p] = Recorded(journal', n)
<1>1. Writer(p) /\ Executed(p) /\ command[p].request \in Request
  BY DEF Inv, Local, Writer
<1>2. /\ n \in Nat \ {0}
      /\ command[p].intent = n
      /\ ~IsClosed(journal, n)
      /\ journal[n].request = command[p].request
  <2>1. Len(journal) \in Nat
    BY DEF Inv, TypeOK
  <2> QED BY <1>1, <2>1 DEF Executed, AtLast
<1>3. OpenLast(journal, n)
  BY <1>2 DEF OpenLast
<1>4. command[p].result
        = Execution(Recorded(journal, n), journal[n].request, n,
                    command[p].result.tape)
  BY <1>1, <1>2 DEF Executed
<1>5. journal' = ClosedWith(journal, n, command[p].result)
  BY <1>2 DEF Closed, ClosedWith
<1>6. Sound(journal) /\ command[p].result \in Result
  BY <1>1 DEF Inv, Executed
<1>7. /\ Sound(journal')
      /\ Closes(journal', journal, n, command[p].result)
  BY <1>3, <1>4, <1>5, <1>6, ClosedLast
<1>8. Grows(journal, journal')
  BY <1>3, <1>7, ClosedGrows
<1>9. mem[p] = Recorded(journal', n)
  BY <1>1, <1>7 DEF Executed, Closes
<1> QED BY <1>1, <1>2, <1>3, <1>4, <1>6, <1>7, <1>8, <1>9

LEMMA AppendOutcomeInv ==
  ASSUME Inv, NEW p \in Process, AppendOutcome(p)
  PROVE  Inv'
<1> DEFINE n == Len(journal)
<1>1. /\ holder = p
      /\ pc[p] = "outcome"
      /\ Closed(p)
      /\ holder' = holder
      /\ answers' = answers
      /\ boot' = boot
      /\ mem' = mem
      /\ loaded' = loaded
      /\ replayed' = replayed
      /\ command' = command
  BY DEF AppendOutcome, CanAppend, callerVars
<1>2. /\ n \in Nat \ {0}
      /\ command[p].intent = n
      /\ journal[n].request = command[p].request
      /\ Sound(journal')
      /\ Closes(journal', journal, n, command[p].result)
      /\ Grows(journal, journal')
      /\ mem[p] = Recorded(journal', n)
  BY <1>1, OutcomeCloses
<1> HIDE DEF n
<1>3. /\ journal' \in Seq(Entry)
      /\ Len(journal') = n
      /\ journal'[n].request = journal[n].request
      /\ journal'[n].outcome = command[p].result
      /\ AllClosed(journal')
  BY <1>2 DEF Closes
<1>4. TypeOK' /\ pc'[p] = "return" /\ OthersStay(p)
  BY <1>1, <1>3
  DEF Inv, TypeOK, AppendOutcome, Goto, callerVars, OthersStay, Stays
<1>5. IsClosed(journal', n)
  BY <1>2, <1>3 DEF AllClosed
<1>6. HasReturned(p)'
  <2>1. n \in 1 .. Len(journal')
    BY <1>2, <1>3
  <2> QED BY <1>1, <1>2, <1>3, <1>5, <2>1 DEF HasReturned, IsClosed
<1>7. Local(p)'
  BY <1>1, <1>2, <1>4, <1>6 DEF Local, Inv
<1>8. Writer(p)'
  BY <1>1, <1>2, <1>3, <1>4 DEF Writer, AllClosed, IsClosed
<1>9. Sound(journal)'
  BY <1>2
<1> QED BY <1>1, <1>2, <1>4, <1>7, <1>8, <1>9, WriterWrites

LEMMA AppendRecoveredInv ==
  ASSUME Inv, NEW p \in Process, AppendRecovered(p)
  PROVE  Inv'
<1> DEFINE n == Len(journal)
<1>1. /\ holder = p
      /\ pc[p] = "reappend"
      /\ Closed(p)
      /\ holder' = holder
      /\ answers' = answers
      /\ boot' = boot
      /\ mem' = mem
      /\ loaded' = loaded
      /\ replayed' = [replayed EXCEPT ![p] = replayed[p] + 1]
      /\ command' = [command EXCEPT ![p] = Idle]
  BY DEF AppendRecovered, CanAppend, callerVars
<1>2. /\ n \in Nat \ {0}
      /\ Sound(journal')
      /\ Closes(journal', journal, n, command[p].result)
      /\ Grows(journal, journal')
      /\ mem[p] = Recorded(journal', n)
  BY <1>1, OutcomeCloses
<1>3. replayed[p] + 1 = n /\ Len(loaded[p]) = n
  BY <1>1 DEF Inv, Writer
<1> HIDE DEF n
<1>4. journal' \in Seq(Entry) /\ Len(journal') = n /\ AllClosed(journal')
  BY <1>2 DEF Closes
<1>5. replayed \in [Process -> Nat] /\ replayed'[p] = n
  BY <1>1, <1>3 DEF Inv, TypeOK
<1>6. Idle \in [request : Request \cup {NoRequest}, intent : Nat,
                result : Outcome]
  BY DEF Idle, Outcome
<1>7. TypeOK'
  <2>1. replayed' \in [Process -> Nat]
    BY <1>1, <1>2, <1>3, <1>5
  <2> QED
    BY <1>1, <1>4, <1>6, <2>1
    DEF Inv, TypeOK, AppendRecovered, Goto, callerVars
<1>8. pc'[p] = "recover" /\ OthersStay(p)
  BY <1>1 DEF Inv, TypeOK, AppendRecovered, Goto, OthersStay, Stays
<1>9. CatchesUp(p)'
  BY <1>1, <1>2, <1>3, <1>4, <1>5 DEF CatchesUp, AllClosed, IsClosed
<1>10. Local(p)' /\ Writer(p)'
  BY <1>1, <1>2, <1>3, <1>4, <1>5, <1>8, <1>9 DEF Local, Writer
<1>11. Sound(journal)'
  BY <1>2
<1> QED BY <1>1, <1>2, <1>7, <1>8, <1>10, <1>11, WriterWrites

LEMMA ReturnInv ==
  ASSUME Inv, NEW p \in Process, Return(p)
  PROVE  Inv'
<1>1. /\ pc[p] = "return"
      /\ journal' = journal
      /\ holder' = holder
      /\ mem' = mem
      /\ command' = [command EXCEPT ![p] = Idle]
  BY DEF Return, MayReturn
<1>2. HasReturned(p) /\ command[p].request \in Request
  BY <1>1 DEF Inv, Local
<1>3. Idle \in [request : Request \cup {NoRequest}, intent : Nat,
                result : Outcome]
  BY DEF Idle, Outcome
<1>4. command[p].result \in Result
  BY <1>2 DEF Inv, TypeOK, HasReturned, IsClosed, Outcome
<1>5. TypeOK' /\ pc'[p] = "ready" /\ OthersStay(p)
  BY <1>2, <1>3, <1>4 DEF Inv, TypeOK, Return, Goto, OthersStay, Stays
<1>6. Local(p)'
  BY <1>5 DEF Local
<1>7. holder' = p => Writer(p)'
  BY <1>1, <1>5 DEF Inv, Writer, AllClosed
<1>8. AnswersRecorded'
  <2> SUFFICES ASSUME NEW r \in Request, NEW x \in answers'[r]
               PROVE  \E i \in 1 .. Len(journal) :
                        /\ journal[i].request = r
                        /\ IsClosed(journal, i)
                        /\ journal[i].outcome = x
    BY <1>1 DEF AnswersRecorded
  <2>1. CASE x \in answers[r]
    BY <2>1 DEF Inv, AnswersRecorded
  <2>2. CASE x \notin answers[r]
    <3>1. r = command[p].request /\ x = command[p].result
      BY <2>2 DEF Return, Inv, TypeOK
    <3> QED BY <1>2, <3>1 DEF HasReturned
  <2> QED BY <2>1, <2>2
<1> QED BY <1>1, <1>5, <1>6, <1>7, <1>8, WritesNothing

LEMMA AnswerLostInv ==
  ASSUME Inv, NEW p \in Process, AnswerLost(p)
  PROVE  Inv'
<1>1. /\ pc[p] = "return"
      /\ journal' = journal
      /\ holder' = holder
      /\ answers' = answers
      /\ mem' = mem
  BY DEF AnswerLost, MayReturn, callerVars
<1>2. Idle \in [request : Request \cup {NoRequest}, intent : Nat,
                result : Outcome]
  BY DEF Idle, Outcome
<1>3. TypeOK' /\ pc'[p] = "ready" /\ OthersStay(p)
  BY <1>2 DEF Inv, TypeOK, AnswerLost, Fault, Goto, OthersStay, Stays,
              callerVars
<1>4. Local(p)'
  BY <1>3 DEF Local
<1>5. holder' = p => Writer(p)'
  BY <1>1, <1>3 DEF Inv, Writer, AllClosed
<1>6. AnswersRecorded'
  BY <1>1 DEF Inv, AnswersRecorded
<1> QED BY <1>1, <1>3, <1>4, <1>5, <1>6, WritesNothing

\* A process that serves no command any more owes nothing.
LEMMA UnreadyInv ==
  ASSUME Inv, NEW p \in Process, Unready(p), holder' \in {holder, NoProcess},
         faults' \in Nat, UNCHANGED <<journal, callerVars>>
  PROVE  Inv'
<1>1. Idle \in [request : Request \cup {NoRequest}, intent : Nat,
                result : Outcome]
  BY DEF Idle, Outcome
<1>2. /\ journal' = journal
      /\ answers' = answers
      /\ pc'[p] = "unready"
      /\ OthersStay(p)
      /\ TypeOK'
  BY <1>1 DEF Inv, TypeOK, Unready, Goto, callerVars, OthersStay, Stays
<1>3. Local(p)' /\ Writer(p)'
  BY <1>2 DEF Local, Writer
<1>4. AnswersRecorded'
  BY <1>2 DEF Inv, AnswersRecorded
<1> QED BY <1>2, <1>3, <1>4, WritesNothing

LEMMA InsertInv ==
  ASSUME Inv, NEW p \in Process, InsertFails(p) \/ InsertUnheard(p)
  PROVE  Inv'
<1>1. faults \in Nat
  BY DEF Inv, TypeOK
<1>2. CASE InsertFails(p)
  BY <1>1, <1>2, UnreadyInv DEF InsertFails, GivesUp, Fault
<1>3. CASE InsertUnheard(p)
  BY <1>1, <1>3, UnreadyInv DEF InsertUnheard, GivesUp, Fault
<1> QED BY <1>2, <1>3

LEMMA SessionLostInv ==
  ASSUME Inv, NEW p \in Process, SessionLost(p)
  PROVE  Inv'
<1>1. /\ journal' = journal
      /\ answers' = answers
      /\ holder' = NoProcess
      /\ \A q \in Process : Stays(q)
      /\ TypeOK'
  BY DEF Inv, TypeOK, SessionLost, Fault, processVars, callerVars, Stays
<1>2. OthersStay(p)
  BY <1>1 DEF OthersStay
<1>3. Local(p)'
  BY <1>1, GrowsNot, LocalStays DEF Inv
<1>4. holder' # p
  BY <1>1, JournalAssumption
<1>5. AnswersRecorded'
  BY <1>1 DEF Inv, AnswersRecorded
<1> QED BY <1>1, <1>2, <1>3, <1>4, <1>5, WritesNothing

\* Nor does a process that is down.
LEMMA DownInv ==
  ASSUME Inv, NEW p \in Process, Down(p), faults' \in Nat,
         UNCHANGED <<journal, callerVars>>
  PROVE  Inv'
<1>1. Idle \in [request : Request \cup {NoRequest}, intent : Nat,
                result : Outcome]
  BY DEF Idle, Outcome
<1>2. holder' \in {holder, NoProcess} /\ holder' # p
  BY JournalAssumption DEF Down, Freed
<1>3. /\ journal' = journal
      /\ answers' = answers
      /\ pc'[p] = "down"
      /\ mem'[p] = {}
      /\ replayed'[p] = 0
      /\ OthersStay(p)
  BY DEF Inv, TypeOK, Down, Goto, callerVars, OthersStay, Stays
<1>4. <<>> \in Seq(Entry)
  OBVIOUS
<1>5. TypeOK'
  BY <1>1, <1>2, <1>4 DEF Inv, TypeOK, Down, Goto, callerVars
<1>6. Local(p)'
  BY <1>3 DEF Local
<1>7. AnswersRecorded'
  BY <1>3 DEF Inv, AnswersRecorded
<1> QED BY <1>2, <1>3, <1>5, <1>6, <1>7, WritesNothing

LEMMA EndInv ==
  ASSUME Inv, NEW p \in Process,
         StartFails(p) \/ ExecutionThrows(p) \/ Crash(p) \/ Close(p)
  PROVE  Inv'
<1>1. faults \in Nat
  BY DEF Inv, TypeOK
<1>2. CASE StartFails(p)
  BY <1>1, <1>2, DownInv DEF StartFails
<1>3. CASE Crash(p)
  BY <1>1, <1>3, DownInv DEF Crash, Fault
<1>4. CASE Close(p)
  BY <1>1, <1>4, DownInv DEF Close, Fault
<1>5. CASE ExecutionThrows(p)
  BY <1>1, <1>5, DownInv, UnreadyInv DEF ExecutionThrows, GivesUp, Fault
<1> QED BY <1>2, <1>3, <1>4, <1>5
-----------------------------------------------------------------------------
(* The invariant and what follows from it.                                 *)

LEMMA InitInv == Init => Inv
<1> SUFFICES ASSUME Init PROVE Inv
  OBVIOUS
<1>1. TypeOK
  BY DEF Init, TypeOK, Idle, Outcome
<1>2. Len(journal) = 0
  BY DEF Init
<1>3. Sound(journal)
  BY <1>1, <1>2 DEF Sound, Origin, Replayable, OnlyLastOpen, TypeOK
<1>4. ASSUME NEW p \in Process
      PROVE  Local(p) /\ holder # p
  BY JournalAssumption DEF Init, Local
<1>5. AnswersRecorded
  BY DEF Init, AnswersRecorded
<1> QED BY <1>1, <1>3, <1>4, <1>5 DEF Inv

LEMMA NextInv == Inv /\ [Next]_vars => Inv'
<1> SUFFICES ASSUME Inv, [Next]_vars PROVE Inv'
  OBVIOUS
<1>1. CASE UNCHANGED vars
  <2>1. /\ TypeOK'
        /\ \A q \in Process : Stays(q)
        /\ journal' = journal
        /\ holder' = holder
        /\ answers' = answers
    BY <1>1 DEF vars, processVars, callerVars, Inv, TypeOK, Stays
  <2>2. \A q \in Process : Local(q)'
    BY <2>1, GrowsNot, LocalStays DEF Inv
  <2>3. ASSUME NEW q \in Process, holder' = q
        PROVE  Writer(q)'
    BY <2>1, <2>3 DEF Inv, Writer, Stays, AllClosed, AtLast, Executed
  <2>4. AnswersRecorded' /\ Sound(journal)'
    BY <2>1 DEF Inv, AnswersRecorded
  <2> QED BY <2>1, <2>2, <2>3, <2>4 DEF Inv
<1>2. CASE \E r \in Request : Send(r)
  BY <1>2, SendInv
<1>3. CASE \E p \in Process, r \in Request : Mutate(p, r)
  BY <1>3, MutateInv
<1>4. ASSUME NEW p \in Process, Start(p)
      PROVE  Inv'
  <2>1. CASE AcquireWriter(p)
    BY <2>1, AcquireWriterInv
  <2>2. CASE Load(p)
    BY <2>2, LoadInv
  <2>3. CASE Replay(p)
    BY <2>3, ReplayInv
  <2>4. CASE Reexecute(p)
    BY <2>4, ReexecuteInv
  <2>5. CASE AppendRecovered(p)
    BY <2>5, AppendRecoveredInv
  <2>6. CASE Ready(p)
    BY <2>6, ReadyInv
  <2>7. CASE StartFails(p)
    BY <2>7, EndInv
  <2> QED BY <1>4, <2>1, <2>2, <2>3, <2>4, <2>5, <2>6, <2>7 DEF Start
<1>5. ASSUME NEW p \in Process, Serve(p)
      PROVE  Inv'
  <2>1. CASE AppendIntent(p)
    BY <2>1, AppendIntentInv
  <2>2. CASE Execute(p)
    BY <2>2, ExecuteInv
  <2>3. CASE AppendOutcome(p)
    BY <2>3, AppendOutcomeInv
  <2>4. CASE Return(p)
    BY <2>4, ReturnInv
  <2>5. CASE InsertFails(p)
    BY <2>5, InsertInv
  <2> QED BY <1>5, <2>1, <2>2, <2>3, <2>4, <2>5 DEF Serve
<1>6. ASSUME NEW p \in Process, Break(p) \/ Close(p)
      PROVE  Inv'
  <2>1. CASE AnswerLost(p)
    BY <2>1, AnswerLostInv
  <2>2. CASE InsertUnheard(p)
    BY <2>2, InsertInv
  <2>3. CASE SessionLost(p)
    BY <2>3, SessionLostInv
  <2>4. CASE ExecutionThrows(p) \/ Crash(p) \/ Close(p)
    BY <2>4, EndInv
  <2> QED BY <1>6, <2>1, <2>2, <2>3, <2>4 DEF Break
<1> QED BY <1>1, <1>2, <1>3, <1>4, <1>5, <1>6 DEF Next

\* The inductive invariant of the journal and of every process on it.
THEOREM JournalInvariant == Spec => []Inv
BY InitInv, NextInv, PTL DEF Spec

\* Every variable keeps its type.
THEOREM JournalTypes == Spec => []TypeOK
<1>1. Inv => TypeOK
  BY DEF Inv
<1> QED BY <1>1, JournalInvariant, PTL

\* The ready process that holds the advisory lock remembers what the journal
\* has recorded, and no intent is open (v2-postgres-journal-service.ts).
THEOREM WriterStaysCurrent == Spec => []WriterIsCurrent
<1>1. Inv => WriterIsCurrent
  <2> SUFFICES ASSUME Inv, NEW p \in Process, holder = p, pc[p] = "ready"
               PROVE  AllClosed(journal) /\ mem[p] = Recorded(journal, Len(journal))
    BY DEF WriterIsCurrent, AllClosed, IsClosed
  <2> QED BY DEF Inv, Writer
<1> QED BY <1>1, JournalInvariant, PTL

\* No start finds JOURNAL_REPLAY_DRIFT in a journal that these processes wrote.
THEOREM RecoveryNeverDrifts == Spec => []RecoveryAgrees
<1>1. Inv => RecoveryAgrees
  <2> SUFFICES ASSUME Inv, NEW p \in Process, AtEntry(p),
                      NextEntry(p).outcome # Open
               PROVE  ReplayResult(p) = NextEntry(p).outcome
    BY DEF RecoveryAgrees, Drifts
  <2> DEFINE n == replayed[p]
  <2>1. /\ n \in Nat
        /\ n < Len(journal)
        /\ Len(journal) \in Nat
        /\ mem[p] = Recorded(journal, n)
        /\ IsClosed(journal, n + 1)
        /\ NextEntry(p) = journal[n + 1]
    BY AtNextEntry
  <2>2. ReplayResult(p)
          = Execution(Recorded(journal, n), journal[n + 1].request, n + 1,
                      journal[n + 1].outcome.tape)
    BY <2>1 DEF ReplayResult, TapeOfReplay
  <2> HIDE DEF n
  <2>3. n + 1 \in 1 .. Len(journal) /\ (n + 1) - 1 = n
    BY <2>1
  <2>4. journal[n + 1].outcome
          = Execution(Recorded(journal, n), journal[n + 1].request, n + 1,
                      journal[n + 1].outcome.tape)
    BY <2>1, <2>3 DEF Inv, Sound, Replayable
  <2> QED BY <2>1, <2>2, <2>4
<1> QED BY <1>1, JournalInvariant, PTL

\* Whatever a caller was told is recorded, a success is the one of its request
\* and comes after every refusal, and the ready writer has what was done.
THEOREM AnswersNeverChange == Spec => []AnswersStand
<1>1. Inv => AnswersStand
  <2> SUFFICES ASSUME Inv, NEW r \in Request, NEW x \in answers[r]
               PROVE  /\ \E i \in 1 .. Len(journal) :
                           journal[i].request = r /\ journal[i].outcome = x
                      /\ \A y \in answers[r] :
                           x.kind = "succeeded" =>
                             y = x \/ (y.kind # "succeeded" /\ y.intent < x.intent)
                      /\ \A p \in Process :
                           holder = p /\ pc[p] = "ready" /\ x.kind # "rejected"
                             => x \in mem[p]
    BY DEF AnswersStand
  <2>1. PICK i \in 1 .. Len(journal) :
          /\ journal[i].request = r
          /\ IsClosed(journal, i)
          /\ journal[i].outcome = x
    BY DEF Inv, AnswersRecorded
  <2>2. ASSUME NEW y \in answers[r], x.kind = "succeeded"
        PROVE  y = x \/ (y.kind # "succeeded" /\ y.intent < x.intent)
    <3>1. PICK j \in 1 .. Len(journal) :
            /\ journal[j].request = r
            /\ IsClosed(journal, j)
            /\ journal[j].outcome = y
      BY DEF Inv, AnswersRecorded
    <3>2. Sound(journal)
      BY DEF Inv
    <3> QED BY <2>1, <2>2, <3>1, <3>2, SuccessOnce
  <2>3. ASSUME NEW p \in Process, holder = p, pc[p] = "ready",
               x.kind # "rejected"
        PROVE  x \in mem[p]
    <3>1. mem[p] = Recorded(journal, Len(journal))
      BY <2>3 DEF Inv, Writer
    <3>2. journal \in Seq(Entry) /\ Len(journal) \in Nat
      BY DEF Inv, TypeOK
    <3>3. x \in Outcomes(journal, Len(journal))
      BY <2>1, <3>2, RecordedType
    <3> QED BY <2>3, <3>1, <3>3 DEF Recorded
  <2> QED BY <2>1, <2>2, <2>3
<1> QED BY <1>1, JournalInvariant, PTL

-----------------------------------------------------------------------------
(* What queries see, of a process that may have lost its session.          *)

\* A process that takes commands and queries, or has answered one.
Serving == {"ready", "intent", "return"}

SeesPast(p) ==
  \E n \in 0 .. Len(journal) :
    /\ \A i \in 1 .. n : IsClosed(journal, i)
    /\ mem[p] = Recorded(journal, n)

Reads == \A p \in Process : pc[p] \in Serving => SeesPast(p)

\* The journal only grows, and what is closed in it stays.
LEMMA JournalGrows ==
  ASSUME Inv, [Next]_vars
  PROVE  Grows(journal, journal')
<1>1. CASE journal' = journal
  BY <1>1, GrowsNot DEF Inv
<1>2. ASSUME NEW p \in Process, AppendIntent(p)
      PROVE  Grows(journal, journal')
  <2>1. /\ holder = p /\ pc[p] = "intent"
        /\ journal' = WithIntent(journal, command[p].request)
    BY <1>2 DEF AppendIntent, CanAppend, WithIntent
  <2>2. AllClosed(journal) /\ command[p].request \in Request
    BY <2>1 DEF Inv, Local, Writer
  <2>3. Sound(journal)
    BY DEF Inv
  <2> QED BY <2>1, <2>2, <2>3, AppendedIntent, AppendedGrows
<1>3. ASSUME NEW p \in Process, AppendOutcome(p) \/ AppendRecovered(p)
      PROVE  Grows(journal, journal')
  BY <1>3, OutcomeCloses DEF AppendOutcome, AppendRecovered, CanAppend
<1>4. ASSUME NEW p \in Process, Start(p) \/ Serve(p)
      PROVE  Grows(journal, journal')
  BY <1>1, <1>2, <1>3, <1>4
  DEF Start, AcquireWriter, Load, Replay, Reexecute, Ready, StartFails,
      Serve, Execute, Return, InsertFails
<1>5. ASSUME NEW p \in Process, Break(p) \/ Close(p)
      PROVE  Grows(journal, journal')
  BY <1>1, <1>5
  DEF Break, AnswerLost, InsertUnheard, ExecutionThrows, SessionLost, Crash,
      Close
<1>6. CASE UNCHANGED vars \/ \E r \in Request : Send(r)
  BY <1>1, <1>6 DEF vars, Send
<1>7. CASE \E p \in Process, r \in Request : Mutate(p, r)
  BY <1>1, <1>7 DEF Mutate
<1> QED BY <1>4, <1>5, <1>6, <1>7 DEF Next

\* A process comes to serve when it has replayed all that it loaded, or writes
\* an outcome; the memory of one that serves does not change.
LEMMA ServingBegins ==
  ASSUME Inv, [Next]_vars, NEW q \in Process, pc'[q] \in Serving
  PROVE  \/ pc[q] \in Serving /\ mem'[q] = mem[q]
         \/ Ready(q) \/ AppendOutcome(q)
<1>0. pc \in [Process -> {"down", "load", "recover", "reappend", "ready", "intent",
                          "execute", "outcome", "return", "unready"}]
      /\ mem \in [Process -> SUBSET Effect]
  BY DEF Inv, TypeOK
<1> USE <1>0 DEF Serving
<1>1. CASE UNCHANGED vars \/ \E r \in Request : Send(r)
  BY <1>1 DEF vars, processVars, Send
<1>2. ASSUME NEW p \in Process, NEW r \in Request, Mutate(p, r)
      PROVE  pc[q] \in Serving /\ mem'[q] = mem[q]
  BY <1>2 DEF Mutate, Goto
<1>3. ASSUME NEW p \in Process,
             AcquireWriter(p) \/ Load(p) \/ Replay(p) \/ Reexecute(p)
      PROVE  pc[q] \in Serving /\ mem'[q] = mem[q]
  BY <1>3 DEF AcquireWriter, Load, Replay, AtEntry, Reexecute, Goto
<1>4. ASSUME NEW p \in Process, AppendRecovered(p) \/ AppendIntent(p) \/ Execute(p)
      PROVE  pc[q] \in Serving /\ mem'[q] = mem[q]
  BY <1>4 DEF AppendRecovered, AppendIntent, Execute, Goto
<1>5. ASSUME NEW p \in Process, Return(p) \/ AnswerLost(p) \/ SessionLost(p)
      PROVE  pc[q] \in Serving /\ mem'[q] = mem[q]
  BY <1>5 DEF Return, AnswerLost, MayReturn, SessionLost, processVars, Goto
<1>6. ASSUME NEW p \in Process, InsertFails(p) \/ InsertUnheard(p)
      PROVE  pc[q] \in Serving /\ mem'[q] = mem[q]
  BY <1>6 DEF InsertFails, InsertUnheard, GivesUp, Unready, Goto
<1>7. ASSUME NEW p \in Process, ExecutionThrows(p)
      PROVE  pc[q] \in Serving /\ mem'[q] = mem[q]
  BY <1>7 DEF ExecutionThrows, GivesUp, Unready, Down, Goto
<1>8. ASSUME NEW p \in Process, StartFails(p) \/ Crash(p) \/ Close(p)
      PROVE  pc[q] \in Serving /\ mem'[q] = mem[q]
  BY <1>8 DEF StartFails, Crash, Close, Down, Goto
<1>9. ASSUME NEW p \in Process, Ready(p) \/ AppendOutcome(p), p # q
      PROVE  pc[q] \in Serving /\ mem'[q] = mem[q]
  BY <1>9 DEF Ready, AppendOutcome, Goto
<1> QED BY <1>1, <1>2, <1>3, <1>4, <1>5, <1>6, <1>7, <1>8, <1>9
        DEF Next, Start, Serve, Break

LEMMA ReadsNext ==
  ASSUME Inv, Inv', Reads, [Next]_vars
  PROVE  Reads'
<1> SUFFICES ASSUME NEW q \in Process, pc'[q] \in Serving PROVE SeesPast(q)'
  BY DEF Reads
<1>1. Len(journal) \in Nat /\ Len(journal') \in Nat
  BY DEF Inv, TypeOK
<1>2. CASE pc[q] \in Serving /\ mem'[q] = mem[q]
  <2>1. PICK n \in 0 .. Len(journal) :
          /\ \A i \in 1 .. n : IsClosed(journal, i)
          /\ mem[q] = Recorded(journal, n)
    BY <1>2 DEF Reads, SeesPast
  <2>2. /\ n \in 0 .. Len(journal')
        /\ \A i \in 1 .. n : journal'[i] = journal[i]
        /\ Recorded(journal', n) = Recorded(journal, n)
    BY <1>1, <2>1, JournalGrows DEF Grows
  <2> QED BY <1>2, <2>1, <2>2 DEF SeesPast, IsClosed
<1>3. CASE Ready(q)
  <2>1. CatchesUp(q) /\ replayed[q] = Len(loaded[q])
    BY <1>3 DEF Ready, Inv, Local
  <2>2. replayed[q] \in 0 .. Len(journal)
    BY <1>1, <2>1 DEF CatchesUp, Inv, TypeOK
  <2>3. journal' = journal /\ mem' = mem
    BY <1>3 DEF Ready
  <2> QED BY <2>1, <2>2, <2>3 DEF CatchesUp, SeesPast, IsClosed
<1>4. CASE AppendOutcome(q)
  <2>1. holder' = q /\ pc'[q] = "return"
    BY <1>4 DEF AppendOutcome, CanAppend, Goto, Inv, TypeOK
  <2>2. /\ AllClosed(journal')
        /\ mem'[q] = Recorded(journal', Len(journal'))
    BY <2>1 DEF Inv, Writer
  <2> QED BY <1>1, <2>2 DEF SeesPast, AllClosed
<1> QED BY <1>2, <1>3, <1>4, ServingBegins

\* Whatever a query is answered was recorded and complete at some time, also by
\* a process that has lost its session without noticing.
THEOREM QueriesSeeOnlyRecord == Spec => []QueriesSeeRecord
<1>1. Init => Reads
  BY DEF Init, Reads, Serving
<1>2. Inv /\ Inv' /\ Reads /\ [Next]_vars => Reads'
  BY ReadsNext
<1>3. Reads => QueriesSeeRecord
  BY DEF Reads, Serving, SeesPast, QueriesSeeRecord, IsClosed
<1> QED BY <1>1, <1>2, <1>3, JournalInvariant, PTL DEF Spec

-----------------------------------------------------------------------------
(* Refinement: the journal implements CommandLog.  The record of an        *)
(* outcome is where its request is decided, unless it repeats a success    *)
(* that is on record, the answer to a caller is an answer, and every other *)
(* step, crashes and restarts among them, changes nothing that callers can *)
(* see.                                                                    *)

Decisions(entries) == Outcomes(entries, Len(entries))

\* The decision that a closed entry stands for.
LEMMA DecisionOf ==
  ASSUME Inv, NEW x \in Decisions(journal)
  PROVE  \E i \in 1 .. Len(journal) :
           /\ IsClosed(journal, i)
           /\ journal[i].outcome = x
           /\ journal[i].request = x.request
           /\ x.intent \in 1 .. i
<1>1. journal \in Seq(Entry) /\ Len(journal) \in Nat /\ Len(journal) <= Len(journal)
  BY DEF Inv, TypeOK
<1>2. PICK i \in 1 .. Len(journal) :
        IsClosed(journal, i) /\ journal[i].outcome = x
  BY <1>1, RecordedType DEF Decisions
<1> QED BY <1>2 DEF Inv, Sound, Origin

\* A record that decides its request, or repeats what was decided.
LEMMA OutcomeDecides ==
  ASSUME Inv, NEW p \in Process, pc[p] \in {"outcome", "reappend"},
         holder = p, Closed(p), answers' = answers
  PROVE  [Log!Next]_(Log!vars)
<1> DEFINE n == Len(journal)
           r == command[p].request
           x == command[p].result
           m == Recorded(journal, n)
           was == Decisions(journal)
           is == Decisions(journal')
<1>1. /\ n \in Nat \ {0}
      /\ r \in Request
      /\ OpenLast(journal, n)
      /\ x \in Result
      /\ x = Execution(m, r, n, x.tape)
      /\ Closes(journal', journal, n, x)
  BY OutcomeCloses
<1>2. is = was \cup {x}
  BY <1>1 DEF Closes, Decisions
<1>3. m = Log!Effects(was)
  BY DEF Log!Effects, Recorded, Decisions
<1>4. ASSUME NEW y \in was
      PROVE  y.intent < n
  <2>1. PICK i \in 1 .. n : IsClosed(journal, i) /\ y.intent \in 1 .. i
    BY DecisionOf
  <2>2. i # n
    BY <1>1, <2>1 DEF OpenLast
  <2> QED BY <1>1, <2>1, <2>2
<1>5. \A y : y \in m <=> y \in was /\ y.kind # "rejected"
  BY DEF Recorded, Decisions
<1>6. /\ Log!vars = <<was, answers>>
      /\ Log!vars' = <<is, answers'>>
  BY DEF Log!vars, Decisions
<1>7. ASSUME Log!Decide(x), x \in is
      PROVE  [Log!Next]_(Log!vars)
  BY <1>7 DEF Log!Next, Decisions
<1>8. ASSUME /\ x \in Log!Decision
             /\ \A y \in was :
                  /\ y.intent < x.intent
                  /\ y.request = x.request => y.kind # "succeeded"
             /\ x.kind = Log!Judged(was, x.request, x.tape)
      PROVE  Log!Decide(x)
  BY <1>2, <1>8 DEF Log!Decide, Decisions
<1> HIDE DEF n, r, x, m, was, is
<1>9. CASE Succeeded(m, r) # {}
  <2>1. x \in m
    BY <1>1, <1>9, ExecutionCases
  <2>2. is = was
    BY <1>2, <1>5, <2>1
  <2> QED BY <1>6, <2>2
<1>10. CASE Succeeded(m, r) = {}
  <2>1. x = [request |-> r, intent |-> n, tape |-> x.tape,
             kind |-> Judgement(m, r, x.tape.time)]
    BY <1>1, <1>10, ExecutionCases
  <2>2. x.request = r /\ x.intent = n /\ x.kind = Judgement(m, r, x.tape.time)
    BY <2>1
  <2>3. x \in Log!Decision
    BY <1>1 DEF Result, Kind, Log!Decision
  <2>4. ASSUME NEW y \in was, y.request = r
        PROVE  y.kind # "succeeded"
    BY <1>5, <1>10, <2>4 DEF Succeeded
  <2>5. x.kind = Log!Judged(was, x.request, x.tape)
    BY <1>3, <2>2 DEF Log!Judged, Judgement
  <2>6. Log!Decide(x)
    BY <1>4, <1>8, <2>2, <2>3, <2>4, <2>5
  <2> QED BY <1>2, <1>7, <2>6
<1> QED BY <1>9, <1>10

\* A step that writes nothing and answers nobody.
LEMMA SilentStep ==
  ASSUME journal' = journal, answers' = answers
  PROVE  [Log!Next]_(Log!vars)
BY DEF Log!vars

\* An intent decides nothing.
LEMMA IntentDecidesNothing ==
  ASSUME Inv, NEW p \in Process, AppendIntent(p)
  PROVE  [Log!Next]_(Log!vars)
<1> DEFINE r == command[p].request
<1>1. r \in Request /\ AllClosed(journal) /\ Sound(journal)
  BY DEF AppendIntent, CanAppend, Inv, Local, Writer
<1>2. journal' = WithIntent(journal, r) /\ answers' = answers
  BY DEF AppendIntent, WithIntent, callerVars
<1> HIDE DEF r
<1>3. Appends(journal', journal, r)
  BY <1>1, <1>2, AppendedIntent
<1>4. Outcomes(journal', Len(journal')) = Outcomes(journal, Len(journal))
  BY <1>3 DEF Appends
<1> QED BY <1>2, <1>4 DEF Log!vars

LEMMA ReturnAnswers ==
  ASSUME Inv, NEW p \in Process, Return(p)
  PROVE  [Log!Next]_(Log!vars)
<1> DEFINE r == command[p].request
           x == command[p].result
           k == command[p].intent
<1>1. HasReturned(p) /\ Sound(journal) /\ r \in Request
  BY DEF Return, MayReturn, Inv, Local
<1>2. /\ journal' = journal
      /\ answers' = [answers EXCEPT ![r] = answers[r] \cup {x}]
  BY DEF Return
<1>3. /\ k \in 1 .. Len(journal)
      /\ IsClosed(journal, k)
      /\ journal[k].request = r
      /\ journal[k].outcome = x
  BY <1>1 DEF HasReturned
<1> HIDE DEF r, x, k
<1>4. x.request = r
  BY <1>1, <1>3 DEF Sound, Origin
<1>5. x \in Outcomes(journal, Len(journal))
  BY <1>3 DEF Outcomes, IsClosed
<1>6. Log!Answer(x)
  BY <1>2, <1>4, <1>5 DEF Log!Answer
<1> QED BY <1>5, <1>6 DEF Log!Next

LEMMA LogInit == Init => Log!Init
BY DEF Init, Log!Init, Outcomes

LEMMA LogStep == Inv /\ [Next]_vars => [Log!Next]_(Log!vars)
<1> SUFFICES ASSUME Inv, [Next]_vars PROVE [Log!Next]_(Log!vars)
  OBVIOUS
<1>1. CASE UNCHANGED vars
  BY <1>1, SilentStep DEF vars, callerVars
<1>2. CASE \E r \in Request : Send(r)
  BY <1>2, SilentStep DEF Send
<1>3. CASE \E p \in Process, r \in Request : Mutate(p, r)
  BY <1>3, SilentStep DEF Mutate, callerVars
<1>4. ASSUME NEW p \in Process, Start(p)
      PROVE  [Log!Next]_(Log!vars)
  <2>1. CASE AppendRecovered(p)
    BY <2>1, OutcomeDecides DEF AppendRecovered, CanAppend, callerVars
  <2>2. CASE AcquireWriter(p) \/ Load(p) \/ Replay(p) \/ Reexecute(p)
    BY <2>2, SilentStep DEF AcquireWriter, Load, Replay, Reexecute, callerVars
  <2>3. CASE Ready(p) \/ StartFails(p)
    BY <2>3, SilentStep DEF Ready, StartFails, callerVars
  <2> QED BY <1>4, <2>1, <2>2, <2>3 DEF Start
<1>5. ASSUME NEW p \in Process, Serve(p)
      PROVE  [Log!Next]_(Log!vars)
  <2>1. CASE AppendOutcome(p)
    BY <2>1, OutcomeDecides DEF AppendOutcome, CanAppend, callerVars
  <2>2. CASE AppendIntent(p)
    BY <2>2, IntentDecidesNothing
  <2>3. CASE Return(p)
    BY <2>3, ReturnAnswers
  <2>4. CASE Execute(p) \/ InsertFails(p)
    BY <2>4, SilentStep DEF Execute, InsertFails, callerVars
  <2> QED BY <1>5, <2>1, <2>2, <2>3, <2>4 DEF Serve
<1>6. ASSUME NEW p \in Process, Break(p) \/ Close(p)
      PROVE  [Log!Next]_(Log!vars)
  BY <1>6, SilentStep
  DEF Break, AnswerLost, InsertUnheard, ExecutionThrows, SessionLost, Crash,
      Close, callerVars
<1> QED BY <1>1, <1>2, <1>3, <1>4, <1>5, <1>6 DEF Next

\* The processes and their journal are one log of commands, in which a request
\* succeeds once at most and is judged again after every refusal, whatever
\* crashes, breaks or is asked again.
THEOREM JournalIsCommandLog == Spec => ImplementsCommandLog
<1>1. Inv /\ [Next]_vars => [Log!Next]_(Log!vars)
  BY LogStep
<1> QED
  BY <1>1, LogInit, JournalInvariant, PTL
  DEF Spec, ImplementsCommandLog, Log!Spec

-----------------------------------------------------------------------------
(* What a log of commands promises its callers.                            *)

BeforeIn(decisions, x) == {y \in decisions : y.intent < x.intent}

\* Every decision is the judgement after those before it, and the intents tell
\* them apart.
Explained(decisions) ==
  /\ \A x \in decisions :
       /\ x \in Log!Decision
       /\ x.kind = Log!Judged(BeforeIn(decisions, x), x.request, x.tape)
  /\ \A x, y \in decisions : x.intent = y.intent => x = y

\* A request succeeds once, and after it is not refused.
SucceedsOnce(decisions) ==
  \A x, y \in decisions :
    /\ x.request = y.request
    /\ x.kind = "succeeded"
    => y = x \/ (y.kind # "succeeded" /\ y.intent < x.intent)

LogSound ==
  /\ Explained(Decisions(journal))
  /\ SucceedsOnce(Decisions(journal))
  /\ answers = [r \in Request |-> answers[r]]
  /\ \A r \in Request : \A x \in answers[r] :
       x \in Decisions(journal) /\ x.request = r

\* One more decision, as Decide makes it.
LEMMA OneMoreDecision ==
  ASSUME NEW old, Explained(old), SucceedsOnce(old), NEW x \in Log!Decision,
         \A y \in old :
           /\ y.intent < x.intent
           /\ y.request = x.request => y.kind # "succeeded",
         x.kind = Log!Judged(old, x.request, x.tape),
         NEW new, new = old \cup {x}
  PROVE  Explained(new) /\ SucceedsOnce(new)
<1>1. x.intent \in Nat /\ \A y \in old : y.intent \in Nat
  BY DEF Explained, Log!Decision
<1>2. BeforeIn(new, x) = old
  BY <1>1 DEF BeforeIn
<1>3. ASSUME NEW y \in old
      PROVE  BeforeIn(new, y) = BeforeIn(old, y)
  BY <1>1 DEF BeforeIn
<1>4. \A y \in new :
        /\ y \in Log!Decision
        /\ y.kind = Log!Judged(BeforeIn(new, y), y.request, y.tape)
  <2>1. ASSUME NEW y \in old
        PROVE  /\ y \in Log!Decision
               /\ y.kind = Log!Judged(BeforeIn(new, y), y.request, y.tape)
    BY <1>3 DEF Explained
  <2> QED BY <1>2, <2>1
<1>5. \A y, z \in new : y.intent = z.intent => y = z
  BY <1>1 DEF Explained
<1>6. SucceedsOnce(new)
  BY <1>1 DEF SucceedsOnce
<1> QED BY <1>4, <1>5, <1>6 DEF Explained

\* What the promise DecisionStands says of one step.
Stands ==
  /\ Decisions(journal) \subseteq Decisions(journal')
  /\ \A x \in Decisions(journal') \ Decisions(journal), y \in Decisions(journal) :
       y.intent < x.intent

LEMMA LogMoves ==
  ASSUME LogSound, [Log!Next]_(Log!vars)
  PROVE  LogSound' /\ Stands
<1> DEFINE was == Decisions(journal)
           is == Decisions(journal')
<1>1. CASE UNCHANGED Log!vars
  <2>1. is = was /\ answers' = answers
    BY <1>1 DEF Log!vars, Decisions
  <2> QED BY <2>1 DEF LogSound, Stands
<1>2. ASSUME NEW x, Log!Decide(x)
      PROVE  LogSound' /\ Stands
  <2>1. /\ x \in Log!Decision
        /\ \A y \in was :
             /\ y.intent < x.intent
             /\ y.request = x.request => y.kind # "succeeded"
        /\ x.kind = Log!Judged(was, x.request, x.tape)
        /\ is = was \cup {x}
        /\ answers' = answers
    BY <1>2 DEF Log!Decide, Decisions
  <2>2. Explained(was) /\ SucceedsOnce(was)
    BY DEF LogSound
  <2> HIDE DEF was, is
  <2>3. Explained(is) /\ SucceedsOnce(is)
    BY <2>1, <2>2, OneMoreDecision
  <2>4. was \subseteq is /\ \A z \in is \ was, y \in was : y.intent < z.intent
    BY <2>1
  <2> QED BY <2>1, <2>3, <2>4 DEF LogSound, Stands, was, is
<1>3. ASSUME NEW x \in was, Log!Answer(x)
      PROVE  LogSound' /\ Stands
  <2>1. /\ is = was
        /\ answers' = [answers EXCEPT ![x.request] = answers[x.request] \cup {x}]
    BY <1>3 DEF Log!Answer, Decisions
  <2>2. answers' = [r \in Request |-> answers'[r]]
    BY <2>1 DEF LogSound
  <2>3. \A r \in Request : \A y \in answers'[r] : y \in was /\ y.request = r
    BY <2>1 DEF LogSound
  <2> QED BY <2>1, <2>2, <2>3 DEF LogSound, Stands
<1>4. \/ UNCHANGED Log!vars
      \/ \E x : Log!Decide(x)
      \/ \E x \in was : Log!Answer(x)
  BY DEF Log!Next, Decisions
<1> QED BY <1>1, <1>2, <1>3, <1>4

\* Whatever implements the log of commands keeps its promises: a request that
\* is said to be done is done once and for all, the answers are explained by one
\* order, and what is decided stands.
THEOREM LogKeepsPromises == ImplementsCommandLog => Log!Promises
<1>1. Log!Init => LogSound
  BY DEF Log!Init, LogSound, Decisions, Explained, SucceedsOnce
<1>2. LogSound /\ [Log!Next]_(Log!vars) => LogSound'
  BY LogMoves
<1>3. LogSound => Log!SuccessIsFinal
  BY DEF LogSound, SucceedsOnce, Log!SuccessIsFinal
<1>4. LogSound => Log!AnswersExplained
  BY DEF LogSound, Explained, BeforeIn, Decisions, Log!AnswersExplained,
         Log!Before
<1>5. LogSound /\ [Log!Next]_(Log!vars)
        => [/\ Outcomes(journal, Len(journal))
                 \subseteq Outcomes(journal, Len(journal))'
            /\ \A x \in Outcomes(journal, Len(journal))'
                          \ Outcomes(journal, Len(journal)),
                  y \in Outcomes(journal, Len(journal)) :
                 y.intent < x.intent]_(Log!vars)
  BY LogMoves DEF Stands, Decisions
<1> QED BY <1>1, <1>2, <1>3, <1>4, <1>5, PTL
  DEF ImplementsCommandLog, Log!Spec, Log!Promises, Log!DecisionStands

\* So does the journal with its processes, whatever crashes or is asked again.
THEOREM JournalKeepsPromises == Spec => Log!Promises
BY JournalIsCommandLog, LogKeepsPromises, PTL
=============================================================================
