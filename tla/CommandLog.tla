----------------------------- MODULE CommandLog -----------------------------
(***************************************************************************)
(* What the durable command service of EXCON v2 promises its callers, with *)
(* no process, no journal and no restart in it.  A request stands for one  *)
(* command under one Idempotency-Key, however often it is sent.  A success *)
(* is remembered under the key; a refusal is not: the service judges the   *)
(* same request again when it is sent again, and may do it then.           *)
(***************************************************************************)
EXTENDS Naturals

CONSTANTS Request,          \* the requests callers make
          Tape,             \* when a command is judged, and with which ids
          Admits(_, _, _),  \* whether it is done, after what and when
          Breaks(_, _, _)   \* whether it is refused with part of it done

VARIABLES log,              \* the decisions, in the order of their intents
          answers           \* the decisions that the callers were told

vars == <<log, answers>>

Decision == [request : Request, intent : Nat, tape : Tape,
             kind : {"succeeded", "broken", "rejected"}]

\* What the decisions that have an effect leave behind.
Effects(decisions) == {x \in decisions : x.kind # "rejected"}
Before(x) == {y \in log : y.intent < x.intent}

\* The only judgement of a request that the service may give.
Judged(decisions, r, t) ==
  IF Admits(Effects(decisions), r, t.time) THEN "succeeded"
  ELSE IF Breaks(Effects(decisions), r, t.time) THEN "broken"
  ELSE "rejected"

Init ==
  /\ log = {}
  /\ answers = [r \in Request |-> {}]

\* A request that has not succeeded is judged after all that was decided.
Decide(x) ==
  /\ x \in Decision
  /\ \A y \in log :
       /\ y.intent < x.intent
       /\ y.request = x.request => y.kind # "succeeded"
  /\ x.kind = Judged(log, x.request, x.tape)
  /\ log' = log \cup {x}
  /\ UNCHANGED answers

\* Callers are told what was decided of their request, and nothing else.
Answer(x) ==
  /\ x \in log
  /\ answers' = [answers EXCEPT ![x.request] = @ \cup {x}]
  /\ UNCHANGED log

Next == (\E x \in log' : Decide(x)) \/ (\E x \in log : Answer(x))

Spec == Init /\ [][Next]_vars

-----------------------------------------------------------------------------
(* What follows for callers.                                               *)

\* A request takes effect once: who is told of a success is told the same as
\* anyone else who is, and whoever was refused was refused before that.
SuccessIsFinal ==
  \A r \in Request : \A x, y \in answers[r] :
    x.kind = "succeeded" =>
      \/ y = x
      \/ y.kind # "succeeded" /\ y.intent < x.intent

\* One order explains all answers: each is what the service makes of the request
\* when it has done what was decided before it, and no more.
AnswersExplained ==
  \A r \in Request : \A x \in answers[r] :
    x \in log /\ x.kind = Judged(Before(x), r, x.tape)

\* What was decided stands, and what is decided later comes after it.
DecisionStands ==
  [][/\ log \subseteq log'
     /\ \A x \in log' \ log, y \in log : y.intent < x.intent]_vars

Promises == []SuccessIsFinal /\ []AnswersExplained /\ DecisionStands
=============================================================================
