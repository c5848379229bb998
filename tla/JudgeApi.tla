------------------------------ MODULE JudgeApi ------------------------------
(***************************************************************************)
(* libra_api.py: the requests for judge runs and for evaluations that the  *)
(* library's own server handles, each on a thread of its pool, with the    *)
(* record of a run (libra_store.py) and the chat client that evaluations   *)
(* share.  The committee of a run either decides or raises.  The process   *)
(* may die at any time; the files stay.                                    *)
(*                                                                         *)
(* A run file is named by the second and by a hash of the decision, which  *)
(* holds the times of its run, so each request writes a file of its own.   *)
(* The queues are not written: no decision of the v1 committee has a       *)
(* follow-up or a checkpoint.                                              *)
(***************************************************************************)
EXTENDS Integers, FiniteSets

CONSTANTS
  Runs,         \* requests for a judge run
  Evaluations,  \* requests for an evaluation
  Outcomes,     \* what an evaluation is about
  Providers,    \* whether the provider of the chat client is configured
  MaxDeaths     \* bound: deaths of the process

ASSUME ApiAssumption ==
  /\ Outcomes \subseteq [decision : {"REBALANCE", "USER_DECISION_REQUIRED", "HOLD", "DEFER"},
                         planned : BOOLEAN, rejected : BOOLEAN, score : Int, return : Int]
  /\ Providers \subseteq BOOLEAN /\ MaxDeaths \in Nat

VARIABLES
  configured,
  phase,     \* of a run: idle, sent, open, committee, record, writing, recorded,
             \* answered, lost
  status,    \* of a run: 0, 200, 400, 500
  runFile,   \* of a run: none, torn, whole
  deaths,
  shared,    \* the evaluations' client: [resolved, client]
  estep,     \* of an evaluation: idle, sent, resolving, told, answered, lost
  outcome,   \* of an evaluation
  answer     \* of an evaluation: [verdict, reflection]
avars == <<configured, phase, status, runFile, deaths, shared, estep, outcome, answer>>
runState == <<phase, status, runFile>>
evalState == <<shared, estep, outcome, answer>>

Unresolved == [resolved |-> FALSE, client |-> "none"]
NoOutcome == [decision |-> "DEFER", planned |-> FALSE, rejected |-> FALSE, score |-> 0, return |-> 0]
NoAnswer == [verdict |-> "none", reflection |-> "none"]

AInit ==
  /\ configured \in Providers /\ deaths = 0
  /\ phase = [r \in Runs |-> "sent"] /\ status = [r \in Runs |-> 0]
  /\ runFile = [r \in Runs |-> "none"]
  /\ shared = Unresolved
  /\ estep = [e \in Evaluations |-> "sent"]
  /\ outcome \in [Evaluations -> Outcomes]
  /\ answer = [e \in Evaluations |-> NoAnswer]
-----------------------------------------------------------------------------
(* create_judge_run *)

Goes(r, from, to) == phase[r] = from /\ phase' = [phase EXCEPT ![r] = to]
Status(r, code) == status' = [status EXCEPT ![r] = code]
Answers(r, from, code) == Goes(r, from, "answered") /\ Status(r, code)

\* A field is missing or wrong, a path does not exist; a file of the knowledge
\* base that does not parse raises what no handler expects.
Invalid(r) ==
  /\ Answers(r, "sent", 400) \/ Answers(r, "sent", 500)
  /\ UNCHANGED runFile
Valid(r) == Goes(r, "sent", "open") /\ UNCHANGED <<status, runFile>>

OpenFails(r) == Answers(r, "open", 500) /\ UNCHANGED runFile
Open(r) == configured /\ Goes(r, "open", "committee") /\ UNCHANGED <<status, runFile>>

\* A deadline that is no number is found only now.
CommitteeFails(r) ==
  /\ Answers(r, "committee", 400) \/ Answers(r, "committee", 500)
  /\ UNCHANGED runFile
Decides(r) == Goes(r, "committee", "record") /\ UNCHANGED <<status, runFile>>

\* Outside the handler that turns exceptions into answers: a directory or a
\* file that cannot be written loses the decision.
RecordFails(r) ==
  /\ Answers(r, "record", 500) \/ Answers(r, "writing", 500)
  /\ UNCHANGED runFile
RecordUnfinished(r) ==
  /\ Goes(r, "record", "recorded")
  /\ runFile' = [runFile EXCEPT ![r] = "torn"] /\ UNCHANGED status
Record(r) ==
  /\ Goes(r, "record", "writing")
  /\ runFile' = [runFile EXCEPT ![r] = "torn"] /\ UNCHANGED status
Recorded(r) ==
  /\ Goes(r, "writing", "recorded")
  /\ runFile' = [runFile EXCEPT ![r] = "whole"] /\ UNCHANGED status
Reply(r) == Answers(r, "recorded", 200) /\ UNCHANGED runFile

RunStep(r) ==
  \/ Invalid(r) \/ Valid(r) \/ OpenFails(r) \/ Open(r) \/ CommitteeFails(r) \/ Decides(r)
  \/ RecordFails(r) \/ Record(r) \/ Recorded(r) \/ Reply(r)
-----------------------------------------------------------------------------
(* create_evaluation *)

Moved(n) == IF n < 0 THEN -n ELSE n
Right(o) == (o.score > 0 /\ o.return > 0) \/ (o.score < 0 /\ o.return < 0)
Actionable(o) == o.decision \in {"REBALANCE", "USER_DECISION_REQUIRED"} \/ o.planned
Verdict(o) ==
  IF o.rejected /\ Actionable(o) /\ o.score # 0
  THEN IF Right(o) THEN "USER_WRONG" ELSE "USER_CORRECT"
  ELSE IF o.decision = "REBALANCE"
  THEN IF Right(o) THEN "ACCURATE" ELSE "FALSE_POSITIVE"
  ELSE IF o.decision = "HOLD"
  THEN IF Moved(o.return) < 3 THEN "HOLD_CORRECT" ELSE "HOLD_WRONG"
  ELSE "BLOCKED"

ESteps(e, from, to) == estep[e] = from /\ estep' = [estep EXCEPT ![e] = to]
InvalidEvaluation(e) == ESteps(e, "sent", "answered") /\ UNCHANGED <<shared, outcome, answer>>

\* The flag is set before the client is opened, so another request that comes
\* in between is told there is none.
Resolve(e) ==
  /\ IF shared.resolved THEN ESteps(e, "sent", "told") ELSE ESteps(e, "sent", "resolving")
  /\ shared' = [shared EXCEPT !.resolved = TRUE]
  /\ UNCHANGED <<outcome, answer>>

\* open_chat_client_from_env is called without the stack it requires; whatever
\* it raises means there is no client.
StackGiven == FALSE
OpenShared(e) ==
  /\ ESteps(e, "resolving", "told")
  /\ shared' = [shared EXCEPT !.client = IF StackGiven /\ configured THEN "open" ELSE "none"]
  /\ UNCHANGED <<outcome, answer>>

\* A reflection that fails is a text that says so.
Evaluate(e) ==
  /\ ESteps(e, "told", "answered")
  /\ \E reflection \in IF shared.client = "none" THEN {"none"} ELSE {"some", "failed"} :
       answer' = [answer EXCEPT ![e] = [verdict |-> Verdict(outcome[e]), reflection |-> reflection]]
  /\ UNCHANGED <<shared, outcome>>

EvaluationStep(e) == InvalidEvaluation(e) \/ Resolve(e) \/ OpenShared(e) \/ Evaluate(e)
-----------------------------------------------------------------------------
\* Requests under way are lost, and so is the shared client.
Dies ==
  /\ deaths < MaxDeaths /\ deaths' = deaths + 1
  /\ phase' = [r \in Runs |-> IF phase[r] \in {"sent", "answered"} THEN phase[r] ELSE "lost"]
  /\ estep' = [e \in Evaluations |-> IF estep[e] \in {"sent", "answered"} THEN estep[e] ELSE "lost"]
  /\ shared' = Unresolved
  /\ UNCHANGED <<configured, status, runFile, outcome, answer>>

ANext ==
  \/ \E r \in Runs : RunStep(r) /\ UNCHANGED <<configured, deaths, evalState>>
  \/ \E e \in Evaluations : EvaluationStep(e) /\ UNCHANGED <<configured, deaths, runState>>
  \/ Dies
ASpec == AInit /\ [][ANext]_avars
-----------------------------------------------------------------------------
(* Properties *)

\* A caller who is given a decision finds it on disk, whole, however requests
\* overlap and whenever the process dies; a caller who is told of a failure
\* does not, and only a run that was lost leaves a record nobody was told of.
AnswerMatchesRecord ==
  \A r \in Runs :
    /\ status[r] = 200 => runFile[r] = "whole"
    /\ runFile[r] = "whole" => status[r] = 200 \/ phase[r] \in {"recorded", "lost"}

\* Had the price moved the other way, the verdict on a recommendation, or on
\* the user who rejected it, would have been the opposite one, and that on a
\* HOLD or on a decision that was put off the same.
Opposite(verdict) ==
  CASE verdict = "ACCURATE" -> "FALSE_POSITIVE" [] verdict = "FALSE_POSITIVE" -> "ACCURATE"
    [] verdict = "USER_WRONG" -> "USER_CORRECT" [] verdict = "USER_CORRECT" -> "USER_WRONG"
    [] OTHER -> verdict
MirroredVerdict ==
  \A d, e \in Evaluations :
    /\ answer[d] # NoAnswer /\ answer[e] # NoAnswer
    /\ outcome[e] = [outcome[d] EXCEPT !.return = -@]
    /\ outcome[d].score # 0 /\ outcome[d].return # 0
    => answer[e].verdict = Opposite(answer[d].verdict)

(* What the code says of itself and does not keep *)

\* Where the provider is configured, whoever has opened the shared client has
\* got one.
ReflectsIfAvailable ==
  configured /\ shared.resolved /\ (\E e \in Evaluations : estep[e] = "answered" /\ answer[e] # NoAnswer)
    => shared.client # "none"
=============================================================================
