----------------------------- MODULE Committee ------------------------------
(***************************************************************************)
(* One deliberation of the v1 committee (libra/committee.py, driven by     *)
(* JudgeOrchestrator.run_v1_committee): the agents of round 1 on a thread  *)
(* pool, the mediator, the recalled agents of round 2, the trades and the  *)
(* decision made of what they said, the final judge's words, and what the  *)
(* workflow makes of it all.                                               *)
(***************************************************************************)
EXTENDS FinalJudge, ComplianceRules

CONSTANTS
  Agents,          \* who is called in round 1, compliance is no agent
  Opinions,        \* what an agent may come to say
  Plans,           \* candidate rebalance plans, the drafts handed to the agents
  ExecutionPlans,  \* the valid plans of the execution policy, when it is on
  Workers,         \* threads of the pool, per round
  DropInvalid,     \* the mediator's non-candidates are dropped, not refused
  ResolveTickers   \* an execution plan resolves conflicts on its tickers

ASSUME CommitteeAssumption ==
  /\ IsFiniteSet(Agents)
  /\ Opinions \subseteq Opinion
  /\ \A f \in Plans \cup ExecutionPlans : IsDeltas(f)
  /\ Workers \in [1..2 -> Nat \ {0}]
  /\ DropInvalid \in BOOLEAN /\ ResolveTickers \in BOOLEAN

VARIABLES
  phase,
  call,      \* where the call of an agent is in the round
  said,      \* the opinion of an agent in a round
  recalled,  \* the mediator's targets
  plan,      \* the candidate plan
  checked,   \* the tentative trades compliance AFTER has checked
  final,     \* the rendered decision
  fill,      \* what the final judge's model answered
  outcome    \* what the workflow reports and, for approval, shows the user

vars == <<phase, call, said, recalled, plan, checked, final, fill, outcome>>

Undecided == Rendered("NO_EXECUTABLE_TRADE", NoTrades)
NoFill == [reasoning |-> FALSE, question |-> FALSE, options |-> FALSE]
NoOutcome == [trades |-> NoTrades, needs |-> FALSE, shown |-> NoTrades]

Init ==
  /\ phase = "round1"
  /\ call = [a \in Agents |-> "queued"]
  /\ said = [x \in {} |-> {}]
  /\ recalled = {}
  /\ plan \in Plans
  /\ checked = NoTrades
  /\ final = Undecided
  /\ fill = NoFill
  /\ outcome = NoOutcome

-----------------------------------------------------------------------------
(* A round on the thread pool *)

InRound == phase \in {"round1", "round2"}
Round == IF phase = "round1" THEN 1 ELSE 2
In(state) == {a \in Agents : call[a] = state}

Start(a) ==
  /\ InRound
  /\ call[a] = "queued"
  /\ Cardinality(In("running")) < Workers[Round]
  /\ call' = [call EXCEPT ![a] = "running"]
  /\ UNCHANGED <<phase, said, recalled, plan, checked, final, fill, outcome>>

Answer(a) ==
  /\ InRound
  /\ call[a] = "running"
  /\ call' = [call EXCEPT ![a] = "done"]
  /\ \E opinion \in Opinions :
       said' = [x \in DOMAIN said \cup {<<a, Round>>} |->
                  IF x = <<a, Round>> THEN opinion ELSE said[x]]
  /\ UNCHANGED <<phase, recalled, plan, checked, final, fill, outcome>>

Raise(a) ==
  /\ InRound
  /\ call[a] = "running"
  /\ call' = [call EXCEPT ![a] = "failed"]
  /\ UNCHANGED <<phase, said, recalled, plan, checked, final, fill, outcome>>

\* Mutation: an agent that fails is left out, and the round goes on.
AfterRoundSkipping(failed) ==
  IF phase = "round1" THEN "mediator" ELSE "conclusion"

AfterRound(failed) ==
  IF failed # {} THEN "failed" ELSE IF phase = "round1" THEN "mediator"
                                                        ELSE "conclusion"

\* The first failure is raised inside the pool's with statement, which waits
\* for every call, those not yet started included.
EndRound ==
  /\ InRound
  /\ In("queued") \cup In("running") = {}
  /\ phase' = AfterRound(In("failed"))
  /\ UNCHANGED <<call, said, recalled, plan, checked, final, fill, outcome>>

-----------------------------------------------------------------------------
(* The mediator *)

Replies == [targets : SUBSET Agents, skip : BOOLEAN, rationale : BOOLEAN]

Parses(reply, candidates) ==
  /\ reply.targets \subseteq candidates \/ DropInvalid
  /\ Cardinality(reply.targets \cap candidates) <= 4
  /\ reply.rationale

\* Mutation: the targets are taken as they come.
NamedTargets(reply, candidates) == IF reply.skip THEN {} ELSE reply.targets

Targets(reply, candidates) ==
  IF reply.skip THEN {} ELSE reply.targets \cap candidates

\* The model is down, or its reply (with repairs on, also the repaired one)
\* does not parse.
MediatorFails ==
  /\ phase = "mediator"
  /\ phase' = "failed"
  /\ UNCHANGED <<call, said, recalled, plan, checked, final, fill, outcome>>

Mediate ==
  /\ phase = "mediator"
  /\ LET round1 == [a \in Agents |-> said[<<a, 1>>]]
     IN  \E candidates \in SelectTargets(round1, ConsensusBySubject(round1)),
            reply \in Replies :
           /\ Parses(reply, candidates)
           /\ recalled' = Targets(reply, candidates)
  /\ call' = [a \in Agents |-> IF a \in recalled' THEN "queued" ELSE "idle"]
  /\ phase' = IF recalled' = {} THEN "conclusion" ELSE "round2"
  /\ UNCHANGED <<said, plan, checked, final, fill, outcome>>

-----------------------------------------------------------------------------
(* The decision *)

\* The trades put to compliance: those of the votes, or else the candidate
\* plan where only the portfolio as a whole is in conflict; a valid plan of
\* the execution policy replaces either.
Tentative(consensus, own, candidate, policy) ==
  IF policy # NoTrades THEN policy
  ELSE IF own = NoTrades /\ CanAutoResolveConflict(consensus, candidate, FALSE)
    THEN candidate
  ELSE own

\* Mutation: compliance sees the trades of the votes, whatever replaces them.
DecideUnchecked(trades, own) == own

\* What compliance AFTER is asked about.
Proposed(trades, own) == trades

\* Both rounds count: who was called again has voted twice. The votes' trades
\* are cash neutral before anything else looks at them.
Conclude ==
  /\ phase = "conclusion"
  /\ LET consensus == ConsensusBySubject(said)
     IN  \E votes \in TentativeTrades(said, consensus),
            candidate \in CandidatePlanToTrades(plan),
            policy \in {NoTrades} \cup
                       (IF plan = NoTrades THEN {} ELSE ExecutionPlans) :
         \E own \in CashNeutralTrades(votes) :
           LET trades == Tentative(consensus, own, candidate, policy)
               proceed == CanProceed(Proposed(trades, own))
           IN  /\ checked' = Proposed(trades, own)
               /\ final' \in RenderFinalDecision(consensus, proceed, trades,
                               policy # NoTrades /\ ResolveTickers)
  /\ phase' = "explanation"
  /\ UNCHANGED <<call, said, recalled, plan, fill, outcome>>

Fills == [reasoning : BOOLEAN, question : BOOLEAN, options : BOOLEAN]

\* The final judge's model words the decision: a question and three options
\* when the decision asks, and always a reasoning.
Fill ==
  /\ phase = "explanation"
  /\ \E reply \in Fills :
       /\ fill' = reply
       /\ phase' = IF /\ reply.reasoning
                      /\ final.asks => reply.question /\ reply.options
                   THEN "decided" ELSE "failed"
  /\ UNCHANGED <<call, said, recalled, plan, checked, final, outcome>>

FillFails ==
  /\ phase = "explanation"
  /\ phase' = "failed"
  /\ UNCHANGED <<call, said, recalled, plan, checked, final, fill, outcome>>

-----------------------------------------------------------------------------
(* What the workflow makes of it *)

\* The approval request of human_review carries the draft the committee was
\* given, under the name of the decision's plan.
Deliver ==
  /\ phase = "decided"
  /\ \E review \in BOOLEAN :
       LET needs == \/ final.decision = "USER_DECISION_REQUIRED"
                    \/ /\ review /\ final.decision = "REBALANCE"
                       /\ final.trades # NoTrades
       IN  outcome' = [trades |-> final.trades, needs |-> needs,
                       shown |-> IF needs THEN plan ELSE NoTrades]
  /\ phase' = "delivered"
  /\ UNCHANGED <<call, said, recalled, plan, checked, final, fill>>

Ended == phase \in {"delivered", "failed"}

Finished == Ended /\ UNCHANGED vars

Call(a) == Start(a) \/ Answer(a) \/ Raise(a)

Judge ==
  \/ EndRound
  \/ Mediate
  \/ MediatorFails
  \/ Conclude
  \/ Fill
  \/ FillFails
  \/ Deliver

Next ==
  \/ \E a \in Agents : Call(a)
  \/ Judge
  \/ Finished

Spec == Init /\ [][Next]_vars
-----------------------------------------------------------------------------
(* Properties *)

\* The votes that are counted: everybody's of round 1 and, once the mediator
\* has decided, those of whom it called again.
Votes == (Agents \X {1}) \cup (recalled \X {2})

\* "If an agent LLM/tool call fails, the benchmark/runtime should show the
\* failure rather than inventing an opinion" (committee.py:515): nothing is
\* mediated or decided on the votes of half a round, whichever call failed, on
\* whichever thread and however late.
VotesAreComplete ==
  phase \notin {"round1", "round2", "failed"} => DOMAIN said = Votes

\* Whom the mediator calls again has, in round 1, voted with enough confidence
\* on a subject on which another agent voted for another direction; a model
\* that names anyone else is not followed.
RecallJustified ==
  \A a \in recalled :
    LET mine == said[<<a, 1>>]
    IN  /\ mine.confidence >= RecallConfidence
        /\ \E b \in Agents \ {a} :
             LET theirs == said[<<b, 1>>]
             IN  /\ mine.subjects \cap theirs.subjects # {}
                 /\ Sign(mine.magnitude) # Sign(theirs.magnitude)

\* What is executed is what compliance AFTER has checked, or less of it:
\* balancing and rounding the trades again adds no trade, turns none around
\* and enlarges none.
FinalWithinChecked ==
  \A x \in DOMAIN final.trades :
    /\ x \in DOMAIN checked
    /\ Sign(final.trades[x]) = Sign(checked[x])
    /\ Abs(final.trades[x]) <= Abs(checked[x])

\* Trades are rounded to tenths after they have been balanced, one by one, and
\* those that come to nothing are dropped (final.py:160): what is executed is
\* off cash neutrality by at most half a tenth for each trade that was checked.
NearlyNeutral ==
  2 * Abs(Bought(final.trades) - Sold(final.trades)) <= Cardinality(DOMAIN checked)

\* A veto of compliance AFTER stands, however the votes went and whichever
\* plan could resolve a conflict: nothing is executed and the user is asked.
VetoStands ==
  phase \in {"explanation", "decided", "delivered"} /\ ~CanProceed(checked) =>
    /\ final.trades = NoTrades
    /\ final.decision = "USER_DECISION_REQUIRED"

-----------------------------------------------------------------------------
(* What the code says of itself and does not keep *)

\* committee.py:685 - a BLOCKING of compliance is never got around: what is
\* executed without asking the user would pass the check.
FinalTradesComply ==
  final.trades # NoTrades => CanProceed(final.trades)

\* graph.py:355 - the user confirms the final decision before it is applied:
\* the plan the request for approval shows is the one that was decided.
ApprovalShowsDecision ==
  phase = "delivered" /\ outcome.needs /\ outcome.trades # NoTrades =>
    /\ DOMAIN outcome.shown = DOMAIN outcome.trades
    /\ \A x \in DOMAIN outcome.shown : outcome.shown[x] = 10 * outcome.trades[x]
=============================================================================
