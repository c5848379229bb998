----------------------------- MODULE MCDecision -----------------------------
(***************************************************************************)
(* Instance of Committee and ExecutionPolicy for TLC. A behaviour is a     *)
(* deliberation, given any draft and valid plan of its instance, or the    *)
(* making of a draft and its plan; the other does not begin.               *)
(***************************************************************************)
EXTENDS MCCommittee, MCExecutionPolicy

VARIABLE part
decisionVars == <<part, vars, planVars>>

NoDeliberation == Init /\ plan = NoPlan

NoPlanning == PlanInit /\ portfolio \in FiveSignals /\ taxAware = FALSE

DecisionInit ==
  \/ part = "committee" /\ Init /\ NoPlanning
  \/ part = "policy" /\ PlanInit /\ NoDeliberation

DecisionNext ==
  \/ part = "committee" /\ Next /\ UNCHANGED <<part, planVars>>
  \/ part = "policy" /\ PlanNext /\ UNCHANGED <<part, vars>>

DecisionSpec == DecisionInit /\ [][DecisionNext]_decisionVars
=============================================================================
