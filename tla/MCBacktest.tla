------------------------------ MODULE MCBacktest ------------------------------
(* Instance of Replay and StrategyEvaluation for TLC.                          *)
EXTENDS StrategyEvaluation
CONSTANTS p, q, f, g

MCSettings ==
  {[priced |-> {1, 2, 4}, frequency |-> "daily", interval |-> 1, goOn |-> TRUE],
   [priced |-> {1, 2, 3, 4}, frequency |-> "every-n-trading-days", interval |-> 2, goOn |-> FALSE],
   [priced |-> {1, 2, 3, 4}, frequency |-> "weekly", interval |-> 1, goOn |-> FALSE]}

MCWeekOf == [d \in 1..5 |-> IF d < 4 THEN d ELSE 3]
MCMonthOf == [d \in 1..5 |-> IF d < 3 THEN 2 ELSE 3]
MCPlans == {p, q}
MCFiles == {f, g}

\* A rebalance that is not the draft, and a question about the draft.
MCOutcomes ==
  {[decision |-> "REBALANCE", plan |-> p, draft |-> q],
   [decision |-> "USER_DECISION_REQUIRED", plan |-> NoPlan, draft |-> q]}

\* A fresh replay, one that resumes in place, and one that resumes into a
\* second file, which then holds the tail of the days only.
MCCommands ==
  {[resume |-> NoFile, out |-> f, append |-> FALSE],
   [resume |-> f, out |-> f, append |-> FALSE],
   [resume |-> f, out |-> g, append |-> FALSE]}

Strategy(kind, delay, lag, trim, triggers) ==
  [kind |-> kind, delay |-> delay, lag |-> lag, trim |-> trim, triggers |-> triggers]

MCStrategies ==
  {Strategy(kind, 0, 0, FALSE, {}) :
     kind \in {"hold", "monthly", "quarterly", "threshold", "immediate"}}
  \cup {Strategy("execution_only", 0, 0, FALSE, {"REBALANCE"}),
        Strategy("execution_only", 0, 0, TRUE, {"REBALANCE", "USER_DECISION_REQUIRED"}),
        Strategy("placebo", 0, 0, FALSE, {"REBALANCE"})}
  \cup {Strategy("delayed_execution", n, 0, FALSE, {}) : n \in {0, 1}}
  \cup {Strategy("confirmation_gate", n, lag, FALSE, {}) : n \in {1, 2}, lag \in {0, 1}}
=============================================================================
