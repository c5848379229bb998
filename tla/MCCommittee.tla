---------------------------- MODULE MCCommittee ----------------------------
(***************************************************************************)
(* Instances of Committee for TLC: three tickers, and what the agents may  *)
(* say of them.                                                            *)
(***************************************************************************)
EXTENDS Committee, TLC

Says(subjects, magnitude, confidence) ==
  [subjects |-> subjects, magnitude |-> magnitude, confidence |-> confidence,
   informational |-> FALSE]

Silent == Says({}, 0, 0)

MCSubjects == {"A", "B", "C", "D", "PORTFOLIO"}

\* Agreement on three buys and a sell, dissent on a ticker and on the
\* portfolio, a HOLD and silence.
AllOpinions ==
  {Says({"A", "B", "D"}, 10, 8), Says({"C"}, -10, 8), Says({"A"}, -30, 7),
   Says({"A", "C"}, 0, 6), Says({"PORTFOLIO"}, 50, 6),
   Says({"PORTFOLIO"}, -50, 6), Silent}

\* Only the portfolio as a whole is in dispute.
PortfolioOpinions == {Says({"PORTFOLIO"}, 50, 6), Says({"PORTFOLIO"}, -50, 6)}

\* Three tickers bought for one sold.
FundingOpinions == {Says({"A", "B", "D"}, 10, 8), Says({"C"}, -10, 8)}

NoPlan == NoTrades
OnlyNoPlan == {NoPlan}

\* Drafts in hundredths of a percentage point: none, balanced, one-sided, with
\* legs that do not divide evenly.
AllPlans == {NoPlan, [x \in {"A", "C"} |-> IF x = "A" THEN 150 ELSE -300],
             [x \in {"A"} |-> 500]}
UnevenPlans == {[x \in {"A", "B", "C", "D"} |-> IF x = "C" THEN -200 ELSE 100]}

\* Valid plans of the execution policy; the sides of the first have come apart
\* by a residual that was dropped.
AllExecutionPlans ==
  {[x \in {"A", "C"} |-> IF x = "A" THEN 20 ELSE -19],
   [x \in {"A", "C"} |-> IF x = "A" THEN 10 ELSE -10]}

NoExecutionPlans == {}

ServiceWorkers == <<2, 1>>

Holdings == [x \in {"A", "B", "C"} |-> IF x = "C" THEN 310 ELSE 300]
Concentrated == [x \in {"C"} |-> 310]
Sectors == [x \in {"A", "B"} |-> "tech"]
NoSectors == [x \in {} |-> "none"]

Symmetry == Permutations(Agents)
=============================================================================
