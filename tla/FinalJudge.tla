----------------------------- MODULE FinalJudge -----------------------------
(***************************************************************************)
(* From a consensus to trades and a decision (libra/judge/final.py).       *)
(*                                                                         *)
(* Trades are a function from subjects to a delta in tenths of a           *)
(* percentage point, never 0. Every delta is rounded to a tenth; between   *)
(* two equally near tenths a float may land on either, so the operators    *)
(* that round return the set of possible results.                          *)
(***************************************************************************)
EXTENDS Consensus

CONSTANT MaxLeg  \* the cap on one leg of a candidate plan, in hundredths

ASSUME FinalJudgeAssumption == MaxLeg \in Nat

NoTrades == [subject \in {} |-> 0]

\* Deltas of finitely many subjects.
IsDeltas(f) == IsFiniteSet(DOMAIN f) /\ \A x \in DOMAIN f : f[x] \in Int

\* The integers nearest to n / d, for d > 0.
Rounded(n, d) == {k \in {n \div d, n \div d + 1} : 2 * Abs(k * d - n) <= d}

\* One result per subject out of options[subject]; what rounds to 0 is below
\* the smallest executable delta and is dropped.
Executable(options) ==
  LET choices == {f \in [DOMAIN options ->
                           UNION {options[x] : x \in DOMAIN options}] :
                    \A x \in DOMAIN f : f[x] \in options[x]}
  IN  {Restrict(f, {x \in DOMAIN f : f[x] # 0}) : f \in choices}

\* What is bought and sold, in the unit of the deltas.
Bought(trades) ==
  SumFunctionOnSet(trades, {x \in DOMAIN trades : trades[x] > 0})
Sold(trades) ==
  -SumFunctionOnSet(trades, {x \in DOMAIN trades : trades[x] < 0})

\* Both sides scaled to the smaller one; the deltas come in units of 1/unit
\* tenths. Nothing to execute while one side is missing.
Balanced(trades, unit) ==
  LET buys == Bought(trades)
      sells == Sold(trades)
      total == IF buys < sells THEN buys ELSE sells
  IN  IF total = 0 THEN {NoTrades}
      ELSE Executable([x \in DOMAIN trades |->
             Rounded(trades[x] * total,
                     unit * (IF trades[x] > 0 THEN buys ELSE sells))])

\* Mutation: nothing is scaled.
Unbalanced(trades) == {Restrict(trades, {x \in DOMAIN trades : trades[x] # 0})}

CashNeutralTrades(trades) == Balanced(trades, 1)

\* The confidence-weighted mean of the directional votes, halved for a weak
\* consensus.
TradeConsensus(opinions, subject, conservative) ==
  LET voters == {o \in Voters(opinions, subject) : opinions[o].magnitude # 0}
      weight == Weight(opinions, voters)
      total == SumFunction(
                 [o \in voters |-> opinions[o].magnitude * opinions[o].confidence])
  IN  IF weight = 0 THEN {0}
      ELSE Rounded(total, IF conservative THEN 2 * weight ELSE weight)

TentativeTrades(opinions, consensus) ==
  LET agreed == {x \in DOMAIN consensus \ {"PORTFOLIO"} :
                   consensus[x] \in {"strong_consensus", "weak_consensus"}}
  IN  Executable([x \in agreed |->
        TradeConsensus(opinions, x, consensus[x] = "weak_consensus")])

\* A plan's deltas are hundredths of a percentage point: too small a leg is
\* left out, too large a one is capped, and both sides are balanced.
CandidatePlanToTrades(plan) ==
  LET legs == {x \in DOMAIN plan : Abs(plan[x]) >= 10}
      cap(n) == IF n > MaxLeg THEN MaxLeg ELSE IF n < -MaxLeg THEN -MaxLeg ELSE n
  IN  Balanced([x \in legs |-> cap(plan[x])], 10)

CanAutoResolveConflict(consensus, trades, tickers) ==
  /\ trades # NoTrades
  /\ \/ Conflicts(consensus) = {"PORTFOLIO"}
     \/ /\ tickers
        /\ Conflicts(consensus) # {}
        /\ Conflicts(consensus) \subseteq DOMAIN trades \cup {"PORTFOLIO"}

\* The rules of determine_branch, the first that applies.
DetermineBranch(consensus, canProceed) ==
  LET branches == {consensus[x] : x \in DOMAIN consensus}
  IN  CASE ~canProceed -> "COMPLIANCE_VETO"
        [] canProceed /\ "conflict" \in branches -> "STRONG_CONFLICT"
        [] canProceed /\ "conflict" \notin branches
             /\ "weak_consensus" \in branches -> "WEAK_CONSERVATIVE"
        [] canProceed /\ branches = {"strong_hold"} -> "HOLD"
        [] canProceed /\ branches = {} -> "NO_CONSENSUS"
        [] OTHER -> "CONSENSUS"

\* NO_CONSENSUS is the code's STRONG_CONFLICT that comes with a DEFER.
DecisionOf(branch) ==
  CASE branch \in {"COMPLIANCE_VETO", "STRONG_CONFLICT"} ->
         "USER_DECISION_REQUIRED"
    [] branch = "HOLD" -> "HOLD"
    [] branch \in {"NO_CONSENSUS", "NO_EXECUTABLE_TRADE"} -> "DEFER"
    [] OTHER -> "REBALANCE"

\* Mutation: a conflict is resolved whatever compliance says.
ResolvedUnchecked(consensus, canProceed, trades, tickers) ==
  LET branch == DetermineBranch(consensus, canProceed)
  IN  IF /\ branch \in {"STRONG_CONFLICT", "COMPLIANCE_VETO"}
         /\ CanAutoResolveConflict(consensus, trades, tickers)
        THEN "CONFLICT_RESOLUTION"
      ELSE IF DecisionOf(branch) = "REBALANCE" /\ trades = NoTrades
        THEN "NO_EXECUTABLE_TRADE"
      ELSE branch

\* A conflict the trades resolve is no longer the user's; a decision to
\* rebalance without a trade is put off.
Resolved(consensus, canProceed, trades, tickers) ==
  LET branch == DetermineBranch(consensus, canProceed)
  IN  IF /\ branch = "STRONG_CONFLICT"
         /\ CanAutoResolveConflict(consensus, trades, tickers)
        THEN "CONFLICT_RESOLUTION"
      ELSE IF DecisionOf(branch) = "REBALANCE" /\ trades = NoTrades
        THEN "NO_EXECUTABLE_TRADE"
      ELSE branch

\* The decision with the trades it executes; asks tells whether it has a
\* question for the user.
Rendered(branch, trades) ==
  [branch   |-> branch,
   decision |-> DecisionOf(branch),
   trades   |-> IF DecisionOf(branch) = "REBALANCE" THEN trades ELSE NoTrades,
   asks     |-> branch \in {"COMPLIANCE_VETO", "STRONG_CONFLICT", "NO_CONSENSUS"}]

\* The trades of a decision are balanced once more; tentative are those that
\* compliance has checked. Without any the code computes them from the votes
\* again, with the same empty result.
RenderFinalDecision(consensus, canProceed, tentative, tickers) ==
  {Rendered(Resolved(consensus, canProceed, trades, tickers), trades) :
     trades \in CashNeutralTrades(tentative)}
=============================================================================
