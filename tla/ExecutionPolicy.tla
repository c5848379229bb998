-------------------------- MODULE ExecutionPolicy --------------------------
(***************************************************************************)
(* How a draft becomes the trades of an execution plan                     *)
(* (libra/execution_policy.py): made cash neutral, with the missing side   *)
(* of a one-sided plan added, then with sales moved from holdings with a   *)
(* gain to holdings with a loss, then rounded. Deltas are those of         *)
(* CandidatePlan: exact numbers over a common unit.                        *)
(***************************************************************************)
EXTENDS CandidatePlan, SequencesExt

CONSTANTS
  Portfolios,  \* what is held, targeted and known of the holdings
  Modes,       \* LIBRA_EXECUTION_POLICY_MODE
  Rates,       \* participation rates, in halves
  Caps,        \* on a delta, in hundredths; 10000 is no cap
  TaxSettings  \* LIBRA_EXECUTION_TAX_AWARE

ASSUME ExecutionPolicyAssumption ==
  /\ Modes \subseteq {"DELTA_ONLY", "RISK_TRIM_AND_REDISTRIBUTE", "POLICY_TARGET",
                      "PARTIAL_POLICY_TARGET", "CASH_RAISE", "USER_HANDOFF"}
  /\ Rates \subseteq 0..2 /\ Caps \subseteq Nat /\ TaxSettings \subseteq BOOLEAN
  /\ \A p \in Portfolios : /\ IsDeltas(p.weight) /\ IsDeltas(p.target)
                           /\ IsDeltas(p.signals) /\ IsDeltas(p.returns)

\* Targets add up to the whole, of which the holdings are shares.
ASSUME WholeAssumption ==
  \A p \in Portfolios :
    p.target # NoTrades => SumFunction(p.weight) <= SumFunction(p.target)

VARIABLES
  portfolio,
  taxAware,
  stage,   \* "start", "drafted", "neutral", "taxed", "done"
  draft,   \* the candidate plan
  deltas,  \* the deltas of the execution plan
  trades   \* of a valid plan, in tenths of a percentage point

planVars == <<portfolio, taxAware, stage, draft, deltas, trades>>

\* The smallest delta that is executed: a tenth of a percentage point.
MinDelta == 10

PlanInit ==
  /\ portfolio \in Portfolios
  /\ taxAware \in TaxSettings
  /\ stage = "start"
  /\ draft = NoDeltas
  /\ deltas = NoDeltas
  /\ trades = NoTrades

-----------------------------------------------------------------------------
(* Cash neutrality *)

CapAndFilter(plan, cap) ==
  LET capped(n) == IF n > cap * plan.unit THEN cap * plan.unit
                   ELSE IF n < -cap * plan.unit THEN -cap * plan.unit ELSE n
      delta == [x \in DOMAIN plan.delta |-> capped(plan.delta[x])]
  IN  [plan EXCEPT !.delta =
         Restrict(delta, {x \in DOMAIN delta : Abs(delta[x]) >= MinDelta * plan.unit})]

\* The larger side is scaled down to the smaller one.
Scaled(plan) ==
  LET buys == Bought(plan.delta)
      sells == Sold(plan.delta)
      less == IF buys < sells THEN buys ELSE sells
      more == IF buys < sells THEN sells ELSE buys
      side(x) == IF plan.delta[x] > 0 THEN buys ELSE sells
  IN  [delta |-> [x \in DOMAIN plan.delta |->
                    plan.delta[x] * IF side(x) = less THEN more ELSE less],
       unit |-> plan.unit * more]

\* Mutation: what is short of its target gets equal shares.
RepairOneSidedSellEvenly(plan) ==
  LET gap == Gaps(portfolio.weight, portfolio.target)
      eligible == {x \in DOMAIN gap \ DOMAIN plan.delta : gap[x] >= MinDelta}
      total == Cardinality(eligible)
  IN  IF total = 0 THEN NoDeltas
      ELSE [delta |-> [x \in DOMAIN plan.delta \cup eligible |->
                         IF x \in eligible THEN Sold(plan.delta)
                                           ELSE plan.delta[x] * total],
            unit |-> plan.unit * total]

\* The proceeds buy what is short of its target, in proportion to how short.
RepairOneSidedSell(plan) ==
  LET gap == Gaps(portfolio.weight, portfolio.target)
      eligible == {x \in DOMAIN gap \ DOMAIN plan.delta : gap[x] >= MinDelta}
      total == SumFunctionOnSet(gap, eligible)
  IN  IF total = 0 THEN NoDeltas
      ELSE [delta |-> [x \in DOMAIN plan.delta \cup eligible |->
                         IF x \in eligible THEN Sold(plan.delta) * gap[x]
                                           ELSE plan.delta[x] * total],
            unit |-> plan.unit * total]

CashNeutralizeDeltas(plan, cap) ==
  LET raw == CapAndFilter(plan, cap)
      buys == Bought(raw.delta)
      sells == Sold(raw.delta)
  IN  IF buys > 0 /\ sells > 0 THEN Scaled(raw)
      ELSE IF sells > 0 THEN RepairOneSidedSell(raw)
      ELSE NoDeltas

\* The deltas a mode starts from.
SellsOnly(plan) ==
  [plan EXCEPT !.delta = Restrict(@, {x \in DOMAIN @ : @[x] < 0})]

TargetDiff(rate) ==
  LET gap == Gaps(portfolio.weight, portfolio.target)
  IN  [delta |-> [x \in DOMAIN gap |-> gap[x] * rate], unit |-> 2]

\* Cash raising and hand-off have no plan, nor has a target mode without target.
Planned(mode, rate, cap) ==
  CASE mode = "DELTA_ONLY" -> CashNeutralizeDeltas(draft, cap)
    [] mode = "RISK_TRIM_AND_REDISTRIBUTE" ->
         CashNeutralizeDeltas(SellsOnly(draft), cap)
    [] mode \in {"POLICY_TARGET", "PARTIAL_POLICY_TARGET"} ->
         IF portfolio.target = NoTrades THEN NoDeltas
         ELSE CashNeutralizeDeltas(TargetDiff(rate), cap)
    [] OTHER -> NoDeltas

-----------------------------------------------------------------------------
(* Sales of losses before sales of gains *)

Has(pnl) == {x \in DOMAIN portfolio.weight : portfolio.pnl[x] = pnl}

Overweight(x) == portfolio.weight[x] - At(portfolio.target, x)

LossCandidates == {x \in Has("loss") : Overweight(x) > MinDelta}

GainSells == {x \in DOMAIN deltas.delta \cap Has("gain") :
                deltas.delta[x] < -MinDelta * deltas.unit}

Sale(f, x) == IF At(f, x) < 0 THEN -At(f, x) ELSE 0

\* What may be sold of a holding until it is at its target.
Capacity(f, x) ==
  LET left == Overweight(x) * deltas.unit - Sale(f, x)
  IN  IF left > 0 THEN left ELSE 0

\* The sale of gain goes, as far as it can, to one loss. left is what is left
\* of it; less than the smallest delta is neither moved nor worth moving.
Shift(acc, gain, loss) ==
  LET min == MinDelta * deltas.unit
      capacity == Capacity(acc.delta, loss)
      shift == IF acc.left < capacity THEN acc.left ELSE capacity
  IN  IF acc.left <= min \/ shift < min THEN acc
      ELSE [delta |-> [x \in DOMAIN acc.delta \cup {loss} |->
                         IF x = gain THEN acc.delta[x] + shift
                         ELSE IF x = loss THEN At(acc.delta, x) - shift
                         ELSE acc.delta[x]],
            left |-> acc.left - shift]

\* Mutation: each gain stops at the first loss.
ShiftToFirst(f, gains, losses) ==
  FoldLeft(LAMBDA g, gain :
             IF losses = <<>> THEN g
             ELSE Shift([delta |-> g, left |-> Sale(g, gain)], gain, losses[1]).delta,
           f, gains)

\* A gain is offered to every loss.
ShiftOne(f, gain, losses) ==
  LET upTo[n \in 0..Len(losses)] ==
        IF n = 0 THEN [delta |-> f, left |-> Sale(f, gain)]
                 ELSE Shift(upTo[n - 1], gain, losses[n])
  IN  upTo[Len(losses)].delta

ShiftAll(f, gains, losses) ==
  LET upTo[n \in 0..Len(gains)] ==
        IF n = 0 THEN f ELSE ShiftOne(upTo[n - 1], gains[n], losses)
  IN  upTo[Len(gains)]

\* Losses come in the order of the holdings, gains in that of the plan. What a
\* shift has left too small is dropped, if there was any.
PreferLossSellsOverGainSells(gains, losses) ==
  LET shifted == ShiftAll(deltas.delta, gains, losses)
  IN  IF shifted = deltas.delta THEN deltas
      ELSE [deltas EXCEPT !.delta =
              Restrict(shifted, {x \in DOMAIN shifted :
                                   Abs(shifted[x]) >= MinDelta * deltas.unit})]

-----------------------------------------------------------------------------
(* The steps of build_execution_plan *)

Draft ==
  /\ stage = "start"
  /\ stage' = "drafted"
  /\ draft' \in CandidatePlans(portfolio.weight, portfolio.target,
                               portfolio.trigger, portfolio.signals,
                               portfolio.returns)
  /\ UNCHANGED <<portfolio, taxAware, deltas, trades>>

\* Without a draft there is no plan.
Neutralize ==
  /\ stage = "drafted"
  /\ ~IsEmpty(draft)
  /\ stage' = "neutral"
  /\ \E mode \in Modes, rate \in Rates, cap \in Caps :
       deltas' = Planned(mode, rate, cap)
  /\ UNCHANGED <<portfolio, taxAware, draft, trades>>

PreferLosses ==
  /\ stage = "neutral"
  /\ stage' = "taxed"
  /\ \/ /\ taxAware
        /\ \E gains \in SetToSeqs(GainSells), losses \in SetToSeqs(LossCandidates) :
             deltas' = PreferLossSellsOverGainSells(gains, losses)
     \/ ~taxAware /\ UNCHANGED deltas
  /\ UNCHANGED <<portfolio, taxAware, draft, trades>>

\* A plan without trades is invalid and goes no further.
DeltasToTrades ==
  /\ stage = "taxed"
  /\ stage' = "done"
  /\ trades' \in Executable([x \in DOMAIN deltas.delta |->
                               Rounded(deltas.delta[x], 10 * deltas.unit)])
  /\ UNCHANGED <<portfolio, taxAware, draft, deltas>>

PlanFinished ==
  /\ \/ stage = "done"
     \/ stage = "drafted" /\ IsEmpty(draft)
  /\ UNCHANGED planVars

PlanNext == Draft \/ Neutralize \/ PreferLosses \/ DeltasToTrades \/ PlanFinished

PlanSpec == PlanInit /\ [][PlanNext]_planVars
-----------------------------------------------------------------------------
(* Properties *)

TotalOf(f) == Bought(f) - Sold(f)

Drift == FromDrift(portfolio.weight, portfolio.target)

\* The draft comes from drift; from signals.
Drifted == portfolio.target # NoTrades /\ ~IsEmpty(Drift)
Tilted == portfolio.target = NoTrades /\ portfolio.trigger = {}

\* What the plan might have traded and does not.
Untouched ==
  (DOMAIN Gaps(portfolio.weight, portfolio.target) \cup DOMAIN draft.delta)
    \ DOMAIN deltas.delta

\* What the draft from signals could hold.
Leanings == Tilts(Active(portfolio.signals, portfolio.returns))

\* What a plan buys is what it sells, whichever side had to be scaled or added,
\* and a draft from signals, although its small deltas are left out. Two steps
\* drop a delta they have made too small, and nothing else lets the sides come
\* apart: the draft drops one of its largest tilts, and is off by less than its
\* smallest delta; moving sales to losses is off by no more than the smallest
\* deltas of what it leaves. TaxStepNeutral and DraftNeutral are what the code
\* says of these two.
CashNeutral ==
  /\ stage = "neutral" => TotalOf(deltas.delta) = 0
  /\ stage = "taxed" /\ TotalOf(deltas.delta) # 0 =>
       /\ taxAware /\ LossCandidates # {} /\ Has("gain") # {}
       /\ Abs(TotalOf(deltas.delta)) <= MinDelta * deltas.unit * Cardinality(Untouched)
  /\ Tilted /\ TotalOf(draft.delta) # 0 =>
       /\ \E x \in Anchors(Leanings) : DOMAIN draft.delta = DOMAIN Leanings \ {x}
       /\ Abs(TotalOf(draft.delta)) < MinTilt * draft.unit

\* What is short of its target by too little to trade.
SmallGaps ==
  LET gap == Gaps(portfolio.weight, portfolio.target)
  IN  SumFunctionOnSet(gap, {x \in DOMAIN gap : gap[x] \in 1..(MinDelta - 1)})

\* A plan that starts from drift never takes a holding away from its target nor
\* past it, by whatever way its sales and purchases were found. The proceeds of
\* a trim may be more than the gaps worth trading, by at most the others, and a
\* trade is off its delta by at most half a tenth.
TradesApproachTarget ==
  stage = "done" /\ Drifted =>
    LET gap == Gaps(portfolio.weight, portfolio.target)
    IN  \A x \in DOMAIN trades :
          /\ Sign(trades[x]) = Sign(gap[x])
          /\ 10 * Abs(trades[x]) <= Abs(gap[x]) + SmallGaps + 5

\* With tax awareness no gain is still sold while a loss above its target could
\* be, whichever was looked at first. Only a loss that is not sold at all may
\* have up to twice the smallest delta left, when its own sale was too small.
LossesFirst ==
  stage = "taxed" /\ Drifted /\ taxAware =>
    \A gain \in GainSells, loss \in LossCandidates :
      Capacity(deltas.delta, loss) <
        (IF loss \in DOMAIN deltas.delta THEN 1 ELSE 2) * MinDelta * deltas.unit

-----------------------------------------------------------------------------
(* What the code says of itself and does not keep *)

\* execution_policy.py:344 - moving sales to losses "keeps the net cash-neutral
\* rebalance amount unchanged".
TaxStepNeutral == stage = "taxed" => TotalOf(deltas.delta) = 0

\* libra_runtime.py:2578 - the residual is taken from a largest delta, which
\* brings the sum of a draft from signals to 0 (cash neutral).
DraftNeutral == Tilted => TotalOf(draft.delta) = 0
=============================================================================
