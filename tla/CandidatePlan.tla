--------------------------- MODULE CandidatePlan ---------------------------
(***************************************************************************)
(* The draft a committee deliberates on (run_v1_committee, from drift, a   *)
(* push trigger or signals).                                               *)
(*                                                                         *)
(* Weights are hundredths of a percentage point of the portfolio. A draft  *)
(* gives tickers a delta in 1 / unit of that, since a mean does not come   *)
(* in hundredths; the code's six decimals are as good as exact. What the   *)
(* order of the holdings decides (who of two equals comes first) may go    *)
(* either way here.                                                        *)
(***************************************************************************)
EXTENDS FinalJudge

CONSTANT DriftThreshold  \* of the portfolio definition

ASSUME CandidatePlanAssumption == DriftThreshold \in Nat \ {0}

NoDeltas == [delta |-> NoTrades, unit |-> 1]

At(f, x) == IF x \in DOMAIN f THEN f[x] ELSE 0

\* What separates the portfolio from its target, for what is in either.
Gaps(weight, target) ==
  [x \in DOMAIN weight \cup DOMAIN target |-> At(target, x) - At(weight, x)]

\* Whatever is out of its band is drafted back to its target.
FromDrift(weight, target) ==
  LET gap == Gaps(weight, target)
  IN  [delta |-> Restrict(gap, {x \in DOMAIN gap : Abs(gap[x]) >= DriftThreshold}),
       unit |-> 1]

\* The n largest holdings of a set.
Largest(weight, held, n) ==
  {largest \in SUBSET held :
     /\ Cardinality(largest) = IF Cardinality(held) < n THEN Cardinality(held)
                                                        ELSE n
     /\ \A x \in largest, y \in held \ largest : weight[x] >= weight[y]}

\* Bad news of a holding reduces it and the two largest others; other news is a
\* reason to buy.
FromTrigger(weight, trigger) ==
  LET x == trigger.ticker
  IN  IF x \notin DOMAIN weight THEN {NoDeltas}
      ELSE IF ~trigger.risk THEN {[delta |-> [y \in {x} |-> 500], unit |-> 1]}
      ELSE {[delta |-> [y \in {x} \cup others |-> IF y = x THEN -1000 ELSE -500],
             unit |-> 1] :
              others \in Largest(weight, DOMAIN weight \ {x}, 2)}

\* Signals in hundredths. With fewer than two strong ones those of the holdings'
\* own returns, which are there already, fill in.
Active(signals, returns) ==
  LET strong(f) == {x \in DOMAIN f : Abs(f[x]) >= 10}
      own == strong(signals)
  IN  IF Cardinality(own) >= 2 THEN Restrict(signals, own)
      ELSE [x \in own \cup strong(returns) |->
              IF x \in own THEN signals[x] ELSE returns[x]]

\* The smallest delta of a draft from signals: half a percentage point.
MinTilt == 50

\* Mutation: the residual of the dropped deltas is left.
UnsettledTilts(tilt, n) == {tilt}

\* The largest tilts, up or down.
Anchors(tilt) ==
  {x \in DOMAIN tilt : \A y \in DOMAIN tilt : Abs(tilt[x]) >= Abs(tilt[y])}

\* What the deltas do not sum to 0 by is taken from a largest one, which is
\* dropped where that makes it too small.
Settled(tilt, n) ==
  LET residual == Bought(tilt) - Sold(tilt)
      kept == DOMAIN tilt
      settle(anchor) ==
        [x \in kept |-> IF x = anchor THEN tilt[x] - residual ELSE tilt[x]]
  IN  IF residual = 0 THEN {tilt}
      ELSE {Restrict(settle(x), {y \in kept : y # x
                                   \/ Abs(settle(x)[y]) >= MinTilt * n}) :
              x \in Anchors(tilt)}

\* A tilt of 0.08 towards the signals above their mean, in 1/n hundredths,
\* where that is not too small.
Tilts(active) ==
  LET n == Cardinality(DOMAIN active)
      total == SumFunction(active)
      tilt == [x \in DOMAIN active |-> 8 * (n * active[x] - total)]
  IN  Restrict(tilt, {x \in DOMAIN tilt : Abs(tilt[x]) >= MinTilt * n})

FromSignals(signals, returns) ==
  LET active == Active(signals, returns)
      n == Cardinality(DOMAIN active)
  IN  IF n < 2 THEN {NoDeltas}
      ELSE {[delta |-> f, unit |-> n] : f \in Settled(Tilts(active), n)}

IsEmpty(deltas) == DOMAIN deltas.delta = {}

\* Drift first, where there is a portfolio definition; then, for a push, the
\* event; then signals. trigger is {} or holds an event.
CandidatePlans(weight, target, trigger, signals, returns) ==
  LET drift == IF target = NoTrades THEN NoDeltas ELSE FromDrift(weight, target)
      pushed == UNION {FromTrigger(weight, event) : event \in trigger}
  IN  IF ~IsEmpty(drift) THEN {drift}
      ELSE IF \E plan \in pushed : ~IsEmpty(plan) THEN pushed
      ELSE FromSignals(signals, returns)
=============================================================================
