------------------------ MODULE MCExecutionPolicy ------------------------
(***************************************************************************)
(* Instances of ExecutionPolicy for TLC: portfolios of four or five        *)
(* tickers, off their target in every way that makes a difference.         *)
(***************************************************************************)
EXTENDS ExecutionPolicy

Tickers == {"A", "B", "C", "D"}

Quarter == [x \in Tickers |-> 2500]

\* Out of the band, in it, and too little to trade, on either side; the rest
\* of the whole is cash, little of it or much.
Offsets == {-350, -205, -31, -9, 9, 40, 260}

DriftedWeights ==
  {[x \in Tickers |-> 2500 + off[x]] :
     off \in {o \in [Tickers -> Offsets] :
                SumFunction(o) \in (-60)..0 \cup (-800)..(-690)}}

Returns == {[x \in Tickers |-> IF x \in gains THEN "gain" ELSE "loss"] :
              gains \in SUBSET Tickers}

NoSignals == [x \in Tickers |-> 0]

\* One that is sold too little of, when sales are scaled to a capped purchase.
Squeezed == [Tickers -> {-350, 11, 70, 260}]

SqueezedWeights ==
  {[x \in Tickers |-> 2500 + off[x]] : off \in {o \in Squeezed : SumFunction(o) \in (-60)..0}}

\* A gain whose sale two losses take over but for too little to trade.
TakenOver ==
  [x \in Tickers |-> 2500 + CASE x = "A" -> 260 [] x = "B" -> 130
                             [] x = "C" -> 125 [] x = "D" -> -525]

WithDefinition ==
  [weight : DriftedWeights \cup SqueezedWeights \cup {TakenOver}, target : {Quarter}, pnl : Returns, trigger : {{}},
   signals : {NoSignals}, returns : {NoTrades}]

\* Without a definition, with and without an event, and with few signals.
Events == {[ticker |-> x, risk |-> r] : x \in {"A", "C", "E"}, r \in BOOLEAN}

WithoutDefinition ==
  [weight : {[x \in Tickers |-> IF x = "A" THEN 4000 ELSE 1800]},
   target : {NoTrades}, pnl : {[x \in Tickers |-> IF x = "B" THEN "loss" ELSE "gain"]},
   trigger : {{}} \cup {{e} : e \in Events},
   signals : [Tickers -> {-30, 9, 12, 36}],
   returns : {NoTrades, [x \in {"A", "B"} |-> IF x = "A" THEN -40 ELSE 40]}]

\* The largest tilt is too small once the residual of the small ones is taken
\* from it.
FiveSignals ==
  [weight : {[x \in {"A", "B", "C", "D", "E"} |-> 2000]},
   target : {NoTrades}, pnl : {[x \in {"A", "B", "C", "D", "E"} |-> "gain"]},
   trigger : {{}},
   signals : {[x \in {"A", "B", "C", "D", "E"} |->
                 CASE x = "A" -> 34 [] x = "B" -> 32 [] x = "C" -> 17
                   [] x \in {"D", "E"} -> 21]},
   returns : {NoTrades}]

AllPortfolios == WithDefinition \cup WithoutDefinition \cup FiveSignals

AllModes == {"DELTA_ONLY", "RISK_TRIM_AND_REDISTRIBUTE", "PARTIAL_POLICY_TARGET",
             "CASH_RAISE"}

=============================================================================
