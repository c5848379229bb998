---------------------------- MODULE DomainAgents ----------------------------
(***************************************************************************)
(* One call of a domain agent by the v1 committee (domain_agents/*.py):    *)
(* the snapshot and the draft become a context, most agents ask the model, *)
(* the verdict follows from the agent's own measures, and the adapter and  *)
(* the committee turn it into votes.  What the model answers is only text, *)
(* except to the sentiment agent.  Confidences are left out: the committee *)
(* silences no domain agent but sentiment, below any confidence it has.    *)
(*                                                                         *)
(* Lots are numbered in the order of the holdings.  Measures are integers: *)
(* deltas, tails and momenta in thousandths or hundredths as named below;  *)
(* Unseen stands for one that is missing.                                  *)
(***************************************************************************)
EXTENDS Integers, FiniteSets, Functions

CONSTANTS
  Lots,         \* the holdings
  Shown,        \* lots a tax signal names at most
  Replies,      \* what a model or an analysis of the news may say of sentiment
  RiskContexts, TaxContexts, MacroContexts, SentimentContexts,
  ExecutionContexts, EsgContexts, LiquidityContexts, TechnicalContexts,
  InfoAgents,   \* agents whose votes only inform
  Unseen

Verdicts == {"approve", "reject", "abstain", "other"}

ASSUME DomainAssumption ==
  /\ Lots \subseteq Nat \ {0} /\ IsFiniteSet(Lots) /\ Shown \in Nat \ {0}
  /\ Replies \subseteq [form : {"json", "null", "words"}, score : -100..100, vote : Verdicts]
  /\ \A r \in Replies : r.form = "words" => r.score = 0
  /\ \A c \in RiskContexts :
       /\ c.held \in BOOLEAN /\ c.deltas \subseteq Int /\ c.tail \in Int \cup {Unseen}
       /\ c.tail # Unseen => c.held
  /\ \A c \in TaxContexts : c.pnl \in [Lots -> Int] /\ c.delta \in [Lots -> Int]
  /\ \A c \in MacroContexts : c.subject \in BOOLEAN /\ c.rate \in BOOLEAN
  /\ \A c \in SentimentContexts : c.analysed \in BOOLEAN
  /\ \A c \in ExecutionContexts : c.order \in [Lots -> Nat] /\ c.priced \subseteq Lots
  /\ \A c \in EsgContexts :
       /\ c.excluded \in BOOLEAN /\ c.target \in 0..100
       /\ c.weight \in [Lots -> 0..100] /\ c.score \in [Lots -> 0..100 \cup {Unseen}]
       /\ c.baseline \in [Lots -> 1..100]
  /\ \A c \in LiquidityContexts :
       /\ c.usage \in [Lots -> Nat \cup {Unseen}] /\ c.spread \in [Lots -> Nat \cup {Unseen}]
       /\ c.float \in [Lots -> Nat \cup {Unseen}]
  /\ TechnicalContexts \subseteq [Lots -> {Unseen} \cup [kind : {"returns"}, return : Int]
         \cup [kind : {"chart"}, ma20 : Int, ma60 : Int, rsi : Int, surge : BOOLEAN]]

VARIABLES
  agent,
  context,
  dstep,    \* idle, called, asked, judged, voted, failed
  reply,    \* what the model said, to the sentiment agent
  verdict,  \* [vote, direction in hundredths, focus]
  votes     \* [subject, direction, informational]
dvars == <<agent, context, dstep, reply, verdict, votes>>

NoReply == [form |-> "words", score |-> 0, vote |-> "abstain"]
NoVerdict == [vote |-> "abstain", direction |-> 0, focus |-> {}]
DInit ==
  /\ \/ agent = "risk" /\ context \in RiskContexts
     \/ agent = "tax" /\ context \in TaxContexts
     \/ agent = "macro" /\ context \in MacroContexts
     \/ agent = "sentiment" /\ context \in SentimentContexts
     \/ agent = "execution" /\ context \in ExecutionContexts
     \/ agent = "esg" /\ context \in EsgContexts
     \/ agent = "liquidity" /\ context \in LiquidityContexts
     \/ agent = "technical" /\ context \in TechnicalContexts
  /\ dstep = "called" /\ reply = NoReply /\ verdict = NoVerdict /\ votes = {}
-----------------------------------------------------------------------------
(* What each agent votes *)

Magnitude(n) == IF n < 0 THEN -n ELSE n
Bounded(n, b) == IF n > b THEN b ELSE IF n < -b THEN -b ELSE n

\* The tail is the fifth percentile of the days' returns, in thousandths; its
\* size counts as a loss whatever its sign.
DeltaTooLarge(c) == \E d \in c.deltas : Magnitude(d) > 100
TailTooLarge(c) == c.tail # Unseen /\ Magnitude(c.tail) > 30
RiskVoteTailFirst(c) ==
  IF TailTooLarge(c) THEN "abstain"
  ELSE IF DeltaTooLarge(c) THEN "reject"
  ELSE IF c.held \/ c.deltas # {} THEN "approve" ELSE "abstain"
RiskVote(c) ==
  IF DeltaTooLarge(c) THEN "reject"
  ELSE IF TailTooLarge(c) THEN "abstain"
  ELSE IF c.held \/ c.deltas # {} THEN "approve" ELSE "abstain"

\* Gains and losses in thousands of KRW.
Losers(c) == {x \in Lots : c.pnl[x] < -100}
SoldLosers(c) == {x \in Losers(c) : c.delta[x] < 0}
SoldGainers(c) == {x \in Lots : c.delta[x] < 0 /\ c.pnl[x] > 100}
TaxVote(c) ==
  IF SoldLosers(c) # {} THEN "approve"
  ELSE IF SoldGainers(c) # {} THEN "reject" ELSE "abstain"
TaxDirectionEven(c) ==
  IF SoldLosers(c) # {} THEN -55 ELSE IF SoldGainers(c) # {} THEN -55 ELSE 0
TaxDirection(c) ==
  IF SoldLosers(c) # {} THEN -55 ELSE IF SoldGainers(c) # {} THEN 35 ELSE 0
FirstOf(S) == {x \in S : Cardinality({y \in S : y < x}) < Shown}
TaxFocus(c) == FirstOf(Losers(c)) \cup FirstOf(SoldLosers(c)) \cup FirstOf(SoldGainers(c))

\* No source ever reports a change of the rate, so the impact is always zero.
MacroVote(c) == IF c.subject \/ c.rate THEN "approve" ELSE "abstain"

\* Fear and greed replace the vote of the reply.
SentimentVote(r) ==
  IF r.score < -30 THEN "abstain"
  ELSE IF r.score > 50 THEN "approve" ELSE r.vote

\* Orders in hundredths of the volume the agent takes a holding to trade in a
\* day, the same for all; the cost in hundredths of a basis point.  Without a
\* price an order has no quantity.
Ordered(c) == {x \in Lots : c.order[x] > 0}
Impact(c) == 20 * SumFunctionOnSet(c.order, c.priced)
ExecutionVote(c) ==
  IF Ordered(c) = {} THEN "abstain"
  ELSE IF Impact(c) > 6000 THEN "reject"
  ELSE IF Impact(c) > 3000 THEN "abstain" ELSE "approve"

\* A score of zero is as good as none: the baseline of the sector stands in for
\* it.  The portfolio's is weighted, in hundredths of a hundredth, and cash scores
\* nothing; a lot of no weight has a score to fall short of the target.
ScoreOf(c, x) == IF c.score[x] \in {Unseen, 0} THEN c.baseline[x] ELSE c.score[x]
EsgScore(c) == SumFunction([x \in Lots |-> c.weight[x] * ScoreOf(c, x)])
BelowTarget(c) == c.target > 40 /\ \E x \in Lots : ScoreOf(c, x) < c.target
EsgVote(c) ==
  IF c.excluded \/ BelowTarget(c) \/ EsgScore(c) < 4000 THEN "reject"
  ELSE IF EsgScore(c) < 100 * c.target THEN "abstain" ELSE "approve"

\* A spread or a free float of zero is one that was not given; the use of the
\* daily volume is zero for a lot of no value.
Given(m) == m # Unseen /\ m > 0
Over(m, bound) == m # Unseen /\ m > bound
Under(m, bound) == Given(m) /\ m < bound
Illiquid(c) ==
  \E x \in Lots : Over(c.usage[x], 10) \/ Over(c.spread[x], 50) \/ Under(c.float[x], 20)
Observed(c) == {x \in Lots : c.usage[x] # Unseen \/ Given(c.spread[x]) \/ Given(c.float[x])}
LiquidityVote(c) ==
  IF Illiquid(c) THEN "reject" ELSE IF Observed(c) = {} THEN "abstain" ELSE "approve"

\* What is known of a lot: its return, or the distances from two averages, the
\* strength index and whether volume surged, each left out by a short history.
Momentum(k) ==
  IF k.kind = "returns" THEN Bounded(k.return, 100)
  ELSE Bounded(k.ma20, 15) + Bounded(k.ma60, 15) + Bounded(k.rsi, 20) + (IF k.surge THEN 4 ELSE 0)
Charted(c) == {x \in Lots : c[x] # Unseen}
Momenta(c) == SumFunction([x \in Charted(c) |-> Momentum(c[x])])
TechnicalVote(c) ==
  IF Charted(c) = {} THEN "abstain"
  ELSE IF Momenta(c) <= -8 * Cardinality(Charted(c)) THEN "reject"
  ELSE IF Momenta(c) >= 8 * Cardinality(Charted(c)) THEN "approve" ELSE "abstain"

VoteOf(a, c) ==
  CASE a = "risk" -> RiskVote(c) [] a = "tax" -> TaxVote(c) [] a = "macro" -> MacroVote(c)
    [] a = "execution" -> ExecutionVote(c) [] a = "esg" -> EsgVote(c)
    [] a = "liquidity" -> LiquidityVote(c) [] a = "technical" -> TechnicalVote(c)
-----------------------------------------------------------------------------
(* The call *)

\* The agents that ask the model before they judge.
Asks ==
  \/ agent \in {"risk", "macro", "execution", "sentiment"}
  \/ agent = "esg" /\ ~context.excluded /\ ~BelowTarget(context)
  \/ agent = "tax" /\ Losers(context) # {}
       /\ (SoldGainers(context) # {} => SoldLosers(context) # {})

Answer ==
  /\ dstep = "called" /\ Asks
  /\ IF agent = "sentiment" THEN reply' \in Replies ELSE reply' = NoReply
  /\ dstep' = "asked"
  /\ UNCHANGED <<agent, context, verdict, votes>>
ModelFails ==
  /\ dstep = "called" /\ Asks /\ dstep' = "failed"
  /\ UNCHANGED <<agent, context, reply, verdict, votes>>

\* The second phase of the sentiment agent, where it is enabled and finds a
\* headline; when it fails, the model is asked as in the first.
Analyse ==
  /\ dstep = "called" /\ agent = "sentiment" /\ context.analysed
  /\ reply' \in {r \in Replies : r.form = "json"}
  /\ dstep' = "asked"
  /\ UNCHANGED <<agent, context, verdict, votes>>

Ready == dstep = "asked" \/ (dstep = "called" /\ ~Asks)

JudgeTax ==
  /\ agent = "tax"
  /\ verdict' = [vote |-> TaxVote(context), direction |-> TaxDirection(context),
                 focus |-> TaxFocus(context)]
Direction(vote) == IF vote = "approve" THEN 60 ELSE IF vote = "reject" THEN -70 ELSE 0
Plain(vote) == verdict' = [vote |-> vote, direction |-> Direction(vote), focus |-> {}]
Judge ==
  /\ Ready /\ dstep' = "judged"
  /\ \/ JudgeTax
     \/ agent = "sentiment" /\ reply.form # "null" /\ Plain(SentimentVote(reply))
     \/ agent \notin {"tax", "sentiment"} /\ Plain(VoteOf(agent, context))
  /\ UNCHANGED <<agent, context, reply, votes>>

\* float(None) is a TypeError, which the reader of the reply does not expect.
ScoreIsNull ==
  /\ Ready /\ agent = "sentiment" /\ reply.form = "null" /\ dstep' = "failed"
  /\ UNCHANGED <<agent, context, reply, verdict, votes>>

Informs == agent \in InfoAgents \/ (agent = "tax" /\ Magnitude(verdict.direction) < 50)
Side(direction) ==
  IF direction > 10 THEN "INCREASE" ELSE IF direction < -10 THEN "DECREASE" ELSE "HOLD"
Subjects == IF verdict.focus = {} THEN {"PORTFOLIO"} ELSE verdict.focus
Vote ==
  /\ dstep = "judged" /\ dstep' = "voted"
  /\ votes' = [subject : Subjects, direction : {Side(verdict.direction)},
               informational : {Informs}]
  /\ UNCHANGED <<agent, context, reply, verdict>>

DNext == Answer \/ ModelFails \/ Analyse \/ Judge \/ ScoreIsNull \/ Vote
DSpec == DInit /\ [][DNext]_dvars
-----------------------------------------------------------------------------
(* Properties *)

Rank(vote) == IF vote = "reject" THEN 0 ELSE IF vote = "approve" THEN 2 ELSE 1

WorseRisk(c, d) ==
  /\ c.held = d.held /\ (c.deltas = {} <=> d.deltas = {})
  /\ c.deltas \subseteq d.deltas
  /\ c.tail # Unseen => d.tail # Unseen /\ c.tail <= 0 /\ d.tail <= c.tail
WorseExecution(c, d) ==
  Ordered(c) = Ordered(d) /\ c.priced \subseteq d.priced /\ \A x \in Lots : c.order[x] <= d.order[x]
WorseEsg(c, d) ==
  /\ c.weight = d.weight /\ c.target <= d.target /\ (c.excluded => d.excluded)
  /\ \A x \in Lots : ScoreOf(d, x) <= ScoreOf(c, x)
Measured(m) == IF Given(m) THEN m ELSE Unseen
NoBetter(m, n) == IF m = Unseen THEN n = Unseen ELSE n # Unseen /\ m <= n
WorseLiquidity(c, d) ==
  \A x \in Lots : /\ NoBetter(c.usage[x], d.usage[x])
                  /\ NoBetter(Measured(c.spread[x]), Measured(d.spread[x]))
                  /\ NoBetter(Measured(d.float[x]), Measured(c.float[x]))
WorseTechnical(c, d) ==
  /\ Charted(c) = Charted(d)
  /\ \A x \in Charted(c) : Momentum(d[x]) <= Momentum(c[x])

\* Whatever an agent counts as measured gets worse, a larger trade, a heavier
\* tail, a costlier order, a lower score, a thinner market, a weaker chart: its
\* vote never moves towards approval, in whatever order its limits are looked at.
\* What it does not count says nothing: a score of zero stands for the baseline
\* of the sector and a spread or free float of zero for none, so to replace a
\* bad measure by zero may well improve the vote (esg_agent.py, liquidity_agent.py).
WorseIsNeverBetter ==
  dstep \in {"judged", "voted"} =>
    /\ agent = "risk" => \A d \in RiskContexts :
         WorseRisk(context, d) => Rank(RiskVote(d)) <= Rank(verdict.vote)
    /\ agent = "execution" => \A d \in ExecutionContexts :
         WorseExecution(context, d) => Rank(ExecutionVote(d)) <= Rank(verdict.vote)
    /\ agent = "esg" => \A d \in EsgContexts :
         WorseEsg(context, d) => Rank(EsgVote(d)) <= Rank(verdict.vote)
    /\ agent = "liquidity" => \A d \in LiquidityContexts :
         WorseLiquidity(context, d) => Rank(LiquidityVote(d)) <= Rank(verdict.vote)
    /\ agent = "technical" => \A d \in TechnicalContexts :
         WorseTechnical(context, d) => Rank(TechnicalVote(d)) <= Rank(verdict.vote)

\* A tax vote counts only for a sale, and only when a holding with a loss is
\* sold; then it covers the sold losses, as many as a signal names, and nothing
\* but losses and what is sold anyway: the advice to sell other losses and the
\* objection to selling gains inform without being counted.  An override of the
\* governance that lists tax among the info agents silences it altogether.
TaxCountsForLossSalesOnly ==
  dstep = "voted" /\ agent = "tax" =>
    LET counted == {v \in votes : ~v.informational}
        covered == {v.subject : v \in counted}
    IN  /\ counted # {} => SoldLosers(context) # {}
        /\ SoldLosers(context) # {} /\ "tax" \notin InfoAgents =>
             FirstOf(SoldLosers(context)) \subseteq covered
        /\ \A v \in counted : v.direction = "DECREASE"
        /\ covered \subseteq Losers(context) \cup SoldGainers(context)
=============================================================================
