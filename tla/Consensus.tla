----------------------------- MODULE Consensus -----------------------------
(***************************************************************************)
(* How the votes of a committee become one consensus per subject           *)
(* (libra/mediator/consensus.py), and whom the mediator may call again.    *)
(*                                                                         *)
(* Confidences are tenths, magnitudes tenths of a percentage point. An     *)
(* opinion casts the same vote on each of its subjects, and a silent one   *)
(* has none. opinions is a function from whatever identifies an opinion.   *)
(***************************************************************************)
EXTENDS Integers, FiniteSets, Functions

CONSTANTS
  Subjects,          \* the tickers and "PORTFOLIO"
  StrongScore,       \* thresholds, in tenths: strong consensus,
  WeakScore,         \* weak consensus,
  HoldRatio,         \* strong hold,
  ConfidenceSum,     \* enough confidence for a consensus at all,
  RecallConfidence,  \* enough confidence to be called again
  MaxTargets         \* at most so many are called again

ASSUME ConsensusAssumption ==
  /\ {StrongScore, WeakScore, HoldRatio, RecallConfidence} \subseteq 0..10
  /\ ConfidenceSum \in Nat
  /\ MaxTargets \in Nat \ {0}
  /\ IsFiniteSet(Subjects)

\* The direction of a vote is the sign of its magnitude; only HOLD is 0.
Opinion ==
  [subjects      : SUBSET Subjects,
   magnitude     : (-100)..100,
   confidence    : 0..10,
   informational : BOOLEAN]

Sign(n) == IF n > 0 THEN 1 ELSE IF n < 0 THEN -1 ELSE 0
Abs(n) == IF n < 0 THEN -n ELSE n

Discussed(opinions) == UNION {opinions[o].subjects : o \in DOMAIN opinions}

Voters(opinions, subject) ==
  {o \in DOMAIN opinions :
     subject \in opinions[o].subjects /\ ~opinions[o].informational}

Weight(opinions, voters) ==
  SumFunction([o \in voters |-> opinions[o].confidence])

\* compute_consensus is Direction over the confidence of all voters.
Direction(opinions, voters) ==
  SumFunction([o \in voters |-> Sign(opinions[o].magnitude) * opinions[o].confidence])

\* With round(..., 4) on the score the comparison with a threshold is exact for
\* any sum of confidences below 1000.
ClassifyBranch(opinions, subject) ==
  LET voters == Voters(opinions, subject)
      weight == Weight(opinions, voters)
      score == 10 * Abs(Direction(opinions, voters))
      holds == {o \in voters : opinions[o].magnitude = 0}
  IN  IF Cardinality(voters) < 2 \/ weight < ConfidenceSum
        THEN "insufficient_votes"
      ELSE IF 10 * Cardinality(holds) >= HoldRatio * Cardinality(voters)
        THEN "strong_hold"
      ELSE IF score >= StrongScore * weight THEN "strong_consensus"
      ELSE IF score >= WeakScore * weight THEN "weak_consensus"
      ELSE "conflict"

Branches == {"insufficient_votes", "strong_hold", "strong_consensus",
             "weak_consensus", "conflict"}

ConsensusBySubject(opinions) ==
  [subject \in Discussed(opinions) |-> ClassifyBranch(opinions, subject)]

Conflicts(consensus) ==
  {subject \in DOMAIN consensus : consensus[subject] = "conflict"}

\* Who voted, with enough confidence, on something the committee disagrees on.
Disputants(opinions, consensus) ==
  {o \in DOMAIN opinions :
     /\ ~opinions[o].informational
     /\ opinions[o].confidence >= RecallConfidence
     /\ opinions[o].subjects \cap Conflicts(consensus) # {}}

\* The MaxTargets most confident disputants; between equals the code takes the
\* order of the agents, here any.
SelectTargets(opinions, consensus) ==
  LET all == Disputants(opinions, consensus)
  IN  {targets \in SUBSET all :
         /\ Cardinality(targets) =
              IF Cardinality(all) < MaxTargets THEN Cardinality(all)
                                               ELSE MaxTargets
         /\ \A o \in targets, p \in all \ targets :
              opinions[o].confidence >= opinions[p].confidence}
=============================================================================
