-------------------------- MODULE ComplianceRules ---------------------------
(***************************************************************************)
(* The rules of libra/compliance/engine.py that can block: which trades    *)
(* the portfolio may make. Weights, limits and deltas are tenths of a      *)
(* percentage point. Rules that only warn, and those the code keeps silent *)
(* for want of data, are left out.                                         *)
(***************************************************************************)
EXTENDS Integers, Functions

CONSTANTS
  Weights,          \* the weight of every holding
  TickerLimit,      \* IPS: the most of one ticker
  SectorOf,         \* the sector of the tickers that have one
  SectorLimit,      \* IPS: the most of one sector
  Excluded,         \* tickers and sectors the user excluded
  LowEsg,           \* tickers whose ESG score is below the user's minimum
  Conservative,     \* KYC: the user's risk tolerance
  Suspended         \* tickers the exchange does not trade normally

ASSUME ComplianceAssumption ==
  /\ \A x \in DOMAIN Weights : Weights[x] \in Nat
  /\ TickerLimit \in Nat /\ SectorLimit \in Nat
  /\ Conservative \in BOOLEAN

AfterPortfolio(trades) ==
  [x \in DOMAIN Weights \cup DOMAIN trades |->
     (IF x \in DOMAIN Weights THEN Weights[x] ELSE 0)
       + (IF x \in DOMAIN trades THEN trades[x] ELSE 0)]

IpsSingleTickerLimit(trades) ==
  LET after == AfterPortfolio(trades)
  IN  \A x \in DOMAIN after \ {"CASH"} : after[x] <= TickerLimit

IpsSectorLimit(trades) ==
  LET after == AfterPortfolio(trades)
      members(sector) == {x \in DOMAIN after \cap DOMAIN SectorOf :
                            SectorOf[x] = sector}
  IN  \A sector \in {SectorOf[x] : x \in DOMAIN SectorOf} :
        SumFunctionOnSet(after, members(sector)) <= SectorLimit

EsgUserExclusion(trades) ==
  \A x \in DOMAIN trades : trades[x] > 0 =>
    /\ x \notin Excluded
    /\ x \in DOMAIN SectorOf => SectorOf[x] \notin Excluded

EsgMinScore(trades) ==
  LET after == AfterPortfolio(trades)
  IN  \A x \in DOMAIN after \ {"CASH"} : after[x] > 0 => x \notin LowEsg

KycRiskProfile(trades) ==
  Conservative => \A x \in DOMAIN trades : trades[x] < 100

\* No BLOCKING violation. A suspended ticker blocks whatever is traded.
CanProceed(trades) ==
  /\ IpsSingleTickerLimit(trades)
  /\ IpsSectorLimit(trades)
  /\ EsgUserExclusion(trades)
  /\ EsgMinScore(trades)
  /\ KycRiskProfile(trades)
  /\ Suspended = {}
=============================================================================
