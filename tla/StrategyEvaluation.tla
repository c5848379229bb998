-------------------------- MODULE StrategyEvaluation --------------------------
(***************************************************************************)
(* scripts/evaluate_replay_strategies.py: the raw file of a replay is read *)
(* back, and each strategy of a fixed list is simulated over its days      *)
(* without running the committee again.  The strategies do not share       *)
(* state, so a behaviour simulates one of them.                            *)
(*                                                                         *)
(* Day 1 is the first row and the loops start at the second.  As in        *)
(* Replay, what is held is the set of targets applied, each with its day;  *)
(* the drift from the policy weights and the turnover of a rebalance       *)
(* depend on prices and may be anything.                                   *)
(***************************************************************************)
EXTENDS Replay

CONSTANTS
  Strategies,     \* the strategies of build_results
  MonthOf,        \* calendar month of a day
  QuarterMonths,  \* the months that end a quarter
  Policy,         \* the policy weights, as a target
  None            \* no intent

ASSUME EvaluationAssumption ==
  /\ MonthOf \in [Days -> Nat]
  /\ \A d, e \in Days : d < e => MonthOf[d] <= MonthOf[e]
  /\ QuarterMonths \subseteq Nat
  /\ Policy \notin Plans \cup {NoPlan}
  /\ None \notin [at : Nat, source : Nat, confirmed : Nat]
  /\ Strategies \subseteq
       [kind : {"hold", "monthly", "quarterly", "threshold", "immediate",
                "execution_only", "placebo", "delayed_execution", "confirmation_gate"},
        delay : Nat, lag : Nat, trim : BOOLEAN, triggers : SUBSET STRING]

VARIABLES
  strategy,   \* the strategy simulated, None before
  rows,       \* libra_decisions of the replay fixture
  day,        \* the last day simulated
  positions,  \* the targets applied: <<day, target>>
  pending,    \* pending_confirmation_index, source
  scheduled,  \* scheduled_execution_index, source, day of the confirmation
  seen,       \* seen_issue_keys
  log         \* what the row of the strategy reports

evaluation == <<strategy, rows, day, positions, pending, scheduled, seen, log>>

NoLog == [triggers |-> {}, confirmed |-> {}, executed |-> {}, suppressed |-> {}]

EvaluationInit ==
  /\ strategy = None /\ rows = <<>> /\ day = 1 /\ positions = {}
  /\ pending = None /\ scheduled = None /\ seen = {} /\ log = NoLog

(***************************************************************************)
(* build_replay_fixture                                                    *)
(***************************************************************************)
\* The rows are a segment of the sorted days of the fixture, without a gap.
IsSegment(raw) ==
  /\ raw # <<>>
  /\ \A i \in 1..(Len(raw) - 1) :
       /\ raw[i].day < raw[i + 1].day
       /\ \A d \in Priced : ~(raw[i].day < d /\ d < raw[i + 1].day)

IsSignal(row) ==
  row.decision = "REBALANCE" /\ (row.plan # NoPlan \/ row.draft # NoPlan)

SourcePlan(row) == IF row.plan # NoPlan THEN row.plan ELSE row.draft

\* Plans are told apart by their tickers and directions, as in the key.
IssueKey(row) == IF row.draft # NoPlan THEN row.draft ELSE row.plan

Signals(raw) == {i \in DOMAIN raw : IsSignal(raw[i])}

\* The n-th of a set of days.
Rank(S, d) == Cardinality({e \in S : e <= d})

\* simulate_same_count_random_placebo: the signals move to random days after
\* the first, in their order.
Placebo(raw, sample) ==
  [i \in DOMAIN raw |->
     IF i \in sample
     THEN LET from == CHOOSE s \in Signals(raw) : Rank(Signals(raw), s) = Rank(sample, i)
          IN  [raw[i] EXCEPT !.decision = "REBALANCE", !.plan = SourcePlan(raw[from])]
     ELSE [raw[i] EXCEPT !.decision = "DEFER", !.plan = NoPlan]]

Samples(raw) ==
  {S \in SUBSET (2..Len(raw)) : Cardinality(S) = Cardinality(Signals(raw))}

FixtureRows(raw, s) ==
  IF s.kind = "placebo" /\ Signals(raw) # {} /\ Samples(raw) # {}
  THEN {Placebo(raw, S) : S \in Samples(raw)}
  ELSE {raw}

Evaluate(f, s) ==
  /\ pc = "idle" /\ strategy = None
  /\ Readable(f) /\ IsSegment(ReadJsonl(f))
  /\ rows' \in FixtureRows(ReadJsonl(f), s)
  /\ strategy' = s
  /\ UNCHANGED <<day, positions, pending, scheduled, seen, log>>

(***************************************************************************)
(* One iteration of a strategy's loop                                      *)
(***************************************************************************)
Last == Len(rows)
Today == day + 1
Row == rows[Today]
Unclamped(d) == d
Clamp(d) == IF d > Last THEN Last ELSE d

EndsMonth(d) == d < Last => MonthOf[rows[d + 1].day] # MonthOf[rows[d].day]
EndsQuarter(d) == MonthOf[rows[d].day] \in QuarterMonths /\ EndsMonth(d)

Apply(target) == positions' = positions \cup {<<Today, target>>}

HoldDay ==
  /\ strategy.kind = "hold"
  /\ UNCHANGED <<positions, pending, scheduled, seen, log>>

CalendarDay ==
  /\ \/ strategy.kind = "quarterly" /\ EndsQuarter(Today)
     \/ strategy.kind = "monthly" /\ EndsMonth(Today)
  /\ Apply(Policy)
  /\ UNCHANGED <<pending, scheduled, seen, log>>

OtherCalendarDay ==
  /\ \/ strategy.kind = "quarterly" /\ ~EndsQuarter(Today)
     \/ strategy.kind = "monthly" /\ ~EndsMonth(Today)
  /\ UNCHANGED <<positions, pending, scheduled, seen, log>>

ThresholdDay(drifted) ==
  /\ strategy.kind = "threshold"
  /\ IF drifted THEN Apply(Policy) ELSE UNCHANGED positions
  /\ UNCHANGED <<pending, scheduled, seen, log>>

ImmediateDayOfDraft ==
  /\ strategy.kind = "immediate"
  /\ IF Row.decision = "REBALANCE" /\ Row.plan # NoPlan
     THEN Apply(IssueKey(Row)) ELSE UNCHANGED positions
  /\ UNCHANGED <<pending, scheduled, seen, log>>

ImmediateDay ==
  /\ strategy.kind = "immediate"
  /\ IF Row.decision = "REBALANCE" /\ Row.plan # NoPlan
     THEN Apply(Row.plan) ELSE UNCHANGED positions
  /\ UNCHANGED <<pending, scheduled, seen, log>>

Stateful == "USER_DECISION_REQUIRED" \in strategy.triggers
IsIssueOfPlan == Stateful /\ Row.decision = "REBALANCE"
IsIssue == Stateful /\ Row.decision = "USER_DECISION_REQUIRED"

\* An issue is marked as seen before its plan is looked at.  A risk trim may
\* have no target, and a target nothing to trade.
ExecutionOnlyDay(feasible) ==
  LET duplicate == IsIssue /\ IssueKey(Row) \in seen
      considered == Row.decision \in strategy.triggers /\ ~duplicate
      triggered == considered /\ SourcePlan(Row) # NoPlan
      done == triggered /\ feasible
  IN
  /\ strategy.kind \in {"execution_only", "placebo"}
  /\ seen' = IF considered /\ IsIssue THEN seen \cup {IssueKey(Row)} ELSE seen
  /\ log' = [log EXCEPT
       !.suppressed = IF duplicate THEN @ \cup {Today} ELSE @,
       !.triggers = IF triggered THEN @ \cup {Today} ELSE @,
       !.executed = IF done
                    THEN @ \cup {[source |-> Today, confirmed |-> 0, day |-> Today]}
                    ELSE @]
  /\ IF done THEN Apply(IF strategy.trim THEN SourcePlan(Row) ELSE Policy)
             ELSE UNCHANGED positions
  /\ UNCHANGED <<pending, scheduled>>

\* The three steps of simulate_execution_policy in their order: what is due,
\* what is confirmed, and the day's own signal if nothing is open.
Due == scheduled # None /\ Today >= scheduled.at
Confirms == pending # None /\ Today >= pending.at

AfterDue == IF Due THEN None ELSE scheduled
AfterConfirm(drifted) ==
  IF Confirms /\ drifted /\ strategy.lag > 0
  THEN [at |-> Clamp(Today + strategy.lag), source |-> pending.source,
        confirmed |-> Today]
  ELSE AfterDue

Takes(drifted) ==
  /\ pending = None \/ Confirms
  /\ AfterConfirm(drifted) = None
  /\ Row.decision = "REBALANCE" /\ Row.plan # NoPlan

ExecutionsWithin(drifted, moved) ==
  IF ~moved THEN {}
  ELSE (IF Due THEN {[source |-> scheduled.source, confirmed |-> scheduled.confirmed,
                      day |-> Today]} ELSE {})
       \cup
       (IF Confirms /\ drifted /\ strategy.lag <= 1
        THEN {[source |-> pending.source, confirmed |-> Today, day |-> Today]} ELSE {})

Executions(drifted, moved) ==
  IF ~moved THEN {}
  ELSE (IF Due THEN {[source |-> scheduled.source, confirmed |-> scheduled.confirmed,
                      day |-> Today]} ELSE {})
       \cup
       (IF Confirms /\ drifted /\ strategy.lag = 0
        THEN {[source |-> pending.source, confirmed |-> Today, day |-> Today]} ELSE {})

ExecutionPolicyDay(drifted, moved) ==
  LET intent == [at |-> Clamp(Today + strategy.delay), source |-> Today, confirmed |-> 0]
      gate == strategy.kind = "confirmation_gate"
  IN
  /\ strategy.kind \in {"delayed_execution", "confirmation_gate"}
  /\ scheduled' = IF Takes(drifted) /\ ~gate THEN intent ELSE AfterConfirm(drifted)
  /\ pending' = IF Takes(drifted) /\ gate THEN intent
                ELSE IF Confirms THEN None ELSE pending
  /\ log' = [log EXCEPT
       !.triggers = IF Takes(drifted) THEN @ \cup {Today} ELSE @,
       !.confirmed = IF Confirms THEN @ \cup {[source |-> pending.source, day |-> Today]}
                     ELSE @,
       !.executed = @ \cup Executions(drifted, moved)]
  /\ positions' = positions \cup {<<Today, Policy>> : e \in Executions(drifted, moved)}
  /\ UNCHANGED seen

EvaluateDay ==
  /\ strategy # None /\ day < Last
  /\ day' = Today
  /\ \/ HoldDay
     \/ CalendarDay
     \/ OtherCalendarDay
     \/ ImmediateDay
     \/ \E drifted \in BOOLEAN : ThresholdDay(drifted)
     \/ \E feasible \in BOOLEAN : ExecutionOnlyDay(feasible)
     \/ \E drifted, moved \in BOOLEAN : ExecutionPolicyDay(drifted, moved)
  /\ UNCHANGED <<strategy, rows>>

(***************************************************************************)
(* A replay, and an evaluation of what it left                             *)
(***************************************************************************)
BacktestInit == Init /\ EvaluationInit

BacktestNext ==
  \/ strategy = None /\ Next /\ UNCHANGED evaluation
  \/ /\ \/ \E f \in Files, s \in Strategies : Evaluate(f, s)
        \/ EvaluateDay
     /\ UNCHANGED vars

BacktestSpec == BacktestInit /\ [][BacktestNext]_<<vars, evaluation>>

(***************************************************************************)
(* Properties                                                              *)
(***************************************************************************)
Finished == strategy # None /\ day = Last
Later(d, n) ==
  LET due == d + (IF n = 0 THEN 1 ELSE n) IN IF due > Len(rows) THEN Len(rows) ELSE due
IsPolicy == strategy # None /\ strategy.kind \in {"delayed_execution", "confirmation_gate"}

\* No fill on the close that gave the signal, and with a lag none on the close
\* that confirmed it: the look-ahead control of simulate_execution_policy.  A
\* signal is confirmed, or executed if there is no gate, after its delay; only
\* the last day of the data cuts the delay short.
DelayKept ==
  IsPolicy =>
    /\ \A e \in log.executed :
         e.source < e.day /\ (strategy.lag > 0 => e.confirmed < e.day)
    /\ \A c \in log.confirmed : c.day = Later(c.source, strategy.delay)
    /\ \A e \in log.executed :
         \/ e.confirmed = 0 /\ e.day = Later(e.source, strategy.delay)
         \/ e.confirmed # 0 /\ strategy.lag > 0 /\ e.day = Later(e.confirmed, strategy.lag)
         \/ e.confirmed # 0 /\ strategy.lag = 0 /\ e.day = e.confirmed

\* What the end of the data costs, the delay and the lag being cut short at the
\* last day: a signal of that day and, with a lag, any signal whose confirmation
\* falls on that day or was moved to it, when it began earlier too.  No other is
\* lost: without a lag every signal the gate took up is confirmed or began on
\* the last day.
LostOnlyAtTheEnd ==
  IsPolicy /\ Finished =>
    /\ pending # None => pending.source = Last
    /\ scheduled # None =>
         \/ scheduled.source = Last
         \/ /\ strategy.lag > 0 /\ scheduled.confirmed = Last
            /\ Later(scheduled.source, strategy.delay) = Last
    /\ strategy.kind = "confirmation_gate" =>
         \A s \in log.triggers : s = Last \/ \E c \in log.confirmed : c.source = s

\* The immediate strategy holds what the replay showed its committee on the
\* next day, but for a rebalance of the very first day: the evaluation and the
\* replay, resumed or not, agree on what a decision did to the portfolio.
ImmediateFollowsReplay ==
  strategy # None /\ strategy.kind = "immediate" /\ day < Last =>
    {<<rows[p[1]].day, p[2]>> : p \in positions}
      = {p \in rows[Today].portfolio : p[1] > rows[1].day}

\* A stateful strategy acts on a question to the user once, however often the
\* committee asks it again.
IssueActedOnOnce ==
  \A d, e \in log.executed :
    /\ strategy # None /\ Stateful
    /\ rows[d.source].decision = "USER_DECISION_REQUIRED"
    /\ rows[e.source].decision = "USER_DECISION_REQUIRED"
    /\ IssueKey(rows[d.source]) = IssueKey(rows[e.source])
    => d = e

=============================================================================
