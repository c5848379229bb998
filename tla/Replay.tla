------------------------------- MODULE Replay -------------------------------
(***************************************************************************)
(* scripts/replay_full_committee_backtest.py: one committee run per        *)
(* scheduled day over a range of trading days, a raw JSONL file that gets  *)
(* a row per day, and a later process that resumes from such a file.       *)
(*                                                                         *)
(* Days are positions in the selected range.  What a portfolio holds is    *)
(* determined by its first day and by the rebalances applied since, so     *)
(* shares is the set of <<day, plan>> applied.  A file is a sequence of    *)
(* rows with the way each one ends: "whole" (with its newline), "bare"     *)
(* (all of the JSON, no newline) or "torn"; the last two are what a kill   *)
(* leaves between open and close.                                          *)
(***************************************************************************)
EXTENDS Integers, Sequences, FiniteSets

CONSTANTS
  LastDay,        \* number of selected days
  Settings,       \* what every process of a replay is given: the days the fixture
                  \* has prices for, --decision-frequency, --decision-interval,
                  \* --continue-on-error
  WeekOf,         \* ISO week of a day
  Plans,          \* candidate rebalance plans
  NoPlan,         \* the empty one
  Outcomes,       \* what a committee run may return
  Commands,       \* [resume, out, append] of --resume-raw, --raw-out, --append-raw
  Files,          \* raw files
  NoFile,         \* the option is not given
  MaxStarts       \* bound: processes started

Days == 1..LastDay
Decisions == {"REBALANCE", "HOLD", "DEFER", "USER_DECISION_REQUIRED"}
Rows == [day : Days, decision : Decisions, plan : Plans \cup {NoPlan},
         draft : Plans \cup {NoPlan}, skipped : BOOLEAN,
         portfolio : SUBSET (Days \X Plans)]

\* --append-raw is given only for the file resumed from: rows appended to those
\* of another replay would be read back as if one portfolio had made them.
ASSUME ReplayAssumption ==
  /\ LastDay \in Nat \ {0}
  /\ Settings \subseteq [priced : {D \in SUBSET Days : 1 \in D},
                        frequency : {"daily", "every-n-trading-days", "weekly"},
                        interval : Nat \ {0}, goOn : BOOLEAN]
  /\ WeekOf \in [Days -> Nat]
  /\ NoPlan \notin Plans
  /\ Outcomes \subseteq [decision : Decisions, plan : Plans \cup {NoPlan},
                         draft : Plans \cup {NoPlan}]
  /\ NoFile \notin Files
  /\ Commands \subseteq [resume : Files \cup {NoFile}, out : Files \cup {NoFile},
                         append : BOOLEAN]
  /\ \A c \in Commands : c.append => c.resume = c.out
  /\ MaxStarts \in Nat

VARIABLES
  setting,    \* the options the processes share
  pc,         \* idle, loop, append, rebalance, write
  command,    \* the options of the running process
  file,       \* raw files
  decisions,  \* the rows this process has resumed or decided
  shares,     \* the portfolio
  schedule,   \* decision_dates
  cursor,     \* the next day of bundle_rows
  errors,     \* days whose committee run raised
  out,        \* --out of the last process that wrote it
  starts      \* processes started

vars == <<setting, pc, command, file, decisions, shares, schedule, cursor, errors, out, starts>>

NoCommand == [resume |-> NoFile, out |-> NoFile, append |-> FALSE]
NoOut == [rows |-> <<>>, missing |-> {}, torn |-> TRUE]

Init ==
  /\ setting \in Settings
  /\ pc = "idle" /\ command = NoCommand
  /\ file = [f \in Files |-> <<>>]
  /\ decisions = <<>> /\ shares = {} /\ schedule = {} /\ cursor = 1 /\ errors = {}
  /\ out = NoOut /\ starts = 0

(***************************************************************************)
(* The pure parts                                                          *)
(***************************************************************************)
DecisionSchedule(days) ==
  {d \in days :
     \/ setting.frequency = "daily"
     \/ /\ setting.frequency = "every-n-trading-days"
        /\ Cardinality({e \in days : e < d}) % setting.interval = 0
     \/ /\ setting.frequency = "weekly"
        /\ \A e \in days : e < d => WeekOf[e] # WeekOf[d]}

Priced == setting.priced
Schedule == DecisionSchedule(Days)

ApplyRebalance(held, day, plan) ==
  IF plan = NoPlan THEN held ELSE held \cup {<<day, plan>>}

\* The portfolio that follows from rows 1..n.
AppliedBy(rows, n) ==
  {<<rows[i].day, rows[i].plan>> :
     i \in {j \in 1..n : rows[j].decision = "REBALANCE" /\ rows[j].plan # NoPlan}}

ScheduledSkip(day, held) ==
  [day |-> day, decision |-> "DEFER", plan |-> NoPlan, draft |-> NoPlan,
   skipped |-> TRUE, portfolio |-> held]

DecisionRow(day, outcome, held) ==
  [day |-> day, decision |-> outcome.decision, plan |-> outcome.plan,
   draft |-> outcome.draft, skipped |-> FALSE, portfolio |-> held]

\* A bare row is a line of its own only as long as nothing follows it.
Readable(f) ==
  \A i \in DOMAIN file[f] : \/ file[f][i].end = "whole"
                            \/ file[f][i].end = "bare" /\ i = Len(file[f])
ReadJsonl(f) == [i \in DOMAIN file[f] |-> file[f][i].row]

IsPrefixOfDays(rows) == \A i \in DOMAIN rows : rows[i].day = i

(***************************************************************************)
(* The process                                                             *)
(***************************************************************************)
ResumeUnchecked(f) ==
  LET rows == ReadJsonl(f) IN
  /\ Readable(f)
  /\ decisions' = rows
  /\ shares' = AppliedBy(rows, Len(rows))
  /\ cursor' = IF rows = <<>> THEN 1 ELSE rows[Len(rows)].day + 1

ResumeWithoutShares(f) ==
  LET rows == ReadJsonl(f) IN
  /\ Readable(f) /\ IsPrefixOfDays(rows)
  /\ decisions' = rows
  /\ shares' = {}
  /\ cursor' = IF rows = <<>> THEN 1 ELSE rows[Len(rows)].day + 1

ResumeFromRaw(f) ==
  LET rows == ReadJsonl(f) IN
  /\ Readable(f) /\ IsPrefixOfDays(rows)
  /\ decisions' = rows
  /\ shares' = AppliedBy(rows, Len(rows))
  /\ cursor' = IF rows = <<>> THEN 1 ELSE rows[Len(rows)].day + 1

StartFresh == decisions' = <<>> /\ shares' = {} /\ cursor' = 1

OpenRaw(c) ==
  file' = IF c.out = NoFile \/ c.append \/ c.out = c.resume THEN file
          ELSE [file EXCEPT ![c.out] = <<>>]

\* The schedule is that of all the selected days, resumed ones included.
ScheduleRest == schedule' = DecisionSchedule({d \in Days : d >= cursor'})
ScheduleAll == schedule' = Schedule

Start(c) ==
  /\ pc = "idle" /\ starts < MaxStarts
  /\ IF c.resume = NoFile THEN StartFresh ELSE ResumeFromRaw(c.resume)
  /\ OpenRaw(c)
  /\ ScheduleAll
  /\ pc' = "loop" /\ command' = c /\ errors' = {} /\ starts' = starts + 1
  /\ UNCHANGED out

\* The file does not parse or is not a prefix of the range: RuntimeError or
\* JSONDecodeError before anything else is touched.
Refuse(c) ==
  /\ pc = "idle" /\ starts < MaxStarts
  /\ c.resume # NoFile
  /\ ~(Readable(c.resume) /\ IsPrefixOfDays(ReadJsonl(c.resume)))
  /\ starts' = starts + 1
  /\ UNCHANGED <<pc, command, file, decisions, shares, schedule, cursor, errors, out>>

MissingPrice ==
  /\ pc = "loop" /\ cursor \in Days \ Priced
  /\ cursor' = cursor + 1
  /\ UNCHANGED <<pc, command, file, decisions, shares, schedule, errors, out, starts>>

Decide(row) ==
  /\ decisions' = Append(decisions, row)
  /\ pc' = "append"
  /\ UNCHANGED <<command, file, shares, schedule, cursor, errors, out, starts>>

Skip ==
  /\ pc = "loop" /\ cursor \in Priced \ schedule
  /\ Decide(ScheduledSkip(cursor, shares))

RunCommittee(outcome) ==
  /\ pc = "loop" /\ cursor \in Priced \cap schedule
  /\ Decide(DecisionRow(cursor, outcome, shares))

Stop ==
  /\ pc' = "idle" /\ command' = NoCommand
  /\ decisions' = <<>> /\ shares' = {} /\ schedule' = {} /\ cursor' = 1

CommitteeRaises ==
  /\ pc = "loop" /\ cursor \in Priced \cap schedule
  /\ IF setting.goOn
     THEN /\ errors' = errors \cup {cursor} /\ cursor' = cursor + 1
          /\ UNCHANGED <<pc, command, decisions, shares, schedule>>
     ELSE Stop /\ errors' = {}
  /\ UNCHANGED <<file, out, starts>>

Pending == decisions[Len(decisions)]

AppendRow(f, end) ==
  file' = IF f = NoFile THEN file
          ELSE [file EXCEPT ![f] = Append(@, [row |-> Pending, end |-> end])]

AppendRaw ==
  /\ pc = "append"
  /\ AppendRow(command.out, "whole")
  /\ pc' = "rebalance"
  /\ UNCHANGED <<command, decisions, shares, schedule, cursor, errors, out, starts>>

Rebalance ==
  /\ pc = "rebalance"
  /\ shares' = IF Pending.decision = "REBALANCE"
               THEN ApplyRebalance(shares, Pending.day, Pending.plan) ELSE shares
  /\ cursor' = cursor + 1
  /\ pc' = "loop"
  /\ UNCHANGED <<command, file, decisions, schedule, errors, out, starts>>

\* Past the loop: --fail-on-fallback-events may raise before anything is written.
Leave ==
  /\ pc = "loop" /\ cursor > LastDay
  /\ \/ pc' = "write" /\ UNCHANGED <<command, decisions, shares, schedule, cursor, errors>>
     \/ Stop /\ errors' = {}
  /\ UNCHANGED <<file, out, starts>>

WriteOut ==
  /\ pc = "write"
  /\ out' = [rows |-> decisions, missing |-> errors, torn |-> FALSE]
  /\ Stop /\ errors' = {}
  /\ UNCHANGED <<file, starts>>

\* The process is killed.  Memory is lost; a row that was being written is
\* there in part, without its newline, or not at all; so is --out.
Crash ==
  /\ pc # "idle"
  /\ IF pc = "append"
     THEN \/ \E end \in {"torn", "bare"} : AppendRow(command.out, end)
          \/ UNCHANGED file
     ELSE UNCHANGED file
  /\ \/ UNCHANGED out
     \/ pc = "write" /\ out' = NoOut
  /\ Stop /\ errors' = {}
  /\ UNCHANGED starts

Process == \/ MissingPrice \/ Skip \/ CommitteeRaises \/ AppendRaw \/ Rebalance
           \/ Leave \/ WriteOut
           \/ \E outcome \in Outcomes : RunCommittee(outcome)
Operator == \E c \in Commands : Start(c) \/ Refuse(c)

Next == (Process \/ Operator \/ Crash) /\ UNCHANGED setting

Spec == Init /\ [][Next]_vars

(***************************************************************************)
(* Properties                                                              *)
(***************************************************************************)
Ends == {"whole", "bare", "torn"}
Entries == [row : Rows, end : Ends]

TypeOK ==
  /\ setting \in Settings
  /\ pc \in {"idle", "loop", "append", "rebalance", "write"}
  /\ command \in [resume : Files \cup {NoFile}, out : Files \cup {NoFile},
                  append : BOOLEAN]
  /\ file \in [Files -> Seq(Entries)]
  /\ decisions \in Seq(Rows)
  /\ shares \subseteq Days \X Plans
  /\ schedule \subseteq Days
  /\ cursor \in 1..(LastDay + 1)
  /\ errors \subseteq Days
  /\ out \in [rows : Seq(Rows), missing : SUBSET Days, torn : BOOLEAN]
  /\ starts \in 0..MaxStarts

\* However often a replay was killed and resumed, the portfolio the committee
\* is shown for a day is the one that follows from all the days decided
\* before (_resume_from_raw applies the rebalances again, one row at a time).
Follows(rows) ==
  \A i \in DOMAIN rows : rows[i].portfolio = AppliedBy(rows, i - 1)
PortfolioFollowsDecisions ==
  /\ Follows(decisions) /\ Follows(out.rows)
  /\ pc \in {"loop", "write"} => shares = AppliedBy(decisions, Len(decisions))

\* A finished replay has every priced day of the range once and in order,
\* but for those its summary reports as errors: a gap that an earlier process
\* left in the raw file never passes for a complete replay.
OutComplete ==
  ~out.torn =>
    /\ {out.rows[i].day : i \in DOMAIN out.rows} = Priced \ out.missing
    /\ \A i, j \in DOMAIN out.rows : i < j => out.rows[i].day < out.rows[j].day

\* The days on which the committee runs are those of the whole range, wherever
\* a process resumed: a row is a scheduled skip exactly off the schedule.
CadenceKept ==
  \A f \in Files : \A i \in DOMAIN file[f] :
    file[f][i].row.skipped <=> file[f][i].row.day \notin Schedule

=============================================================================
