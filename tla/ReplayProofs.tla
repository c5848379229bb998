----------------------------- MODULE ReplayProofs -----------------------------
(***************************************************************************)
(* Proofs about Replay: types, the portfolio that follows from the         *)
(* decisions, the completeness of --out and the cadence, for any range,    *)
(* settings, commands, outcomes and number of processes.                   *)
(***************************************************************************)
EXTENDS StrategyEvaluation, TLAPS

\* How many of the decisions are in the raw file of the process.
Written == IF pc = "append" THEN Len(decisions) - 1 ELSE Len(decisions)

\* The rows of the raw file are those of the decisions after the first k:
\* k is 0 unless the process resumed from another file.
Holds(f, k) ==
  /\ Len(file[f]) = Written - k
  /\ \A i \in 1..Len(file[f]) : file[f][i].row = decisions[i + k]

\* While a process runs: its place, what is pending, its portfolio.
RunInv ==
  pc # "idle" =>
    /\ schedule = Schedule
    /\ pc \in {"append", "rebalance"} =>
         /\ cursor \in Days /\ Len(decisions) > 0
         /\ decisions[Len(decisions)].day = cursor
    /\ pc = "write" => cursor = LastDay + 1
    /\ shares = AppliedBy(decisions, IF pc \in {"append", "rebalance"}
                                     THEN Len(decisions) - 1 ELSE Len(decisions))
    /\ command.out # NoFile => \E k \in 0..Written : Holds(command.out, k)

\* The days decided are in order, and are the priced ones that did not fail.
DaysInv ==
  pc # "idle" =>
    /\ \A i, j \in 1..Len(decisions) : i < j => decisions[i].day < decisions[j].day
    /\ \A i \in 1..Len(decisions) : decisions[i].day \in Priced
    /\ pc \in {"loop", "write"} =>
         /\ \A i \in 1..Len(decisions) : decisions[i].day < cursor
         /\ \A d \in Priced : d < cursor =>
              d \in errors \/ \E i \in 1..Len(decisions) : decisions[i].day = d
    /\ pc \in {"append", "rebalance"} =>
         \A d \in Priced : d <= cursor =>
              d \in errors \/ \E i \in 1..Len(decisions) : decisions[i].day = d
    /\ \A d \in errors : d < cursor /\ \A i \in 1..Len(decisions) : decisions[i].day # d

RowsOf(raw) == [i \in DOMAIN raw |-> raw[i].row]

\* A raw file has priced days and skips as scheduled; and if its days are a
\* prefix of the range, so that a process may resume from it, then its rows
\* are those of one portfolio.
FileOK(raw, priced, cadence) ==
  /\ \A i \in 1..Len(raw) :
       /\ raw[i].row.day \in priced
       /\ raw[i].row.skipped <=> raw[i].row.day \notin cadence
  /\ IsPrefixOfDays(RowsOf(raw)) => Follows(RowsOf(raw))

FileInv == \A f \in Files : FileOK(file[f], Priced, Schedule)

RowInv ==
  \A i \in 1..Len(decisions) :
    decisions[i].skipped <=> decisions[i].day \notin Schedule

IInv ==
  /\ TypeOK /\ RunInv /\ DaysInv /\ FileInv /\ RowInv
  /\ Follows(decisions) /\ Follows(out.rows) /\ OutComplete

USE ReplayAssumption

(***************************************************************************)
(* Types                                                                   *)
(***************************************************************************)
TInv ==
  /\ TypeOK
  /\ pc \in {"append", "rebalance"} => cursor \in Days /\ Len(decisions) > 0

LEMMA SettingOK ==
  ASSUME setting \in Settings
  PROVE  /\ Priced \subseteq Days
         /\ setting.goOn \in BOOLEAN
         /\ Schedule \subseteq Days
BY DEF Priced, Schedule, DecisionSchedule

LEMMA ReadJsonlOK ==
  ASSUME TypeOK, NEW f \in Files
  PROVE  /\ ReadJsonl(f) \in Seq(Rows)
         /\ Len(ReadJsonl(f)) = Len(file[f])
         /\ DOMAIN file[f] = 1..Len(file[f])
         /\ \A i \in 1..Len(file[f]) : file[f][i] \in Entries /\ ReadJsonl(f)[i] = file[f][i].row
<1>1. file[f] \in Seq(Entries)
  BY DEF TypeOK
<1>2. \A i \in 1..Len(file[f]) : file[f][i] \in Entries
  BY <1>1
<1>5. \A i \in 1..Len(file[f]) : file[f][i].row \in Rows
  BY <1>2 DEF Entries
<1>3. ReadJsonl(f) = [i \in 1..Len(file[f]) |-> file[f][i].row]
  BY <1>1 DEF ReadJsonl
<1>4. Len(file[f]) \in Nat
  BY <1>1
<1> QED
  BY <1>1, <1>2, <1>3, <1>4, <1>5

LEMMA AppliedOK ==
  ASSUME NEW rs \in Seq(Rows), NEW n \in 0..Len(rs)
  PROVE  AppliedBy(rs, n) \subseteq Days \X Plans
<1> SUFFICES ASSUME NEW i \in 1..n, rs[i].plan # NoPlan
             PROVE  <<rs[i].day, rs[i].plan>> \in Days \X Plans
  BY DEF AppliedBy
<1>1. rs[i] \in Rows
  OBVIOUS
<1> QED
  BY <1>1 DEF Rows

LEMMA DecisionOK ==
  ASSUME TypeOK, NEW d \in Days
  PROVE  /\ ScheduledSkip(d, shares) \in Rows
         /\ \A o \in Outcomes : DecisionRow(d, o, shares) \in Rows
<1>1. shares \subseteq Days \X Plans
  BY DEF TypeOK
<1>2. ScheduledSkip(d, shares) \in Rows
  BY <1>1 DEF ScheduledSkip, Rows, Decisions
<1>3. ASSUME NEW o \in Outcomes PROVE DecisionRow(d, o, shares) \in Rows
  <2>1. o \in [decision : Decisions, plan : Plans \cup {NoPlan}, draft : Plans \cup {NoPlan}]
    OBVIOUS
  <2> QED
    BY <1>1, <2>1 DEF DecisionRow, Rows
<1> QED
  BY <1>2, <1>3

LEMMA AppendRowOK ==
  ASSUME TypeOK, Len(decisions) > 0, NEW end \in Ends, AppendRow(command.out, end)
  PROVE  file' \in [Files -> Seq(Entries)]
<1>1. Pending \in Rows
  BY DEF Pending, TypeOK
<1>2. [row |-> Pending, end |-> end] \in Entries
  BY <1>1 DEF Entries
<1>3. CASE command.out = NoFile
  BY <1>3 DEF AppendRow, TypeOK
<1>4. CASE command.out # NoFile
  <2>1. command.out \in Files
    BY <1>4 DEF TypeOK
  <2> QED
    BY <1>2, <1>4, <2>1 DEF AppendRow, TypeOK
<1> QED
  BY <1>3, <1>4

LEMMA TypeInit == Init => TInv
<1> SUFFICES ASSUME Init PROVE TInv
  OBVIOUS
<1>1. NoOut \in [rows : Seq(Rows), missing : SUBSET Days, torn : BOOLEAN]
  BY DEF NoOut
<1>2. 1 \in 1..(LastDay + 1)
  OBVIOUS
<1> QED
  BY <1>1, <1>2 DEF Init, TInv, TypeOK, NoCommand

LEMMA TypeNext == TInv /\ [Next]_vars => TInv'
<1> SUFFICES ASSUME TInv, [Next]_vars PROVE TInv'
  OBVIOUS
<1> USE DEF TInv
<1>0. CASE UNCHANGED vars
  BY <1>0 DEF vars, TypeOK
<1>a. ASSUME Next PROVE setting' = setting /\ setting \in Settings
  BY <1>a DEF Next, TypeOK
<1>b. ASSUME Stop
      PROVE  /\ pc' = "idle" /\ decisions' \in Seq(Rows) /\ shares' \subseteq Days \X Plans
             /\ schedule' \subseteq Days /\ cursor' \in 1..(LastDay + 1)
             /\ command' \in [resume : Files \cup {NoFile}, out : Files \cup {NoFile},
                              append : BOOLEAN]
  BY <1>b DEF Stop, NoCommand
<1>1. ASSUME NEW c \in Commands, Start(c), Next PROVE TInv'
  <2>1. decisions' \in Seq(Rows) /\ shares' \subseteq Days \X Plans /\ cursor' \in 1..(LastDay + 1)
    <3>1. CASE c.resume = NoFile
      BY <1>1, <3>1 DEF Start, StartFresh
    <3>2. CASE c.resume # NoFile
      <4>1. c.resume \in Files
        BY <3>2
      <4> DEFINE rs == ReadJsonl(c.resume)
      <4>2. /\ decisions' = rs /\ shares' = AppliedBy(rs, Len(rs))
            /\ cursor' = IF rs = <<>> THEN 1 ELSE rs[Len(rs)].day + 1
        BY <1>1, <3>2 DEF Start, ResumeFromRaw
      <4>3. rs \in Seq(Rows)
        BY <4>1, ReadJsonlOK
      <4>4. shares' \subseteq Days \X Plans
        BY <4>2, <4>3, AppliedOK
      <4>5. rs # <<>> => rs[Len(rs)] \in Rows
        BY <4>3
      <4>6. cursor' \in 1..(LastDay + 1)
        BY <4>2, <4>5 DEF Rows, Days
      <4> QED
        BY <4>2, <4>3, <4>4, <4>6
    <3> QED
      BY <3>1, <3>2
  <2>2. file' \in [Files -> Seq(Entries)]
    BY <1>1 DEF Start, OpenRaw, TypeOK
  <2>3. schedule' \subseteq Days
    BY <1>1, SettingOK DEF Start, ScheduleAll, TypeOK
  <2> QED
    BY <1>a, <1>1, <2>1, <2>2, <2>3 DEF Start, TypeOK
<1>2. ASSUME NEW c \in Commands, Refuse(c), Next PROVE TInv'
  BY <1>a, <1>2 DEF Refuse, TypeOK
<1>3. ASSUME MissingPrice, Next PROVE TInv'
  BY <1>a, <1>3 DEF MissingPrice, TypeOK, Days
<1>4. ASSUME Skip, Next PROVE TInv'
  <2>1. cursor \in Days
    BY <1>4, SettingOK DEF Skip, TypeOK
  <2>2. ScheduledSkip(cursor, shares) \in Rows
    BY <2>1, DecisionOK
  <2> QED
    BY <1>a, <1>4, <2>1, <2>2 DEF Skip, Decide, TypeOK
<1>5. ASSUME NEW o \in Outcomes, RunCommittee(o), Next PROVE TInv'
  <2>1. cursor \in Days
    BY <1>5, SettingOK DEF RunCommittee, TypeOK
  <2>2. DecisionRow(cursor, o, shares) \in Rows
    BY <2>1, DecisionOK
  <2> QED
    BY SMTT(30), <1>a, <1>5, <2>1, <2>2 DEF RunCommittee, Decide, TypeOK
<1>6. ASSUME CommitteeRaises, Next PROVE TInv'
  <2>1. cursor \in Days
    BY <1>6, SettingOK DEF CommitteeRaises, TypeOK
  <2>2. CASE setting.goOn
    <3>1. /\ errors' = errors \cup {cursor} /\ cursor' = cursor + 1 /\ pc = "loop"
          /\ UNCHANGED <<pc, command, decisions, shares, schedule, file, out, starts>>
      BY <1>6, <2>2 DEF CommitteeRaises
    <3>2. cursor' \in 1..(LastDay + 1)
      BY <2>1, <3>1 DEF Days
    <3>3. errors' \subseteq Days
      BY <2>1, <3>1 DEF TypeOK
    <3> QED
      BY <1>a, <1>6, <3>1, <3>2, <3>3 DEF TypeOK
  <2>3. CASE ~setting.goOn
    BY <1>a, <1>b, <1>6, <2>3 DEF CommitteeRaises, TypeOK
  <2> QED
    BY <2>2, <2>3
<1>7. ASSUME AppendRaw, Next PROVE TInv'
  <2>1. file' \in [Files -> Seq(Entries)]
    BY <1>7, AppendRowOK DEF AppendRaw, Ends
  <2> QED
    BY <1>a, <1>7, <2>1 DEF AppendRaw, TypeOK
<1>8. ASSUME Rebalance, Next PROVE TInv'
  <2>1. Pending \in Rows
    BY <1>8 DEF Rebalance, Pending, TypeOK
  <2>2. shares' \subseteq Days \X Plans
    BY <1>8, <2>1 DEF Rebalance, ApplyRebalance, TypeOK, Rows
  <2> QED
    BY <1>a, <1>8, <2>2 DEF Rebalance, TypeOK, Days
<1>9. ASSUME Leave, Next PROVE TInv'
  BY <1>a, <1>b, <1>9 DEF Leave, TypeOK
<1>10. ASSUME WriteOut, Next PROVE TInv'
  BY <1>a, <1>b, <1>10 DEF WriteOut, TypeOK
<1>11. ASSUME Crash, Next PROVE TInv'
  <2>1. file' \in [Files -> Seq(Entries)]
    BY <1>11, AppendRowOK DEF Crash, Ends, TypeOK
  <2>2. NoOut \in [rows : Seq(Rows), missing : SUBSET Days, torn : BOOLEAN]
    BY DEF NoOut
  <2> QED
    BY <1>a, <1>b, <1>11, <2>1, <2>2 DEF Crash, TypeOK
<1> QED
  BY <1>0, <1>1, <1>2, <1>3, <1>4, <1>5, <1>6, <1>7, <1>8, <1>9, <1>10, <1>11
     DEF Next, Process, Operator

\* The variables keep their types: a portfolio only ever holds real plans of
\* selected days, and a process never looks at a day past the range.
THEOREM TypeCorrect == Spec => []TypeOK
<1>1. Spec => []TInv
  BY TypeInit, TypeNext, PTL DEF Spec
<1> QED
  BY <1>1, PTL DEF TInv

(***************************************************************************)
(* The portfolio                                                           *)
(***************************************************************************)
LEMMA AppliedStep ==
  ASSUME NEW rs \in Seq(Rows), NEW n \in 1..Len(rs)
  PROVE  AppliedBy(rs, n)
           = IF rs[n].decision = "REBALANCE"
             THEN ApplyRebalance(AppliedBy(rs, n - 1), rs[n].day, rs[n].plan)
             ELSE AppliedBy(rs, n - 1)
<1> DEFINE Of(m) == {j \in 1..m : rs[j].decision = "REBALANCE" /\ rs[j].plan # NoPlan}
<1>1. n \in Nat \ {0}
  OBVIOUS
<1>2. CASE rs[n].decision = "REBALANCE" /\ rs[n].plan # NoPlan
  <2>1. Of(n) = Of(n - 1) \cup {n}
    BY <1>1, <1>2
  <2> QED
    BY <1>2, <2>1 DEF AppliedBy, ApplyRebalance
<1>3. CASE ~(rs[n].decision = "REBALANCE" /\ rs[n].plan # NoPlan)
  <2>1. Of(n) = Of(n - 1)
    BY <1>1, <1>3
  <2> QED
    BY <1>3, <2>1 DEF AppliedBy, ApplyRebalance
<1> QED
  BY <1>2, <1>3

LEMMA AppliedPrefix ==
  ASSUME NEW rs \in Seq(Rows), NEW ss \in Seq(Rows), NEW n \in Nat,
         n <= Len(rs), n <= Len(ss), \A i \in 1..n : rs[i] = ss[i]
  PROVE  AppliedBy(rs, n) = AppliedBy(ss, n)
BY DEF AppliedBy

LEMMA FollowsAppend ==
  ASSUME NEW rs \in Seq(Rows), NEW r \in Rows, Follows(rs),
         r.portfolio = AppliedBy(rs, Len(rs))
  PROVE  Follows(Append(rs, r))
<1> DEFINE ss == Append(rs, r)
<1>1. ss \in Seq(Rows) /\ Len(ss) = Len(rs) + 1 /\ Len(rs) \in Nat
      /\ \A i \in 1..Len(rs) : ss[i] = rs[i]
  OBVIOUS
<1>2. ss[Len(ss)] = r
  OBVIOUS
<1>3. SUFFICES ASSUME NEW i \in 1..Len(ss)
               PROVE  ss[i].portfolio = AppliedBy(ss, i - 1)
  BY <1>1 DEF Follows
<1>4. AppliedBy(ss, i - 1) = AppliedBy(rs, i - 1)
  <2>1. i - 1 \in Nat /\ i - 1 <= Len(rs) /\ i - 1 <= Len(ss)
        /\ \A j \in 1..(i - 1) : ss[j] = rs[j]
    BY <1>1
  <2> HIDE DEF ss
  <2> QED
    BY <1>1, <2>1, AppliedPrefix
<1>5. CASE i = Len(ss)
  BY <1>1, <1>2, <1>4, <1>5
<1>6. CASE i # Len(ss)
  <2>1. i \in 1..Len(rs)
    BY <1>1, <1>6
  <2> QED
    BY <1>1, <1>4, <2>1 DEF Follows
<1> QED
  BY <1>5, <1>6

(***************************************************************************)
(* The raw file                                                            *)
(***************************************************************************)
LEMMA FileOKEmpty ==
  ASSUME NEW P, NEW S PROVE FileOK(<<>>, P, S)
BY DEF FileOK, RowsOf, Follows

LEMMA Appended ==
  ASSUME TInv, IInv, pc = "append", NEW end \in Ends, AppendRow(command.out, end)
  PROVE  /\ \A f \in Files : FileOK(file'[f], Priced, Schedule)
         /\ command.out # NoFile =>
              \E k \in 0..Len(decisions) :
                /\ Len(file'[command.out]) = Len(decisions) - k
                /\ \A i \in 1..Len(file'[command.out]) :
                     file'[command.out][i].row = decisions[i + k]
<1>1. CASE command.out = NoFile
  BY <1>1 DEF AppendRow, IInv, FileInv
<1>2. CASE command.out # NoFile
  <2> DEFINE f == command.out
             n == Len(decisions)
             e == [row |-> Pending, end |-> end]
             old == file[f]
             raw == Append(old, e)
  <2>1. f \in Files
    BY <1>2 DEF TInv, TypeOK
  <2>2. file' = [file EXCEPT ![f] = raw] /\ file \in [Files -> Seq(Entries)]
    BY <1>2 DEF AppendRow, TInv, TypeOK
  <2>3. decisions \in Seq(Rows) /\ n \in Nat /\ n > 0 /\ Pending = decisions[n]
    BY DEF TInv, TypeOK, Pending
  <2>4. e \in Entries
    BY <2>3 DEF Entries
  <2>5. old \in Seq(Entries) /\ raw \in Seq(Entries) /\ Len(raw) = Len(old) + 1
        /\ Len(old) \in Nat /\ raw[Len(raw)] = e
        /\ \A i \in 1..Len(old) : raw[i] = old[i]
    BY <2>1, <2>2, <2>4
  <2>6. PICK k \in 0..(n - 1) : Len(old) = n - 1 - k
                                /\ \A i \in 1..Len(old) : old[i].row = decisions[i + k]
    BY <1>2 DEF IInv, RunInv, Written, Holds
  <2>7. Len(raw) = n - k /\ \A i \in 1..Len(raw) : raw[i].row = decisions[i + k]
    <3>1. Len(raw) = n - k
      BY <2>3, <2>5, <2>6
    <3>2. raw[Len(raw)].row = decisions[n]
      BY <2>3, <2>5
    <3>3. ASSUME NEW i \in 1..Len(raw) PROVE raw[i].row = decisions[i + k]
      <4>1. CASE i = Len(raw)
        BY <2>3, <3>1, <3>2, <4>1
      <4>2. CASE i # Len(raw)
        <5>1. i \in 1..Len(old)
          BY <2>5, <4>2
        <5> HIDE DEF raw, old
        <5> QED
          BY <2>5, <2>6, <5>1
      <4> QED
        BY <4>1, <4>2
    <3> QED
      BY <3>1, <3>3
  <2>8. \A i \in 1..Len(raw) : i + k \in 1..n
    BY <2>3, <2>7
  <2>9. ASSUME NEW i \in 1..Len(raw)
        PROVE  /\ raw[i].row.day \in Priced
               /\ raw[i].row.skipped <=> raw[i].row.day \notin Schedule
    BY <2>7, <2>8 DEF IInv, DaysInv, RowInv
  <2>10. ASSUME IsPrefixOfDays(RowsOf(raw)) PROVE Follows(RowsOf(raw))
    <3>1. DOMAIN raw = 1..Len(raw) /\ DOMAIN RowsOf(raw) = 1..Len(raw)
          /\ \A i \in 1..Len(raw) : RowsOf(raw)[i] = raw[i].row
      BY <2>5 DEF RowsOf
    <3>2. Len(raw) >= 1
      BY <2>5
    <3>3. decisions[1 + k].day = 1
      BY <2>7, <2>10, <3>1, <3>2 DEF IsPrefixOfDays
    <3>4. decisions[1].day \in Nat /\ decisions[1].day >= 1
      <4>1. decisions[1] \in Rows
        BY <2>3
      <4> QED
        BY <4>1 DEF Rows, Days
    <3>5. k = 0
      <4>1. ASSUME k > 0 PROVE decisions[1].day < decisions[1 + k].day
        BY <2>3, <2>6, <4>1 DEF IInv, DaysInv
      <4> QED
        BY <3>3, <3>4, <4>1, <2>6
    <3>6. RowsOf(raw) = decisions
      <4>1. decisions = [i \in 1..n |-> decisions[i]]
        BY <2>3
      <4>2. RowsOf(raw) = [i \in 1..n |-> raw[i].row]
        BY <2>3, <2>7, <3>5, <2>5 DEF RowsOf
      <4>3. \A i \in 1..n : raw[i].row = decisions[i]
        BY <2>3, <2>7, <3>5
      <4> HIDE DEF raw, n
      <4> QED
        BY <4>1, <4>2, <4>3
    <3> QED
      BY <3>6 DEF IInv
  <2>11. FileOK(raw, Priced, Schedule)
    BY <2>9, <2>10 DEF FileOK
  <2>12. \A g \in Files : g # f => FileOK(file'[g], Priced, Schedule)
    BY <2>2 DEF IInv, FileInv
  <2>13. file'[f] = raw
    BY <2>1, <2>2
  <2>14. k \in 0..n
    BY <2>3
  <2> HIDE DEF raw, n
  <2>15. \E l \in 0..n : Len(raw) = n - l /\ \A i \in 1..Len(raw) : raw[i].row = decisions[i + l]
    BY <2>7, <2>14
  <2> QED
    BY <2>11, <2>12, <2>13, <2>15 DEF n
<1> QED
  BY <1>1, <1>2

(***************************************************************************)
(* The steps                                                               *)
(***************************************************************************)
LEMMA ReplayInit == Init => IInv
<1> SUFFICES ASSUME Init PROVE IInv
  OBVIOUS
<1>1. TypeOK
  BY TypeInit DEF TInv
<1>2. FileInv
  BY FileOKEmpty DEF Init, FileInv
<1>3. Follows(decisions) /\ Follows(out.rows) /\ RowInv /\ OutComplete
  BY DEF Init, NoOut, Follows, RowInv, OutComplete
<1> QED
  BY <1>1, <1>2, <1>3 DEF Init, IInv, RunInv, DaysInv

\* A process that has resumed: its rows are those of the file.
LEMMA Resumed ==
  ASSUME TInv, IInv, NEW f \in Files, ResumeFromRaw(f)
  PROVE  /\ decisions' = ReadJsonl(f) /\ decisions' \in Seq(Rows)
         /\ Follows(decisions')
         /\ shares' = AppliedBy(decisions', Len(decisions'))
         /\ cursor' = Len(decisions') + 1
         /\ \A i \in 1..Len(decisions') :
              /\ decisions'[i].day = i /\ i \in Priced
              /\ decisions'[i].skipped <=> decisions'[i].day \notin Schedule
<1> DEFINE rs == ReadJsonl(f)
<1>1. rs \in Seq(Rows) /\ Len(rs) = Len(file[f]) /\ Len(rs) \in Nat
      /\ \A i \in 1..Len(rs) : rs[i] = file[f][i].row
  BY ReadJsonlOK DEF TInv
<1>2. rs = RowsOf(file[f]) /\ IsPrefixOfDays(rs)
  BY DEF ReadJsonl, RowsOf, ResumeFromRaw
<1>3. FileOK(file[f], Priced, Schedule)
  BY DEF IInv, FileInv
<1>4. Follows(rs)
  BY <1>2, <1>3 DEF FileOK
<1>5. ASSUME NEW i \in 1..Len(rs)
      PROVE  rs[i].day = i /\ i \in Priced /\ (rs[i].skipped <=> rs[i].day \notin Schedule)
  BY <1>1, <1>2, <1>3 DEF FileOK, IsPrefixOfDays
<1>6. /\ decisions' = rs /\ shares' = AppliedBy(rs, Len(rs))
      /\ cursor' = IF rs = <<>> THEN 1 ELSE rs[Len(rs)].day + 1
  BY DEF ResumeFromRaw
<1>7. cursor' = Len(rs) + 1
  <2> HIDE DEF rs
  <2>1. CASE rs = <<>>
    BY <1>6, <2>1
  <2>2. CASE rs # <<>>
    BY <1>1, <1>5, <1>6, <2>2
  <2> QED
    BY <2>1, <2>2
<1> HIDE DEF rs
<1> QED
  BY <1>1, <1>4, <1>5, <1>6, <1>7 DEF rs

LEMMA StartStep ==
  ASSUME TInv, IInv, TInv', setting' = setting, NEW c \in Commands, Start(c)
  PROVE  IInv'
<1>1. Priced' = Priced /\ Schedule' = Schedule
  BY DEF Priced, Schedule, DecisionSchedule
<1>2. /\ decisions' \in Seq(Rows) /\ Follows(decisions')
      /\ shares' = AppliedBy(decisions', Len(decisions'))
      /\ cursor' = Len(decisions') + 1
      /\ \A i \in 1..Len(decisions') :
           /\ decisions'[i].day = i /\ i \in Priced
           /\ decisions'[i].skipped <=> decisions'[i].day \notin Schedule
      /\ c.resume \in Files => decisions' = ReadJsonl(c.resume)
  <2>1. CASE c.resume = NoFile
    BY <2>1 DEF Start, StartFresh, Follows, AppliedBy
  <2>2. CASE c.resume # NoFile
    <3>1. c.resume \in Files /\ ResumeFromRaw(c.resume)
      BY <2>2 DEF Start
    <3> QED
      BY <3>1, Resumed
  <2> QED
    BY <2>1, <2>2
<1>3. pc' = "loop" /\ schedule' = Schedule /\ errors' = {} /\ out' = out /\ command' = c
  BY DEF Start, ScheduleAll
<1>4. c \in [resume : Files \cup {NoFile}, out : Files \cup {NoFile}, append : BOOLEAN]
      /\ (c.append => c.resume = c.out)
  OBVIOUS
<1>5. file \in [Files -> Seq(Entries)]
  BY DEF TInv, TypeOK
<1>6. FileInv'
  <2>1. \A f \in Files : file'[f] = file[f] \/ file'[f] = <<>>
    BY <1>4, <1>5 DEF Start, OpenRaw
  <2> QED
    BY <1>1, <2>1, FileOKEmpty DEF IInv, FileInv
<1>7. c.out # NoFile =>
        \E k \in 0..Len(decisions') :
          /\ Len(file'[c.out]) = Len(decisions') - k
          /\ \A i \in 1..Len(file'[c.out]) : file'[c.out][i].row = decisions'[i + k]
  <2> SUFFICES ASSUME c.out # NoFile
               PROVE  \E k \in 0..Len(decisions') :
                        /\ Len(file'[c.out]) = Len(decisions') - k
                        /\ \A i \in 1..Len(file'[c.out]) :
                             file'[c.out][i].row = decisions'[i + k]
    OBVIOUS
  <2>1. c.out \in Files /\ Len(decisions') \in Nat
    BY <1>2, <1>4
  <2>2. CASE c.out = c.resume
    <3>1. file' = file /\ decisions' = ReadJsonl(c.out)
      BY <1>2, <2>1, <2>2 DEF Start, OpenRaw
    <3>2. /\ Len(file'[c.out]) = Len(decisions') - 0
          /\ \A i \in 1..Len(file'[c.out]) : file'[c.out][i].row = decisions'[i + 0]
      BY <2>1, <3>1, ReadJsonlOK DEF TInv
    <3> QED
      BY <2>1, <3>2
  <2>3. CASE c.out # c.resume
    <3>1. file'[c.out] = <<>>
      BY <1>4, <1>5, <2>1, <2>3 DEF Start, OpenRaw
    <3> QED
      BY <2>1, <3>1
  <2> QED
    BY <2>2, <2>3
<1>8. RunInv'
  BY <1>1, <1>2, <1>3, <1>7 DEF RunInv, Written, Holds
<1>9. DaysInv'
  <2>1. Priced \subseteq Days
    BY SettingOK DEF TInv, TypeOK
  <2>2. \A d \in Priced : d < cursor' => d \in 1..Len(decisions')
    <3>1. Len(decisions') \in Nat /\ cursor' = Len(decisions') + 1
      BY <1>2
    <3>2. \A d \in Priced : d \in Nat /\ d >= 1
      BY <2>1 DEF Days
    <3> QED
      BY <3>1, <3>2
  <2>3. \A i, j \in 1..Len(decisions') : i < j => decisions'[i].day < decisions'[j].day
    BY <1>2
  <2>4. \A i \in 1..Len(decisions') : decisions'[i].day \in Priced /\ decisions'[i].day < cursor'
    BY <1>2
  <2>5. \A d \in Priced : d < cursor' => \E i \in 1..Len(decisions') : decisions'[i].day = d
    BY <1>2, <2>2
  <2> QED
    BY <1>1, <1>3, <2>3, <2>4, <2>5 DEF DaysInv
<1>10. RowInv'
  BY <1>1, <1>2 DEF RowInv
<1>11. Follows(out.rows)' /\ OutComplete'
  BY <1>1, <1>3 DEF IInv, OutComplete
<1> QED
  BY <1>2, <1>6, <1>8, <1>9, <1>10, <1>11 DEF IInv, TInv

\* The process is gone: what remains to be shown is about the files and --out.
LEMMA StopStep ==
  ASSUME TInv', Stop, setting' = setting,
         \A f \in Files : FileOK(file'[f], Priced, Schedule),
         Follows(out.rows)', OutComplete'
  PROVE  IInv'
<1>1. Priced' = Priced /\ Schedule' = Schedule
  BY DEF Priced, Schedule, DecisionSchedule
<1>2. pc' = "idle" /\ decisions' = <<>>
  BY DEF Stop
<1>3. FileInv'
  BY <1>1 DEF FileInv
<1> QED
  BY <1>2, <1>3 DEF IInv, TInv, RunInv, DaysInv, RowInv, Follows

LEMMA DecideStep ==
  ASSUME TInv, IInv, TInv', setting' = setting, pc = "loop", cursor \in Priced,
         NEW row \in Rows, row.day = cursor, row.portfolio = shares,
         row.skipped <=> cursor \notin schedule, Decide(row)
  PROVE  IInv'
<1> DEFINE n == Len(decisions)
<1>1. Priced' = Priced /\ Schedule' = Schedule
  BY DEF Priced, Schedule, DecisionSchedule
<1>2. /\ decisions \in Seq(Rows) /\ n \in Nat
      /\ decisions' = Append(decisions, row) /\ Len(decisions') = n + 1
      /\ \A i \in 1..n : decisions'[i] = decisions[i]
      /\ decisions'[n + 1] = row
  BY DEF TInv, TypeOK, Decide
<1>3. /\ pc' = "append" /\ cursor' = cursor
      /\ UNCHANGED <<command, file, shares, schedule, errors, out>>
  BY DEF Decide
<1>4. schedule = Schedule /\ shares = AppliedBy(decisions, n)
      /\ (command.out # NoFile => \E k \in 0..n : Holds(command.out, k))
  BY DEF IInv, RunInv, Written
<1>5. Follows(decisions')
  BY <1>2, <1>4, FollowsAppend DEF IInv
<1>6. AppliedBy(decisions', n) = AppliedBy(decisions, n)
  <2>1. decisions' \in Seq(Rows) /\ n <= Len(decisions) /\ n <= Len(decisions')
    BY <1>2
  <2> HIDE DEF n
  <2> QED
    BY <1>2, <2>1, AppliedPrefix
<1>7. ASSUME command.out # NoFile PROVE \E k \in 0..n : Holds(command.out, k)'
  <2>1. PICK k \in 0..n : Holds(command.out, k)
    BY <1>4, <1>7
  <2>2. command.out \in Files /\ Len(file[command.out]) \in Nat
    BY <1>7 DEF TInv, TypeOK
  <2>3. Holds(command.out, k)'
    <3>1. Written = n /\ Written' = n
      BY <1>2, <1>3 DEF Written
    <3>2. Len(file[command.out]) = n - k
          /\ \A i \in 1..Len(file[command.out]) : file[command.out][i].row = decisions[i + k]
      BY <2>1, <3>1 DEF Holds
    <3>3. \A i \in 1..Len(file[command.out]) : i + k \in 1..n
      BY <1>2, <2>2, <3>2
    <3>4. \A i \in 1..Len(file[command.out]) : file[command.out][i].row = decisions'[i + k]
      BY <1>2, <3>2, <3>3
    <3> QED
      BY <1>3, <3>1, <3>2, <3>4 DEF Holds
  <2> QED
    BY <2>3
<1>8. RunInv'
  <2>1. cursor \in Days
    BY SettingOK DEF TInv, TypeOK
  <2>2. Written' = n /\ Len(decisions') - 1 = n /\ Len(decisions') > 0
    BY <1>2, <1>3 DEF Written
  <2>3. schedule' = Schedule' /\ shares' = AppliedBy(decisions', n)
    BY <1>1, <1>3, <1>4, <1>6
  <2>4. decisions'[Len(decisions')].day = cursor'
    BY <1>2, <1>3
  <2> HIDE DEF n
  <2> QED
    BY <1>3, <1>7, <2>1, <2>2, <2>3, <2>4 DEF RunInv
<1>9. DaysInv'
  <2>1. \A i \in 1..n : decisions[i].day < cursor /\ decisions[i].day \in Priced
    BY DEF IInv, DaysInv
  <2>2. \A i, j \in 1..(n + 1) : i < j => decisions'[i].day < decisions'[j].day
    <3> SUFFICES ASSUME NEW i \in 1..(n + 1), NEW j \in 1..(n + 1), i < j
                 PROVE  decisions'[i].day < decisions'[j].day
      OBVIOUS
    <3>1. i \in 1..n
      BY <1>2
    <3>2. CASE j = n + 1
      BY <1>2, <2>1, <3>1, <3>2
    <3>3. CASE j # n + 1
      <4>1. j \in 1..n
        BY SMTT(30), <1>2, <3>3
      <4> QED
        BY <1>2, <3>1, <4>1 DEF IInv, DaysInv
    <3> QED
      BY <3>2, <3>3
  <2>3. \A i \in 1..(n + 1) : decisions'[i].day \in Priced
    BY <1>2, <2>1
  <2>4. \A d \in Priced : d < cursor \/ d = cursor \/ d > cursor
    BY SettingOK DEF TInv, TypeOK, Days
  <2>5. \A d \in Priced : d <= cursor =>
          d \in errors \/ \E i \in 1..(n + 1) : decisions'[i].day = d
    <3> SUFFICES ASSUME NEW d \in Priced, d <= cursor, d \notin errors
                 PROVE  \E i \in 1..(n + 1) : decisions'[i].day = d
      OBVIOUS
    <3>1. CASE d = cursor
      BY <1>2, <3>1
    <3>2. CASE d # cursor
      <4>1. d < cursor
        BY <3>2, SettingOK DEF TInv, TypeOK, Days
      <4>2. PICK i \in 1..n : decisions[i].day = d
        BY <4>1 DEF IInv, DaysInv
      <4> QED
        BY <1>2, <4>2
    <3> QED
      BY <3>1, <3>2
  <2>6. \A d \in errors : d < cursor /\ \A i \in 1..(n + 1) : decisions'[i].day # d
    <3> SUFFICES ASSUME NEW d \in errors, NEW i \in 1..(n + 1) PROVE decisions'[i].day # d
      BY DEF IInv, DaysInv
    <3>1. CASE i = n + 1
      <4>1. d < cursor /\ cursor \in Days
        BY SettingOK DEF IInv, DaysInv, TInv, TypeOK
      <4> QED
        BY <1>2, <3>1, <4>1 DEF Days
    <3>2. CASE i # n + 1
      <4>1. i \in 1..n
        BY <1>2, <3>2
      <4> QED
        BY <1>2, <4>1 DEF IInv, DaysInv
    <3> QED
      BY <3>1, <3>2
  <2> QED
    BY <1>1, <1>2, <1>3, <2>2, <2>3, <2>5, <2>6 DEF DaysInv
<1>10. RowInv'
  <2> SUFFICES ASSUME NEW i \in 1..(n + 1)
               PROVE  decisions'[i].skipped <=> decisions'[i].day \notin Schedule
    BY <1>1, <1>2 DEF RowInv
  <2>1. CASE i = n + 1
    BY <1>2, <1>4, <2>1
  <2>2. CASE i # n + 1
    <3>1. i \in 1..n
      BY <1>2, <2>2
    <3> QED
      BY <1>2, <3>1 DEF IInv, RowInv
  <2> QED
    BY <2>1, <2>2
<1>11. FileInv' /\ Follows(out.rows)' /\ OutComplete'
  BY <1>1, <1>3 DEF IInv, FileInv, OutComplete
<1> QED
  BY <1>5, <1>8, <1>9, <1>10, <1>11 DEF IInv, TInv

LEMMA RaiseStep ==
  ASSUME TInv, IInv, TInv', setting' = setting, CommitteeRaises
  PROVE  IInv'
<1>1. Priced' = Priced /\ Schedule' = Schedule
  BY DEF Priced, Schedule, DecisionSchedule
<1>2. FileInv' /\ Follows(out.rows)' /\ OutComplete'
  BY <1>1 DEF IInv, FileInv, OutComplete, CommitteeRaises
<1>3. CASE setting.goOn
  <2>1. /\ pc = "loop" /\ errors' = errors \cup {cursor} /\ cursor' = cursor + 1
        /\ UNCHANGED <<pc, command, decisions, shares, schedule, file, out>>
    BY <1>3 DEF CommitteeRaises
  <2>2. cursor \in Days /\ cursor \in Priced /\ Priced \subseteq Days
    BY SettingOK DEF CommitteeRaises, TInv, TypeOK
  <2>3. RunInv'
    BY <1>1, <2>1 DEF IInv, RunInv, Written, Holds
  <2>4. \A i \in 1..Len(decisions) : decisions[i].day \in Priced /\ decisions[i].day < cursor
    BY <2>1 DEF IInv, DaysInv
  <2>5. \A d \in Priced : d < cursor + 1 => d < cursor \/ d = cursor
    BY <2>2 DEF Days
  <2>6. \A d \in Days : d < cursor => d < cursor + 1
    BY <2>2 DEF Days
  <2>7. \A d \in errors : d < cursor /\ d \in Days
    BY <2>1 DEF IInv, DaysInv, TInv, TypeOK
  <2>8. DaysInv'
    <3>1. \A i \in 1..Len(decisions) : decisions[i].day < cursor + 1
      BY <2>2, <2>4, <2>6
    <3>2. \A d \in Priced : d < cursor + 1 =>
            d \in errors' \/ \E i \in 1..Len(decisions) : decisions[i].day = d
      BY <2>1, <2>5 DEF IInv, DaysInv
    <3>3. \A d \in errors' : d < cursor + 1
      BY <2>1, <2>2, <2>6, <2>7 DEF Days
    <3>4. \A d \in errors' : \A i \in 1..Len(decisions) : decisions[i].day # d
      BY <2>1, <2>2, <2>4 DEF IInv, DaysInv, Days
    <3> QED
      BY <1>1, <2>1, <3>1, <3>2, <3>3, <3>4 DEF IInv, DaysInv
  <2>9. RowInv' /\ Follows(decisions)'
    BY <1>1, <2>1 DEF IInv, RowInv
  <2> QED
    BY <1>2, <2>3, <2>8, <2>9 DEF IInv, TInv
<1>4. CASE ~setting.goOn
  <2>1. Stop /\ file' = file
    BY <1>4 DEF CommitteeRaises
  <2> QED
    BY <1>2, <2>1, StopStep DEF IInv, FileInv
<1> QED
  BY <1>3, <1>4

LEMMA RebalanceStep ==
  ASSUME TInv, IInv, TInv', setting' = setting, Rebalance
  PROVE  IInv'
<1> DEFINE n == Len(decisions)
<1>1. Priced' = Priced /\ Schedule' = Schedule
  BY DEF Priced, Schedule, DecisionSchedule
<1>2. /\ pc = "rebalance" /\ pc' = "loop" /\ cursor' = cursor + 1
      /\ UNCHANGED <<command, file, decisions, schedule, errors, out>>
  BY DEF Rebalance
<1>3. decisions \in Seq(Rows) /\ n \in 1..n /\ n \in Nat /\ cursor \in Days
      /\ decisions[n].day = cursor /\ Pending = decisions[n]
      /\ shares = AppliedBy(decisions, n - 1) /\ schedule = Schedule
  BY <1>2 DEF TInv, TypeOK, IInv, RunInv, Pending
<1>4. shares' = AppliedBy(decisions, n)
  <2>1. shares' = IF decisions[n].decision = "REBALANCE"
                  THEN ApplyRebalance(shares, decisions[n].day, decisions[n].plan)
                  ELSE shares
    BY <1>3 DEF Rebalance
  <2> HIDE DEF n
  <2> QED
    BY <1>3, <2>1, AppliedStep DEF n
<1>5. RunInv'
  <2>1. Written' = Written
    BY <1>2 DEF Written
  <2>2. \A k : Holds(command.out, k)' <=> Holds(command.out, k)
    BY <1>2, <2>1 DEF Holds
  <2> QED
    BY <1>1, <1>2, <1>3, <1>4, <2>1, <2>2 DEF IInv, RunInv
<1>6. \A d \in Days : d < cursor + 1 <=> d <= cursor
  BY <1>3 DEF Days
<1>7. Priced \subseteq Days /\ errors \subseteq Days
  BY SettingOK DEF TInv, TypeOK
<1>8. \A i \in 1..n : decisions[i].day \in Days /\ decisions[i].day <= cursor
  <2> SUFFICES ASSUME NEW i \in 1..n PROVE decisions[i].day \in Days /\ decisions[i].day <= cursor
    OBVIOUS
  <2>1. decisions[i].day \in Days
    BY <1>2, <1>7 DEF IInv, DaysInv
  <2>2. i < n => decisions[i].day < decisions[n].day
    BY <1>2, <1>3 DEF IInv, DaysInv
  <2> QED
    BY <1>3, <2>1, <2>2 DEF Days
<1>9. \A d \in errors : d < cursor + 1
  BY <1>2, <1>6, <1>7, <1>3 DEF IInv, DaysInv, Days
<1>10. DaysInv'
  BY <1>1, <1>2, <1>6, <1>7, <1>8, <1>9 DEF IInv, DaysInv
<1>11. RowInv' /\ Follows(decisions)' /\ FileInv' /\ Follows(out.rows)' /\ OutComplete'
  BY <1>1, <1>2 DEF IInv, RowInv, FileInv, OutComplete
<1> QED
  BY <1>5, <1>10, <1>11 DEF IInv, TInv

LEMMA ReplayNext == TInv /\ TInv' /\ IInv /\ [Next]_vars => IInv'
<1> SUFFICES ASSUME TInv, TInv', IInv, [Next]_vars PROVE IInv'
  OBVIOUS
<1>1. setting' = setting
  BY DEF Next, vars
<1>2. Priced' = Priced /\ Schedule' = Schedule
  BY <1>1 DEF Priced, Schedule, DecisionSchedule
<1>3. ASSUME UNCHANGED <<pc, command, file, decisions, shares, schedule, cursor, errors, out>>
      PROVE  IInv'
  <2>1. RunInv' /\ DaysInv'
    BY <1>2, <1>3 DEF IInv, RunInv, DaysInv, Written, Holds
  <2>2. FileInv' /\ RowInv' /\ Follows(decisions)' /\ Follows(out.rows)' /\ OutComplete'
    BY <1>2, <1>3 DEF IInv, FileInv, RowInv, OutComplete
  <2> QED
    BY <2>1, <2>2 DEF IInv, TInv
<1>4. CASE UNCHANGED vars
  BY <1>3, <1>4 DEF vars
<1>5. ASSUME NEW c \in Commands, Refuse(c) PROVE IInv'
  BY <1>3, <1>5 DEF Refuse
<1>6. CASE MissingPrice
  <2>1. /\ pc = "loop" /\ cursor' = cursor + 1 /\ cursor \in Days \ Priced
        /\ UNCHANGED <<pc, command, file, decisions, shares, schedule, errors, out>>
    BY <1>6 DEF MissingPrice
  <2>2. Priced \subseteq Days /\ errors \subseteq Days
    BY SettingOK DEF TInv, TypeOK
  <2>3. \A d \in Priced \cup errors : d < cursor => d < cursor + 1
    BY <2>1, <2>2 DEF Days
  <2>4. \A d \in Priced : d < cursor + 1 => d < cursor
    BY <2>1, <2>2 DEF Days
  <2>5. RunInv'
    BY <1>2, <2>1 DEF IInv, RunInv, Written, Holds
  <2>6. DaysInv'
    <3>1. \A i \in 1..Len(decisions) : decisions[i].day < cursor + 1
      BY <2>1, <2>3 DEF IInv, DaysInv
    <3>2. \A d \in errors : d < cursor + 1
      BY <2>1, <2>3 DEF IInv, DaysInv
    <3>3. \A d \in Priced : d < cursor + 1 =>
            d \in errors \/ \E i \in 1..Len(decisions) : decisions[i].day = d
      BY <2>1, <2>4 DEF IInv, DaysInv
    <3> QED
      BY <1>2, <2>1, <3>1, <3>2, <3>3 DEF IInv, DaysInv
  <2>7. FileInv' /\ RowInv' /\ Follows(decisions)' /\ Follows(out.rows)' /\ OutComplete'
    BY <1>2, <2>1 DEF IInv, FileInv, RowInv, OutComplete
  <2> QED
    BY <2>5, <2>6, <2>7 DEF IInv, TInv
<1>7. CASE Skip
  <2> DEFINE row == ScheduledSkip(cursor, shares)
  <2>1. pc = "loop" /\ cursor \in Priced /\ cursor \notin schedule /\ Decide(row)
    BY <1>7 DEF Skip
  <2>2. row \in Rows
    BY <2>1, DecisionOK, SettingOK DEF TInv, TypeOK
  <2>3. row.day = cursor /\ row.portfolio = shares /\ row.skipped
    BY DEF ScheduledSkip
  <2> HIDE DEF row
  <2> QED
    BY <1>1, <2>1, <2>2, <2>3, DecideStep
<1>8. ASSUME NEW o \in Outcomes, RunCommittee(o) PROVE IInv'
  <2> DEFINE row == DecisionRow(cursor, o, shares)
  <2>1. pc = "loop" /\ cursor \in Priced /\ cursor \in schedule /\ Decide(row)
    BY <1>8 DEF RunCommittee
  <2>2. row \in Rows
    BY <2>1, DecisionOK, SettingOK DEF TInv, TypeOK
  <2>3. row.day = cursor /\ row.portfolio = shares /\ ~row.skipped
    BY DEF DecisionRow
  <2> HIDE DEF row
  <2> QED
    BY <1>1, <2>1, <2>2, <2>3, DecideStep
<1>9. CASE AppendRaw
  <2>1. /\ pc = "append" /\ pc' = "rebalance" /\ AppendRow(command.out, "whole")
        /\ UNCHANGED <<command, decisions, shares, schedule, cursor, errors, out>>
    BY <1>9 DEF AppendRaw
  <2>2. /\ \A f \in Files : FileOK(file'[f], Priced, Schedule)
        /\ command.out # NoFile =>
             \E k \in 0..Len(decisions) :
               /\ Len(file'[command.out]) = Len(decisions) - k
               /\ \A i \in 1..Len(file'[command.out]) :
                    file'[command.out][i].row = decisions[i + k]
    BY <2>1, Appended DEF Ends
  <2>3. RunInv'
    BY <1>2, <2>1, <2>2 DEF IInv, RunInv, Written, Holds
  <2>4. DaysInv'
    BY <1>2, <2>1 DEF IInv, DaysInv
  <2>5. FileInv' /\ RowInv' /\ Follows(decisions)' /\ Follows(out.rows)' /\ OutComplete'
    BY <1>2, <2>1, <2>2 DEF IInv, FileInv, RowInv, OutComplete
  <2> QED
    BY <2>3, <2>4, <2>5 DEF IInv, TInv
<1>10. CASE Leave
  <2>1. CASE pc' = "write" /\ UNCHANGED <<command, decisions, shares, schedule, cursor, errors>>
    <3>1. pc = "loop" /\ UNCHANGED <<file, out>> /\ cursor = LastDay + 1
      BY <1>10 DEF Leave, TInv, TypeOK
    <3>2. RunInv' /\ DaysInv'
      BY <1>2, <2>1, <3>1 DEF IInv, RunInv, DaysInv, Written, Holds
    <3>3. FileInv' /\ RowInv' /\ Follows(decisions)' /\ Follows(out.rows)' /\ OutComplete'
      BY <1>2, <2>1, <3>1 DEF IInv, FileInv, RowInv, OutComplete
    <3> QED
      BY <3>2, <3>3 DEF IInv, TInv
  <2>2. CASE Stop
    BY <1>1, <1>2, <1>10, <2>2, StopStep DEF Leave, IInv, FileInv, OutComplete
  <2> QED
    BY <1>10, <2>1, <2>2 DEF Leave
<1>11. CASE WriteOut
  <2>1. /\ pc = "write" /\ Stop /\ file' = file
        /\ out' = [rows |-> decisions, missing |-> errors, torn |-> FALSE]
    BY <1>11 DEF WriteOut
  <2>2. cursor = LastDay + 1
    BY <2>1 DEF IInv, RunInv
  <2>3. decisions \in Seq(Rows) /\ DOMAIN decisions = 1..Len(decisions)
    BY DEF TInv, TypeOK
  <2>4. \A d \in Priced : d < LastDay + 1
    BY SettingOK DEF TInv, TypeOK, Days
  <2>5. {decisions[i].day : i \in DOMAIN decisions} = Priced \ errors
    <3>1. \A i \in 1..Len(decisions) : decisions[i].day \in Priced /\ decisions[i].day \notin errors
      BY <2>1 DEF IInv, DaysInv
    <3>2. \A d \in Priced : d \in errors \/ \E i \in 1..Len(decisions) : decisions[i].day = d
      BY <2>1, <2>2, <2>4 DEF IInv, DaysInv
    <3> QED
      BY <2>3, <3>1, <3>2
  <2>6. OutComplete'
    BY <1>2, <2>1, <2>3, <2>5 DEF OutComplete, IInv, DaysInv
  <2>7. Follows(out.rows)'
    BY <2>1 DEF IInv
  <2> QED
    BY <1>1, <2>1, <2>6, <2>7, StopStep DEF IInv, FileInv
<1>12. CASE Crash
  <2>1. Stop
    BY <1>12 DEF Crash
  <2>2. \A f \in Files : FileOK(file'[f], Priced, Schedule)
    <3>1. CASE file' = file
      BY <3>1 DEF IInv, FileInv
    <3>2. ASSUME NEW end \in {"torn", "bare"}, pc = "append", AppendRow(command.out, end)
          PROVE  \A f \in Files : FileOK(file'[f], Priced, Schedule)
      BY <3>2, Appended DEF Ends
    <3> QED
      BY <1>12, <3>1, <3>2 DEF Crash
  <2>3. Follows(out.rows)' /\ OutComplete'
    <3>1. CASE out' = out
      BY <1>2, <3>1 DEF IInv, OutComplete
    <3>2. CASE out' = NoOut
      BY <3>2 DEF NoOut, Follows, OutComplete
    <3> QED
      BY <1>12, <3>1, <3>2 DEF Crash
  <2> QED
    BY <1>1, <2>1, <2>2, <2>3, StopStep
<1> QED
  BY <1>1, <1>4, <1>5, <1>6, <1>7, <1>8, <1>9, <1>10, <1>11, <1>12, StartStep,
     RaiseStep, RebalanceStep
     DEF Next, Process, Operator

LEMMA Inductive == Spec => [](TInv /\ IInv)
<1>1. Init => TInv /\ IInv
  BY TypeInit, ReplayInit
<1>2. TInv /\ IInv /\ [Next]_vars => (TInv /\ IInv)'
  BY TypeNext, ReplayNext
<1> QED
  BY <1>1, <1>2, PTL DEF Spec

\* However often a replay is killed and resumed, and into whatever file, the
\* portfolio its committee is shown follows from all the days decided before.
THEOREM PortfolioTheorem == Spec => []PortfolioFollowsDecisions
<1>1. IInv => PortfolioFollowsDecisions
  BY DEF IInv, RunInv, PortfolioFollowsDecisions
<1> QED
  BY <1>1, Inductive, PTL

\* A finished replay has every priced day, in order, but for its reported errors.
THEOREM CompletenessTheorem == Spec => []OutComplete
<1>1. IInv => OutComplete
  BY DEF IInv
<1> QED
  BY <1>1, Inductive, PTL

\* The committee runs on the days of the whole range's cadence, wherever a
\* process resumed.
THEOREM CadenceTheorem == Spec => []CadenceKept
<1>1. TInv /\ IInv => CadenceKept
  <2> SUFFICES ASSUME TInv, IInv, NEW f \in Files, NEW i \in DOMAIN file[f]
               PROVE  file[f][i].row.skipped <=> file[f][i].row.day \notin Schedule
    BY DEF CadenceKept
  <2>1. DOMAIN file[f] = 1..Len(file[f])
    BY ReadJsonlOK DEF TInv
  <2> QED
    BY <2>1 DEF IInv, FileInv, FileOK
<1> QED
  BY <1>1, Inductive, PTL

HIDE ReplayAssumption

(***************************************************************************)
(* The evaluation of a replay                                              *)
(***************************************************************************)
Intents == [at : Nat, source : Nat, confirmed : Nat]
Logs == [triggers : SUBSET Nat, confirmed : SUBSET [source : Nat, day : Nat],
         executed : SUBSET [source : Nat, confirmed : Nat, day : Nat], suppressed : SUBSET Nat]

\* What began on a day is due n days later, and still open because that day is
\* not simulated yet; only what began today may be due today.
Waits(at, from, n, today, last) ==
  /\ at = IF from + n > last THEN last ELSE from + n
  /\ from <= today
  /\ today >= at => from = today

OpenInv ==
  /\ Len(rows) \in Nat /\ day <= Len(rows)
  /\ pending # None =>
       /\ pending \in Intents /\ Waits(pending.at, pending.source, strategy.delay, day, Last)
       /\ rows[pending.source].decision = "REBALANCE"
  /\ scheduled # None =>
       /\ scheduled \in Intents /\ scheduled.source <= day
       /\ rows[scheduled.source].decision = "REBALANCE"
       /\ IF scheduled.confirmed = 0
          THEN Waits(scheduled.at, scheduled.source, strategy.delay, day, Last)
          ELSE /\ strategy.lag > 0
               /\ Waits(scheduled.at, scheduled.confirmed, strategy.lag, day, Last)
               /\ scheduled.confirmed = Later(scheduled.source, strategy.delay)

\* A signal the gate has taken up is confirmed or waits for it.
TakenInv ==
  IsPolicy /\ strategy.kind = "confirmation_gate" =>
    \A s \in log.triggers :
      (pending # None /\ pending.source = s) \/ \E c \in log.confirmed : c.source = s

\* What a strategy has executed began on a simulated day; without an intent it
\* was executed on that day, and a question to the user was marked as seen.
ExecutedInv ==
  \A e \in log.executed :
    /\ e.source <= day
    /\ IsPolicy => rows[e.source].decision = "REBALANCE"
    /\ ~IsPolicy =>
         /\ e.confirmed = 0 /\ e.day = e.source
         /\ Stateful /\ rows[e.source].decision = "USER_DECISION_REQUIRED" =>
              IssueKey(rows[e.source]) \in seen

EvaluationInv ==
  /\ day \in Nat \ {0} /\ log \in Logs
  /\ strategy = None => /\ day = 1 /\ positions = {} /\ pending = None /\ scheduled = None
                        /\ log = NoLog
  /\ strategy # None => strategy \in Strategies
  /\ IsPolicy => OpenInv
  /\ TakenInv /\ ExecutedInv /\ DelayKept /\ IssueActedOnOnce

LEMMA EvaluationStarts == EvaluationInit => EvaluationInv
BY DEF EvaluationInit, EvaluationInv, Logs, NoLog, IsPolicy, TakenInv, ExecutedInv, DelayKept,
       IssueActedOnOnce

LEMMA EvaluateStep ==
  ASSUME TInv, EvaluationInv, NEW f \in Files, NEW s \in Strategies, Evaluate(f, s)
  PROVE  EvaluationInv'
<1>1. /\ strategy = None /\ strategy' = s /\ rows' \in FixtureRows(ReadJsonl(f), s)
      /\ ReadJsonl(f) # <<>>
      /\ UNCHANGED <<day, positions, pending, scheduled, seen, log>>
  BY DEF Evaluate, IsSegment
<1>2. day = 1 /\ pending = None /\ scheduled = None /\ log = NoLog /\ log \in Logs
  BY <1>1 DEF EvaluationInv
<1>3. ASSUME IsPolicy'
      PROVE  OpenInv'
  <2>1. rows' = ReadJsonl(f)
    BY <1>1, <1>3 DEF FixtureRows, IsPolicy
  <2>2. ReadJsonl(f) \in Seq(Rows)
    BY ReadJsonlOK DEF TInv
  <2>3. Len(ReadJsonl(f)) \in Nat \ {0}
    BY <1>1, <2>2
  <2> QED BY <1>1, <1>2, <2>1, <2>3 DEF OpenInv
<1>4. log'.executed = {} /\ log'.confirmed = {} /\ log'.triggers = {}
  BY <1>1, <1>2 DEF NoLog
<1>5. TakenInv' /\ ExecutedInv' /\ DelayKept' /\ IssueActedOnOnce'
  BY <1>4 DEF TakenInv, ExecutedInv, DelayKept, IssueActedOnOnce
<1> QED BY <1>1, <1>2, <1>3, <1>5 DEF EvaluationInv

\* What is due on a day was due on it and no earlier.
LEMMA FallsDue ==
  ASSUME NEW last \in Nat, NEW today \in Nat \ {0}, today < last, NEW n \in Nat, NEW from \in Nat,
         NEW at, Waits(at, from, n, today, last), today + 1 >= at
  PROVE  /\ from < today + 1
         /\ today + 1 = LET due == from + (IF n = 0 THEN 1 ELSE n)
                        IN  IF due > last THEN last ELSE due
<1>1. /\ at = IF from + n > last THEN last ELSE from + n
      /\ from <= today /\ (today >= at => from = today)
  BY DEF Waits
<1>2. CASE n = 0
  BY <1>1, <1>2
<1>3. CASE n > 0
  BY <1>1, <1>3
<1> QED BY <1>2, <1>3

\* What stays open waits on, a day later.
LEMMA WaitsOn ==
  ASSUME NEW last \in Nat, NEW today \in Nat \ {0}, NEW n \in Nat, NEW from \in Nat,
         NEW at, Waits(at, from, n, today, last), ~(today + 1 >= at)
  PROVE  Waits(at, from, n, today + 1, last)
BY DEF Waits

\* What begins on a day is due on it at the earliest, or when the data ends.
LEMMA WaitBegins ==
  ASSUME NEW last \in Nat, NEW today \in Nat \ {0}, today < last, NEW n \in Nat,
         NEW at, at = IF today + 1 + n > last THEN last ELSE today + 1 + n
  PROVE  at \in Nat /\ Waits(at, today + 1, n, today + 1, last)
BY DEF Waits

LEMMA OtherDay ==
  ASSUME EvaluationInv, strategy # None, day' = Today, UNCHANGED <<strategy, rows>>,
         UNCHANGED <<pending, scheduled, seen, log>>, ~IsPolicy
  PROVE  EvaluationInv'
<1>1. IsPolicy' = IsPolicy /\ Stateful' = Stateful /\ day \in Nat \ {0} /\ Today = day + 1
  BY DEF IsPolicy, Stateful, Today, EvaluationInv
<1>2. day' \in Nat \ {0}
  BY <1>1
<1>3. ExecutedInv'
  BY <1>1 DEF EvaluationInv, ExecutedInv, Logs
<1>4. DelayKept' /\ IssueActedOnOnce' /\ TakenInv'
  BY <1>1 DEF EvaluationInv, DelayKept, IssueActedOnOnce, TakenInv
<1> QED BY <1>1, <1>2, <1>3, <1>4 DEF EvaluationInv

LEMMA ExecutionOnlyStep ==
  ASSUME EvaluationInv, strategy # None, day' = Today, UNCHANGED <<strategy, rows>>,
         NEW feasible \in BOOLEAN, ExecutionOnlyDay(feasible)
  PROVE  EvaluationInv'
<1> DEFINE duplicate == IsIssue /\ IssueKey(Row) \in seen
           considered == Row.decision \in strategy.triggers /\ ~duplicate
           triggered == considered /\ SourcePlan(Row) # NoPlan
           done == triggered /\ feasible
           fill == [source |-> Today, confirmed |-> 0, day |-> Today]
<1>1. /\ strategy.kind \in {"execution_only", "placebo"}
      /\ seen' = IF considered /\ IsIssue THEN seen \cup {IssueKey(Row)} ELSE seen
      /\ log' = [log EXCEPT
           !.suppressed = IF duplicate THEN @ \cup {Today} ELSE @,
           !.triggers = IF triggered THEN @ \cup {Today} ELSE @,
           !.executed = IF done THEN @ \cup {fill} ELSE @]
      /\ UNCHANGED <<pending, scheduled>>
  BY DEF ExecutionOnlyDay
<1>2. /\ day \in Nat \ {0} /\ Today = day + 1 /\ log \in Logs /\ ~IsPolicy /\ ~IsPolicy'
      /\ Stateful' = Stateful
  BY <1>1 DEF EvaluationInv, Today, IsPolicy, Stateful
<1>3. done => considered
  OBVIOUS
<1>4. duplicate => ~considered
  OBVIOUS
<1>5. Row = rows[Today] /\ (IsIssue <=> Stateful /\ Row.decision = "USER_DECISION_REQUIRED")
  BY DEF Row, IsIssue
<1>6. considered /\ IsIssue => IssueKey(Row) \notin seen
  OBVIOUS
<1>7. fill \in [source : Nat, confirmed : Nat, day : Nat]
  BY <1>2
<1> HIDE DEF done, considered, triggered, duplicate
<1>8. log' \in Logs /\ log'.executed = IF done THEN log.executed \cup {fill} ELSE log.executed
  BY <1>1, <1>2, <1>7 DEF Logs
<1>9. ExecutedInv'
  <2> SUFFICES ASSUME NEW e \in log'.executed
               PROVE  /\ e.source <= Today /\ e.confirmed = 0 /\ e.day = e.source
                      /\ Stateful /\ rows[e.source].decision = "USER_DECISION_REQUIRED" =>
                           IssueKey(rows[e.source]) \in seen'
    BY <1>2 DEF ExecutedInv, IssueKey
  <2>1. CASE e \in log.executed
    <3>1. /\ e.source <= day /\ e.confirmed = 0 /\ e.day = e.source /\ e.source \in Nat
          /\ Stateful /\ rows[e.source].decision = "USER_DECISION_REQUIRED" =>
               IssueKey(rows[e.source]) \in seen
      BY <1>2, <2>1 DEF EvaluationInv, ExecutedInv, Logs
    <3> QED BY <1>1, <1>2, <3>1
  <2>2. CASE e = fill /\ done
    BY <1>1, <1>2, <1>3, <1>5, <2>2
  <2> QED BY <1>8, <2>1, <2>2
<1>10. IssueActedOnOnce'
  <2> DEFINE Question(e) == Stateful /\ rows[e.source].decision = "USER_DECISION_REQUIRED"
  <2>1. \A e \in log.executed : Question(e) => IssueKey(rows[e.source]) \in seen
    BY <1>2 DEF EvaluationInv, ExecutedInv
  <2>2. done /\ Question(fill) => IssueKey(rows[fill.source]) \notin seen
    BY <1>3, <1>5, <1>6
  <2>3. \A d, e \in log.executed :
          Question(d) /\ Question(e) /\ IssueKey(rows[d.source]) = IssueKey(rows[e.source]) => d = e
    BY DEF EvaluationInv, IssueActedOnOnce
  <2> SUFFICES ASSUME NEW d \in log'.executed, NEW e \in log'.executed, Question(d), Question(e),
                      IssueKey(rows[d.source]) = IssueKey(rows[e.source])
               PROVE  d = e
    BY <1>2 DEF IssueActedOnOnce, IssueKey
  <2> HIDE DEF Question, fill
  <2> QED BY <1>8, <2>1, <2>2, <2>3
<1>11. DelayKept' /\ TakenInv'
  BY <1>2 DEF DelayKept, TakenInv
<1>12. day' \in Nat \ {0}
  BY <1>2
<1> QED BY <1>2, <1>8, <1>9, <1>10, <1>11, <1>12 DEF EvaluationInv

\* An execution is of what was due or confirmed on the day, and on time.
OnTime(e) ==
  /\ e.source < e.day /\ (strategy.lag > 0 => e.confirmed < e.day)
  /\ \/ e.confirmed = 0 /\ e.day = Later(e.source, strategy.delay)
     \/ e.confirmed # 0 /\ strategy.lag > 0 /\ e.day = Later(e.confirmed, strategy.lag)
     \/ e.confirmed # 0 /\ strategy.lag = 0 /\ e.day = e.confirmed

LEMMA ConfirmedOnTime ==
  ASSUME EvaluationInv, IsPolicy, day < Last, Confirms
  PROVE  /\ pending.source \in Nat /\ pending.source < Today
         /\ Today = Later(pending.source, strategy.delay)
         /\ rows[pending.source].decision = "REBALANCE"
<1>1. /\ pending \in Intents /\ Waits(pending.at, pending.source, strategy.delay, day, Last)
      /\ rows[pending.source].decision = "REBALANCE" /\ day \in Nat \ {0} /\ Last \in Nat
  BY DEF EvaluationInv, OpenInv, Confirms, Last
<1>2. pending.source \in Nat /\ strategy.delay \in Nat /\ Today = day + 1
  BY <1>1, EvaluationAssumption DEF Intents, EvaluationInv, IsPolicy, Today
<1>3. day + 1 >= pending.at
  BY <1>2 DEF Confirms
<1> QED BY <1>1, <1>2, <1>3, FallsDue DEF Later, Last

LEMMA DueOnTime ==
  ASSUME EvaluationInv, IsPolicy, day < Last, Due
  PROVE  /\ scheduled.source \in Nat /\ scheduled.confirmed \in Nat
         /\ rows[scheduled.source].decision = "REBALANCE"
         /\ OnTime([source |-> scheduled.source, confirmed |-> scheduled.confirmed, day |-> Today])
<1>1. /\ scheduled \in Intents /\ scheduled.source <= day
      /\ rows[scheduled.source].decision = "REBALANCE" /\ day \in Nat \ {0} /\ Last \in Nat
      /\ IF scheduled.confirmed = 0
         THEN Waits(scheduled.at, scheduled.source, strategy.delay, day, Last)
         ELSE strategy.lag > 0 /\ Waits(scheduled.at, scheduled.confirmed, strategy.lag, day, Last)
  BY DEF EvaluationInv, OpenInv, Due, Last
<1>2. /\ scheduled.source \in Nat /\ scheduled.confirmed \in Nat
      /\ strategy.delay \in Nat /\ strategy.lag \in Nat /\ Today = day + 1
  BY <1>1, EvaluationAssumption DEF Intents, EvaluationInv, IsPolicy, Today
<1>3. day + 1 >= scheduled.at
  BY <1>2 DEF Due
<1>4. CASE scheduled.confirmed = 0
  <2>1. Today = Later(scheduled.source, strategy.delay) /\ scheduled.source < Today
    BY <1>1, <1>2, <1>3, <1>4, FallsDue DEF Later, Last
  <2> QED BY <1>1, <1>2, <1>4, <2>1 DEF OnTime
<1>5. CASE scheduled.confirmed # 0
  <2>1. Today = Later(scheduled.confirmed, strategy.lag) /\ scheduled.confirmed < Today
    BY <1>1, <1>2, <1>3, <1>5, FallsDue DEF Later, Last
  <2> QED BY <1>1, <1>2, <1>5, <2>1 DEF OnTime
<1> QED BY <1>1, <1>2, <1>4, <1>5

LEMMA ExecutionsOnTime ==
  ASSUME EvaluationInv, IsPolicy, day < Last, NEW drifted \in BOOLEAN, NEW moved \in BOOLEAN,
         NEW e \in Executions(drifted, moved)
  PROVE  /\ e \in [source : Nat, confirmed : Nat, day : Nat] /\ e.day = Today
         /\ rows[e.source].decision = "REBALANCE" /\ OnTime(e)
<1>1. day \in Nat \ {0} /\ Today \in Nat \ {0}
  BY DEF EvaluationInv, Today
<1> DEFINE due == [source |-> scheduled.source, confirmed |-> scheduled.confirmed, day |-> Today]
           now == [source |-> pending.source, confirmed |-> Today, day |-> Today]
<1>2. CASE Due /\ e = due
  <2>1. OnTime(due) /\ due \in [source : Nat, confirmed : Nat, day : Nat]
        /\ rows[due.source].decision = "REBALANCE"
    BY <1>1, <1>2, DueOnTime
  <2> QED BY <1>2, <2>1
<1>3. CASE Confirms /\ strategy.lag = 0 /\ e = now
  <2>1. OnTime(now) /\ now \in [source : Nat, confirmed : Nat, day : Nat]
        /\ rows[now.source].decision = "REBALANCE"
    BY <1>1, <1>3, ConfirmedOnTime DEF OnTime
  <2> QED BY <1>3, <2>1
<1> QED BY <1>2, <1>3 DEF Executions

\* What is open after a policy's day began on it, or before and is not due yet.
LEMMA StillOpen ==
  ASSUME EvaluationInv, IsPolicy, day < Last, UNCHANGED <<strategy, rows>>, day' = Today,
         NEW drifted \in BOOLEAN, NEW moved \in BOOLEAN, ExecutionPolicyDay(drifted, moved)
  PROVE  OpenInv'
<1> DEFINE intent == [at |-> Clamp(Today + strategy.delay), source |-> Today, confirmed |-> 0]
           late == [at |-> Clamp(Today + strategy.lag), source |-> pending.source,
                    confirmed |-> Today]
           gate == strategy.kind = "confirmation_gate"
<1>1. /\ OpenInv /\ day \in Nat \ {0} /\ Last \in Nat /\ Last = Len(rows)
      /\ Today = day + 1 /\ Today \in Nat \ {0} /\ Last' = Last
      /\ strategy.delay \in Nat /\ strategy.lag \in Nat
      /\ \A d, n : Later(d, n)' = Later(d, n)
  BY EvaluationAssumption DEF EvaluationInv, OpenInv, IsPolicy, Today, Last, Later
<1>2. /\ intent \in Intents /\ Waits(intent.at, Today, strategy.delay, Today, Last)
  <2>1. intent.at = IF Today + strategy.delay > Last THEN Last ELSE Today + strategy.delay
    BY DEF Clamp
  <2>2. intent.at \in Nat /\ Waits(intent.at, day + 1, strategy.delay, day + 1, Last)
    BY <1>1, <2>1, WaitBegins
  <2> QED BY <1>1, <2>2 DEF Intents
<1>3. Clamp(Today + strategy.lag) \in Nat
      /\ Waits(Clamp(Today + strategy.lag), Today, strategy.lag, Today, Last)
  <2> DEFINE at == Clamp(Today + strategy.lag)
  <2>1. at = IF Today + strategy.lag > Last THEN Last ELSE Today + strategy.lag
    BY DEF Clamp
  <2> HIDE DEF at
  <2>2. at \in Nat /\ Waits(at, day + 1, strategy.lag, day + 1, Last)
    BY <1>1, <2>1, WaitBegins
  <2> QED BY <1>1, <2>2 DEF at
<1>4. Takes(drifted) => rows[Today].decision = "REBALANCE"
  BY DEF Takes, Row
<1>5. /\ scheduled' = IF Takes(drifted) /\ ~gate THEN intent ELSE AfterConfirm(drifted)
      /\ pending' = IF Takes(drifted) /\ gate THEN intent ELSE IF Confirms THEN None ELSE pending
  BY DEF ExecutionPolicyDay
<1> HIDE DEF intent
<1>6. ASSUME pending' # None
      PROVE  /\ pending' \in Intents
             /\ Waits(pending'.at, pending'.source, strategy.delay, Today, Last)
             /\ rows[pending'.source].decision = "REBALANCE"
  <2>1. CASE pending' = intent /\ Takes(drifted)
    BY <1>2, <1>4, <2>1 DEF intent
  <2>2. CASE pending' = pending /\ ~Confirms
    <3>1. /\ pending \in Intents /\ rows[pending.source].decision = "REBALANCE"
          /\ Waits(pending.at, pending.source, strategy.delay, day, Last)
      BY <1>1, <1>6, <2>2 DEF OpenInv
    <3>2. pending.source \in Nat /\ ~(day + 1 >= pending.at)
      BY <1>1, <1>6, <2>2, <3>1 DEF Confirms, Intents
    <3>3. Waits(pending.at, pending.source, strategy.delay, day + 1, Last)
      BY <1>1, <3>1, <3>2, WaitsOn
    <3> QED BY <1>1, <2>2, <3>1, <3>3
  <2> QED BY <1>5, <1>6, <2>1, <2>2
<1>7. ASSUME scheduled' # None
      PROVE  /\ scheduled' \in Intents /\ scheduled'.source <= Today
             /\ rows[scheduled'.source].decision = "REBALANCE"
             /\ IF scheduled'.confirmed = 0
                THEN Waits(scheduled'.at, scheduled'.source, strategy.delay, Today, Last)
                ELSE /\ strategy.lag > 0
                     /\ Waits(scheduled'.at, scheduled'.confirmed, strategy.lag, Today, Last)
                     /\ scheduled'.confirmed = Later(scheduled'.source, strategy.delay)
  <2>1. CASE scheduled' = intent /\ Takes(drifted)
    BY <1>1, <1>2, <1>4, <2>1 DEF intent
  <2>2. CASE scheduled' = late /\ Confirms /\ strategy.lag > 0
    <3>1. pending.source \in Nat /\ pending.source < Today
          /\ rows[pending.source].decision = "REBALANCE"
          /\ Today = Later(pending.source, strategy.delay)
      BY <2>2, ConfirmedOnTime
    <3> QED BY <1>1, <1>3, <2>2, <3>1 DEF Intents
  <2>3. CASE scheduled' = scheduled /\ ~Due
    <3>1. /\ scheduled \in Intents /\ scheduled.source <= day
          /\ rows[scheduled.source].decision = "REBALANCE"
          /\ IF scheduled.confirmed = 0
             THEN Waits(scheduled.at, scheduled.source, strategy.delay, day, Last)
             ELSE /\ strategy.lag > 0
                  /\ Waits(scheduled.at, scheduled.confirmed, strategy.lag, day, Last)
                  /\ scheduled.confirmed = Later(scheduled.source, strategy.delay)
      BY <1>1, <1>7, <2>3 DEF OpenInv
    <3>2. scheduled.source \in Nat /\ scheduled.confirmed \in Nat /\ ~(day + 1 >= scheduled.at)
      BY <1>1, <1>7, <2>3, <3>1 DEF Due, Intents
    <3>3. CASE scheduled.confirmed = 0
      BY <1>1, <2>3, <3>1, <3>2, <3>3, WaitsOn
    <3>4. CASE scheduled.confirmed # 0
      BY <1>1, <2>3, <3>1, <3>2, <3>4, WaitsOn
    <3> QED BY <3>3, <3>4
  <2> QED BY <1>5, <1>7, <2>1, <2>2, <2>3 DEF AfterConfirm, AfterDue
<1>8. Len(rows)' \in Nat /\ day' <= Len(rows)'
  BY <1>1
<1> QED BY <1>1, <1>6, <1>7, <1>8 DEF OpenInv, Last

LEMMA ExecutionPolicyStep ==
  ASSUME EvaluationInv, strategy # None, day < Last, UNCHANGED <<strategy, rows>>, day' = Today,
         NEW drifted \in BOOLEAN, NEW moved \in BOOLEAN, ExecutionPolicyDay(drifted, moved)
  PROVE  EvaluationInv'
<1> DEFINE new == Executions(drifted, moved)
           late == [source |-> pending.source, day |-> Today]
<1>1. /\ log' = [log EXCEPT
           !.triggers = IF Takes(drifted) THEN @ \cup {Today} ELSE @,
           !.confirmed = IF Confirms THEN @ \cup {late} ELSE @,
           !.executed = @ \cup new]
      /\ IsPolicy /\ seen' = seen
  BY DEF ExecutionPolicyDay, IsPolicy
<1>2. /\ day \in Nat \ {0} /\ Today = day + 1 /\ Today \in Nat \ {0} /\ log \in Logs /\ IsPolicy'
      /\ strategy \in Strategies
  BY <1>1 DEF EvaluationInv, Today, IsPolicy
<1>3. \A e \in new : /\ e \in [source : Nat, confirmed : Nat, day : Nat] /\ e.day = Today
                     /\ rows[e.source].decision = "REBALANCE" /\ OnTime(e)
  BY <1>1, ExecutionsOnTime
<1>4. Confirms => /\ late \in [source : Nat, day : Nat]
                  /\ late.day = Later(late.source, strategy.delay)
  BY <1>1, <1>2, ConfirmedOnTime
<1> HIDE DEF new, late
<1>5. log' \in Logs
  BY <1>1, <1>2, <1>3, <1>4 DEF Logs
<1>6. log'.executed = log.executed \cup new
      /\ log'.confirmed = IF Confirms THEN log.confirmed \cup {late} ELSE log.confirmed
  BY <1>1, <1>2 DEF Logs
<1>7. \A e \in log.executed : /\ e.source \in Nat /\ e.source <= day
                              /\ rows[e.source].decision = "REBALANCE" /\ OnTime(e)
  BY <1>1, <1>2 DEF EvaluationInv, ExecutedInv, DelayKept, OnTime, Logs
<1>8. \A c \in log.confirmed : c.day = Later(c.source, strategy.delay)
  BY <1>1 DEF EvaluationInv, DelayKept
<1>9. \A e \in new : e.source <= Today
  BY <1>2, <1>3 DEF OnTime
<1>10. ExecutedInv'
  BY <1>2, <1>3, <1>6, <1>7, <1>9 DEF ExecutedInv
<1>11. \A e \in log'.executed : OnTime(e)
  BY <1>3, <1>6, <1>7
<1>12. \A c \in log'.confirmed : c.day = Later(c.source, strategy.delay)
  BY <1>4, <1>6, <1>8
<1>13. DelayKept'
  BY <1>11, <1>12 DEF DelayKept, OnTime, Later
<1>14. \A e \in log'.executed : rows[e.source].decision = "REBALANCE"
  BY <1>3, <1>6, <1>7
<1>15. IssueActedOnOnce'
  BY <1>14 DEF IssueActedOnOnce
<1>16. OpenInv'
  BY <1>1, StillOpen
<1>17. TakenInv'
  <2> SUFFICES ASSUME strategy.kind = "confirmation_gate", NEW s \in log'.triggers
               PROVE  \/ pending' # None /\ pending'.source = s
                      \/ \E c \in log'.confirmed : c.source = s
    BY DEF TakenInv
  <2>1. s \in log.triggers \/ (Takes(drifted) /\ s = Today)
    BY <1>1, <1>2 DEF Logs
  <2>2. CASE s \in log.triggers /\ \E c \in log.confirmed : c.source = s
    BY <1>6, <2>2
  <2>3. CASE pending # None /\ pending.source = s /\ Confirms
    <3>1. late \in log'.confirmed
      BY <1>6, <2>3
    <3>2. late.source = s
      BY <2>3 DEF late
    <3> QED BY <3>1, <3>2
  <2>4. CASE pending # None /\ pending.source = s /\ ~Confirms
    <3>1. ~Takes(drifted) /\ pending' = pending
      BY <2>4 DEF Takes, ExecutionPolicyDay
    <3> QED BY <2>4, <3>1
  <2>5. CASE Takes(drifted) /\ s = Today
    <3>1. pending' = [at |-> Clamp(Today + strategy.delay), source |-> Today, confirmed |-> 0]
      BY <2>5 DEF ExecutionPolicyDay
    <3>2. pending' \in Intents
      BY <1>2, <3>1, EvaluationAssumption DEF Clamp, Intents, Last, OpenInv, EvaluationInv
    <3>3. pending' # None
      BY <3>2, EvaluationAssumption DEF Intents
    <3> QED BY <2>5, <3>1, <3>3
  <2>6. TakenInv
    BY DEF EvaluationInv
  <2> QED BY <1>1, <2>1, <2>2, <2>3, <2>4, <2>5, <2>6 DEF TakenInv
<1> QED BY <1>2, <1>5, <1>10, <1>13, <1>15, <1>16, <1>17 DEF EvaluationInv

LEMMA EvaluationNext ==
  ASSUME TInv, EvaluationInv, [BacktestNext]_<<vars, evaluation>>
  PROVE  EvaluationInv'
<1>1. CASE UNCHANGED evaluation
  BY <1>1 DEF evaluation, EvaluationInv, IsPolicy, OpenInv, TakenInv, ExecutedInv, DelayKept,
     IssueActedOnOnce, Last, Later, Stateful, IssueKey
<1>2. ASSUME NEW f \in Files, NEW s \in Strategies, Evaluate(f, s) PROVE EvaluationInv'
  BY <1>2, EvaluateStep
<1>3. ASSUME EvaluateDay PROVE EvaluationInv'
  <2>1. strategy # None /\ day < Last /\ day' = Today /\ UNCHANGED <<strategy, rows>>
    BY <1>3 DEF EvaluateDay
  <2>2. CASE HoldDay \/ CalendarDay \/ OtherCalendarDay \/ ImmediateDay
             \/ \E drifted \in BOOLEAN : ThresholdDay(drifted)
    <3>1. UNCHANGED <<pending, scheduled, seen, log>> /\ ~IsPolicy
      BY <2>2 DEF HoldDay, CalendarDay, OtherCalendarDay, ImmediateDay, ThresholdDay, IsPolicy
    <3> QED BY <2>1, <3>1, OtherDay
  <2>3. CASE \E feasible \in BOOLEAN : ExecutionOnlyDay(feasible)
    BY <2>1, <2>3, ExecutionOnlyStep
  <2>4. CASE \E drifted, moved \in BOOLEAN : ExecutionPolicyDay(drifted, moved)
    BY <2>1, <2>4, ExecutionPolicyStep
  <2> QED BY <1>3, <2>2, <2>3, <2>4 DEF EvaluateDay
<1> QED BY <1>1, <1>2, <1>3 DEF BacktestNext

LEMMA EvaluationInductive == BacktestSpec => [](TInv /\ EvaluationInv)
<1>1. BacktestInit => TInv /\ EvaluationInv
  BY TypeInit, EvaluationStarts DEF BacktestInit
<1>2. TInv /\ [BacktestNext]_<<vars, evaluation>> => TInv'
  BY TypeNext DEF BacktestNext, vars
<1>3. TInv /\ EvaluationInv /\ [BacktestNext]_<<vars, evaluation>> => (TInv /\ EvaluationInv)'
  BY <1>2, EvaluationNext
<1> QED BY <1>1, <1>3, PTL DEF BacktestSpec

\* No fill on the close that gave the signal or, with a lag, confirmed it; and
\* what is confirmed or executed is so exactly when its delay is over.
THEOREM DelaysAreKept == BacktestSpec => []DelayKept
<1>1. EvaluationInv => DelayKept
  BY DEF EvaluationInv
<1> QED BY <1>1, EvaluationInductive, PTL

\* LostOnlyAtTheEnd: what is open at the end of the data is a signal of its last
\* day or, with a lag, one whose confirmation fell on that day or was moved to
\* it; every other signal the gate took up was confirmed
\* (simulate_execution_policy).
THEOREM EndLosses == BacktestSpec => []LostOnlyAtTheEnd
<1>1. EvaluationInv => LostOnlyAtTheEnd
  <2> SUFFICES ASSUME EvaluationInv, IsPolicy, Finished
               PROVE  LostOnlyAtTheEnd
    BY DEF LostOnlyAtTheEnd
  <2>1. OpenInv /\ TakenInv /\ day = Last /\ Last = Len(rows) /\ Last \in Nat
        /\ strategy.delay \in Nat /\ strategy.lag \in Nat
    BY EvaluationAssumption DEF EvaluationInv, Finished, OpenInv, Last
  <2>2. \A at, from, n \in Nat : Waits(at, from, n, Last, Last) => from = Last
    BY <2>1 DEF Waits
  <2>3. pending # None => pending.source = Last
    BY <2>1, <2>2 DEF OpenInv, Intents
  <2>4. ASSUME scheduled # None
        PROVE  \/ scheduled.source = Last
               \/ /\ strategy.lag > 0 /\ scheduled.confirmed = Last
                  /\ Later(scheduled.source, strategy.delay) = Last
    <3>1. scheduled \in Intents
      BY <2>1, <2>4 DEF OpenInv
    <3>2. CASE scheduled.confirmed = 0
      BY <2>1, <2>2, <2>4, <3>1, <3>2 DEF OpenInv, Intents
    <3>3. CASE scheduled.confirmed # 0
      <4>1. /\ strategy.lag > 0 /\ Waits(scheduled.at, scheduled.confirmed, strategy.lag, Last, Last)
            /\ scheduled.confirmed = Later(scheduled.source, strategy.delay)
        BY <2>1, <2>4, <3>3 DEF OpenInv
      <4>2. scheduled.confirmed = Last
        BY <2>1, <2>2, <3>1, <4>1 DEF Intents
      <4> QED BY <4>1, <4>2
    <3> QED BY <3>2, <3>3
  <2> QED BY <2>1, <2>3, <2>4 DEF LostOnlyAtTheEnd, TakenInv
<1> QED BY <1>1, EvaluationInductive, PTL

\* A strategy that remembers the questions it has acted on acts on none twice.
THEOREM IssuesActedOnOnce == BacktestSpec => []IssueActedOnOnce
<1>1. EvaluationInv => IssueActedOnOnce
  BY DEF EvaluationInv
<1> QED BY <1>1, EvaluationInductive, PTL

\* The rows are the last of those of one portfolio, decided in order: all of
\* them, or those since a process resumed from another file.
EndOfReplay(rs) ==
  \E D \in Seq(Rows), k \in Nat :
    /\ Follows(D) /\ \A i, j \in 1..Len(D) : i < j => D[i].day < D[j].day
    /\ Len(rs) = Len(D) - k
    /\ \A i \in 1..Len(rs) : rs[i] = D[i + k]

FilesInv == \A f \in Files : EndOfReplay(ReadJsonl(f))

Rebalances(n) == {i \in 2..n : rows[i].decision = "REBALANCE" /\ rows[i].plan # NoPlan}

ImmediateInv ==
  strategy # None /\ strategy.kind = "immediate" =>
    /\ EndOfReplay(rows)
    /\ positions = {<<i, rows[i].plan>> : i \in Rebalances(day)}

LEMMA EndsAt ==
  ASSUME NEW rs, NEW D \in Seq(Rows), NEW k \in Nat, Follows(D),
         \A i, j \in 1..Len(D) : i < j => D[i].day < D[j].day,
         Len(rs) = Len(D) - k, \A i \in 1..Len(rs) : rs[i] = D[i + k]
  PROVE  EndOfReplay(rs)
BY DEF EndOfReplay

LEMMA EmptyEnds == EndOfReplay(<<>>)
<1> DEFINE D == <<>>
<1>1. D \in Seq(Rows) /\ Follows(D) /\ Len(D) = Len(D) - 0 /\ 1..Len(D) = {}
  BY DEF Follows
<1> HIDE DEF D
<1>2. EndOfReplay(D)
  BY <1>1, EndsAt
<1> QED BY <1>2 DEF D

LEMMA FilesStart == Init => FilesInv
<1> SUFFICES ASSUME Init, NEW f \in Files PROVE EndOfReplay(ReadJsonl(f))
  BY DEF FilesInv
<1>1. ReadJsonl(f) = <<>>
  BY DEF Init, ReadJsonl
<1> QED BY <1>1, EmptyEnds

LEMMA FilesAppended ==
  ASSUME TInv, TInv', IInv, FilesInv, pc = "append", NEW end \in Ends, AppendRow(command.out, end)
  PROVE  FilesInv'
<1> SUFFICES ASSUME NEW f \in Files PROVE EndOfReplay(ReadJsonl(f)')
  BY DEF FilesInv
<1>1. file \in [Files -> Seq(Entries)] /\ command.out \in Files \cup {NoFile}
  BY DEF TInv, TypeOK
<1>2. CASE f # command.out
  <2>1. file'[f] = file[f]
    BY <1>1, <1>2 DEF AppendRow
  <2>2. ReadJsonl(f)' = ReadJsonl(f)
    BY <2>1 DEF ReadJsonl
  <2> QED BY <2>2 DEF FilesInv
<1>3. CASE f = command.out
  <2>1. f # NoFile
    BY ReplayAssumption
  <2>2. PICK k \in 0..Len(decisions) :
          /\ Len(file'[f]) = Len(decisions) - k
          /\ \A i \in 1..Len(file'[f]) : file'[f][i].row = decisions[i + k]
    BY <1>3, <2>1, Appended
  <2>3. /\ decisions \in Seq(Rows) /\ Follows(decisions)
        /\ \A i, j \in 1..Len(decisions) : i < j => decisions[i].day < decisions[j].day
    BY DEF IInv, DaysInv, TInv, TypeOK
  <2>4. /\ Len(ReadJsonl(f)') = Len(file'[f])
        /\ \A i \in 1..Len(file'[f]) : ReadJsonl(f)'[i] = file'[f][i].row
    <3>1. file'[f] \in Seq(Entries)
      BY DEF TInv, TypeOK
    <3>2. DOMAIN file'[f] = 1..Len(file'[f]) /\ Len(file'[f]) \in Nat
      BY <3>1
    <3>3. ReadJsonl(f)' = [i \in 1..Len(file'[f]) |-> file'[f][i].row]
      BY <3>2 DEF ReadJsonl
    <3> QED BY <3>2, <3>3
  <2>5. Len(ReadJsonl(f)') = Len(decisions) - k
        /\ \A i \in 1..Len(ReadJsonl(f)') : ReadJsonl(f)'[i] = decisions[i + k]
    BY <2>2, <2>4
  <2>6. k \in Nat
    BY <2>2, <2>3
  <2> QED BY <2>3, <2>5, <2>6, EndsAt
<1> QED BY <1>2, <1>3

LEMMA FilesNext == TInv /\ TInv' /\ IInv /\ FilesInv /\ [Next]_vars => FilesInv'
<1> SUFFICES ASSUME TInv, TInv', IInv, FilesInv, [Next]_vars PROVE FilesInv'
  OBVIOUS
<1>1. CASE UNCHANGED file
  BY <1>1 DEF FilesInv, ReadJsonl
<1>2. ASSUME NEW c \in Commands, Start(c) PROVE FilesInv'
  <2> SUFFICES ASSUME NEW f \in Files PROVE EndOfReplay(ReadJsonl(f)')
    BY DEF FilesInv
  <2>1. file'[f] = file[f] \/ file'[f] = <<>>
    BY <1>2 DEF Start, OpenRaw, TInv, TypeOK
  <2>2. CASE file'[f] = file[f]
    <3>1. ReadJsonl(f)' = ReadJsonl(f)
      BY <2>2 DEF ReadJsonl
    <3> QED BY <3>1 DEF FilesInv
  <2>3. CASE file'[f] = <<>>
    <3>1. ReadJsonl(f)' = <<>>
      BY <2>3 DEF ReadJsonl
    <3> QED BY <3>1, EmptyEnds
  <2> QED BY <2>1, <2>2, <2>3
<1>3. CASE AppendRaw
  BY <1>3, FilesAppended DEF AppendRaw, Ends
<1>4. CASE Crash
  BY <1>1, <1>4, FilesAppended DEF Crash, Ends
<1> QED
  BY <1>1, <1>2, <1>3, <1>4
     DEF Next, Process, Operator, vars, Refuse, MissingPrice, Skip, Decide, RunCommittee,
         CommitteeRaises, Rebalance, Leave, WriteOut

LEMMA ImmediateNext ==
  ASSUME TInv, EvaluationInv, FilesInv, ImmediateInv, [BacktestNext]_<<vars, evaluation>>
  PROVE  ImmediateInv'
<1> SUFFICES ASSUME (strategy # None /\ strategy.kind = "immediate")'
             PROVE  /\ EndOfReplay(rows')
                    /\ positions' = {<<i, rows'[i].plan>> : i \in Rebalances(day)'}
  BY DEF ImmediateInv
<1>1. CASE UNCHANGED evaluation
  BY <1>1 DEF evaluation, ImmediateInv, Rebalances
<1>2. ASSUME NEW f \in Files, NEW s \in Strategies, Evaluate(f, s)
      PROVE  /\ EndOfReplay(rows')
             /\ positions' = {<<i, rows'[i].plan>> : i \in Rebalances(day)'}
  <2>1. rows' = ReadJsonl(f) /\ positions' = positions /\ day' = day /\ strategy = None
    BY <1>2 DEF Evaluate, FixtureRows
  <2>2. positions = {} /\ day = 1
    BY <2>1 DEF EvaluationInv
  <2>3. Rebalances(day)' = {}
    BY <2>1, <2>2 DEF Rebalances
  <2> QED BY <2>1, <2>2, <2>3 DEF FilesInv
<1>3. ASSUME EvaluateDay
      PROVE  /\ EndOfReplay(rows')
             /\ positions' = {<<i, rows'[i].plan>> : i \in Rebalances(day)'}
  <2>1. strategy # None /\ strategy' = strategy /\ rows' = rows /\ day' = day + 1
        /\ day \in Nat \ {0}
    BY <1>3 DEF EvaluateDay, Today, EvaluationInv
  <2>2. ImmediateDay
    BY <1>3, <2>1 DEF EvaluateDay, HoldDay, CalendarDay, OtherCalendarDay, ThresholdDay,
       ExecutionOnlyDay, ExecutionPolicyDay
  <2>3. EndOfReplay(rows) /\ positions = {<<i, rows[i].plan>> : i \in Rebalances(day)}
    BY <2>1, <2>2 DEF ImmediateInv, ImmediateDay
  <2> DEFINE acts == rows[day + 1].decision = "REBALANCE" /\ rows[day + 1].plan # NoPlan
  <2>4. positions' = IF acts THEN positions \cup {<<day + 1, rows[day + 1].plan>>} ELSE positions
    BY <2>2 DEF ImmediateDay, Apply, Row, Today
  <2>5. Rebalances(day)' = IF acts THEN Rebalances(day) \cup {day + 1} ELSE Rebalances(day)
    BY <2>1 DEF Rebalances
  <2> HIDE DEF acts
  <2> QED BY <2>1, <2>3, <2>4, <2>5
<1> QED BY <1>1, <1>2, <1>3 DEF BacktestNext

LEMMA ImmediateInductive ==
  BacktestSpec => [](TInv /\ IInv /\ EvaluationInv /\ FilesInv /\ ImmediateInv)
<1>1. BacktestInit => TInv /\ IInv /\ EvaluationInv /\ FilesInv /\ ImmediateInv
  BY TypeInit, ReplayInit, EvaluationStarts, FilesStart
     DEF BacktestInit, EvaluationInit, ImmediateInv
<1>2. [BacktestNext]_<<vars, evaluation>> => [Next]_vars
  BY DEF BacktestNext, vars
<1>3. TInv /\ IInv /\ EvaluationInv /\ FilesInv /\ ImmediateInv
      /\ [BacktestNext]_<<vars, evaluation>>
      => (TInv /\ IInv /\ EvaluationInv /\ FilesInv /\ ImmediateInv)'
  BY <1>2, TypeNext, ReplayNext, EvaluationNext, FilesNext, ImmediateNext
<1> QED BY <1>1, <1>3, PTL DEF BacktestSpec

\* The immediate strategy holds what the replay showed its committee: the
\* evaluation and the replay, resumed or not, agree on what the decisions did.
THEOREM ImmediateAgreesWithReplay == BacktestSpec => []ImmediateFollowsReplay
<1>1. EvaluationInv /\ ImmediateInv => ImmediateFollowsReplay
  <2> SUFFICES ASSUME EvaluationInv, ImmediateInv, strategy # None,
                      strategy.kind = "immediate", day < Last
               PROVE  {<<rows[p[1]].day, p[2]>> : p \in positions}
                        = {p \in rows[Today].portfolio : p[1] > rows[1].day}
    BY DEF ImmediateFollowsReplay
  <2>1. PICK D \in Seq(Rows), k \in Nat :
          /\ Follows(D) /\ \A i, j \in 1..Len(D) : i < j => D[i].day < D[j].day
          /\ Len(rows) = Len(D) - k
          /\ \A i \in 1..Len(rows) : rows[i] = D[i + k]
    BY DEF ImmediateInv, EndOfReplay
  <2>2. day \in Nat \ {0} /\ day + 1 \in 1..Len(rows) /\ Today = day + 1
        /\ Len(rows) \in Nat /\ Len(D) \in Nat
    BY <2>1 DEF EvaluationInv, Last, Today
  <2>3. /\ \A i \in 1..Len(rows) : i + k \in 1..Len(D)
        /\ \A i \in 1..Len(D) : D[i].day \in Nat
    <3>1. \A i \in 1..Len(D) : D[i] \in Rows
      OBVIOUS
    <3>2. \A i \in 1..Len(rows) : i + k \in 1..Len(D)
      BY <2>1, <2>2
    <3>3. \A i \in 1..Len(D) : D[i].day \in Days
      BY <3>1 DEF Rows
    <3> QED BY <3>2, <3>3, ReplayAssumption DEF Days
  <2> DEFINE n == day + k
             Acts(j) == D[j].decision = "REBALANCE" /\ D[j].plan # NoPlan
             share(j) == <<D[j].day, D[j].plan>>
             all == {share(j) : j \in {i \in 1..n : Acts(i)}}
             mine == {share(j) : j \in {i \in (k + 2)..n : Acts(i)}}
  <2>4. rows[Today].portfolio = all
    <3>1. rows[Today] = D[n + 1] /\ n + 1 \in DOMAIN D
      BY <2>1, <2>2, <2>3
    <3>2. (n + 1) - 1 = n
      BY <2>2
    <3>3. D[n + 1].portfolio = AppliedBy(D, n)
      BY <2>1, <3>1, <3>2 DEF Follows
    <3>4. AppliedBy(D, n) = all
      BY DEF AppliedBy
    <3> QED BY <3>1, <3>3, <3>4
  <2>5. rows[1].day = D[k + 1].day
    BY <2>1, <2>2
  <2>6. \A j \in 1..n : D[j].day > D[k + 1].day <=> j \in (k + 2)..n
    <3> SUFFICES ASSUME NEW j \in 1..n PROVE D[j].day > D[k + 1].day <=> j >= k + 2
      BY <2>2
    <3>1. j \in 1..Len(D) /\ k + 1 \in 1..Len(D)
      BY <2>1, <2>2
    <3>2. j > k + 1 => D[j].day > D[k + 1].day
      BY <2>1, <2>3, <3>1
    <3>3. j < k + 1 => D[j].day < D[k + 1].day
      BY <2>1, <3>1
    <3> QED BY <2>3, <3>1, <3>2, <3>3
  <2>7. \A i \in Rebalances(day) : /\ i + k \in (k + 2)..n /\ Acts(i + k)
                                   /\ share(i + k) = <<rows[i].day, rows[i].plan>>
    <3> SUFFICES ASSUME NEW i \in Rebalances(day)
                 PROVE  /\ i + k \in (k + 2)..n /\ Acts(i + k)
                        /\ share(i + k) = <<rows[i].day, rows[i].plan>>
      OBVIOUS
    <3>1. i \in 2..day /\ rows[i].decision = "REBALANCE" /\ rows[i].plan # NoPlan
      BY DEF Rebalances
    <3>2. rows[i] = D[i + k]
      BY <2>1, <2>2, <3>1
    <3> QED BY <2>2, <3>1, <3>2
  <2>8. ASSUME NEW j \in (k + 2)..n, Acts(j)
        PROVE  j - k \in Rebalances(day) /\ (j - k) + k = j
    <3>1. j - k \in 2..day /\ (j - k) + k = j
      BY <2>2
    <3>2. rows[j - k] = D[j]
      BY <2>1, <2>2, <3>1
    <3> QED BY <2>8, <3>1, <3>2 DEF Rebalances
  <2>9. positions = {<<i, rows[i].plan>> : i \in Rebalances(day)}
    BY DEF ImmediateInv
  <2>10. \A j \in 1..n : share(j)[1] = D[j].day
    OBVIOUS
  <2> HIDE DEF Acts, share
  <2>11. {p \in all : p[1] > rows[1].day} = mine
    <3>1. \A j \in (k + 2)..n : j \in 1..n
      BY <2>2
    <3> QED BY <2>5, <2>6, <2>10, <3>1
  <2>12. {<<rows[p[1]].day, p[2]>> : p \in positions} = mine
    <3>1. {<<rows[p[1]].day, p[2]>> : p \in positions}
            = {share(i + k) : i \in Rebalances(day)}
      <4>1. ASSUME NEW i \in Rebalances(day)
            PROVE  LET p == <<i, rows[i].plan>> IN <<rows[p[1]].day, p[2]>> = share(i + k)
        BY <2>7
      <4> DEFINE pos(i) == <<i, rows[i].plan>>
                 of(p) == <<rows[p[1]].day, p[2]>>
      <4>2. \A i \in Rebalances(day) : of(pos(i)) = share(i + k)
        BY <4>1
      <4>3. positions = {pos(i) : i \in Rebalances(day)}
        BY <2>9
      <4> HIDE DEF pos, of
      <4>4. {of(p) : p \in positions} = {share(i + k) : i \in Rebalances(day)}
        BY <4>2, <4>3
      <4> QED BY <4>4 DEF of
    <3>2. \A i \in Rebalances(day) : i + k \in {j \in (k + 2)..n : Acts(j)}
      BY <2>7
    <3>3. \A j \in {i \in (k + 2)..n : Acts(i)} : \E i \in Rebalances(day) : j = i + k
      BY <2>8
    <3> QED BY <3>1, <3>2, <3>3
  <2> QED BY <2>4, <2>11, <2>12
<1> QED BY <1>1, ImmediateInductive, PTL
==============================================================================
