------------------------------ MODULE IssueState ------------------------------
(***************************************************************************)
(* The states of unresolved issues (execution_policy.py) as a sequence of  *)
(* committee runs meets them: with LIBRA_ISSUE_STATE_ENABLED, a decision   *)
(* that asks the user is observed, and put off when the same issue was     *)
(* observed less than the cooldown ago.  The manager belongs to the        *)
(* orchestrator: the replay makes one for all its days, and anew when it   *)
(* resumes; the workflow, the library's server and the command line make   *)
(* one for each run.                                                       *)
(***************************************************************************)
EXTENDS Integers, Sequences, FiniteSetsExt

CONSTANTS
  Issues,     \* branch and directions of the draft
  Cooldown,   \* cooldown_observations
  MaxRuns     \* bound: runs

ASSUME IssueAssumption == Cooldown \in Nat \ {0} /\ MaxRuns \in Nat

VARIABLES
  onePerRun,  \* whether every run makes a manager of its own
  count,      \* observations of each issue
  told        \* what was reported of each run: [issue, how], or a restart
ivars == <<onePerRun, count, told>>

NotSeen == [i \in Issues |-> 0]
IInit == onePerRun \in BOOLEAN /\ count = NotSeen /\ told = <<>>

\* The decision and its notification are replaced when it is suppressed.
TransitionUnbounded(n) == IF n = 1 THEN "asked" ELSE "suppressed"
Transition(n) == IF n = 1 \/ n > Cooldown + 1 THEN "asked" ELSE "suppressed"
Before == IF onePerRun THEN NotSeen ELSE count
Observe(i) ==
  /\ Len(told) < MaxRuns
  /\ count' = [Before EXCEPT ![i] = @ + 1]
  /\ told' = Append(told, [issue |-> i, how |-> Transition(Before[i] + 1)])
  /\ UNCHANGED onePerRun

\* A replay that resumes.
Restart ==
  /\ Len(told) < MaxRuns /\ \E i \in Issues : count[i] > 0
  /\ count' = NotSeen /\ UNCHANGED <<onePerRun, told>>

INext == Restart \/ \E i \in Issues : Observe(i)
ISpec == IInit /\ [][INext]_ivars
-----------------------------------------------------------------------------
\* The user was asked about an issue before it is suppressed, and is asked
\* again: between two of its questions, or after the last one, it is suppressed
\* at most as often as the cooldown says, whatever else is observed meanwhile
\* and however often the manager is made anew.
SuppressedAfterAsked ==
  \A n \in DOMAIN told : told[n].how = "suppressed" =>
    \E m \in 1..(n - 1) :
      /\ told[m] = [issue |-> told[n].issue, how |-> "asked"]
      /\ Cardinality({k \in m..n : told[k] = told[n]}) <= Cooldown
=============================================================================
