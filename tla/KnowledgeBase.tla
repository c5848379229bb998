---------------------------- MODULE KnowledgeBase ----------------------------
(***************************************************************************)
(* LocalKnowledgeBase of libra_runtime.py.  A run of the committee has one *)
(* knowledge base, which the threads of its agents read and, when they     *)
(* find nothing, refresh from an ingest job, without a lock.  A job writes *)
(* into a directory named by the agent and the second it starts in, which  *)
(* two runs may therefore share.                                           *)
(*                                                                         *)
(* A knowledge base is the number of its copies of each item: merging      *)
(* looks up the ids first and appends afterwards.                          *)
(***************************************************************************)
EXTENDS Naturals, FiniteSets

CONSTANTS
  Runs,          \* runs of the committee in one process
  Items,         \* events and documents
  Feeds,         \* what an ingest job may find, source by source
  InitialItems,  \* what a run begins with
  EventLimit,    \* of a slice, by depth
  DocumentLimit,
  MarketWide,    \* the portfolio has no holdings to match
  MaxSeconds,    \* bound: seconds in which jobs start
  Absent, Torn   \* states of a file of a job's directory

Sources == {"rss", "dart", "reports"}
Readers == {"disclosure", "news", "report"}
Depths == {"shallow", "medium", "deep"}

ASSUME KnowledgeAssumption ==
  /\ Items \subseteq [id : Nat, form : {"event", "document"}, type : STRING, age : Nat,
                      matched : BOOLEAN, reportLike : BOOLEAN]
  /\ \A i, j \in Items : i.id = j.id => i = j
  /\ IsFiniteSet(Items)
  /\ Feeds \subseteq [Sources -> SUBSET Items]
  /\ \A feed \in Feeds : \A s, t \in Sources : s # t => feed[s] \cap feed[t] = {}
  /\ InitialItems \in [Runs -> SUBSET Items]
  /\ EventLimit \in [Depths -> Nat \ {0}] /\ DocumentLimit \in [Depths -> Nat \ {0}]
  /\ MarketWide \in BOOLEAN
  /\ MaxSeconds \in Nat
  /\ Torn # Absent /\ \A items \in SUBSET Items : items # Torn

VARIABLES
  kb,     \* copies of each item in a run's knowledge base
  paths,  \* source_paths of a run: the agent and the directory of the last refresh
  dir,    \* files of a job's directory
  second  \* the clock

knowledge == <<kb, paths, dir, second>>

Seconds == 1..MaxSeconds
Dirs == Readers \X Seconds
NoPaths == [agent |-> "none", dir |-> <<"none", 0>>]

KnowledgeInit ==
  /\ kb = [r \in Runs |-> [i \in Items |-> IF i \in InitialItems[r] THEN 1 ELSE 0]]
  /\ paths = [r \in Runs |-> NoPaths]
  /\ dir = [d \in Dirs |-> [events |-> Absent, documents |-> Absent]]
  /\ second = 1

(***************************************************************************)
(* slice_for_agent                                                         *)
(***************************************************************************)
EventFits(agent, i, macro) ==
  /\ agent = "disclosure" => i.type \in {"DISCLOSURE", "EARNINGS"}
  /\ agent = "report" => (i.type \in {"RESEARCH", "EARNINGS", "DISCLOSURE"} \/ i.reportLike)
  /\ agent = "news" => i.type # "RESEARCH"
  /\ (MarketWide /\ agent = "news") => i.type \in {"NEWS", "NEWS_FLOW", "MACRO"}
  /\ (MarketWide /\ agent = "report") => i.type = "RESEARCH"
  /\ (i.matched \/ i.type = "MACRO" \/ macro \/ MarketWide)

IsReportLike(i) == i.type = "REPORT" \/ (i.type = "NEWS" /\ i.reportLike)

DocumentFits(agent, i, macro) ==
  /\ \/ agent = "disclosure" /\ i.type = "DISCLOSURE"
     \/ agent = "news" /\ i.type = "NEWS"
     \/ agent = "report" /\ IsReportLike(i)
  /\ (i.matched \/ MarketWide \/ (agent = "news" /\ macro /\ i.type = "NEWS"))

Fits(agent, i, macro) ==
  IF i.form = "event" THEN EventFits(agent, i, macro) ELSE DocumentFits(agent, i, macro)

\* Copies of fitting items that come before i, the newest first.
Before(base, agent, i, macro) ==
  {c \in Items \X (1..Cardinality(Items)) :
     /\ c[1].form = i.form /\ c[1].age < i.age
     /\ Fits(agent, c[1], macro) /\ c[2] <= base[c[1]]}

Limit(form, depth) == IF form = "event" THEN EventLimit[depth] ELSE DocumentLimit[depth]

SliceForAgent(base, agent, depth, macro) ==
  {i \in Items : /\ base[i] > 0
                 /\ Fits(agent, i, macro)
                 /\ Cardinality(Before(base, agent, i, macro)) < Limit(i.form, depth)}

(***************************************************************************)
(* refresh_from_ingest                                                     *)
(***************************************************************************)
\* _live_ingest_args sets the limits of the other sources to zero, the sample
\* of an agent is of its own source.
SourcesOfLive(agent, live) ==
  IF live THEN Sources
  ELSE IF agent = "disclosure" THEN {"dart"}
  ELSE IF agent = "report" THEN {"reports"} ELSE {"rss"}

SourcesOf(agent, live) ==
  IF agent = "disclosure" THEN {"dart"}
  ELSE IF agent = "report" THEN {"reports"} ELSE {"rss"}

Found(agent, live, feed) == UNION {feed[s] : s \in SourcesOf(agent, live)}
OfForm(items, form) == {i \in items : i.form = form}

\* The files of a directory, as the job writes them.
WriteFile(d, name, content) == dir' = [dir EXCEPT ![d][name] = content]

\* _merge_from appends what was unseen when the ids were read.
MergeFrom(r, unseen) ==
  kb' = [kb EXCEPT ![r] = [i \in Items |-> IF i \in unseen THEN @[i] + 1 ELSE @[i]]]

Unseen(r, items) == {i \in items : kb[r][i] = 0}

\* The seconds that pass before a job starts; in between the clock is not read.
TimePasses == second' \in second..MaxSeconds

(***************************************************************************)
(* Properties                                                              *)
(***************************************************************************)
\* The knowledge base of a run holds nothing twice, although its agents look
\* up the ids and append without a lock: what two of them refresh at the same
\* time is of different sources.
EachItemOnce == \A r \in Runs : \A i \in Items : kb[r][i] <= 1
=============================================================================
