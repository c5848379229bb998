------------------------------ MODULE AgentCall ------------------------------
(***************************************************************************)
(* A call of a committee agent: LLMAgent.run with its tool loop for the    *)
(* agents that read the knowledge base, and the domain agents, which ask   *)
(* the model once (libra_runtime.py, domain_agents/_adapter.py).  The      *)
(* calls of a run are threads of one pool; the runs share the process.     *)
(*                                                                         *)
(* Each read or write of the knowledge base and of a job's directory is a  *)
(* step, and so is each chat_json, whose attempts are those of ChatClient. *)
(***************************************************************************)
EXTENDS KnowledgeBase

CONSTANTS
  Calls,     \* calls of agents
  AgentOf,   \* the agent of a call: a reader, or "domain"
  RunOf,     \* its run
  DepthOf,   \* the depth it is asked for
  Settings,  \* [strict, refresh, live, macro, feed]: LIBRA_DISABLE_AGENT_FALLBACKS,
             \* the ingest options, whether the user's question names macro terms,
             \* and what the ingest jobs find
  NoFiles    \* nothing read yet

ASSUME CallAssumption ==
  /\ AgentOf \in [Calls -> Readers \cup {"domain"}]
  /\ RunOf \in [Calls -> Runs]
  /\ DepthOf \in [Calls -> Depths]
  /\ Settings \subseteq [strict : BOOLEAN, refresh : BOOLEAN, live : BOOLEAN,
                         macro : BOOLEAN, feed : Feeds]
  \* A round calls each agent once.
  /\ \A c, d \in Calls :
       RunOf[c] = RunOf[d] /\ AgentOf[c] = AgentOf[d] /\ AgentOf[c] \in Readers => c = d

VARIABLES
  setting,
  at,        \* where a call is
  observed,  \* the items of its knowledge_slice
  job,       \* its ingest job: none, begun, events, between, documents, done
  target,    \* the job's directory
  read,      \* what it read of the directory, form by form
  unseen,    \* what of that a merge is about to append
  answer     \* where its answer is from, or that a reader's exception escaped

calls == <<setting, at, observed, job, target, read, unseen, answer>>
vars == <<knowledge, calls>>

NoDir == <<"none", 0>>
NothingRead == [events |-> NoFiles, documents |-> NoFiles]

Init ==
  /\ KnowledgeInit
  /\ setting \in Settings
  /\ at = [c \in Calls |-> IF AgentOf[c] = "domain" THEN "ask" ELSE "primary"]
  /\ observed = [c \in Calls |-> {}]
  /\ job = [c \in Calls |-> "none"]
  /\ target = [c \in Calls |-> NoDir]
  /\ read = [c \in Calls |-> NothingRead]
  /\ unseen = [c \in Calls |-> {}]
  /\ answer = [c \in Calls |-> "none"]

Base(c) == kb[RunOf[c]]
Moves(c, from, to) == at[c] = from /\ at' = [at EXCEPT ![c] = to]
Documents(items) == OfForm(items, "document")

(***************************************************************************)
(* _run_tool_loop                                                          *)
(***************************************************************************)
ShouldExpandSearch(c, items) ==
  /\ DepthOf[c] # "deep"
  /\ \/ items = {}
     \/ AgentOf[c] = "report" /\ Documents(items) = {}
     \/ AgentOf[c] = "news" /\ Cardinality(items) <= 1

\* Only a refresh that found nothing at all is tried; the portfolio scan that
\* may follow changes nothing but the list of tools.
AfterSearch(items) == IF items = {} THEN "refresh" ELSE "ask"

PrimarySlice(c) ==
  LET items == SliceForAgent(Base(c), AgentOf[c], DepthOf[c], FALSE) IN
  /\ Moves(c, "primary", IF ShouldExpandSearch(c, items) THEN "expand" ELSE AfterSearch(items))
  /\ observed' = [observed EXCEPT ![c] = items]
  /\ UNCHANGED <<knowledge, setting, job, target, read, unseen, answer>>

\* The query of the agent joined with its context, the user's question.
Expanded(c) == SliceForAgent(Base(c), AgentOf[c], "deep", setting.macro)

ExpandedSlice(c) ==
  /\ Moves(c, "expand", AfterSearch(observed[c] \cup Expanded(c)))
  /\ observed' = [observed EXCEPT ![c] = @ \cup Expanded(c)]
  /\ UNCHANGED <<knowledge, setting, job, target, read, unseen, answer>>

\* Disabled, no ingest root, or the job could not be started.
RefreshUnavailable(c) ==
  /\ Moves(c, "refresh", "conclude")
  /\ UNCHANGED <<knowledge, setting, observed, job, target, read, unseen, answer>>

RunIngest(c) ==
  /\ setting.refresh
  /\ Moves(c, "refresh", "ingest")
  /\ job' = [job EXCEPT ![c] = "begun"]
  /\ TimePasses
  /\ target' = [target EXCEPT ![c] = <<AgentOf[c], second'>>]
  /\ UNCHANGED <<kb, paths, dir, setting, observed, read, unseen, answer>>

\* It failed, found nothing, or ran into its timeout and was killed; what it
\* had written stays.
IngestFails(c) ==
  /\ Moves(c, "ingest", "conclude")
  /\ job' = [job EXCEPT ![c] = "none"]
  /\ UNCHANGED <<knowledge, setting, observed, target, read, unseen, answer>>

IngestEnds(c) ==
  /\ job[c] = "done"
  /\ Moves(c, "ingest", "read_events")
  /\ UNCHANGED <<knowledge, setting, observed, job, target, read, unseen, answer>>

\* from_files: a file that is not there is skipped, half a file is a
\* JSONDecodeError that nothing in the tool loop catches.
Content(f) == IF f = Absent THEN {} ELSE f

ReadFile(c, name, from, to) ==
  /\ Moves(c, from, to)
  /\ dir[target[c]][name] # Torn
  /\ read' = [read EXCEPT ![c][name] = Content(dir[target[c]][name])]
  /\ UNCHANGED <<knowledge, setting, observed, job, target, unseen, answer>>

ReadTornFile(c, name, from) ==
  /\ Moves(c, from, "raised")
  /\ dir[target[c]][name] = Torn
  /\ UNCHANGED <<knowledge, setting, observed, job, target, read, unseen, answer>>

NothingNew(c) ==
  /\ Moves(c, "look_up", "conclude")
  /\ read[c].events \cup read[c].documents = {}
  /\ UNCHANGED <<knowledge, setting, observed, job, target, read, unseen, answer>>

LookUp(c, name, from, to) ==
  /\ Moves(c, from, to)
  /\ read[c].events \cup read[c].documents # {}
  /\ unseen' = [unseen EXCEPT ![c] = Unseen(RunOf[c], read[c][name])]
  /\ UNCHANGED <<knowledge, setting, observed, job, target, read, answer>>

Merge(c, name, from, to) ==
  /\ Moves(c, from, to)
  /\ MergeFrom(RunOf[c], unseen[c])
  /\ unseen' = [unseen EXCEPT ![c] = {}]
  /\ UNCHANGED <<paths, dir, second, setting, observed, job, target, read, answer>>

\* The agent first, then its directory: two agents may mix theirs.
SetSourceAgent(c) ==
  /\ Moves(c, "set_agent", "set_dir")
  /\ paths' = [paths EXCEPT ![RunOf[c]].agent = AgentOf[c]]
  /\ UNCHANGED <<kb, dir, second, setting, observed, job, target, read, unseen, answer>>

SetSourceDir(c) ==
  /\ Moves(c, "set_dir", "reslice")
  /\ paths' = [paths EXCEPT ![RunOf[c]].dir = target[c]]
  /\ UNCHANGED <<kb, dir, second, setting, observed, job, target, read, unseen, answer>>

RefreshedSliceMissing(c) ==
  /\ Moves(c, "reslice", "conclude")
  /\ UNCHANGED <<knowledge, setting, observed, job, target, read, unseen, answer>>

RefreshedSlice(c) ==
  /\ Moves(c, "reslice", "conclude")
  /\ observed' = [observed EXCEPT ![c] = @ \cup Expanded(c)]
  /\ UNCHANGED <<knowledge, setting, job, target, read, unseen, answer>>

Conclude(c) ==
  /\ observed[c] # {}
  /\ Moves(c, "conclude", "ask")
  /\ UNCHANGED <<knowledge, setting, observed, job, target, read, unseen, answer>>

\* No evidence: QUIET or DIRECT_ANSWER_UNAVAILABLE without asking the model.
AnswerWithout(c) ==
  /\ observed[c] = {}
  /\ Moves(c, "conclude", "done")
  /\ answer' = [answer EXCEPT ![c] = "empty"]
  /\ UNCHANGED <<knowledge, setting, observed, job, target, read, unseen>>

ToolLoop(c) ==
  \/ PrimarySlice(c) \/ ExpandedSlice(c)
  \/ RefreshUnavailable(c) \/ RunIngest(c) \/ IngestFails(c) \/ IngestEnds(c)
  \/ ReadFile(c, "events", "read_events", "read_documents")
  \/ ReadFile(c, "documents", "read_documents", "look_up")
  \/ ReadTornFile(c, "events", "read_events")
  \/ ReadTornFile(c, "documents", "read_documents")
  \/ NothingNew(c)
  \/ LookUp(c, "events", "look_up", "merge_events")
  \/ Merge(c, "events", "merge_events", "look_up_documents")
  \/ LookUp(c, "documents", "look_up_documents", "merge_documents")
  \/ Merge(c, "documents", "merge_documents", "set_agent")
  \/ SetSourceAgent(c) \/ SetSourceDir(c) \/ RefreshedSlice(c)
  \/ Conclude(c) \/ AnswerWithout(c)

(***************************************************************************)
(* The model's answer                                                      *)
(***************************************************************************)
\* "usable", also a zero confidence that is set to .35 or .2 because there is
\* reasoning and evidence; "blank": no reasoning, no direction; "malformed":
\* the normalisation raises a ValueError or TypeError on the reply; "error":
\* chat_json raises a ChatClientError or ValueError; "escaped": what neither is:
\* chat_json's AttributeError or OSError (EndsOf in ChatClient), or the
\* OverflowError of int() on a turn number or count the reply gives as infinite.
Outcomes == {"usable", "blank", "malformed", "error", "escaped"}

Settles(c, from, to, source) ==
  /\ Moves(c, from, to)
  /\ answer' = [answer EXCEPT ![c] = source]
  /\ UNCHANGED <<knowledge, setting, observed, job, target, read, unseen>>

FailsOpen(c, from) == Settles(c, from, "done", "fallback")

\* Without LIBRA_DISABLE_AGENT_FALLBACKS a summary of the local evidence
\* stands in for the model's answer.
Fails(c, from) ==
  IF setting.strict THEN Settles(c, from, "raised", "none")
  ELSE Settles(c, from, "done", "fallback")

\* Only ChatClientError, ValueError and TypeError are caught, with summaries and
\* without.
Escapes(c, from) == Settles(c, from, "raised", "escaped")

IsReader(c) == AgentOf[c] # "domain"

Ask(c, outcome) ==
  /\ IsReader(c)
  /\ \/ outcome = "usable" /\ Settles(c, "ask", "done", "llm")
     \/ outcome = "blank" /\ Settles(c, "ask", "repair", "none")
     \/ outcome \in {"malformed", "error"} /\ Fails(c, "ask")
     \/ outcome = "escaped" /\ Escapes(c, "ask")

Repair(c, outcome) ==
  \/ outcome = "usable" /\ Settles(c, "repair", "done", "repaired")
  \/ outcome \in {"blank", "malformed", "error"} /\ Fails(c, "repair")
  \/ outcome = "escaped" /\ Escapes(c, "repair")

\* CoreChatDomainRouter.ask passes every object on and raises what is raised.
AskDomain(c, outcome) ==
  /\ ~IsReader(c)
  /\ IF outcome \in {"error", "escaped"} THEN Settles(c, "ask", "raised", "none")
                                         ELSE Settles(c, "ask", "done", "llm")

Answer(c) == \E outcome \in Outcomes :
               Ask(c, outcome) \/ Repair(c, outcome) \/ AskDomain(c, outcome)

(***************************************************************************)
(* The ingest job of a call, another process                               *)
(***************************************************************************)
JobStep(c, from, to, name, content) ==
  /\ job[c] = from /\ at[c] = "ingest"
  /\ job' = [job EXCEPT ![c] = to]
  /\ WriteFile(target[c], name, content)
  /\ UNCHANGED <<kb, paths, second, setting, at, observed, target, read, unseen, answer>>

Finds(c, form) == OfForm(Found(AgentOf[c], setting.live, setting.feed), form)

Job(c) ==
  \/ JobStep(c, "begun", "events", "events", Torn)
  \/ JobStep(c, "events", "between", "events", Finds(c, "event"))
  \/ JobStep(c, "between", "documents", "documents", Torn)
  \/ JobStep(c, "documents", "done", "documents", Finds(c, "document"))

Ended(c) == at[c] \in {"done", "raised"}
Finished == (\A c \in Calls : Ended(c)) /\ UNCHANGED vars

Next ==
  \/ \E c \in Calls : ToolLoop(c) \/ Answer(c) \/ Job(c)
  \/ Finished

Spec == Init /\ [][Next]_vars

(***************************************************************************)
(* Properties                                                              *)
(***************************************************************************)
\* With LIBRA_DISABLE_AGENT_FALLBACKS no answer is made up for a model that
\* failed, on any of the three ways that lead to the summary.  Without it a
\* reader survives every ChatClientError, ValueError and TypeError of its model,
\* the first time and in the repair.  It fails only with an exception of another
\* type (a body of the wrong shape, a usage log that cannot be written, an
\* infinite count), or on a file that another run's job of the same agent and
\* second is writing or that a killed one left.
FallbacksAsSet ==
  IF setting.strict THEN \A c \in Calls : answer[c] # "fallback"
  ELSE \A c \in Calls : (IsReader(c) /\ at[c] = "raised" /\ answer[c] # "escaped") =>
         /\ setting.refresh /\ job[c] = "done"
         /\ \E d \in Calls \ {c} : target[d] = target[c] /\ RunOf[d] # RunOf[c]

\* What an agent judges is knowledge of its own run, and it judges something
\* whenever the refresh it caused brought anything that is for it.
EvidenceIsUsed ==
  \A c \in Calls :
    /\ \A i \in observed[c] : Base(c)[i] > 0
    /\ (IsReader(c) /\ at[c] = "done" /\ read[c].documents # NoFiles) =>
         \/ answer[c] # "empty"
         \/ \A i \in (read[c].events \cup read[c].documents) :
              ~Fits(AgentOf[c], i, setting.macro)

=============================================================================
