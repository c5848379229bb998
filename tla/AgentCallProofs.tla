--------------------------- MODULE AgentCallProofs ---------------------------
(* Theorems about AgentCall: a knowledge base that is shared without a lock  *)
(* holds nothing twice, and no call ends in a way its settings rule out.     *)
EXTENDS AgentCall, FiniteSums

Forms == {"events", "documents"}
Brought(agent) == Found(agent, setting.live, setting.feed)
Searching == {"primary", "expand", "refresh"}
Merging == {"look_up", "merge_events", "look_up_documents", "merge_documents"}
Reading == Merging \cup {"read_events", "read_documents", "set_agent", "set_dir", "reslice"}
Places == Searching \cup Reading \cup {"ingest", "conclude", "ask", "repair", "done", "raised"}
JobStates == {"none", "begun", "events", "between", "documents", "done"}
Answers == {"none", "empty", "llm", "repaired", "fallback", "escaped"}

Files == [events : {Absent, Torn} \cup SUBSET Items,
          documents : {Absent, Torn} \cup SUBSET Items]
Contents == [events : {NoFiles} \cup SUBSET Items, documents : {NoFiles} \cup SUBSET Items]

Typed ==
  /\ setting \in Settings /\ second \in Nat \ {0}
  /\ kb \in [Runs -> [Items -> Nat]]
  /\ dir \in [Dirs -> Files]
  /\ at \in [Calls -> Places] /\ job \in [Calls -> JobStates]
  /\ target \in [Calls -> Dirs \cup {NoDir}]
  /\ read \in [Calls -> Contents]
  /\ unseen \in [Calls -> SUBSET Items] /\ answer \in [Calls -> Answers]

\* A call has a directory of its agent from the start of its job on, and reads
\* it only when the job is done.
Placed ==
  \A c \in Calls :
    /\ ~IsReader(c) => at[c] \in {"ask", "done", "raised"}
    /\ at[c] \in Searching => target[c] = NoDir /\ job[c] = "none"
    /\ target[c] # NoDir => /\ target[c] \in Dirs /\ target[c][1] = AgentOf[c]
                            /\ setting.refresh /\ IsReader(c)
    /\ at[c] \in Reading \cup {"ingest"} => target[c] # NoDir
    /\ at[c] \in Reading => job[c] = "done"

\* What is in a directory, what was read of it and what is to be merged is of
\* the sources of its agent; what is to be merged is not in the base.
Sourced ==
  /\ \A d \in Dirs : /\ dir[d].events \in {Absent, Torn} \cup SUBSET Brought(d[1])
                     /\ dir[d].documents \in {Absent, Torn} \cup SUBSET Brought(d[1])
  /\ \A c \in Calls :
       /\ at[c] \in Merging \cup {"read_documents"} => read[c].events \subseteq Brought(AgentOf[c])
       /\ at[c] \in Merging => read[c].documents \subseteq Brought(AgentOf[c])
       /\ at[c] \in {"merge_events", "merge_documents"} =>
            /\ unseen[c] \subseteq Brought(AgentOf[c])
            /\ \A i \in unseen[c] : kb[RunOf[c]][i] = 0

OnceInv == Typed /\ Placed /\ Sourced /\ EachItemOnce
-----------------------------------------------------------------------------
LEMMA SettingTyped ==
  ASSUME Typed
  PROVE  /\ setting.live \in BOOLEAN /\ setting.feed \in Feeds
         /\ setting.strict \in BOOLEAN /\ setting.refresh \in BOOLEAN
BY CallAssumption DEF Typed

LEMMA BroughtTyped ==
  ASSUME Typed, NEW a
  PROVE  Brought(a) \subseteq Items
<1>1. setting.feed \in [Sources -> SUBSET Items]
  BY SettingTyped, KnowledgeAssumption
<1>2. SourcesOf(a, setting.live) \subseteq Sources
  BY DEF SourcesOf, Sources
<1>. QED BY <1>1, <1>2 DEF Brought, Found

\* The jobs of two agents fetch from different sources.
LEMMA BroughtDisjoint ==
  ASSUME Typed, NEW a \in Readers, NEW b \in Readers, a # b
  PROVE  Brought(a) \cap Brought(b) = {}
<1>1. /\ setting.feed \in [Sources -> SUBSET Items]
      /\ \A s, t \in Sources : s # t => setting.feed[s] \cap setting.feed[t] = {}
  BY SettingTyped, KnowledgeAssumption
<1>2. /\ SourcesOf(a, setting.live) \subseteq Sources /\ SourcesOf(b, setting.live) \subseteq Sources
      /\ \A s \in SourcesOf(a, setting.live), t \in SourcesOf(b, setting.live) : s # t
  BY DEF SourcesOf, Sources, Readers
<1>. QED BY <1>1, <1>2 DEF Brought, Found

LEMMA ReaderOrDomain ==
  ASSUME NEW c \in Calls
  PROVE  /\ RunOf[c] \in Runs /\ AgentOf[c] \in Readers \cup {"domain"}
         /\ IsReader(c) <=> AgentOf[c] \in Readers
BY CallAssumption DEF IsReader, Readers

LEMMA Initially == Init => OnceInv
<1>. SUFFICES ASSUME Init PROVE OnceInv
  OBVIOUS
<1>1. /\ kb = [r \in Runs |-> [i \in Items |-> IF i \in InitialItems[r] THEN 1 ELSE 0]]
      /\ dir = [d \in Dirs |-> [events |-> Absent, documents |-> Absent]] /\ second = 1
  BY DEF Init, KnowledgeInit
<1>2. /\ at \in [Calls -> {"ask", "primary"}]
      /\ \A c \in Calls : at[c] = IF AgentOf[c] = "domain" THEN "ask" ELSE "primary"
      /\ \A c \in Calls : target[c] = NoDir /\ job[c] = "none"
  BY DEF Init
<1>3. Typed
  <2>1. /\ read = [c \in Calls |-> [events |-> NoFiles, documents |-> NoFiles]]
        /\ unseen = [c \in Calls |-> {}] /\ answer = [c \in Calls |-> "none"]
        /\ target = [c \in Calls |-> NoDir] /\ job = [c \in Calls |-> "none"]
    BY DEF Init, NothingRead
  <2>2. setting \in Settings /\ at \in [Calls -> Places]
    BY <1>2 DEF Init, Places, Searching
  <2>3. kb \in [Runs -> [Items -> Nat]] /\ dir \in [Dirs -> Files]
    BY <1>1 DEF Files
  <2>4. /\ read \in [Calls -> Contents] /\ unseen \in [Calls -> SUBSET Items]
        /\ answer \in [Calls -> Answers]
    BY <2>1 DEF Contents, Answers
  <2>5. target \in [Calls -> Dirs \cup {NoDir}] /\ job \in [Calls -> JobStates]
    BY <2>1 DEF JobStates
  <2>. QED BY <1>1, <2>2, <2>3, <2>4, <2>5 DEF Typed
<1>4. Placed
  BY <1>2 DEF Placed, IsReader, Searching, Reading, Merging
<1>5. Sourced /\ EachItemOnce
  BY <1>1, <1>2 DEF Sourced, EachItemOnce, Merging
<1>. QED BY <1>3, <1>4, <1>5 DEF OnceInv
-----------------------------------------------------------------------------
\* A step that leaves the base, the directories and what was read alone.
Still == UNCHANGED <<kb, dir, setting, target, read, unseen>>

LEMMA StillStep ==
  ASSUME OnceInv, NEW c \in Calls, NEW to \in Places \ (Merging \cup {"ingest", "read_documents"}),
         at' = [at EXCEPT ![c] = to], Still, UNCHANGED second,
         job' \in [Calls -> JobStates], answer' \in [Calls -> Answers],
         \A d \in Calls \ {c} : job'[d] = job[d],
         to \in Searching => at[c] \in Searching /\ job' = job,
         to \in Reading => at[c] \in Reading \cup {"ingest"} /\ job[c] = "done" /\ job' = job,
         IsReader(c) \/ to \in {"ask", "done", "raised"}
  PROVE  OnceInv'
<1>1. at' \in [Calls -> Places] /\ at'[c] = to /\ \A d \in Calls \ {c} : at'[d] = at[d]
  BY DEF OnceInv, Typed
<1>2. Typed'
  BY <1>1 DEF OnceInv, Typed, Still
<1>3. Placed'
  BY <1>1 DEF OnceInv, Placed, Still, IsReader
<1>4. Sourced'
  <2>1. \A a : Brought(a)' = Brought(a)
    BY DEF Brought, Found, Still
  <2>2. to \notin Merging \cup {"read_documents", "merge_events", "merge_documents"}
    BY DEF Reading, Merging
  <2>. QED BY <1>1, <2>1, <2>2 DEF OnceInv, Sourced, Still, Typed
<1>5. EachItemOnce'
  BY DEF OnceInv, EachItemOnce, Still
<1>. QED BY <1>2, <1>3, <1>4, <1>5 DEF OnceInv

LEMMA NoSteps ==
  ASSUME OnceInv, NEW c \in Calls
  PROVE  /\ at[c] \notin {"ask", "done", "raised"} => IsReader(c)
         /\ job \in [Calls -> JobStates] /\ answer \in [Calls -> Answers]
BY DEF OnceInv, Placed, Typed

LEMMA SearchSteps ==
  ASSUME OnceInv, NEW c \in Calls,
         PrimarySlice(c) \/ ExpandedSlice(c) \/ RefreshUnavailable(c) \/ IngestFails(c)
           \/ IngestEnds(c) \/ NothingNew(c) \/ SetSourceAgent(c) \/ SetSourceDir(c)
           \/ RefreshedSlice(c) \/ Conclude(c) \/ AnswerWithout(c)
  PROVE  OnceInv'
<1>. USE DEF Moves, Still, knowledge, Places, Reading, Searching, Merging
<1>0. at[c] \notin {"ask", "done", "raised"} => IsReader(c)
  BY NoSteps
<1>1. job \in [Calls -> JobStates] /\ answer \in [Calls -> Answers]
  BY NoSteps
<1>2. CASE PrimarySlice(c)
  <2>1. PICK to \in {"expand", "refresh", "ask"} : at' = [at EXCEPT ![c] = to]
    BY <1>2 DEF PrimarySlice, AfterSearch
  <2>. QED BY <1>0, <1>1, <1>2, <2>1, StillStep DEF PrimarySlice
<1>3. CASE ExpandedSlice(c)
  <2>1. PICK to \in {"refresh", "ask"} : at' = [at EXCEPT ![c] = to]
    BY <1>3 DEF ExpandedSlice, AfterSearch
  <2>. QED BY <1>0, <1>1, <1>3, <2>1, StillStep DEF ExpandedSlice
<1>4. CASE RefreshUnavailable(c)
  BY <1>0, <1>1, <1>4, StillStep DEF RefreshUnavailable
<1>5. CASE IngestFails(c)
  <2>1. job' \in [Calls -> JobStates] /\ \A d \in Calls \ {c} : job'[d] = job[d]
    BY <1>1, <1>5 DEF IngestFails, JobStates
  <2>. QED BY <1>0, <1>1, <1>5, <2>1, StillStep DEF IngestFails
<1>6. CASE IngestEnds(c)
  BY <1>0, <1>1, <1>6, StillStep DEF IngestEnds
<1>7. CASE NothingNew(c)
  BY <1>0, <1>1, <1>7, StillStep DEF NothingNew
<1>8. CASE SetSourceAgent(c)
  <2>1. job[c] = "done"
    BY <1>8 DEF SetSourceAgent, OnceInv, Placed
  <2>. QED BY <1>0, <1>1, <1>8, <2>1, StillStep DEF SetSourceAgent
<1>9. CASE SetSourceDir(c)
  <2>1. job[c] = "done"
    BY <1>9 DEF SetSourceDir, OnceInv, Placed
  <2>. QED BY <1>0, <1>1, <1>9, <2>1, StillStep DEF SetSourceDir
<1>10. CASE RefreshedSlice(c)
  BY <1>0, <1>1, <1>10, StillStep DEF RefreshedSlice
<1>11. CASE Conclude(c)
  BY <1>0, <1>1, <1>11, StillStep DEF Conclude
<1>12. CASE AnswerWithout(c)
  <2>1. answer' \in [Calls -> Answers]
    BY <1>1, <1>12 DEF AnswerWithout, Answers
  <2>. QED BY <1>0, <1>1, <1>12, <2>1, StillStep DEF AnswerWithout
<1>. QED
  BY <1>2, <1>3, <1>4, <1>5, <1>6, <1>7, <1>8, <1>9, <1>10, <1>11, <1>12

LEMMA AnswerSteps ==
  ASSUME OnceInv, NEW c \in Calls, Answer(c)
  PROVE  OnceInv'
<1>1. PICK from \in {"ask", "repair"}, to \in {"repair", "done", "raised"}, source \in Answers :
        Settles(c, from, to, source) /\ (to = "repair" => IsReader(c))
  <2>. PICK outcome \in Outcomes :
         Ask(c, outcome) \/ Repair(c, outcome) \/ AskDomain(c, outcome)
    BY DEF Answer
  <2>. QED BY DEF Ask, Repair, AskDomain, Fails, Escapes, Answers
<1>2. job \in [Calls -> JobStates] /\ answer' \in [Calls -> Answers]
  BY <1>1, NoSteps DEF Settles
<1>3. to \in Places \ (Merging \cup Reading \cup Searching \cup {"ingest", "read_documents"})
  BY DEF Places, Merging, Reading, Searching
<1>. QED BY <1>1, <1>2, <1>3, StillStep DEF Settles, Moves, Still, knowledge
-----------------------------------------------------------------------------
LEMMA TornSteps ==
  ASSUME OnceInv, NEW c \in Calls,
         ReadTornFile(c, "events", "read_events") \/ ReadTornFile(c, "documents", "read_documents")
  PROVE  OnceInv'
<1>1. job \in [Calls -> JobStates] /\ answer \in [Calls -> Answers]
  BY NoSteps
<1>2. "raised" \in Places \ (Merging \cup Reading \cup Searching \cup {"ingest", "read_documents"})
  BY DEF Places, Merging, Reading, Searching
<1>. QED BY <1>1, <1>2, StillStep DEF ReadTornFile, Moves, Still, knowledge

LEMMA RunIngestStep ==
  ASSUME OnceInv, NEW c \in Calls, RunIngest(c)
  PROVE  OnceInv'
<1>. USE DEF OnceInv
<1>1. AgentOf[c] \in Readers /\ IsReader(c)
  BY ReaderOrDomain DEF RunIngest, Moves, Placed
<1>2. second' \in Seconds /\ second' \in Nat \ {0}
  BY KnowledgeAssumption DEF RunIngest, TimePasses, Typed, Seconds
<1>3. <<AgentOf[c], second'>> \in Dirs /\ <<AgentOf[c], second'>>[1] = AgentOf[c]
  BY <1>1, <1>2 DEF Dirs
<1>4. <<AgentOf[c], second'>> # NoDir
  BY <1>1 DEF NoDir, Readers
<1>5. /\ at[c] = "refresh" /\ at' = [at EXCEPT ![c] = "ingest"] /\ job' = [job EXCEPT ![c] = "begun"]
      /\ target' = [target EXCEPT ![c] = <<AgentOf[c], second'>>] /\ setting.refresh
      /\ UNCHANGED <<kb, dir, setting, read, unseen, answer>>
  BY DEF RunIngest, Moves
<1>6. Typed'
  BY <1>2, <1>3, <1>5 DEF Typed, Places, JobStates
<1>7. Placed'
  BY <1>1, <1>3, <1>4, <1>5 DEF Typed, Placed, Searching, Reading, Merging, IsReader
<1>8. Sourced'
  BY <1>5 DEF Typed, Sourced, Merging, Brought, Found
<1>9. EachItemOnce'
  BY <1>5 DEF EachItemOnce
<1>. QED BY <1>6, <1>7, <1>8, <1>9

LEMMA ReadSteps ==
  ASSUME OnceInv, NEW c \in Calls,
         \/ ReadFile(c, "events", "read_events", "read_documents")
         \/ ReadFile(c, "documents", "read_documents", "look_up")
  PROVE  OnceInv'
<1>. USE DEF OnceInv
<1>1. /\ target[c] \in Dirs /\ target[c][1] = AgentOf[c] /\ job[c] = "done" /\ target[c] # NoDir
      /\ IsReader(c)
  BY DEF ReadFile, Moves, Placed, Reading, Merging
<1>2. \A a : Brought(a) \subseteq Items /\ Brought(a)' = Brought(a)
  BY BroughtTyped DEF Brought, Found, ReadFile
<1>3. ASSUME NEW name \in Forms, dir[target[c]][name] # Torn
      PROVE  Content(dir[target[c]][name]) \subseteq Brought(AgentOf[c])
  BY <1>1, <1>3 DEF Sourced, Content, Forms
<1>4. CASE ReadFile(c, "events", "read_events", "read_documents")
  <2>1. PICK got \in SUBSET Brought(AgentOf[c]) :
          read' = [read EXCEPT ![c]["events"] = got]
    BY <1>3, <1>4 DEF ReadFile, Forms
  <2>2. /\ read' \in [Calls -> Contents]
        /\ \A d \in Calls \ {c} : read'[d] = read[d]
        /\ read'[c].events = got /\ read'[c].documents = read[c].documents
    <3>1. read \in [Calls -> Contents] /\ read[c] \in Contents /\ got \in SUBSET Items
      BY <1>2, <2>1 DEF Typed
    <3>2. [read[c] EXCEPT !["events"] = got] \in Contents
      BY <3>1 DEF Contents
    <3>3. /\ read'[c] = [read[c] EXCEPT !["events"] = got] /\ read' \in [Calls -> Contents]
          /\ \A d \in Calls \ {c} : read'[d] = read[d]
      BY <2>1, <3>1, <3>2
    <3>. QED BY <3>1, <3>3 DEF Contents
  <2>3. /\ at[c] = "read_events" /\ at' = [at EXCEPT ![c] = "read_documents"]
        /\ UNCHANGED <<kb, dir, second, setting, job, target, unseen, answer>>
    BY <1>4 DEF ReadFile, Moves, knowledge
  <2>4. Typed'
    BY <2>2, <2>3 DEF Typed, Places, Reading
  <2>5. Placed'
    BY <1>1, <2>3 DEF Typed, Placed, Searching, Reading, Merging, IsReader
  <2>6. Sourced'
    <3>1. \A d \in Calls \ {c} : at'[d] = at[d]
      BY <2>3 DEF Typed
    <3>2. at'[c] \notin {"merge_events", "merge_documents"}
      BY <2>3 DEF Typed
    <3>. QED BY <1>2, <2>1, <2>3, <2>2, <3>1, <3>2 DEF Sourced, Merging
  <2>. QED BY <2>3, <2>4, <2>5, <2>6 DEF EachItemOnce
<1>5. CASE ReadFile(c, "documents", "read_documents", "look_up")
  <2>1. PICK got \in SUBSET Brought(AgentOf[c]) :
          read' = [read EXCEPT ![c]["documents"] = got]
    BY <1>3, <1>5 DEF ReadFile, Forms
  <2>2. /\ read' \in [Calls -> Contents]
        /\ \A d \in Calls \ {c} : read'[d] = read[d]
        /\ read'[c].documents = got /\ read'[c].events = read[c].events
    <3>1. read \in [Calls -> Contents] /\ read[c] \in Contents /\ got \in SUBSET Items
      BY <1>2, <2>1 DEF Typed
    <3>2. [read[c] EXCEPT !["documents"] = got] \in Contents
      BY <3>1 DEF Contents
    <3>3. /\ read'[c] = [read[c] EXCEPT !["documents"] = got] /\ read' \in [Calls -> Contents]
          /\ \A d \in Calls \ {c} : read'[d] = read[d]
      BY <2>1, <3>1, <3>2
    <3>. QED BY <3>1, <3>3 DEF Contents
  <2>3. /\ at[c] = "read_documents" /\ at' = [at EXCEPT ![c] = "look_up"]
        /\ UNCHANGED <<kb, dir, second, setting, job, target, unseen, answer>>
    BY <1>5 DEF ReadFile, Moves, knowledge
  <2>4. Typed'
    BY <2>2, <2>3 DEF Typed, Places, Reading, Merging
  <2>5. Placed'
    BY <1>1, <2>3 DEF Typed, Placed, Searching, Reading, Merging, IsReader
  <2>6. Sourced'
    <3>1. \A d \in Calls \ {c} : at'[d] = at[d]
      BY <2>3 DEF Typed
    <3>2. at'[c] \notin {"merge_events", "merge_documents"}
      BY <2>3 DEF Typed
    <3>. QED BY <1>2, <2>1, <2>3, <2>2, <3>1, <3>2 DEF Sourced, Merging
  <2>. QED BY <2>3, <2>4, <2>5, <2>6 DEF EachItemOnce
<1>. QED BY <1>4, <1>5

LEMMA LookUpSteps ==
  ASSUME OnceInv, NEW c \in Calls,
         \/ LookUp(c, "events", "look_up", "merge_events")
         \/ LookUp(c, "documents", "look_up_documents", "merge_documents")
  PROVE  OnceInv'
<1>. USE DEF OnceInv
<1>1. /\ at[c] \in {"look_up", "look_up_documents"}
      /\ at' \in {[at EXCEPT ![c] = "merge_events"], [at EXCEPT ![c] = "merge_documents"]}
      /\ UNCHANGED <<kb, dir, second, setting, job, target, read, answer>>
  BY DEF LookUp, Moves, knowledge
<1>2. /\ target[c] # NoDir /\ job[c] = "done" /\ IsReader(c) /\ RunOf[c] \in Runs
      /\ read[c].events \subseteq Brought(AgentOf[c])
      /\ read[c].documents \subseteq Brought(AgentOf[c])
  BY <1>1, ReaderOrDomain DEF Placed, Sourced, Reading, Merging
<1>3. \A a : Brought(a) \subseteq Items /\ Brought(a)' = Brought(a)
  BY <1>1, BroughtTyped DEF Brought, Found
<1>4. PICK new \in SUBSET Brought(AgentOf[c]) :
        /\ unseen' = [unseen EXCEPT ![c] = new]
        /\ \A i \in new : kb[RunOf[c]][i] = 0
  <2>1. CASE LookUp(c, "events", "look_up", "merge_events")
    <3>. DEFINE new == Unseen(RunOf[c], read[c].events)
    <3>1. new \in SUBSET Brought(AgentOf[c]) /\ \A i \in new : kb[RunOf[c]][i] = 0
      BY <1>2 DEF Unseen
    <3>2. unseen' = [unseen EXCEPT ![c] = new]
      BY <2>1 DEF LookUp
    <3>. HIDE DEF new
    <3>. QED BY <3>1, <3>2
  <2>2. CASE LookUp(c, "documents", "look_up_documents", "merge_documents")
    <3>. DEFINE new == Unseen(RunOf[c], read[c].documents)
    <3>1. new \in SUBSET Brought(AgentOf[c]) /\ \A i \in new : kb[RunOf[c]][i] = 0
      BY <1>2 DEF Unseen
    <3>2. unseen' = [unseen EXCEPT ![c] = new]
      BY <2>2 DEF LookUp
    <3>. HIDE DEF new
    <3>. QED BY <3>1, <3>2
  <2>. QED BY <2>1, <2>2
<1>5. Typed'
  BY <1>1, <1>3, <1>4 DEF Typed, Places, Reading, Merging
<1>6. Placed'
  BY <1>1, <1>2 DEF Typed, Placed, Searching, Reading, Merging, IsReader
<1>7. Sourced'
  BY <1>1, <1>2, <1>3, <1>4 DEF Typed, Sourced, Merging
<1>. QED BY <1>1, <1>5, <1>6, <1>7 DEF EachItemOnce

\* What two calls of a run merge at the same time is of different sources, and
\* nothing a call is about to append has come into the base since it looked.
LEMMA MergeSteps ==
  ASSUME OnceInv, NEW c \in Calls,
         \/ Merge(c, "events", "merge_events", "look_up_documents")
         \/ Merge(c, "documents", "merge_documents", "set_agent")
  PROVE  OnceInv'
<1>. USE DEF OnceInv
<1>1. /\ at[c] \in {"merge_events", "merge_documents"}
      /\ at' \in {[at EXCEPT ![c] = "look_up_documents"], [at EXCEPT ![c] = "set_agent"]}
      /\ unseen' = [unseen EXCEPT ![c] = {}]
      /\ UNCHANGED <<dir, second, setting, job, target, read, answer>>
  BY DEF Merge, Moves
<1>2. /\ target[c] # NoDir /\ job[c] = "done" /\ IsReader(c) /\ RunOf[c] \in Runs
      /\ AgentOf[c] \in Readers
      /\ unseen[c] \subseteq Brought(AgentOf[c])
      /\ \A i \in unseen[c] : kb[RunOf[c]][i] = 0
  BY <1>1, ReaderOrDomain DEF Placed, Sourced, Reading, Merging
<1>3. /\ read[c].events \subseteq Brought(AgentOf[c])
      /\ read[c].documents \subseteq Brought(AgentOf[c])
  BY <1>1 DEF Sourced, Merging
<1>4. \A a : Brought(a) \subseteq Items /\ Brought(a)' = Brought(a)
  BY <1>1, BroughtTyped DEF Brought, Found
<1>5. kb' = [kb EXCEPT ![RunOf[c]] =
               [i \in Items |-> IF i \in unseen[c] THEN kb[RunOf[c]][i] + 1 ELSE kb[RunOf[c]][i]]]
  BY DEF Merge, MergeFrom
<1>6. kb' \in [Runs -> [Items -> Nat]]
  BY <1>2, <1>5 DEF Typed
<1>7. /\ \A r \in Runs \ {RunOf[c]} : kb'[r] = kb[r]
      /\ \A i \in Items : kb'[RunOf[c]][i] = IF i \in unseen[c] THEN 1 ELSE kb[RunOf[c]][i]
  BY <1>2, <1>4, <1>5 DEF Typed
<1>8. Typed'
  BY <1>1, <1>6 DEF Typed, Places, Reading, Merging
<1>9. Placed'
  BY <1>1, <1>2 DEF Typed, Placed, Searching, Reading, Merging, IsReader
<1>10. ASSUME NEW d \in Calls \ {c}, at[d] \in {"merge_events", "merge_documents"},
              NEW i \in unseen[d]
       PROVE  kb'[RunOf[d]][i] = 0
  <2>1. /\ kb[RunOf[d]][i] = 0 /\ i \in Brought(AgentOf[d]) /\ i \in Items
        /\ RunOf[d] \in Runs /\ AgentOf[d] \in Readers
    BY <1>4, <1>10, ReaderOrDomain DEF Placed, Sourced
  <2>2. CASE RunOf[d] # RunOf[c]
    BY <2>1, <2>2, <1>7
  <2>3. CASE RunOf[d] = RunOf[c]
    <3>1. AgentOf[d] # AgentOf[c]
      BY <2>3, <1>2, <1>10, CallAssumption
    <3>2. Brought(AgentOf[d]) \cap Brought(AgentOf[c]) = {}
      BY <3>1, <2>1, <1>2, BroughtDisjoint
    <3>. QED BY <3>2, <2>1, <2>3, <1>2, <1>7
  <2>. QED BY <2>2, <2>3
<1>11. Sourced'
  <2>1. at' \in [Calls -> Places] /\ at'[c] \notin {"merge_events", "merge_documents", "read_documents"}
        /\ \A d \in Calls \ {c} : at'[d] = at[d] /\ unseen'[d] = unseen[d]
    BY <1>1, <1>8 DEF Typed
  <2>. QED BY <2>1, <1>1, <1>3, <1>4, <1>10 DEF Sourced
<1>12. EachItemOnce'
  BY <1>7 DEF EachItemOnce
<1>. QED BY <1>8, <1>9, <1>11, <1>12

LEMMA JobSteps ==
  ASSUME OnceInv, NEW c \in Calls, Job(c)
  PROVE  OnceInv'
<1>. USE DEF OnceInv
<1>1. PICK from \in JobStates, to \in JobStates, name \in Forms,
           content \in {Torn} \cup SUBSET Brought(AgentOf[c]) :
        JobStep(c, from, to, name, content)
  <2>1. \A form : Finds(c, form) \in {Torn} \cup SUBSET Brought(AgentOf[c])
    BY DEF Finds, OfForm, Brought
  <2>2. /\ {"none", "begun", "events", "between", "documents", "done"} = JobStates
        /\ {"events", "documents"} = Forms
    BY DEF JobStates, Forms
  <2>3. CASE JobStep(c, "begun", "events", "events", Torn) BY <2>2, <2>3
  <2>4. CASE JobStep(c, "events", "between", "events", Finds(c, "event")) BY <2>1, <2>2, <2>4
  <2>5. CASE JobStep(c, "between", "documents", "documents", Torn) BY <2>2, <2>5
  <2>6. CASE JobStep(c, "documents", "done", "documents", Finds(c, "document")) BY <2>1, <2>2, <2>6
  <2>. QED BY <2>3, <2>4, <2>5, <2>6 DEF Job
<1>2. /\ at[c] = "ingest" /\ job' = [job EXCEPT ![c] = to]
      /\ dir' = [dir EXCEPT ![target[c]][name] = content]
      /\ UNCHANGED <<kb, second, setting, at, target, read, unseen, answer>>
  BY <1>1 DEF JobStep, WriteFile
<1>3. target[c] \in Dirs /\ target[c][1] = AgentOf[c]
  BY <1>2 DEF Placed
<1>4. \A a : Brought(a) \subseteq Items /\ Brought(a)' = Brought(a)
  BY <1>2, BroughtTyped DEF Brought, Found
<1>5. Typed'
  <2>1. content \in {Absent, Torn} \cup SUBSET Items
    BY <1>4
  <2>2. dir \in [Dirs -> Files] /\ dir[target[c]] \in Files
    BY <1>3 DEF Typed
  <2>3. [dir[target[c]] EXCEPT ![name] = content] \in Files
    <3>1. CASE name = "events" BY <2>1, <2>2, <3>1 DEF Files
    <3>2. CASE name = "documents" BY <2>1, <2>2, <3>2 DEF Files
    <3>. QED BY <3>1, <3>2 DEF Forms
  <2>4. dir' \in [Dirs -> Files]
    BY <2>2, <2>3, <1>2, <1>3
  <2>. QED BY <2>4, <1>2 DEF Typed
<1>6. Placed'
  BY <1>2 DEF Typed, Placed, Searching, Reading, Merging
<1>7. Sourced'
  <2>1. ASSUME NEW d \in Dirs, d # target[c] PROVE dir'[d] = dir[d]
    BY <1>2, <2>1 DEF Typed
  <2>2. \A form \in Forms : dir'[target[c]][form] = IF form = name THEN content ELSE dir[target[c]][form]
    <3>1. dir[target[c]] \in Files /\ dir'[target[c]] = [dir[target[c]] EXCEPT ![name] = content]
      BY <1>2, <1>3 DEF Typed
    <3>. QED BY <3>1 DEF Files, Forms
  <2>3. \A d \in Dirs : /\ dir'[d].events \in {Absent, Torn} \cup SUBSET Brought(d[1])
                        /\ dir'[d].documents \in {Absent, Torn} \cup SUBSET Brought(d[1])
    BY <2>1, <2>2, <1>3 DEF Sourced, Forms
  <2>. QED BY <2>3, <1>2, <1>4 DEF Sourced
<1>. QED BY <1>2, <1>5, <1>6, <1>7 DEF EachItemOnce

LEMMA OnceInvariant == Spec => []OnceInv
<1>1. OnceInv /\ [Next]_vars => OnceInv'
  <2>. SUFFICES ASSUME OnceInv, [Next]_vars PROVE OnceInv'
    OBVIOUS
  <2>1. CASE UNCHANGED vars
    BY <2>1 DEF OnceInv, vars, knowledge, calls, Typed, Placed, Sourced, EachItemOnce, Brought,
                Found, IsReader
  <2>2. ASSUME NEW c \in Calls, ToolLoop(c) \/ Answer(c) \/ Job(c) PROVE OnceInv'
    <3>1. CASE ToolLoop(c)
      BY <3>1, SearchSteps, TornSteps, RunIngestStep, ReadSteps, LookUpSteps, MergeSteps
         DEF ToolLoop
    <3>. QED BY <2>2, <3>1, AnswerSteps, JobSteps
  <2>. QED BY <2>1, <2>2 DEF Next, Finished
<1>. QED BY <1>1, Initially, PTL DEF Spec

\* EachItemOnce: however the readers of a run look up and append to its
\* knowledge base, which no lock protects, it holds no item twice (_merge_from).
THEOREM OnceTheorem == Spec => []EachItemOnce
<1>1. OnceInv => EachItemOnce
  BY DEF OnceInv
<1>. QED BY <1>1, OnceInvariant, PTL
-----------------------------------------------------------------------------
\* Half a file is one that a call's job is writing or was killed at; a job has
\* a directory.
Witnessed ==
  /\ \A t \in Dirs :
       /\ dir[t].events = Torn =>
            \E d \in Calls : target[d] = t /\ job[d] \in {"events", "none"}
       /\ dir[t].documents = Torn =>
            \E d \in Calls : target[d] = t /\ job[d] \in {"documents", "none"}
  /\ \A c \in Calls : job[c] # "none" => target[c] # NoDir

FailInv == OnceInv /\ Witnessed /\ FallbacksAsSet

LEMMA JobWitnessed ==
  ASSUME FailInv, NEW c \in Calls, Job(c)
  PROVE  Witnessed'
<1>. USE DEF FailInv, OnceInv
<1>1. /\ target[c] \in Dirs /\ target[c] # NoDir /\ at[c] = "ingest"
      /\ UNCHANGED target /\ job \in [Calls -> JobStates]
  BY DEF Job, JobStep, Placed, Typed
<1>2. \A form : Finds(c, form) # Torn
  <2>1. \A form : Finds(c, form) \in SUBSET Items
    BY BroughtTyped DEF Finds, OfForm, Brought
  <2>. QED BY <2>1, KnowledgeAssumption
<1>3. ASSUME NEW from \in JobStates, NEW to \in JobStates \ {"none"}, NEW name \in Forms, NEW content,
             JobStep(c, from, to, name, content),
             content = Torn => to = name,
             from \notin (Forms \ {name}) \cup {"none"}
      PROVE  Witnessed'
  <2>1. /\ job[c] = from /\ job'[c] = to /\ \A d \in Calls \ {c} : job'[d] = job[d]
        /\ \A t \in Dirs \ {target[c]} : dir'[t] = dir[t]
        /\ dir[target[c]] \in Files /\ dir'[target[c]] = [dir[target[c]] EXCEPT ![name] = content]
    BY <1>1, <1>3 DEF JobStep, WriteFile, Typed
  <2>2. \A form \in Forms :
           dir'[target[c]][form] = IF form = name THEN content ELSE dir[target[c]][form]
    BY <2>1 DEF Files, Forms
  <2>3. ASSUME NEW t \in Dirs, NEW form \in Forms, dir'[t][form] = Torn
        PROVE  \E d \in Calls : target[d] = t /\ job'[d] \in {form, "none"}
    <3>1. CASE t # target[c] \/ form # name
      <4>1. dir[t][form] = Torn
        BY <3>1, <2>1, <2>2, <2>3
      <4>2. PICK d \in Calls : target[d] = t /\ job[d] \in {form, "none"}
        BY <4>1 DEF Witnessed, Forms
      <4>3. d # c
        BY <3>1, <4>2, <2>1, <1>3
      <4>. QED BY <4>2, <4>3, <2>1
    <3>2. CASE t = target[c] /\ form = name
      <4>1. content = Torn
        BY <3>2, <2>2, <2>3
      <4>. QED BY <4>1, <3>2, <2>1, <1>3
    <3>. QED BY <3>1, <3>2
  <2>4. \A d \in Calls : job'[d] # "none" => target[d] # NoDir
    BY <2>1, <1>1 DEF Witnessed
  <2>5. target' = target
    BY <1>1
  <2>. QED BY <2>3, <2>4, <2>5 DEF Witnessed, Forms
<1>4. CASE JobStep(c, "begun", "events", "events", Torn)
  BY <1>3, <1>4 DEF Forms, JobStates
<1>5. CASE JobStep(c, "events", "between", "events", Finds(c, "event"))
  BY <1>2, <1>3, <1>5 DEF Forms, JobStates
<1>6. CASE JobStep(c, "between", "documents", "documents", Torn)
  BY <1>3, <1>6 DEF Forms, JobStates
<1>7. CASE JobStep(c, "documents", "done", "documents", Finds(c, "document"))
  BY <1>2, <1>3, <1>7 DEF Forms, JobStates
<1>. QED BY <1>4, <1>5, <1>6, <1>7 DEF Job

LEMMA RunIngestWitnessed ==
  ASSUME FailInv, NEW c \in Calls, RunIngest(c)
  PROVE  Witnessed' /\ FallbacksAsSet'
<1>. USE DEF FailInv, OnceInv
<1>1. /\ at[c] = "refresh" /\ at' = [at EXCEPT ![c] = "ingest"]
      /\ job' = [job EXCEPT ![c] = "begun"]
      /\ target' = [target EXCEPT ![c] = <<AgentOf[c], second'>>]
      /\ UNCHANGED <<dir, setting, answer>>
  BY DEF RunIngest, Moves
<1>2. /\ target[c] = NoDir /\ job[c] = "none" /\ NoDir \notin Dirs
      /\ <<AgentOf[c], second'>> # NoDir
  <2>1. AgentOf[c] # "none"
    BY ReaderOrDomain DEF Readers
  <2>. QED BY <2>1, <1>1 DEF Placed, Searching, NoDir, Dirs, Readers
<1>3. /\ \A d \in Calls \ {c} : target'[d] = target[d] /\ job'[d] = job[d] /\ at'[d] = at[d]
      /\ at'[c] = "ingest" /\ target'[c] # NoDir
  BY <1>1, <1>2 DEF Typed
<1>4. Witnessed'
  BY <1>1, <1>2, <1>3 DEF Witnessed
<1>5. FallbacksAsSet'
  <2>1. CASE setting.strict
    BY <2>1, <1>1 DEF FallbacksAsSet
  <2>2. CASE ~setting.strict
    <3>1. ASSUME NEW e \in Calls, IsReader(e), at'[e] = "raised", answer'[e] # "escaped"
          PROVE  /\ setting.refresh /\ job'[e] = "done"
                 /\ \E d \in Calls \ {e} : target'[d] = target'[e] /\ RunOf[d] # RunOf[e]
      <4>1. e # c /\ at[e] = "raised" /\ answer[e] # "escaped"
        BY <1>1, <1>3, <3>1
      <4>2. /\ setting.refresh /\ job[e] = "done"
            /\ \E d \in Calls \ {e} : target[d] = target[e] /\ RunOf[d] # RunOf[e]
        BY <2>2, <3>1, <4>1 DEF FallbacksAsSet
      <4>3. target[e] # NoDir
        BY <4>2 DEF Witnessed
      <4>. QED BY <1>2, <1>3, <4>1, <4>2, <4>3
    <3>. QED BY <2>2, <3>1, <1>1 DEF FallbacksAsSet, IsReader
  <2>. QED BY <2>1, <2>2, SettingTyped
<1>. QED BY <1>4, <1>5

LEMMA IngestFailsWitnessed ==
  ASSUME FailInv, NEW c \in Calls, IngestFails(c)
  PROVE  Witnessed' /\ FallbacksAsSet'
<1>. USE DEF FailInv, OnceInv
<1>1. /\ at[c] = "ingest" /\ at' = [at EXCEPT ![c] = "conclude"]
      /\ job' = [job EXCEPT ![c] = "none"]
      /\ UNCHANGED <<dir, setting, target, answer>>
  BY DEF IngestFails, Moves, knowledge
<1>2. /\ \A d \in Calls \ {c} : job'[d] = job[d] /\ at'[d] = at[d]
      /\ at'[c] = "conclude" /\ job'[c] = "none"
  BY <1>1 DEF Typed
<1>. QED BY <1>1, <1>2 DEF Witnessed, FallbacksAsSet, IsReader

\* Steps that neither raise nor change what a raised call is explained by.
LEMMA OrdinaryStep ==
  ASSUME FailInv, UNCHANGED <<dir, setting, target, job>>,
         \A c \in Calls : at'[c] = "raised" => at[c] = "raised",
         \A c \in Calls : answer'[c] = "fallback" => answer[c] = "fallback" \/ ~setting.strict,
         \A c \in Calls : at'[c] = "raised" => answer'[c] = answer[c]
  PROVE  Witnessed' /\ FallbacksAsSet'
BY DEF FailInv, Witnessed, FallbacksAsSet, IsReader

LEMMA TornWitnessed ==
  ASSUME FailInv, NEW c \in Calls,
         ReadTornFile(c, "events", "read_events") \/ ReadTornFile(c, "documents", "read_documents")
  PROVE  Witnessed' /\ FallbacksAsSet'
<1>. USE DEF FailInv, OnceInv
<1>1. /\ at[c] \in {"read_events", "read_documents"} /\ at' = [at EXCEPT ![c] = "raised"]
      /\ dir[target[c]].events = Torn \/ dir[target[c]].documents = Torn
      /\ UNCHANGED <<dir, setting, target, job, answer>>
  BY DEF ReadTornFile, Moves, knowledge
<1>2. /\ job[c] = "done" /\ target[c] \in Dirs /\ setting.refresh /\ IsReader(c)
      /\ target[c][1] = AgentOf[c] /\ target[c] # NoDir
  BY <1>1 DEF Placed, Reading, Merging
<1>3. PICK d \in Calls : target[d] = target[c] /\ job[d] # "done"
  BY <1>1, <1>2 DEF Witnessed
<1>4. d # c /\ AgentOf[d] = AgentOf[c] /\ AgentOf[c] \in Readers
  BY <1>2, <1>3, ReaderOrDomain DEF Placed
<1>5. RunOf[d] # RunOf[c]
  BY <1>4, CallAssumption
<1>6. \A e \in Calls \ {c} : at'[e] = at[e]
  BY <1>1 DEF Typed
<1>. QED BY <1>1, <1>2, <1>3, <1>4, <1>5, <1>6 DEF Witnessed, FallbacksAsSet, IsReader

LEMMA AnswerWitnessed ==
  ASSUME FailInv, NEW c \in Calls, Answer(c)
  PROVE  Witnessed' /\ FallbacksAsSet'
<1>. USE DEF FailInv, OnceInv
<1>1. PICK from, to, source :
        /\ Settles(c, from, to, source)
        /\ to = "raised" => setting.strict \/ source = "escaped" \/ ~IsReader(c)
        /\ source = "fallback" => ~setting.strict
  <2>1. PICK outcome \in Outcomes :
          Ask(c, outcome) \/ Repair(c, outcome) \/ AskDomain(c, outcome)
    BY DEF Answer
  <2>2. IsReader(c) \/ ~Repair(c, outcome) \/ setting.strict \/ ~setting.strict
    OBVIOUS
  <2>. QED BY <2>1 DEF Ask, Repair, AskDomain, Fails, Escapes
<1>2. /\ at' = [at EXCEPT ![c] = to] /\ answer' = [answer EXCEPT ![c] = source]
      /\ UNCHANGED <<dir, setting, target, job>>
  BY <1>1 DEF Settles, Moves, knowledge
<1>3. /\ at'[c] = to /\ answer'[c] = source
      /\ \A d \in Calls \ {c} : at'[d] = at[d] /\ answer'[d] = answer[d]
  BY <1>2 DEF Typed
<1>4. Witnessed'
  BY <1>2 DEF Witnessed
<1>5. FallbacksAsSet'
  <2>1. CASE setting.strict
    BY <2>1, <1>1, <1>2, <1>3 DEF FallbacksAsSet
  <2>2. CASE ~setting.strict
    BY <2>2, <1>1, <1>2, <1>3 DEF FallbacksAsSet, IsReader
  <2>. QED BY <2>1, <2>2
<1>. QED BY <1>4, <1>5

LEMMA ToolLoopWitnessed ==
  ASSUME FailInv, NEW c \in Calls, ToolLoop(c)
  PROVE  Witnessed' /\ FallbacksAsSet'
<1>. DEFINE Ordinary ==
       /\ UNCHANGED <<dir, setting, target, job>>
       /\ \E to \in Places \ {"raised"} : at' = [at EXCEPT ![c] = to]
       /\ \/ answer' = answer
          \/ answer' = [answer EXCEPT ![c] = "empty"] /\ at' = [at EXCEPT ![c] = "done"]
<1>1. ASSUME Ordinary PROVE Witnessed' /\ FallbacksAsSet'
  <2>1. at \in [Calls -> Places] /\ answer \in [Calls -> Answers]
    BY DEF FailInv, OnceInv, Typed
  <2>2. \A d \in Calls : /\ at'[d] = "raised" => at[d] = "raised"
                         /\ answer'[d] = "fallback" => answer[d] = "fallback"
                         /\ at'[d] = "raised" => answer'[d] = answer[d]
    BY <1>1, <2>1
  <2>. QED BY <1>1, <2>2, OrdinaryStep
<1>. USE DEF Moves, knowledge, Places, Searching, Reading, Merging
<1>2. CASE PrimarySlice(c)
  <2>1. Ordinary BY <1>2 DEF PrimarySlice, AfterSearch
  <2>. QED BY <2>1, <1>1
<1>3. CASE ExpandedSlice(c)
  <2>1. Ordinary BY <1>3 DEF ExpandedSlice, AfterSearch
  <2>. QED BY <2>1, <1>1
<1>4. CASE RefreshUnavailable(c) \/ IngestEnds(c) \/ NothingNew(c) \/ SetSourceAgent(c)
             \/ SetSourceDir(c) \/ RefreshedSlice(c) \/ Conclude(c) \/ AnswerWithout(c)
  <2>1. Ordinary
    BY <1>4 DEF RefreshUnavailable, IngestEnds, NothingNew, SetSourceAgent, SetSourceDir,
                RefreshedSlice, Conclude, AnswerWithout
  <2>. QED BY <2>1, <1>1
<1>5. CASE \/ ReadFile(c, "events", "read_events", "read_documents")
           \/ ReadFile(c, "documents", "read_documents", "look_up")
  <2>1. Ordinary BY <1>5 DEF ReadFile
  <2>. QED BY <2>1, <1>1
<1>6. CASE \/ LookUp(c, "events", "look_up", "merge_events")
           \/ LookUp(c, "documents", "look_up_documents", "merge_documents")
  <2>1. Ordinary BY <1>6 DEF LookUp
  <2>. QED BY <2>1, <1>1
<1>7. CASE \/ Merge(c, "events", "merge_events", "look_up_documents")
           \/ Merge(c, "documents", "merge_documents", "set_agent")
  <2>1. Ordinary BY <1>7 DEF Merge
  <2>. QED BY <2>1, <1>1
<1>. HIDE DEF Ordinary
<1>. QED
  BY <1>2, <1>3, <1>4, <1>5, <1>6, <1>7, RunIngestWitnessed, IngestFailsWitnessed, TornWitnessed
     DEF ToolLoop

\* FallbacksAsSet: a strict run never makes up an answer.  In any other run a
\* reader fails only with an exception that is no ChatClientError, ValueError or
\* TypeError, or on half a file that another run's job of the same agent and
\* second is writing or left (_run_tool_loop, LLMAgent.run).
THEOREM FallbackTheorem == Spec => []FallbacksAsSet
<1>1. Init => Witnessed /\ FallbacksAsSet
  <2>. SUFFICES ASSUME Init PROVE Witnessed /\ FallbacksAsSet
    OBVIOUS
  <2>1. /\ dir = [d \in Dirs |-> [events |-> Absent, documents |-> Absent]]
        /\ \A c \in Calls : /\ at[c] # "raised" /\ answer[c] = "none"
                            /\ job[c] = "none"
    BY DEF Init, KnowledgeInit
  <2>. QED BY <2>1, KnowledgeAssumption DEF Witnessed, FallbacksAsSet
<1>2. OnceInv /\ OnceInv' /\ Witnessed /\ FallbacksAsSet /\ [Next]_vars
        => Witnessed' /\ FallbacksAsSet'
  <2>. SUFFICES ASSUME FailInv, [Next]_vars PROVE Witnessed' /\ FallbacksAsSet'
    BY DEF FailInv
  <2>1. CASE UNCHANGED vars
    BY <2>1, OrdinaryStep DEF vars, knowledge, calls
  <2>2. ASSUME NEW c \in Calls, Job(c) PROVE Witnessed' /\ FallbacksAsSet'
    <3>1. /\ UNCHANGED <<setting, at, target, answer>> /\ at[c] = "ingest"
          /\ \A d \in Calls \ {c} : job'[d] = job[d]
      BY <2>2 DEF Job, JobStep, FailInv, OnceInv, Typed
    <3>2. FallbacksAsSet'
      BY <3>1 DEF FailInv, FallbacksAsSet, IsReader
    <3>. QED BY <3>2, <2>2, JobWitnessed
  <2>. QED BY <2>1, <2>2, ToolLoopWitnessed, AnswerWitnessed DEF Next, Finished
<1>. QED BY <1>1, <1>2, OnceInvariant, PTL DEF Spec
-----------------------------------------------------------------------------
\* What is in the base of a call's run.
InBase(c) == {i \in Items : kb[RunOf[c]][i] > 0}
ReadBy(c) == read[c].events \cup read[c].documents
NoneFits(c) == \A i \in ReadBy(c) : ~Fits(AgentOf[c], i, setting.macro)

\* What a call has read comes into the base, events first, and then into its slice.
UsedAt(c, place, given) ==
  /\ observed[c] \subseteq InBase(c)
  /\ place \in Searching \cup {"ingest", "read_events", "read_documents"} =>
       read[c].documents = NoFiles
  /\ place = "merge_events" => read[c].events \subseteq InBase(c) \cup unseen[c]
  /\ place \in {"look_up_documents", "merge_documents", "set_agent", "set_dir", "reslice"} =>
       read[c].events \subseteq InBase(c)
  /\ place = "merge_documents" => read[c].documents \subseteq InBase(c) \cup unseen[c]
  /\ place \in {"set_agent", "set_dir", "reslice"} => read[c].documents \subseteq InBase(c)
  /\ place = "conclude" /\ read[c].documents # NoFiles =>
       observed[c] # {} \/ NoneFits(c)
  /\ place # "done" => given # "empty"
  /\ IsReader(c) /\ place = "done" /\ read[c].documents # NoFiles =>
       given # "empty" \/ NoneFits(c)

Used(c) == UsedAt(c, at[c], answer[c])

UseInv == OnceInv /\ observed \in [Calls -> SUBSET Items] /\ \A c \in Calls : Used(c)

\* A slice of a base that has something of interest is not empty: the newest item
\* of its form is within every limit.
LEMMA SliceShows ==
  ASSUME NEW base \in [Items -> Nat], NEW agent, NEW depth \in Depths, NEW macro,
         NEW j \in Items, base[j] > 0, Fits(agent, j, macro)
  PROVE  SliceForAgent(base, agent, depth, macro) # {}
<1>. DEFINE S == {i \in Items : i.form = j.form /\ base[i] > 0 /\ Fits(agent, i, macro)}
            Ages == {i.age : i \in S}
<1>1. Ages \subseteq Nat /\ Ages # {}
  BY KnowledgeAssumption
<1>2. PICK k \in Ages : \A n \in Ages : k <= n
  BY <1>1, LeastNumber
<1>3. PICK i \in S : i.age = k
  OBVIOUS
<1>4. \A m \in S : m.age \in Nat /\ k \in Nat /\ k <= m.age
  BY <1>1, <1>2
<1>5. Before(base, agent, i, macro) = {}
  <2>. SUFFICES ASSUME NEW m \in Items, NEW n \in 1..Cardinality(Items),
                       m.form = i.form, m.age < i.age, Fits(agent, m, macro), n <= base[m]
                PROVE  FALSE
    BY DEF Before
  <2>1. base[m] > 0
    OBVIOUS
  <2>2. m \in S
    BY <2>1, <1>3
  <2>. QED BY <2>2, <1>3, <1>4
<1>6. Limit(i.form, depth) > 0
  BY KnowledgeAssumption DEF Limit
<1>7. Cardinality(Before(base, agent, i, macro)) < Limit(i.form, depth)
  BY <1>5, <1>6, FS_EmptySet
<1>. QED BY <1>3, <1>7 DEF SliceForAgent

\* A step of one call leaves the others alone and takes nothing from a base.
Alone(c) ==
  /\ setting' = setting
  /\ \A d \in Calls \ {c} :
       /\ at'[d] = at[d] /\ observed'[d] = observed[d] /\ read'[d] = read[d]
       /\ unseen'[d] = unseen[d] /\ answer'[d] = answer[d]
  /\ \A r \in Runs : \A i \in Items : kb[r][i] > 0 => kb'[r][i] > 0

LEMMA UsedByOthers ==
  ASSUME UseInv, OnceInv', NEW c \in Calls, Alone(c), Used(c)',
         observed' \in [Calls -> SUBSET Items]
  PROVE  UseInv'
<1>1. ASSUME NEW d \in Calls \ {c} PROVE Used(d)'
  <2>1. InBase(d) \subseteq InBase(d)'
    BY ReaderOrDomain DEF InBase, Alone
  <2>2. /\ ReadBy(d)' = ReadBy(d) /\ NoneFits(d)' = NoneFits(d)
        /\ IsReader(d)' = IsReader(d)
    BY DEF ReadBy, NoneFits, IsReader, Alone
  <2>3. Used(d)
    BY DEF UseInv
  <2>. QED BY <2>1, <2>2, <2>3 DEF Used, UsedAt, Alone
<1>. QED BY <1>1 DEF UseInv

LEMMA UseTyped ==
  ASSUME UseInv, NEW c \in Calls
  PROVE  /\ at \in [Calls -> Places] /\ observed \in [Calls -> SUBSET Items]
         /\ read \in [Calls -> Contents] /\ unseen \in [Calls -> SUBSET Items]
         /\ answer \in [Calls -> Answers] /\ kb \in [Runs -> [Items -> Nat]]
         /\ RunOf[c] \in Runs /\ Used(c)
BY ReaderOrDomain DEF UseInv, OnceInv, Typed

\* Steps that add what is in the base to the slice.
LEMMA SliceSteps ==
  ASSUME UseInv, OnceInv', NEW c \in Calls,
         PrimarySlice(c) \/ ExpandedSlice(c) \/ RefreshedSlice(c)
  PROVE  UseInv'
<1>0. observed[c] \subseteq InBase(c)
  BY UseTyped DEF Used, UsedAt
<1>1. /\ Expanded(c) \subseteq InBase(c)
      /\ SliceForAgent(Base(c), AgentOf[c], DepthOf[c], FALSE) \subseteq InBase(c)
  BY DEF SliceForAgent, Expanded, Base, InBase
<1>2. PICK seen \in SUBSET InBase(c) :
        /\ observed' = [observed EXCEPT ![c] = seen]
        /\ RefreshedSlice(c) => Expanded(c) \subseteq seen
  <2>1. CASE PrimarySlice(c)
    <3>1. ~ RefreshedSlice(c)
      BY <2>1 DEF PrimarySlice, RefreshedSlice, Moves
    <3>. QED BY <1>1, <2>1, <3>1 DEF PrimarySlice
  <2>2. CASE ExpandedSlice(c) \/ RefreshedSlice(c)
    <3>1. observed' = [observed EXCEPT ![c] = observed[c] \cup Expanded(c)]
      BY <2>2 DEF ExpandedSlice, RefreshedSlice
    <3>. QED BY <1>0, <1>1, <3>1
  <2>. QED BY <2>1, <2>2
<1>3. observed' \in [Calls -> SUBSET Items] /\ Alone(c) /\ observed'[c] = seen
  <2>1. /\ \E to \in Places : at' = [at EXCEPT ![c] = to]
        /\ UNCHANGED <<kb, setting, read, unseen, answer>>
    BY DEF PrimarySlice, ExpandedSlice, RefreshedSlice, Moves, AfterSearch, knowledge,
           Places, Searching
  <2>2. seen \subseteq Items
    BY DEF InBase
  <2>. QED BY <1>2, <2>1, <2>2, UseTyped DEF Alone
<1>4. /\ InBase(c)' = InBase(c) /\ ReadBy(c)' = ReadBy(c) /\ NoneFits(c)' = NoneFits(c)
      /\ read'[c] = read[c] /\ unseen'[c] = unseen[c] /\ answer'[c] = answer[c]
  BY DEF InBase, ReadBy, NoneFits, PrimarySlice, ExpandedSlice, RefreshedSlice, knowledge
<1>5. CASE PrimarySlice(c) \/ ExpandedSlice(c)
  <2>1. at[c] \in Searching /\ at'[c] \in {"expand", "refresh", "ask"}
    <3>1. at[c] \in Searching
      BY <1>5 DEF PrimarySlice, ExpandedSlice, Moves, Searching
    <3>2. \A items : AfterSearch(items) \in {"refresh", "ask"}
      BY DEF AfterSearch
    <3>3. PICK to \in {"expand", "refresh", "ask"} : at' = [at EXCEPT ![c] = to]
      BY <1>5, <3>2 DEF PrimarySlice, ExpandedSlice, Moves
    <3>. QED BY <3>1, <3>3, UseTyped
  <2>2. answer[c] # "empty"
    BY <2>1, UseTyped DEF Used, UsedAt, Searching
  <2>3. read[c].documents = NoFiles
    BY <2>1, UseTyped DEF Used, UsedAt
  <2>4. Used(c)'
    BY <1>3, <1>4, <2>1, <2>2, <2>3 DEF Used, UsedAt, Searching
  <2>. QED BY <1>3, <2>4, UsedByOthers
<1>6. CASE RefreshedSlice(c)
  <2>1. at[c] = "reslice" /\ at'[c] = "conclude"
    BY <1>6, UseTyped DEF RefreshedSlice, Moves
  <2>2. ReadBy(c) \subseteq InBase(c)
    BY <2>1, UseTyped DEF Used, UsedAt, ReadBy
  <2>3. seen # {} \/ NoneFits(c)
    <3>. SUFFICES ASSUME NEW j \in ReadBy(c), Fits(AgentOf[c], j, setting.macro)
                  PROVE  Expanded(c) # {}
      BY <1>2, <1>6 DEF NoneFits
    <3>1. /\ j \in Items /\ Base(c)[j] > 0 /\ Fits(AgentOf[c], j, setting.macro)
          /\ "deep" \in Depths /\ Base(c) \in [Items -> Nat]
      BY <2>2, UseTyped DEF InBase, NoneFits, Base, Depths
    <3>. QED BY <3>1, SliceShows DEF Expanded
  <2>4. answer[c] # "empty"
    BY <2>1, UseTyped DEF Used, UsedAt
  <2>5. Used(c)'
    BY <1>3, <1>4, <2>1, <2>3, <2>4 DEF Used, UsedAt, Searching
  <2>. QED BY <1>3, <2>5, UsedByOthers
<1>. QED BY <1>5, <1>6

\* Steps that add neither to a base nor to a slice, read nothing and look up nothing.
LEMMA FrozenStep ==
  ASSUME UseInv, OnceInv', NEW c \in Calls, NEW to \in Places, NEW source \in Answers,
         at' = [at EXCEPT ![c] = to], answer' = [answer EXCEPT ![c] = source],
         UNCHANGED <<kb, setting, observed, read, unseen>>, UsedAt(c, to, source)
  PROVE  UseInv'
<1>1. /\ at'[c] = to /\ Alone(c) /\ observed' \in [Calls -> SUBSET Items]
      /\ answer'[c] = source
  BY UseTyped DEF Alone
<1>2. /\ InBase(c)' = InBase(c) /\ ReadBy(c)' = ReadBy(c) /\ NoneFits(c)' = NoneFits(c)
      /\ read'[c] = read[c] /\ unseen'[c] = unseen[c] /\ observed'[c] = observed[c]
      /\ IsReader(c)' = IsReader(c)
  BY DEF InBase, ReadBy, NoneFits, IsReader
<1>3. Used(c)'
  BY <1>1, <1>2 DEF Used, UsedAt
<1>. QED BY <1>1, <1>3, UsedByOthers

LEMMA FrozenSteps ==
  ASSUME UseInv, OnceInv', NEW c \in Calls,
         \/ RefreshUnavailable(c) \/ RunIngest(c) \/ IngestFails(c) \/ IngestEnds(c)
         \/ ReadTornFile(c, "events", "read_events")
         \/ ReadTornFile(c, "documents", "read_documents")
         \/ NothingNew(c) \/ SetSourceAgent(c) \/ SetSourceDir(c)
         \/ Conclude(c) \/ AnswerWithout(c) \/ Answer(c)
  PROVE  UseInv'
<1>1. UsedAt(c, at[c], answer[c])
  BY UseTyped DEF Used
<1>2. answer = [answer EXCEPT ![c] = answer[c]] /\ answer[c] \in Answers
  BY UseTyped
<1>. DEFINE Frozen(to, source) ==
       /\ at' = [at EXCEPT ![c] = to] /\ answer' = [answer EXCEPT ![c] = source]
       /\ UNCHANGED <<kb, setting, observed, read, unseen>>
<1>. USE DEF Moves, knowledge
<1>3. CASE RefreshUnavailable(c)
  <2>1. Frozen("conclude", answer[c]) /\ at[c] = "refresh"
    BY <1>2, <1>3 DEF RefreshUnavailable
  <2>2. UsedAt(c, "conclude", answer[c])
    BY <1>1, <2>1 DEF UsedAt, Searching
  <2>. QED BY <1>2, <2>1, <2>2, FrozenStep DEF Places
<1>4. CASE RunIngest(c)
  <2>1. Frozen("ingest", answer[c]) /\ at[c] = "refresh"
    BY <1>2, <1>4 DEF RunIngest
  <2>2. UsedAt(c, "ingest", answer[c])
    BY <1>1, <2>1 DEF UsedAt, Searching
  <2>. QED BY <1>2, <2>1, <2>2, FrozenStep DEF Places
<1>5. CASE IngestFails(c)
  <2>1. Frozen("conclude", answer[c]) /\ at[c] = "ingest"
    BY <1>2, <1>5 DEF IngestFails
  <2>2. UsedAt(c, "conclude", answer[c])
    BY <1>1, <2>1 DEF UsedAt, Searching
  <2>. QED BY <1>2, <2>1, <2>2, FrozenStep DEF Places
<1>6. CASE IngestEnds(c)
  <2>1. Frozen("read_events", answer[c]) /\ at[c] = "ingest"
    BY <1>2, <1>6 DEF IngestEnds
  <2>2. UsedAt(c, "read_events", answer[c])
    BY <1>1, <2>1 DEF UsedAt, Searching
  <2>. QED BY <1>2, <2>1, <2>2, FrozenStep DEF Places, Reading
<1>7. CASE \/ ReadTornFile(c, "events", "read_events")
           \/ ReadTornFile(c, "documents", "read_documents")
  <2>1. Frozen("raised", answer[c]) /\ at[c] \in {"read_events", "read_documents"}
    BY <1>2, <1>7 DEF ReadTornFile
  <2>2. UsedAt(c, "raised", answer[c])
    BY <1>1, <2>1 DEF UsedAt, Searching
  <2>. QED BY <1>2, <2>1, <2>2, FrozenStep DEF Places
<1>8. CASE NothingNew(c)
  <2>1. Frozen("conclude", answer[c]) /\ at[c] = "look_up" /\ ReadBy(c) = {}
    BY <1>2, <1>8 DEF NothingNew, ReadBy
  <2>2. UsedAt(c, "conclude", answer[c])
    BY <1>1, <2>1 DEF UsedAt, Searching, NoneFits
  <2>. QED BY <1>2, <2>1, <2>2, FrozenStep DEF Places
<1>9. CASE SetSourceAgent(c)
  <2>1. Frozen("set_dir", answer[c]) /\ at[c] = "set_agent"
    BY <1>2, <1>9 DEF SetSourceAgent
  <2>2. UsedAt(c, "set_dir", answer[c])
    BY <1>1, <2>1 DEF UsedAt, Searching
  <2>. QED BY <1>2, <2>1, <2>2, FrozenStep DEF Places, Reading
<1>10. CASE SetSourceDir(c)
  <2>1. Frozen("reslice", answer[c]) /\ at[c] = "set_dir"
    BY <1>2, <1>10 DEF SetSourceDir
  <2>2. UsedAt(c, "reslice", answer[c])
    BY <1>1, <2>1 DEF UsedAt, Searching
  <2>. QED BY <1>2, <2>1, <2>2, FrozenStep DEF Places, Reading
<1>11. CASE Conclude(c)
  <2>1. Frozen("ask", answer[c]) /\ at[c] = "conclude"
    BY <1>2, <1>11 DEF Conclude
  <2>2. UsedAt(c, "ask", answer[c])
    BY <1>1, <2>1 DEF UsedAt, Searching
  <2>. QED BY <1>2, <2>1, <2>2, FrozenStep DEF Places
<1>12. CASE AnswerWithout(c)
  <2>1. Frozen("done", "empty") /\ at[c] = "conclude" /\ observed[c] = {}
    BY <1>12 DEF AnswerWithout
  <2>2. UsedAt(c, "done", "empty")
    BY <1>1, <2>1 DEF UsedAt, Searching
  <2>. QED BY <2>1, <2>2, FrozenStep DEF Places, Answers
<1>13. CASE Answer(c)
  <2>1. PICK to \in {"repair", "done", "raised"}, source \in Answers \ {"empty"} :
          Frozen(to, source)
    <3>1. PICK outcome \in Outcomes :
            Ask(c, outcome) \/ Repair(c, outcome) \/ AskDomain(c, outcome)
      BY <1>13 DEF Answer
    <3>2. \E to \in {"repair", "done", "raised"}, source \in Answers \ {"empty"} :
            \E from \in {"ask", "repair"} : Settles(c, from, to, source)
      BY <3>1 DEF Ask, Repair, AskDomain, Fails, Escapes, Answers
    <3>. QED BY <3>2 DEF Settles
  <2>2. UsedAt(c, to, source)
    BY <1>1 DEF UsedAt, Searching
  <2>. QED BY <2>1, <2>2, FrozenStep DEF Places
<1>. QED BY <1>3, <1>4, <1>5, <1>6, <1>7, <1>8, <1>9, <1>10, <1>11, <1>12, <1>13

LEMMA ReadUsed ==
  ASSUME UseInv, OnceInv', NEW c \in Calls,
         \/ ReadFile(c, "events", "read_events", "read_documents")
         \/ ReadFile(c, "documents", "read_documents", "look_up")
  PROVE  UseInv'
<1>1. /\ UNCHANGED <<kb, setting, observed, unseen, answer>> /\ read' \in [Calls -> Contents]
      /\ \A d \in Calls \ {c} : read'[d] = read[d] /\ at'[d] = at[d]
  <2>1. UNCHANGED <<kb, setting, observed, unseen, answer>> /\ read' \in [Calls -> Contents]
    BY DEF ReadFile, knowledge, OnceInv, Typed
  <2>2. \E name \in Forms : \E new : read' = [read EXCEPT ![c] = [read[c] EXCEPT ![name] = new]]
    BY UseTyped DEF ReadFile, Forms
  <2>3. \E to : at' = [at EXCEPT ![c] = to]
    BY DEF ReadFile, Moves
  <2>. QED BY <2>1, <2>2, <2>3, UseTyped
<1>2. Alone(c) /\ observed' \in [Calls -> SUBSET Items]
  BY <1>1, UseTyped DEF Alone
<1>3. InBase(c)' = InBase(c) /\ observed'[c] = observed[c] /\ answer'[c] = answer[c]
  BY <1>1 DEF InBase
<1>4. UsedAt(c, at[c], answer[c])
  BY UseTyped DEF Used
<1>5. CASE ReadFile(c, "events", "read_events", "read_documents")
  <2>1. at[c] = "read_events" /\ at'[c] = "read_documents"
    BY <1>5, UseTyped DEF ReadFile, Moves
  <2>2. read'[c].documents = read[c].documents
    <3>1. read[c] \in Contents /\ \E new : read'[c] = [read[c] EXCEPT !["events"] = new]
      BY <1>5, UseTyped DEF ReadFile
    <3>. QED BY <3>1 DEF Contents
  <2>3. Used(c)'
    BY <1>3, <1>4, <2>1, <2>2 DEF Used, UsedAt, Searching
  <2>. QED BY <1>2, <2>3, UsedByOthers
<1>6. CASE ReadFile(c, "documents", "read_documents", "look_up")
  <2>1. at[c] = "read_documents" /\ at'[c] = "look_up"
    BY <1>6, UseTyped DEF ReadFile, Moves
  <2>2. Used(c)'
    BY <1>3, <1>4, <2>1 DEF Used, UsedAt, Searching
  <2>. QED BY <1>2, <2>2, UsedByOthers
<1>. QED BY <1>5, <1>6

LEMMA LookUpUsed ==
  ASSUME UseInv, OnceInv', NEW c \in Calls,
         \/ LookUp(c, "events", "look_up", "merge_events")
         \/ LookUp(c, "documents", "look_up_documents", "merge_documents")
  PROVE  UseInv'
<1>1. /\ UNCHANGED <<kb, setting, observed, read, answer>>
      /\ \E to : at' = [at EXCEPT ![c] = to]
      /\ \E new : unseen' = [unseen EXCEPT ![c] = new]
  BY DEF LookUp, Moves, knowledge
<1>2. Alone(c) /\ observed' \in [Calls -> SUBSET Items]
  BY <1>1, UseTyped DEF Alone
<1>3. /\ InBase(c)' = InBase(c) /\ observed'[c] = observed[c] /\ answer'[c] = answer[c]
      /\ read'[c] = read[c]
  BY <1>1 DEF InBase
<1>4. UsedAt(c, at[c], answer[c])
  BY UseTyped DEF Used
<1>5. ASSUME NEW new \in SUBSET Items
      PROVE  new \subseteq InBase(c) \cup Unseen(RunOf[c], new)
  BY UseTyped DEF InBase, Unseen
<1>6. /\ read[c].events \subseteq Items /\ read[c].documents \subseteq Items
  <2>1. at[c] \in Merging
    BY DEF LookUp, Moves, Merging
  <2>. QED BY <2>1, BroughtTyped DEF UseInv, OnceInv, Sourced
<1>7. CASE LookUp(c, "events", "look_up", "merge_events")
  <2>1. /\ at[c] = "look_up" /\ at'[c] = "merge_events"
        /\ unseen'[c] = Unseen(RunOf[c], read[c].events)
    BY <1>7, UseTyped DEF LookUp, Moves
  <2>2. Used(c)'
    BY <1>3, <1>4, <1>5, <1>6, <2>1 DEF Used, UsedAt, Searching
  <2>. QED BY <1>2, <2>2, UsedByOthers
<1>8. CASE LookUp(c, "documents", "look_up_documents", "merge_documents")
  <2>1. /\ at[c] = "look_up_documents" /\ at'[c] = "merge_documents"
        /\ unseen'[c] = Unseen(RunOf[c], read[c].documents)
    BY <1>8, UseTyped DEF LookUp, Moves
  <2>2. Used(c)'
    BY <1>3, <1>4, <1>5, <1>6, <2>1 DEF Used, UsedAt, Searching
  <2>. QED BY <1>2, <2>2, UsedByOthers
<1>. QED BY <1>7, <1>8

LEMMA MergeUsed ==
  ASSUME UseInv, OnceInv', NEW c \in Calls,
         \/ Merge(c, "events", "merge_events", "look_up_documents")
         \/ Merge(c, "documents", "merge_documents", "set_agent")
  PROVE  UseInv'
<1>1. /\ UNCHANGED <<setting, observed, read, answer>>
      /\ \E to : at' = [at EXCEPT ![c] = to]
      /\ unseen' = [unseen EXCEPT ![c] = {}]
      /\ kb' = [kb EXCEPT ![RunOf[c]] =
                  [i \in Items |-> IF i \in unseen[c] THEN kb[RunOf[c]][i] + 1
                                                      ELSE kb[RunOf[c]][i]]]
  BY DEF Merge, Moves, MergeFrom
<1>2. \A r \in Runs : \A i \in Items : kb[r][i] > 0 => kb'[r][i] > 0
  BY <1>1, UseTyped
<1>3. Alone(c) /\ observed' \in [Calls -> SUBSET Items]
  BY <1>1, <1>2, UseTyped DEF Alone
<1>4. InBase(c) \cup unseen[c] \subseteq InBase(c)'
  <2>1. \A i \in unseen[c] : i \in Items /\ kb'[RunOf[c]][i] > 0
    BY <1>1, UseTyped
  <2>. QED BY <1>2, <2>1, UseTyped DEF InBase
<1>5. observed'[c] = observed[c] /\ answer'[c] = answer[c] /\ read'[c] = read[c]
  BY <1>1
<1>6. UsedAt(c, at[c], answer[c])
  BY UseTyped DEF Used
<1>7. CASE Merge(c, "events", "merge_events", "look_up_documents")
  <2>1. at[c] = "merge_events" /\ at'[c] = "look_up_documents"
    BY <1>7, UseTyped DEF Merge, Moves
  <2>2. Used(c)'
    BY <1>4, <1>5, <1>6, <2>1 DEF Used, UsedAt, Searching
  <2>. QED BY <1>3, <2>2, UsedByOthers
<1>8. CASE Merge(c, "documents", "merge_documents", "set_agent")
  <2>1. at[c] = "merge_documents" /\ at'[c] = "set_agent"
    BY <1>8, UseTyped DEF Merge, Moves
  <2>2. Used(c)'
    BY <1>4, <1>5, <1>6, <2>1 DEF Used, UsedAt, Searching
  <2>. QED BY <1>3, <2>2, UsedByOthers
<1>. QED BY <1>7, <1>8

LEMMA EveryUse ==
  ASSUME UseInv, OnceInv', [Next]_vars
  PROVE  UseInv'
<1>1. CASE UNCHANGED vars
  BY <1>1 DEF UseInv, Used, UsedAt, InBase, ReadBy, NoneFits, IsReader, vars, knowledge, calls
<1>2. ASSUME NEW c \in Calls, ToolLoop(c)
      PROVE  UseInv'
  BY <1>2, SliceSteps, FrozenSteps, ReadUsed, LookUpUsed, MergeUsed DEF ToolLoop
<1>3. ASSUME NEW c \in Calls, Job(c)
      PROVE  UseInv'
  <2>1. UNCHANGED <<kb, setting, at, observed, read, unseen, answer>>
    BY <1>3 DEF Job, JobStep
  <2>2. \A d \in Calls : Used(d)'
    BY <2>1 DEF UseInv, Used, UsedAt, InBase, ReadBy, NoneFits, IsReader
  <2>. QED BY <2>1, <2>2 DEF UseInv
<1>. QED BY <1>1, <1>2, <1>3, FrozenSteps DEF Next, Finished

\* EvidenceIsUsed: an agent judges what is in the knowledge base of its own run,
\* and it does not answer that there is nothing when the refresh it caused brought
\* something of interest to it (_run_tool_loop).
THEOREM EvidenceTheorem == Spec => []EvidenceIsUsed
<1>1. Init => \A c \in Calls : Used(c)
  BY DEF Init, Used, UsedAt, NothingRead, Searching
<1>2. Init => observed \in [Calls -> SUBSET Items]
  BY DEF Init
<1>3. UseInv => EvidenceIsUsed
  <2>. SUFFICES ASSUME UseInv, NEW c \in Calls
                PROVE  /\ \A i \in observed[c] : Base(c)[i] > 0
                       /\ (IsReader(c) /\ at[c] = "done" /\ read[c].documents # NoFiles) =>
                            \/ answer[c] # "empty"
                            \/ \A i \in ReadBy(c) : ~Fits(AgentOf[c], i, setting.macro)
    BY DEF EvidenceIsUsed, ReadBy
  <2>1. Used(c)
    BY UseTyped
  <2>2. \A i \in observed[c] : Base(c)[i] > 0
    BY <2>1 DEF Used, UsedAt, InBase, Base
  <2>. QED BY <2>1, <2>2 DEF Used, UsedAt, NoneFits
<1>4. Init => UseInv
  BY <1>1, <1>2, Initially DEF UseInv
<1>5. UseInv /\ OnceInv' /\ [Next]_vars => UseInv'
  BY EveryUse
<1>. QED BY <1>3, <1>4, <1>5, OnceInvariant, PTL DEF Spec
=============================================================================
