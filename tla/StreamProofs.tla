----------------------------- MODULE StreamProofs -----------------------------
(***************************************************************************)
(* Proofs about EventStream, for any number of agents and any schedule of  *)
(* tasks, threads and callbacks: the client sees the debate in its order   *)
(* and, unless it leaves, all of it, and a failure is never an end.        *)
(***************************************************************************)
EXTENDS EventStream, FiniteSums, SequenceTheorems

(***************************************************************************)
(* The debate in a sequence                                                *)
(***************************************************************************)
\* What the recursive function of Debate is at n.
DebateStep(s, f, n) ==
  IF n = 0 THEN <<>>
  ELSE IF s[n].kind \in DebateKinds THEN Append(f[n - 1], s[n]) ELSE f[n - 1]

IsDebate(s, n, f) == f = [m \in 0..n |-> DebateStep(s, f, m)]

LEMMA DebateExists ==
  ASSUME NEW s
  PROVE  \A n \in Nat : \E f : IsDebate(s, n, f)
<1> DEFINE N == {n \in Nat : \E f : IsDebate(s, n, f)}
<1>1. 0 \in N
  <2> DEFINE f == [m \in 0..0 |-> <<>>]
  <2>1. f = [m \in 0..0 |-> DebateStep(s, f, m)]
    BY DEF DebateStep
  <2> HIDE DEF f
  <2> QED BY <2>1 DEF IsDebate
<1>2. ASSUME NEW n \in Nat, n \in N PROVE n + 1 \in N
  <2>1. PICK g : g = [m \in 0..n |-> DebateStep(s, g, m)]
    BY <1>2 DEF IsDebate
  <2> DEFINE f == [m \in 0..(n + 1) |-> IF m = n + 1 THEN DebateStep(s, g, m) ELSE g[m]]
  <2>2. \A m \in 0..n : f[m] = g[m] /\ m \in 0..(n + 1)
    OBVIOUS
  <2>3. \A m \in 0..(n + 1) : DebateStep(s, f, m) = DebateStep(s, g, m)
    <3> SUFFICES ASSUME NEW m \in 0..(n + 1), m # 0 PROVE f[m - 1] = g[m - 1]
      BY DEF DebateStep
    <3>1. m - 1 \in 0..n
      OBVIOUS
    <3> QED BY <2>2, <3>1
  <2>4. \A m \in 0..(n + 1) : f[m] = DebateStep(s, g, m)
    BY <2>1
  <2>5. f = [m \in 0..(n + 1) |-> DebateStep(s, f, m)]
    BY <2>3, <2>4
  <2> HIDE DEF f
  <2> QED BY <2>5 DEF IsDebate
<1> HIDE DEF N
<1>3. \A n \in Nat : n \in N
  BY <1>1, <1>2, NumberInduction
<1> QED BY <1>3 DEF N

LEMMA DebateIsFixpoint ==
  ASSUME NEW s, Len(s) \in Nat
  PROVE  \E f : IsDebate(s, Len(s), f) /\ Debate(s) = f[Len(s)]
<1> DEFINE h == CHOOSE f : IsDebate(s, Len(s), f)
<1>1. IsDebate(s, Len(s), h)
  BY DebateExists
<1>2. Debate(s) = h[Len(s)]
  BY DEF Debate, IsDebate, DebateStep
<1> QED BY <1>1, <1>2

\* Sequences that are the same so far have the same debate so far.
LEMMA SameSoFar ==
  ASSUME NEW s, NEW t, NEW m \in Nat, NEW n \in Nat, NEW k \in Nat, k <= m, k <= n,
         NEW f, IsDebate(s, m, f), NEW g, IsDebate(t, n, g), \A i \in 1..k : s[i] = t[i]
  PROVE  f[k] = g[k]
<1> DEFINE N == {i \in Nat : i <= k => f[i] = g[i]}
<1>1. 0 \in N
  BY DEF IsDebate, DebateStep
<1>2. ASSUME NEW i \in Nat, i \in N PROVE i + 1 \in N
  <2> SUFFICES ASSUME i + 1 <= k PROVE f[i + 1] = g[i + 1]
    OBVIOUS
  <2>1. f[i] = g[i] /\ s[i + 1] = t[i + 1] /\ (i + 1) - 1 = i /\ i + 1 # 0
    BY <1>2
  <2>2. f[i + 1] = DebateStep(s, f, i + 1) /\ g[i + 1] = DebateStep(t, g, i + 1)
    <3>1. i + 1 \in 0..m /\ i + 1 \in 0..n
      OBVIOUS
    <3> QED BY <3>1 DEF IsDebate
  <2> QED BY <2>1, <2>2 DEF DebateStep
<1> HIDE DEF N
<1>3. k \in N
  BY <1>1, <1>2, NumberInduction
<1> QED BY <1>3 DEF N

LEMMA DebateOfNothing == Debate(<<>>) = <<>>
<1>1. Len(<<>>) = 0
  OBVIOUS
<1>2. PICK f : IsDebate(<<>>, 0, f) /\ Debate(<<>>) = f[0]
  BY <1>1, DebateIsFixpoint
<1> QED BY <1>2 DEF IsDebate, DebateStep

LEMMA DebateOfAppend ==
  ASSUME NEW E, NEW s \in Seq(E), NEW e \in E
  PROVE  Debate(Append(s, e)) = IF e.kind \in DebateKinds THEN Append(Debate(s), e)
                                ELSE Debate(s)
<1> DEFINE t == Append(s, e)
           n == Len(s)
<1>1. n \in Nat /\ Len(t) = n + 1 /\ t[n + 1] = e /\ \A i \in 1..n : t[i] = s[i]
  BY AppendProperties, LenProperties
<1> HIDE DEF t, n
<1>2. PICK f : IsDebate(s, n, f) /\ Debate(s) = f[n]
  BY <1>1, DebateIsFixpoint DEF n
<1>3. PICK g : IsDebate(t, n + 1, g) /\ Debate(t) = g[n + 1]
  BY <1>1, DebateIsFixpoint
<1>4. f[n] = g[n]
  BY <1>1, <1>2, <1>3, SameSoFar
<1>5. g[n + 1] = DebateStep(t, g, n + 1)
  <2>1. n + 1 \in 0..(n + 1)
    BY <1>1
  <2> QED BY <1>3, <2>1 DEF IsDebate
<1>6. n + 1 # 0 /\ (n + 1) - 1 = n
  BY <1>1
<1> QED BY <1>1, <1>2, <1>3, <1>4, <1>5, <1>6 DEF DebateStep, t

LEMMA DebateIsTyped ==
  ASSUME NEW E, NEW s \in Seq(E)
  PROVE  Debate(s) \in Seq(E)
<1> DEFINE N == {n \in Nat : \A t \in Seq(E) : Len(t) = n => Debate(t) \in Seq(E)}
<1>1. 0 \in N
  <2>1. \A t \in Seq(E) : Len(t) = 0 => t = <<>>
    BY EmptySeq
  <2> QED BY <2>1, DebateOfNothing, EmptySeq
<1>2. ASSUME NEW n \in Nat, n \in N PROVE n + 1 \in N
  <2> SUFFICES ASSUME NEW t \in Seq(E), Len(t) = n + 1 PROVE Debate(t) \in Seq(E)
    OBVIOUS
  <2>1. t # <<>>
    OBVIOUS
  <2>2. PICK u \in Seq(E), e \in E : t = Append(u, e)
    BY <2>1, SequenceEmptyOrAppend
  <2>3. Len(u) = n
    BY <2>2, AppendProperties, LenProperties
  <2>4. Debate(u) \in Seq(E)
    BY <1>2, <2>3
  <2>5. Debate(t) = IF e.kind \in DebateKinds THEN Append(Debate(u), e) ELSE Debate(u)
    BY <2>2, DebateOfAppend
  <2>6. Append(Debate(u), e) \in Seq(E)
    BY <2>4, AppendProperties
  <2> QED BY <2>4, <2>5, <2>6
<1>3. Len(s) \in Nat
  BY LenProperties
<1> HIDE DEF N
<1>4. Len(s) \in N
  BY <1>1, <1>2, <1>3, NumberInduction
<1> QED BY <1>4 DEF N

\* What is appended to a part is appended to the whole.
LEMMA AppendToConcat ==
  ASSUME NEW E, NEW r \in Seq(E), NEW q \in Seq(E), NEW e \in E
  PROVE  r \o Append(q, e) = Append(r \o q, e)
OBVIOUS

LEMMA DebateOfConcat ==
  ASSUME NEW E, NEW s \in Seq(E), NEW t \in Seq(E)
  PROVE  Debate(s \o t) = Debate(s) \o Debate(t)
<1> DEFINE N == {n \in Nat : \A u \in Seq(E) : Len(u) = n =>
                               Debate(s \o u) = Debate(s) \o Debate(u)}
<1>0. Debate(s) \in Seq(E)
  BY DebateIsTyped
<1>1. 0 \in N
  <2>1. \A u \in Seq(E) : Len(u) = 0 => u = <<>>
    BY EmptySeq
  <2>2. s \o <<>> = s /\ Debate(s) \o <<>> = Debate(s)
    BY <1>0, ConcatEmptySeq
  <2> QED BY <2>1, <2>2, DebateOfNothing
<1>2. ASSUME NEW n \in Nat, n \in N PROVE n + 1 \in N
  <2> SUFFICES ASSUME NEW v \in Seq(E), Len(v) = n + 1
               PROVE  Debate(s \o v) = Debate(s) \o Debate(v)
    OBVIOUS
  <2>1. v # <<>>
    OBVIOUS
  <2>2. PICK u \in Seq(E), e \in E : v = Append(u, e)
    BY <2>1, SequenceEmptyOrAppend
  <2>3. Len(u) = n
    BY <2>2, AppendProperties, LenProperties
  <2>4. Debate(s \o u) = Debate(s) \o Debate(u)
    BY <1>2, <2>3
  <2>5. s \o u \in Seq(E) /\ s \o v = Append(s \o u, e)
    BY <2>2, ConcatProperties, AppendIsConcat, ConcatAssociative
  <2>6. Debate(u) \in Seq(E)
    BY DebateIsTyped
  <2>7. Debate(s) \o Append(Debate(u), e) = Append(Debate(s) \o Debate(u), e)
    <3>1. \A r, q \in Seq(E) : r \o Append(q, e) = Append(r \o q, e)
      BY AppendToConcat
    <3>2. Debate(s) \in Seq(E) /\ Debate(u) \in Seq(E)
      BY <1>0, <2>6
    <3> HIDE DEF N
    <3> QED BY <3>1, <3>2
  <2>8. Debate(v) = IF e.kind \in DebateKinds THEN Append(Debate(u), e) ELSE Debate(u)
    BY <2>2, DebateOfAppend
  <2>9. Debate(s \o v) = IF e.kind \in DebateKinds THEN Append(Debate(s \o u), e)
                         ELSE Debate(s \o u)
    BY <2>5, DebateOfAppend
  <2> QED BY <2>4, <2>7, <2>8, <2>9
<1>3. Len(t) \in Nat
  BY LenProperties
<1> HIDE DEF N
<1>4. Len(t) \in N
  BY <1>1, <1>2, <1>3, NumberInduction
<1> QED BY <1>4 DEF N

\* What a sequence is made of, from its head.
LEMMA HeadAndTail ==
  ASSUME NEW E, NEW s \in Seq(E), s # <<>>
  PROVE  /\ Head(s) \in E /\ Tail(s) \in Seq(E)
         /\ s = <<Head(s)>> \o Tail(s)
<1>1. Head(s) \in E /\ Tail(s) \in Seq(E)
  BY HeadTailProperties
<1>2. s = <<Head(s)>> \o Tail(s)
  OBVIOUS
<1> QED BY <1>1, <1>2

LEMMA DebateOfOne ==
  ASSUME NEW e
  PROVE  Debate(<<e>>) = IF e.kind \in DebateKinds THEN <<e>> ELSE <<>>
<1>1. <<>> \in Seq({e}) /\ <<e>> = Append(<<>>, e)
  OBVIOUS
<1> QED BY <1>1, DebateOfAppend, DebateOfNothing

\* The debate of a sequence, from its head.
LEMMA DebateOfTail ==
  ASSUME NEW E, NEW s \in Seq(E), s # <<>>
  PROVE  Debate(s) = IF Head(s).kind \in DebateKinds
                     THEN <<Head(s)>> \o Debate(Tail(s)) ELSE Debate(Tail(s))
<1>1. /\ Head(s) \in E /\ Tail(s) \in Seq(E)
      /\ s = <<Head(s)>> \o Tail(s)
  BY HeadAndTail
<1>2. <<Head(s)>> \in Seq(E)
  BY <1>1
<1>3. Debate(s) = Debate(<<Head(s)>>) \o Debate(Tail(s))
  BY <1>1, <1>2, DebateOfConcat
<1>4. <<>> \o Debate(Tail(s)) = Debate(Tail(s))
  BY <1>1, DebateIsTyped, ConcatEmptySeq
<1> QED BY <1>3, <1>4, DebateOfOne

(***************************************************************************)
(* How a stream ends                                                       *)
(***************************************************************************)
Completed == Ev("node_completed", "final_judge")

Kinds == NodeKinds \cup DebateKinds \cup {"None", "Exception", "returns", "raises"}
Events == [kind : Kinds, of : Agents \cup {"round1", "final_judge", "core", "loop"}]

\* The events that say nothing of an end, those of the debate, and the others.
Plain == Events \ {Completed, Sentinel, Error}
InDebate == {e \in Events : e.kind \in DebateKinds}
Silent == Events \ InDebate

\* A sequence is T, behind elements of P.
Ends(s, P, T) == \E X \in Seq(P) : s = X \o T

LEMMA EventsAre ==
  /\ Plain \subseteq Events /\ InDebate \subseteq Plain /\ Silent \subseteq Events
  /\ {Completed, Sentinel, Error, Returns, Raises} \subseteq Silent
  /\ Completed # Sentinel /\ Completed # Error /\ Sentinel # Error
  /\ {Ev("node_started", "round1"), Ev("node_completed", "round1"),
      Ev("node_started", "final_judge")} \subseteq Plain \cap Silent
  /\ {Ev("llm_skipped", "final_judge"), Ev("human_review_skipped", "final_judge"),
      Ev("consensus_updated", "core")} \subseteq InDebate
  /\ \A a \in Agents : {Ev("agent_started", a), Ev("agent_completed", a),
                         Ev("agent_failed", a)} \subseteq InDebate
BY DEF Plain, InDebate, Silent, Events, Kinds, NodeKinds, DebateKinds, Completed,
       Sentinel, Error, Returns, Raises, Ev

LEMMA SeqOfMore ==
  ASSUME NEW P, NEW E, P \subseteq E, NEW s \in Seq(P)
  PROVE  s \in Seq(E)
OBVIOUS

\* Its head is not of T, or it is T.
LEMMA EndsHead ==
  ASSUME NEW P, NEW E, P \subseteq E, NEW T \in Seq(E), T # <<>>, NEW s, Ends(s, P, T)
  PROVE  /\ s # <<>> /\ s \in Seq(E)
         /\ \/ s = T
            \/ Head(s) \in P /\ Ends(Tail(s), P, T)
<1>1. PICK X \in Seq(P) : s = X \o T
  BY DEF Ends
<1>2. CASE X = <<>>
  <2>1. s = T
    BY <1>1, <1>2, ConcatEmptySeq
  <2> QED BY <2>1
<1>3. CASE X # <<>>
  <2>1. /\ Head(X) \in P /\ Tail(X) \in Seq(P)
        /\ X = <<Head(X)>> \o Tail(X)
    BY <1>3, HeadAndTail
  <2>2. s \in Seq(E) /\ s # <<>>
    <3>1. X \in Seq(E) /\ Len(X) \in Nat /\ Len(X) # 0
      BY <1>3, EmptySeq, LenProperties, SeqOfMore
    <3>2. s \in Seq(E) /\ Len(s) = Len(X) + Len(T)
      BY <1>1, <3>1, ConcatProperties
    <3> QED BY <3>1, <3>2, LenProperties
  <2>3. Head(s) = Head(X) /\ Tail(s) = Tail(X) \o T
    <3>1. <<Head(X)>> \in Seq(E) /\ Tail(X) \in Seq(E)
      BY <2>1
    <3>2. s = <<Head(X)>> \o (Tail(X) \o T)
      BY <1>1, <2>1, <3>1, ConcatAssociative
    <3>3. Tail(X) \o T \in Seq(E)
      BY <3>1, ConcatProperties
    <3> QED BY <3>2, <3>3, <2>1
  <2> QED BY <2>1, <2>2, <2>3 DEF Ends
<1> QED BY <1>2, <1>3

LEMMA EndsWith ==
  ASSUME NEW P, NEW E, P \subseteq E, NEW T \in Seq(E), NEW U \in Seq(E),
         NEW s, Ends(s, P, T)
  PROVE  Ends(s \o U, P, T \o U)
<1>1. PICK X \in Seq(P) : s = X \o T
  BY DEF Ends
<1>2. X \in Seq(E)
  BY SeqOfMore
<1>3. s \o U = X \o (T \o U)
  BY <1>1, <1>2, ConcatAssociative
<1> QED BY <1>3 DEF Ends

(***************************************************************************)
(* What the tasks and threads are doing                                    *)
(***************************************************************************)
Types ==
  /\ ready \in Seq(Events) /\ queue \in Seq(Events) /\ sent \in Seq(Events)
  /\ published \in Seq(Events) /\ stream \in Seq(Silent)
  /\ agent \in [Agents -> {"idle", "queued", "running", "done", "failed"}]

\* Nothing more is published, and nobody is woken.
Quiet == ready = <<>> /\ core \in {"idle", "over"}

Phases ==
  /\ core \in {"idle", "pool", "concluded", "over"}
  /\ core = "idle" => ready = <<>> /\ \A a \in Agents : agent[a] = "idle"
  /\ core \in {"pool", "concluded"} => ready \in Seq(InDebate)
  /\ core \in {"concluded", "over"} => Join
  /\ core = "over" => \/ ready = <<>>
                      \/ Ends(ready, InDebate, <<Returns>>)
                      \/ Ends(ready, InDebate, <<Raises>>)
  /\ graph \in {"round1", "final_judge"} => core = "idle"
  /\ graph \in {"returned", "raised"} => Quiet

\* What is published, from a thread or on the loop, is an event of the debate.
LEMMA ThreadPublishes ==
  ASSUME Types, NEW e \in InDebate, FromThread(e)
  PROVE  ready' \in Seq(Events) /\ published' \in Seq(Events)
BY EventsAre, AppendProperties DEF Types, FromThread

LEMMA LoopPublishes ==
  ASSUME Types, NEW e \in InDebate, OnLoop(e)
  PROVE  queue' \in Seq(Events) /\ published' \in Seq(Events)
BY EventsAre, AppendProperties DEF Types, OnLoop

LEMMA CollectorPuts ==
  ASSUME NEW e \in Silent
  PROVE  Puts(e) \in Seq(Silent) /\ Debate(Puts(e)) = <<>>
<1>1. /\ Error \in Silent /\ Sentinel \in Silent
      /\ \A s \in Silent : s.kind \notin DebateKinds
  BY EventsAre DEF Silent, InDebate
<1>2. CASE e = Error
  <2>1. /\ Puts(e) = Append(<<Error>>, Sentinel)
        /\ <<Error>> \in Seq(Silent) /\ <<Error, Sentinel>> \in Seq(Silent)
    BY <1>1, <1>2 DEF Puts
  <2>2. Debate(Puts(e)) = Debate(<<Error>>)
    BY <1>1, <2>1, DebateOfAppend
  <2> QED BY <1>1, <1>2, <2>1, <2>2, DebateOfOne DEF Puts
<1>3. CASE e # Error
  BY <1>1, <1>3, DebateOfOne DEF Puts
<1> QED BY <1>2, <1>3

LEMMA TypesStep ==
  ASSUME Types, [StreamNext]_streamVars
  PROVE  Types'
<1> USE DEF Types
<1>1. CASE Round1Node
  <2>1. <<Ev("node_started", "round1"), Ev("node_completed", "round1")>> \in Seq(Silent)
    BY EventsAre
  <2> QED BY <1>1, <2>1, ConcatProperties DEF Round1Node
<1>2. CASE StartCore
  BY <1>2, EventsAre, AppendProperties DEF StartCore
<1>3. CASE SkipCore
  BY <1>3, EventsAre, AppendProperties, LoopPublishes DEF SkipCore
<1>4. CASE Route
  <2>1. <<Ev("node_completed", "final_judge"), Sentinel>> \in Seq(Silent)
    BY EventsAre DEF Completed
  <2>2. stream' \in Seq(Silent)
    BY <1>4, <2>1, ConcatProperties DEF Route, End
  <2>3. queue' \in Seq(Events) /\ published' \in Seq(Events)
    BY <1>4, EventsAre, LoopPublishes DEF Route
  <2> QED BY <1>4, <2>2, <2>3 DEF Route
<1>5. CASE Propagate
  <2>1. <<Error>> \in Seq(Silent)
    BY EventsAre
  <2> QED BY <1>5, <2>1, ConcatProperties DEF Propagate, End
<1>6. CASE Conclude
  BY <1>6, EventsAre, ThreadPublishes DEF Conclude
<1>7. CASE LeaveCore
  <2>1. Returns \in Events /\ Raises \in Events
    BY EventsAre
  <2>2. Append(ready, Returns) \in Seq(Events) /\ Append(ready, Raises) \in Seq(Events)
    BY <2>1, AppendProperties
  <2>3. ready' \in Seq(Events)
    BY <1>7, <2>2 DEF LeaveCore, Wake
  <2> QED BY <1>7, <2>3 DEF LeaveCore
<1>8. ASSUME NEW a \in Agents, StartAgent(a) PROVE Types'
  BY <1>8, EventsAre, ThreadPublishes DEF StartAgent
<1>9. ASSUME NEW a \in Agents, EndAgent(a) PROVE Types'
  <2>1. ready' \in Seq(Events) /\ published' \in Seq(Events)
    BY <1>9, EventsAre, ThreadPublishes DEF EndAgent
  <2> QED BY <1>9, <2>1 DEF EndAgent
<1>10. CASE RunCallback
  <2>1. Head(ready) \in Events /\ Tail(ready) \in Seq(Events)
    BY <1>10, HeadAndTail DEF RunCallback
  <2>2. queue' = queue \/ queue' = Append(queue, Head(ready))
    BY <1>10 DEF RunCallback
  <2>3. Append(queue, Head(ready)) \in Seq(Events)
    BY <2>1, AppendProperties
  <2>4. queue' \in Seq(Events)
    BY <2>2, <2>3
  <2> QED BY <1>10, <2>1, <2>4 DEF RunCallback
<1>11. CASE Collect
  <2>1. Head(stream) \in Silent /\ Tail(stream) \in Seq(Silent)
    BY <1>11, HeadAndTail DEF Collect
  <2>2. Puts(Head(stream)) \in Seq(Events)
    BY <2>1, CollectorPuts, EventsAre, SeqOfMore
  <2> QED BY <1>11, <2>1, <2>2, ConcatProperties DEF Collect
<1>12. CASE Read
  <2>1. Head(queue) \in Events /\ Tail(queue) \in Seq(Events)
    BY <1>12, HeadAndTail DEF Read
  <2> QED BY <1>12, <2>1, AppendProperties DEF Read
<1>13. CASE Cancel
  <2>1. Append(queue, Sentinel) \in Seq(Events)
    BY EventsAre, AppendProperties
  <2> QED BY <1>13, <2>1 DEF Cancel
<1>14. CASE UNCHANGED streamVars
  BY <1>14 DEF streamVars
<1> QED BY <1>1, <1>2, <1>3, <1>4, <1>5, <1>6, <1>7, <1>8, <1>9, <1>10, <1>11, <1>12,
           <1>13, <1>14 DEF StreamNext, Graph, Core, StreamFinished

\* A callback that wakes the graph is the last of the thread.
LEMMA LastCallback ==
  ASSUME Types, Phases, RunCallback
  PROVE  /\ core # "idle"
         /\ core \in {"pool", "concluded"} =>
              Head(ready) \in InDebate /\ ready' \in Seq(InDebate)
         /\ core = "over" =>
              \/ /\ Head(ready) \in InDebate
                 /\ \/ Ends(ready', InDebate, <<Returns>>)
                    \/ Ends(ready', InDebate, <<Raises>>)
              \/ Head(ready) \in {Returns, Raises} /\ ready' = <<>>
<1>1. ready # <<>> /\ ready' = Tail(ready)
  BY DEF RunCallback
<1>2. CASE core \in {"pool", "concluded"}
  BY <1>1, <1>2, HeadAndTail DEF Phases
<1>3. CASE core = "over"
  <2>1. PICK w \in {Returns, Raises} : Ends(ready, InDebate, <<w>>)
    BY <1>1, <1>3 DEF Phases
  <2>2. <<w>> \in Seq(Events) /\ <<w>> # <<>> /\ InDebate \subseteq Events
    BY <2>1, EventsAre
  <2>3. ready = <<w>> \/ (Head(ready) \in InDebate /\ Ends(ready', InDebate, <<w>>))
    BY <1>1, <2>1, <2>2, EndsHead
  <2>4. CASE ready = <<w>>
    BY <1>1, <1>3, <2>4
  <2> QED BY <2>1, <2>3, <2>4, <1>3
<1> QED BY <1>1, <1>2, <1>3 DEF Phases

LEMMA PhasesStep ==
  ASSUME Types, Phases, [StreamNext]_streamVars
  PROVE  Phases'
<1> DEFINE Woken(s) == \/ s = <<>>
                       \/ Ends(s, InDebate, <<Returns>>)
                       \/ Ends(s, InDebate, <<Raises>>)
<1>1. CASE Round1Node
  BY <1>1 DEF Round1Node, Phases, Quiet, Join
<1>2. CASE StartCore
  BY <1>2 DEF StartCore, Phases, Quiet, Join, Types
<1>3. CASE SkipCore
  BY <1>3 DEF SkipCore, Phases, Quiet, Join
<1>4. CASE Route
  BY <1>4 DEF Route, End, Phases, Quiet, Join
<1>5. CASE Propagate
  BY <1>5 DEF Propagate, End, Phases, Quiet, Join
<1>6. CASE Conclude
  <2>1. ready' \in Seq(InDebate)
    BY <1>6, EventsAre, AppendProperties DEF Conclude, Phases, FromThread
  <2> QED BY <1>6, <2>1 DEF Conclude, Phases, Quiet, Join
<1>7. CASE LeaveCore
  <2>1. ready \in Seq(InDebate) /\ core # "idle" /\ core # "over" /\ Join
    BY <1>7 DEF LeaveCore, Phases
  <2>2. ready' = Append(ready, Returns) \/ ready' = Append(ready, Raises)
    BY <1>7 DEF LeaveCore, Wake
  <2>3. \A w : Append(ready, w) = ready \o <<w>>
    OBVIOUS
  <2>4. Ends(ready', InDebate, <<Returns>>) \/ Ends(ready', InDebate, <<Raises>>)
    BY <2>1, <2>2, <2>3 DEF Ends
  <2>5. core' = "over" /\ UNCHANGED <<graph, agent>>
    BY <1>7 DEF LeaveCore
  <2>6. graph \notin {"round1", "final_judge", "returned", "raised"}
    BY <1>7 DEF LeaveCore, Phases, Quiet
  <2> QED BY <2>1, <2>4, <2>5, <2>6 DEF Phases, Join
<1>8. ASSUME NEW a \in Agents, StartAgent(a) PROVE Phases'
  <2>1. core = "pool"
    BY <1>8 DEF StartAgent, Phases, Join
  <2>2. ready' \in Seq(InDebate)
    BY <1>8, <2>1, EventsAre, AppendProperties DEF StartAgent, Phases, FromThread
  <2>3. UNCHANGED <<graph, core>>
    BY <1>8 DEF StartAgent
  <2> QED BY <2>1, <2>2, <2>3 DEF Phases, Quiet
<1>9. ASSUME NEW a \in Agents, EndAgent(a) PROVE Phases'
  <2>1. core = "pool"
    BY <1>9 DEF EndAgent, Phases, Join
  <2>2. PICK e \in InDebate : ready' = Append(ready, e)
    BY <1>9, EventsAre DEF EndAgent, FromThread
  <2>3. ready' \in Seq(InDebate)
    BY <2>1, <2>2, AppendProperties DEF Phases
  <2>4. UNCHANGED <<graph, core>>
    BY <1>9 DEF EndAgent
  <2> QED BY <2>1, <2>3, <2>4 DEF Phases, Quiet
<1>10. CASE RunCallback
  <2>1. /\ core # "idle"
        /\ core \in {"pool", "concluded"} => Head(ready) \in InDebate /\ ready' \in Seq(InDebate)
        /\ core = "over" => Woken(ready')
        /\ Head(ready) \in {Returns, Raises} => core = "over" /\ ready' = <<>>
    BY <1>10, LastCallback, EventsAre DEF Phases, Silent
  <2>2. UNCHANGED <<core, agent>>
    BY <1>10 DEF RunCallback
  <2>3. graph' = graph \/ (graph' \in {"returned", "raised"} /\ Head(ready) \in {Returns, Raises})
    BY <1>10 DEF RunCallback
  <2>4. graph \notin {"round1", "final_judge", "returned", "raised"}
    BY <1>10, <2>1 DEF RunCallback, Phases, Quiet
  <2> QED BY <2>1, <2>2, <2>3, <2>4 DEF Phases, Quiet, Join
<1>11. CASE Collect
  BY <1>11 DEF Collect, Phases, Quiet, Join
<1>12. CASE Read
  BY <1>12 DEF Read, Phases, Quiet, Join
<1>13. CASE Cancel
  BY <1>13 DEF Cancel, Phases, Quiet, Join
<1>14. CASE UNCHANGED streamVars
  BY <1>14 DEF streamVars, Phases, Quiet, Join
<1> QED BY <1>1, <1>2, <1>3, <1>4, <1>5, <1>6, <1>7, <1>8, <1>9, <1>10, <1>11, <1>12,
           <1>13, <1>14 DEF StreamNext, Graph, Core, StreamFinished

(***************************************************************************)
(* Nothing is lost on the way                                              *)
(***************************************************************************)
\* What was published is what the client has, what waits for it in the queue and
\* what waits in callbacks of the loop, in this order.
Whole == (Debate(sent) \o Debate(queue)) \o Debate(ready) = published

LEMMA AppendLast ==
  ASSUME NEW E, NEW A \in Seq(E), NEW B \in Seq(E), NEW e \in E
  PROVE  A \o Append(B, e) = Append(A \o B, e)
<1>1. Append(B, e) = B \o <<e>> /\ <<e>> \in Seq(E)
  BY AppendIsConcat
<1>2. A \o B \in Seq(E)
  BY ConcatProperties
<1>3. Append(A \o B, e) = (A \o B) \o <<e>>
  BY <1>2, AppendIsConcat
<1> QED BY <1>1, <1>3, ConcatAssociative

LEMMA AppendFirst ==
  ASSUME NEW E, NEW A \in Seq(E), NEW B \in Seq(E), NEW e \in E
  PROVE  Append(A, e) \o B = A \o (<<e>> \o B)
<1>1. Append(A, e) = A \o <<e>> /\ <<e>> \in Seq(E)
  BY AppendIsConcat
<1> QED BY <1>1, ConcatAssociative

LEMMA DebatesAreTyped ==
  ASSUME Types
  PROVE  /\ Debate(sent) \in Seq(Events) /\ Debate(queue) \in Seq(Events)
         /\ Debate(ready) \in Seq(Events)
         /\ Debate(sent) \o Debate(queue) \in Seq(Events)
BY DebateIsTyped, ConcatProperties DEF Types

LEMMA ThreadKeepsWhole ==
  ASSUME Types, Whole, NEW e \in InDebate, FromThread(e), UNCHANGED <<sent, queue>>
  PROVE  Whole'
<1>1. e \in Events /\ e.kind \in DebateKinds
  BY DEF InDebate
<1>2. Debate(ready') = Append(Debate(ready), e)
  BY <1>1, DebateOfAppend DEF FromThread, Types
<1>3. (Debate(sent) \o Debate(queue)) \o Append(Debate(ready), e)
        = Append((Debate(sent) \o Debate(queue)) \o Debate(ready), e)
  BY <1>1, DebatesAreTyped, AppendLast
<1> QED BY <1>2, <1>3 DEF Whole, FromThread

\* What is published on the loop overtakes callbacks, and there are none then.
LEMMA LoopKeepsWhole ==
  ASSUME Types, Whole, ready = <<>>, NEW e \in InDebate, OnLoop(e),
         UNCHANGED <<sent, ready>>
  PROVE  Whole'
<1>1. e \in Events /\ e.kind \in DebateKinds
  BY DEF InDebate
<1>2. Debate(queue') = Append(Debate(queue), e)
  BY <1>1, DebateOfAppend DEF OnLoop, Types
<1>3. Debate(sent) \o Append(Debate(queue), e) = Append(Debate(sent) \o Debate(queue), e)
  BY <1>1, DebatesAreTyped, AppendLast
<1>4. Debate(ready) = <<>> /\ Debate(sent) \o Debate(queue) = published
  BY DebateOfNothing, DebatesAreTyped, ConcatEmptySeq DEF Whole
<1>5. published' = Append(published, e) /\ published' \in Seq(Events)
  BY LoopPublishes DEF OnLoop
<1>6. published' \o <<>> = published'
  BY <1>5, ConcatEmptySeq
<1> QED BY <1>2, <1>3, <1>4, <1>5, <1>6 DEF Whole

LEMMA CallbackKeepsWhole ==
  ASSUME Types, Phases, Whole, RunCallback
  PROVE  Whole'
<1> DEFINE e == Head(ready)
<1>1. ready # <<>> /\ ready' = Tail(ready) /\ UNCHANGED <<sent, published>>
  BY DEF RunCallback
<1>2. Debate(ready') \in Seq(Events)
  BY TypesStep, DebateIsTyped DEF Types, StreamNext
<1>3. CASE e \in InDebate
  <2>1. e \in Events /\ e.kind \in DebateKinds /\ e \notin {Returns, Raises}
    BY <1>3, EventsAre DEF InDebate, Silent
  <2>2. queue' = Append(queue, e)
    BY <2>1 DEF RunCallback
  <2>3. Debate(queue') = Append(Debate(queue), e)
    BY <2>1, <2>2, DebateOfAppend DEF Types
  <2>4. Debate(ready) = <<e>> \o Debate(ready')
    BY <1>1, <2>1, DebateOfTail DEF Types
  <2>5. Debate(sent) \o Append(Debate(queue), e) = Append(Debate(sent) \o Debate(queue), e)
    BY <2>1, DebatesAreTyped, AppendLast
  <2>6. Append(Debate(sent) \o Debate(queue), e) \o Debate(ready')
          = (Debate(sent) \o Debate(queue)) \o (<<e>> \o Debate(ready'))
    <3> DEFINE A == Debate(sent) \o Debate(queue)
               B == Debate(ready')
    <3>1. A \in Seq(Events) /\ B \in Seq(Events)
      BY <1>2, DebatesAreTyped
    <3> HIDE DEF A, B, e
    <3>2. Append(A, e) \o B = A \o (<<e>> \o B)
      BY <2>1, <3>1, AppendFirst
    <3> QED BY <3>2 DEF A, B
  <2> QED BY <1>1, <2>3, <2>4, <2>5, <2>6 DEF Whole
<1>4. CASE e \in {Returns, Raises}
  <2>1. e.kind \notin DebateKinds
    BY <1>4 DEF Returns, Raises, Ev, DebateKinds
  <2>2. Debate(ready) = Debate(ready')
    BY <1>1, <2>1, DebateOfTail DEF Types
  <2>3. queue' = queue
    BY <1>4 DEF RunCallback
  <2> QED BY <1>1, <2>2, <2>3 DEF Whole
<1>5. e \in InDebate \/ e \in {Returns, Raises}
  <2>1. core \in {"idle", "pool", "concluded", "over"}
    BY DEF Phases
  <2> QED BY <2>1, LastCallback
<1> QED BY <1>3, <1>4, <1>5

LEMMA CollectKeepsWhole ==
  ASSUME Types, Whole, Collect
  PROVE  Whole'
<1> DEFINE p == Puts(Head(stream))
<1>1. Head(stream) \in Silent
  BY HeadAndTail DEF Collect, Types
<1>2. p \in Seq(Events) /\ Debate(p) = <<>>
  BY <1>1, CollectorPuts, EventsAre, SeqOfMore
<1>3. queue' = queue \o p /\ UNCHANGED <<ready, sent, published>>
  BY DEF Collect
<1> HIDE DEF p
<1>4. Debate(queue \o p) = Debate(queue) \o Debate(p)
  BY <1>2, DebateOfConcat DEF Types
<1>5. Debate(queue) \o <<>> = Debate(queue)
  BY DebatesAreTyped, ConcatEmptySeq
<1>6. Debate(queue') = Debate(queue)
  BY <1>2, <1>3, <1>4, <1>5
<1> QED BY <1>3, <1>6 DEF Whole

LEMMA ReadKeepsWhole ==
  ASSUME Types, Whole, Read
  PROVE  Whole'
<1> DEFINE e == Head(queue)
<1>1. /\ queue # <<>> /\ queue' = Tail(queue) /\ UNCHANGED <<ready, published>>
      /\ sent' = IF IsShown(e) THEN Append(sent, e) ELSE sent
  BY DEF Read
<1>2. e \in Events
  BY <1>1, HeadAndTail DEF Types
<1>3. Debate(queue') \in Seq(Events)
  BY <1>1, HeadAndTail, DebateIsTyped DEF Types
<1> HIDE DEF e
<1>4. CASE e.kind \in DebateKinds
  <2>1. IsShown(e)
    BY <1>4 DEF IsShown, Sentinel, Error, Ev, DebateKinds
  <2>2. Debate(sent') = Append(Debate(sent), e)
    BY <1>1, <1>2, <1>4, <2>1, DebateOfAppend DEF Types
  <2>3. Debate(queue) = <<e>> \o Debate(queue')
    BY <1>1, <1>4, DebateOfTail DEF Types, e
  <2>4. Append(Debate(sent), e) \o Debate(queue') = Debate(sent) \o (<<e>> \o Debate(queue'))
    BY <1>2, <1>3, DebatesAreTyped, AppendFirst
  <2> QED BY <1>1, <2>2, <2>3, <2>4 DEF Whole
<1>5. CASE e.kind \notin DebateKinds
  <2>1. Debate(sent') = Debate(sent)
    BY <1>1, <1>2, <1>5, DebateOfAppend DEF Types
  <2>2. Debate(queue) = Debate(queue')
    BY <1>1, <1>5, DebateOfTail DEF Types, e
  <2> QED BY <1>1, <2>1, <2>2 DEF Whole
<1> QED BY <1>4, <1>5

LEMMA WholeStep ==
  ASSUME Types, Phases, Whole, [StreamNext]_streamVars
  PROVE  Whole'
<1>1. ASSUME UNCHANGED <<ready, queue, sent, published>> PROVE Whole'
  BY <1>1 DEF Whole
<1>2. CASE SkipCore
  <2>1. ready = <<>>
    BY <1>2 DEF SkipCore, Phases
  <2> QED BY <1>2, <2>1, EventsAre, LoopKeepsWhole DEF SkipCore
<1>3. CASE Route
  <2>1. ready = <<>>
    BY <1>3 DEF Route, Phases, Quiet
  <2> QED BY <1>1, <1>3, <2>1, EventsAre, LoopKeepsWhole DEF Route
<1>4. CASE Conclude
  BY <1>4, EventsAre, ThreadKeepsWhole DEF Conclude
<1>5. CASE LeaveCore
  <2>1. PICK w \in {Returns, Raises} : ready' = Append(ready, w)
    BY <1>5 DEF LeaveCore, Wake
  <2>2. w \in Events /\ w.kind \notin DebateKinds
    BY <2>1, EventsAre DEF Silent, InDebate
  <2>3. Debate(ready') = Debate(ready)
    BY <2>1, <2>2, DebateOfAppend DEF Types
  <2> QED BY <1>5, <2>3 DEF LeaveCore, Whole
<1>6. ASSUME NEW a \in Agents, StartAgent(a) \/ EndAgent(a) PROVE Whole'
  <2>1. PICK e \in InDebate : FromThread(e)
    BY <1>6, EventsAre DEF StartAgent, EndAgent
  <2>2. UNCHANGED <<sent, queue>>
    BY <1>6 DEF StartAgent, EndAgent
  <2> QED BY <2>1, <2>2, ThreadKeepsWhole
<1>7. CASE Cancel
  <2>1. Sentinel \in Events /\ Sentinel.kind \notin DebateKinds
    BY EventsAre DEF Silent, InDebate
  <2>2. Debate(Append(queue, Sentinel)) = Debate(queue)
    BY <2>1, DebateOfAppend DEF Types
  <2> QED BY <1>7, <2>2 DEF Cancel, Whole
<1>8. CASE Round1Node \/ StartCore \/ Propagate \/ UNCHANGED streamVars
  BY <1>1, <1>8 DEF Round1Node, StartCore, Propagate, streamVars
<1> QED BY <1>2, <1>3, <1>4, <1>5, <1>6, <1>7, <1>8, CallbackKeepsWhole, CollectKeepsWhole,
           ReadKeepsWhole DEF StreamNext, Graph, Core, StreamFinished

(***************************************************************************)
(* How the stream ends                                                     *)
(***************************************************************************)
\* While the graph runs, nothing says that it has ended.
Open ==
  /\ generator = "reading" /\ collector = "running" /\ graph # "over"
  /\ sent \in Seq(Plain) /\ queue \in Seq(Plain) /\ stream \in Seq(Plain)

\* The way of the report that the node is completed, and of the sentinel ...
Ending ==
  \/ /\ collector = "running" /\ sent \in Seq(Plain) /\ queue \in Seq(Plain)
     /\ Ends(stream, Plain, <<Completed, Sentinel>>)
  \/ /\ collector = "running" /\ sent \in Seq(Plain)
     /\ Ends(queue, Plain, <<Completed>>) /\ stream = <<Sentinel>>
  \/ /\ collector = "done" /\ sent \in Seq(Plain)
     /\ Ends(queue, Plain, <<Completed, Sentinel>>)
  \/ /\ collector = "running" /\ Ends(sent, Plain, <<Completed>>)
     /\ queue = <<>> /\ stream = <<Sentinel>>
  \/ /\ collector = "done" /\ Ends(sent, Plain, <<Completed>>)
     /\ queue = <<Sentinel>>

\* ... and that of an exception.
Failing ==
  \/ /\ collector = "running" /\ sent \in Seq(Plain) /\ queue \in Seq(Plain)
     /\ Ends(stream, Plain, <<Error>>)
  \/ /\ collector = "done" /\ sent \in Seq(Plain)
     /\ Ends(queue, Plain, <<Error, Sentinel>>)

Ended == collector = "done" /\ Ends(sent, Plain, <<Completed>>) /\ queue = <<>>
Failed == collector = "done" /\ sent \in Seq(Plain) /\ queue = <<Sentinel>>

Flow ==
  \/ generator = "gone"
  \/ Open
  \/ /\ graph = "over" /\ Quiet
     /\ \/ generator = "reading" /\ (Ending \/ Failing)
        \/ generator = "ended" /\ Ended
        \/ generator = "failed" /\ Failed

\* When the graph is over and no thread has anything to say, only what is on its
\* way moves.
LEMMA OnlyTheFlowMoves ==
  ASSUME Phases, graph = "over", Quiet, [StreamNext]_streamVars
  PROVE  /\ Collect \/ Read \/ Cancel \/ UNCHANGED streamVars
         /\ graph' = "over" /\ Quiet' /\ UNCHANGED published
<1>1. ~ Graph
  BY DEF Graph, Round1Node, StartCore, SkipCore, Route, Propagate
<1>2. ~ Core /\ ~ RunCallback
  BY DEF Core, Conclude, LeaveCore, RunCallback, Quiet
<1>3. ASSUME NEW a \in Agents PROVE ~ (StartAgent(a) \/ EndAgent(a))
  BY DEF StartAgent, EndAgent, Phases, Quiet, Join
<1>4. Collect \/ Read \/ Cancel \/ UNCHANGED streamVars
  BY <1>1, <1>2, <1>3 DEF StreamNext, StreamFinished
<1>5. graph' = "over" /\ UNCHANGED <<ready, core, published>>
  BY <1>4 DEF Collect, Read, Cancel, streamVars
<1> QED BY <1>4, <1>5 DEF Quiet

LEMMA ShortSequences ==
  ASSUME NEW E, NEW c \in E, NEW s \in E
  PROVE  /\ <<c>> \in Seq(E) /\ <<c, s>> \in Seq(E)
         /\ <<c>> \o <<s>> = <<c, s>>
         /\ Len(<<c>>) = 1 /\ Len(<<c, s>>) = 2 /\ <<c>>[1] = c /\ <<c, s>>[1] = c
         /\ <<c>> # <<>> /\ <<c, s>> # <<>>
<1>1. <<c>> \in Seq(E) /\ <<c, s>> \in Seq(E)
  OBVIOUS
<1>2. Append(<<c>>, s) = <<c>> \o <<s>>
  BY <1>1, AppendIsConcat
<1>3. Append(<<c>>, s) = <<c, s>>
  <2>1. /\ Append(<<c>>, s) \in Seq(E) /\ Len(Append(<<c>>, s)) = 2
        /\ Append(<<c>>, s)[1] = c /\ Append(<<c>>, s)[2] = s
    BY <1>1, AppendProperties
  <2>2. Len(<<c, s>>) = 2 /\ <<c, s>>[1] = c /\ <<c, s>>[2] = s
    OBVIOUS
  <2>3. \A i \in 1..2 : i = 1 \/ i = 2
    OBVIOUS
  <2> QED BY <1>1, <2>1, <2>2, <2>3, SeqEqual
<1> QED BY <1>1, <1>2, <1>3

LEMMA AtMostAppend ==
  ASSUME NEW P, NEW s \in Seq(P), NEW e, NEW t, t = s \/ (e \in P /\ t = Append(s, e))
  PROVE  t \in Seq(P)
<1>1. e \in P => Append(s, e) \in Seq(P)
  BY AppendProperties
<1> QED BY <1>1

LEMMA OpenStep ==
  ASSUME Types, Phases, Open, StreamNext
  PROVE  Flow'
<1> USE DEF Open
<1>1. CASE Round1Node
  <2>1. <<Ev("node_started", "round1"), Ev("node_completed", "round1")>> \in Seq(Plain)
    BY EventsAre
  <2>2. stream' \in Seq(Plain)
    BY <1>1, <2>1, ConcatProperties DEF Round1Node
  <2> QED BY <1>1, <2>2 DEF Round1Node, Flow
<1>2. CASE StartCore
  <2>1. stream' \in Seq(Plain)
    BY <1>2, EventsAre, AppendProperties DEF StartCore
  <2> QED BY <1>2, <2>1 DEF StartCore, Flow
<1>3. CASE SkipCore
  <2>1. stream' \in Seq(Plain)
    BY <1>3, EventsAre, AppendProperties DEF SkipCore
  <2>2. queue' \in Seq(Plain)
    BY <1>3, EventsAre, AppendProperties DEF SkipCore, OnLoop
  <2> QED BY <1>3, <2>1, <2>2 DEF SkipCore, Flow
<1>4. CASE Route
  <2>1. Ends(stream', Plain, <<Completed, Sentinel>>)
    BY <1>4 DEF Route, End, Ends, Completed
  <2>2. PICK e \in Plain : queue' = queue \/ queue' = Append(queue, e)
    BY <1>4, EventsAre DEF Route, OnLoop
  <2>3. queue' \in Seq(Plain)
    BY <2>2, AtMostAppend
  <2>4. /\ graph' = "over" /\ generator' = "reading"
        /\ collector' = "running" /\ sent' \in Seq(Plain) /\ Quiet'
    BY <1>4 DEF Route, End, Phases, Quiet
  <2> QED BY <2>1, <2>3, <2>4 DEF Flow, Ending
<1>5. CASE Propagate
  <2>1. Ends(stream', Plain, <<Error>>)
    BY <1>5 DEF Propagate, End, Ends
  <2>2. /\ graph' = "over" /\ generator' = "reading" /\ collector' = "running"
        /\ sent' \in Seq(Plain) /\ queue' \in Seq(Plain) /\ Quiet'
    BY <1>5 DEF Propagate, End, Phases, Quiet
  <2> QED BY <2>1, <2>2 DEF Flow, Failing
<1>6. ASSUME Core \/ \E a \in Agents : StartAgent(a) \/ EndAgent(a)
      PROVE  Flow'
  <2>1. UNCHANGED <<graph, generator, collector, sent, queue, stream>>
    BY <1>6 DEF Core, Conclude, LeaveCore, StartAgent, EndAgent
  <2> QED BY <2>1 DEF Flow
<1>7. CASE RunCallback
  <2>1. Head(ready) \in InDebate \/ Head(ready) \in {Returns, Raises}
    <3>1. core \in {"idle", "pool", "concluded", "over"}
      BY DEF Phases
    <3> QED BY <1>7, <3>1, LastCallback
  <2>2. queue' = queue \/ (Head(ready) \in InDebate /\ queue' = Append(queue, Head(ready)))
    BY <1>7, <2>1 DEF RunCallback
  <2>3. queue' \in Seq(Plain)
    BY <2>2, EventsAre, AtMostAppend
  <2>4. graph' # "over" /\ UNCHANGED <<generator, collector, sent, stream>>
    BY <1>7 DEF RunCallback
  <2> QED BY <2>3, <2>4 DEF Flow
<1>8. CASE Collect
  <2>1. Head(stream) \in Plain /\ Tail(stream) \in Seq(Plain)
    BY <1>8, HeadAndTail DEF Collect
  <2>2. Puts(Head(stream)) \in Seq(Plain) /\ collector' = "running"
    <3>1. Head(stream) # Error /\ Head(stream) # Sentinel
      BY <2>1 DEF Plain
    <3>2. Puts(Head(stream)) = <<Head(stream)>> /\ collector' = "running"
      BY <1>8, <3>1 DEF Collect, Puts
    <3> QED BY <2>1, <3>2, ShortSequences
  <2>3. queue' \in Seq(Plain) /\ stream' \in Seq(Plain)
    BY <1>8, <2>1, <2>2, ConcatProperties DEF Collect
  <2> QED BY <1>8, <2>2, <2>3 DEF Collect, Flow
<1>9. CASE Read
  <2>1. Head(queue) \in Plain /\ Tail(queue) \in Seq(Plain)
    BY <1>9, HeadAndTail DEF Read
  <2>2. generator' = "reading" /\ sent' = Append(sent, Head(queue))
    BY <1>9, <2>1 DEF Read, IsShown, Plain
  <2>3. sent' \in Seq(Plain) /\ queue' \in Seq(Plain)
    BY <1>9, <2>1, <2>2, AppendProperties DEF Read
  <2> QED BY <1>9, <2>2, <2>3 DEF Read, Flow
<1>10. CASE Cancel
  BY <1>10 DEF Cancel, Flow
<1> QED BY <1>1, <1>2, <1>3, <1>4, <1>5, <1>6, <1>7, <1>8, <1>9, <1>10
        DEF StreamNext, Graph, StreamFinished

LEMMA EndsAre ==
  /\ <<Completed, Sentinel>> \in Seq(Events) /\ <<Completed>> \in Seq(Events)
  /\ <<Error, Sentinel>> \in Seq(Events) /\ <<Error>> \in Seq(Events)
  /\ <<Sentinel>> \in Seq(Events)
  /\ <<Completed>> \o <<Sentinel>> = <<Completed, Sentinel>>
  /\ \A e \in Plain : Puts(e) = <<e>> /\ IsShown(e) /\ e # Completed
  /\ Puts(Completed) = <<Completed>> /\ Puts(Sentinel) = <<Sentinel>>
  /\ Puts(Error) = <<Error, Sentinel>>
  /\ IsShown(Completed) /\ ~ IsShown(Sentinel) /\ ~ IsShown(Error)
<1>1. {Completed, Sentinel, Error} \subseteq Events
  BY EventsAre
<1>2. Completed # Sentinel /\ Completed # Error /\ Sentinel # Error
  BY EventsAre
<1>3. <<Completed>> \o <<Sentinel>> = <<Completed, Sentinel>>
  BY <1>1, ShortSequences
<1>4. \A e \in Plain : e \notin {Completed, Sentinel, Error}
  BY DEF Plain
<1> QED BY <1>1, <1>2, <1>3, <1>4 DEF Puts, IsShown

\* What the collector does to the way of the end.
LEMMA CollectEnd ==
  ASSUME Types, Ending \/ Failing, Collect
  PROVE  (Ending \/ Failing)'
<1>1. /\ collector = "running" /\ stream # <<>> /\ stream' = Tail(stream)
      /\ queue' = queue \o Puts(Head(stream)) /\ sent' = sent
      /\ collector' = IF Head(stream) \in {Error, Sentinel} THEN "done" ELSE "running"
  BY DEF Collect
<1>2. ASSUME NEW T \in Seq(Events), T # <<>>, Ends(stream, Plain, T), stream # T,
             queue \in Seq(Plain)
      PROVE  /\ queue' \in Seq(Plain) /\ collector' = "running"
             /\ Ends(stream', Plain, T)
  <2>1. Head(stream) \in Plain /\ Ends(stream', Plain, T)
    BY <1>1, <1>2, EndsHead, EventsAre
  <2>2. Puts(Head(stream)) \in Seq(Plain) /\ collector' = "running"
    BY <1>1, <2>1, EndsAre DEF Plain
  <2>3. queue \o Puts(Head(stream)) \in Seq(Plain)
    BY <1>2, <2>2, ConcatProperties
  <2> QED BY <1>1, <2>1, <2>2, <2>3
<1>3. CASE /\ sent \in Seq(Plain) /\ queue \in Seq(Plain)
           /\ Ends(stream, Plain, <<Completed, Sentinel>>)
  <2>1. CASE stream = <<Completed, Sentinel>>
    <3>1. Head(stream) = Completed /\ stream' = <<Sentinel>>
      BY <1>1, <2>1
    <3>2. Ends(queue', Plain, <<Completed>>) /\ collector' = "running"
      BY <1>1, <1>3, <3>1, EndsAre, EventsAre DEF Ends
    <3> QED BY <1>1, <1>3, <3>1, <3>2 DEF Ending
  <2>2. CASE stream # <<Completed, Sentinel>>
    <3>1. <<Completed, Sentinel>> \in Seq(Events) /\ <<Completed, Sentinel>> # <<>>
      BY EndsAre
    <3> QED BY <1>1, <1>2, <1>3, <2>2, <3>1 DEF Ending
  <2> QED BY <2>1, <2>2
<1>4. CASE /\ sent \in Seq(Plain) /\ queue \in Seq(Plain)
           /\ Ends(stream, Plain, <<Error>>)
  <2>1. CASE stream = <<Error>>
    <3>1. Head(stream) = Error
      BY <2>1
    <3>2. Ends(queue', Plain, <<Error, Sentinel>>) /\ collector' = "done"
      BY <1>1, <1>4, <3>1, EndsAre DEF Ends
    <3> QED BY <1>1, <1>4, <3>2 DEF Failing
  <2>2. CASE stream # <<Error>>
    <3>1. <<Error>> \in Seq(Events) /\ <<Error>> # <<>>
      BY EndsAre
    <3> QED BY <1>1, <1>2, <1>4, <2>2, <3>1 DEF Failing
  <2> QED BY <2>1, <2>2
<1>5. CASE stream = <<Sentinel>>
  <2>1. Head(stream) = Sentinel /\ queue' = queue \o <<Sentinel>> /\ collector' = "done"
    <3>1. Head(stream) = Sentinel
      BY <1>5
    <3> QED BY <1>1, <3>1, EndsAre
  <2>2. ASSUME Ends(queue, Plain, <<Completed>>)
        PROVE  Ends(queue', Plain, <<Completed, Sentinel>>)
    <3>1. Ends(queue \o <<Sentinel>>, Plain, <<Completed>> \o <<Sentinel>>)
      BY <2>2, EndsAre, EventsAre, EndsWith
    <3> QED BY <2>1, <3>1, EndsAre
  <2>3. queue = <<>> => queue' = <<Sentinel>>
    BY <2>1
  <2> QED BY <1>1, <1>3, <1>4, <2>1, <2>2, <2>3 DEF Ending, Failing
<1> QED BY <1>1, <1>3, <1>4, <1>5 DEF Ending, Failing

\* What the generator does to it.
LEMMA ReadEnd ==
  ASSUME Types, generator = "reading", Ending \/ Failing, Read
  PROVE  \/ generator' = "reading" /\ (Ending \/ Failing)'
         \/ generator' = "ended" /\ Ended'
         \/ generator' = "failed" /\ Failed'
<1> DEFINE e == Head(queue)
<1>1. /\ queue # <<>> /\ queue' = Tail(queue) /\ UNCHANGED <<stream, collector>>
      /\ sent' = IF IsShown(e) THEN Append(sent, e) ELSE sent
      /\ generator' = IF e = Sentinel THEN "ended"
                      ELSE IF e = Error THEN "failed" ELSE "reading"
  BY DEF Read
<1>2. ASSUME e \in Plain
      PROVE  generator' = "reading" /\ sent' = Append(sent, e)
  BY <1>1, <1>2, EndsAre DEF Plain
<1>3. ASSUME NEW T \in Seq(Events), T # <<>>, Ends(queue, Plain, T), queue # T,
             sent \in Seq(Plain)
      PROVE  /\ generator' = "reading" /\ sent' \in Seq(Plain)
             /\ Ends(queue', Plain, T)
  <2>1. e \in Plain /\ Ends(queue', Plain, T)
    BY <1>1, <1>3, EndsHead, EventsAre
  <2> QED BY <1>2, <1>3, <2>1, AppendProperties
<1>4. ASSUME e = Completed, sent \in Seq(Plain)
      PROVE  generator' = "reading" /\ Ends(sent', Plain, <<Completed>>)
  <2>1. generator' = "reading" /\ sent' = Append(sent, Completed)
    BY <1>1, <1>4, EndsAre, EventsAre
  <2>2. Append(sent, Completed) = sent \o <<Completed>>
    BY <1>4
  <2> QED BY <1>4, <2>1, <2>2 DEF Ends
<1>5. CASE sent \in Seq(Plain) /\ queue \in Seq(Plain)
  <2>1. e \in Plain /\ queue' \in Seq(Plain)
    <3>1. Head(queue) \in Plain /\ Tail(queue) \in Seq(Plain)
      BY <1>1, <1>5, HeadAndTail
    <3> QED BY <1>1, <3>1
  <2>2. sent' \in Seq(Plain) /\ generator' = "reading"
    BY <1>2, <1>5, <2>1, AtMostAppend
  <2>3. CASE collector = "running" /\ (\/ Ends(stream, Plain, <<Completed, Sentinel>>)
                                      \/ Ends(stream, Plain, <<Error>>))
    BY <1>1, <2>1, <2>2, <2>3 DEF Ending, Failing
  <2>4. ASSUME NEW T \in Seq(Events), Len(T) >= 1, T[1] \notin Plain,
               Ends(queue, Plain, T)
        PROVE  FALSE
    <3>1. PICK X \in Seq(Plain) : queue = X \o T
      BY <2>4 DEF Ends
    <3>2. X \in Seq(Events) /\ Len(X) \in Nat /\ Len(T) \in Nat
      BY EventsAre, LenProperties, SeqOfMore
    <3>3. queue[Len(X) + 1] = T[1] /\ Len(X) + 1 \in 1..Len(queue)
      BY <2>4, <3>1, <3>2, ConcatProperties
    <3> QED BY <1>5, <2>4, <3>3
  <2>5. queue # <<Sentinel>>
    BY <1>1, <2>1, EndsAre DEF Plain
  <2>6. /\ Completed \notin Plain /\ Error \notin Plain
        /\ Completed \in Events /\ Error \in Events /\ Sentinel \in Events
    BY EventsAre DEF Plain
  <2>7. ~ Ends(queue, Plain, <<Completed>>)
    <3>1. /\ <<Completed>> \in Seq(Events) /\ Len(<<Completed>>) >= 1
          /\ <<Completed>>[1] \notin Plain
      BY <2>6, ShortSequences
    <3> QED BY <2>4, <3>1
  <2>8. ~ Ends(queue, Plain, <<Completed, Sentinel>>)
    <3>1. /\ <<Completed, Sentinel>> \in Seq(Events) /\ Len(<<Completed, Sentinel>>) >= 1
          /\ <<Completed, Sentinel>>[1] \notin Plain
      BY <2>6, ShortSequences
    <3> QED BY <2>4, <3>1
  <2>9. ~ Ends(queue, Plain, <<Error, Sentinel>>)
    <3>1. /\ <<Error, Sentinel>> \in Seq(Events) /\ Len(<<Error, Sentinel>>) >= 1
          /\ <<Error, Sentinel>>[1] \notin Plain
      BY <2>6, ShortSequences
    <3> QED BY <2>4, <3>1
  <2> QED BY <1>1, <2>3, <2>5, <2>7, <2>8, <2>9 DEF Ending, Failing
<1>6. CASE /\ collector = "running" /\ sent \in Seq(Plain)
           /\ Ends(queue, Plain, <<Completed>>) /\ stream = <<Sentinel>>
  <2>1. CASE queue = <<Completed>>
    <3>1. e = Completed /\ queue' = <<>>
      BY <1>1, <2>1
    <3> QED BY <1>1, <1>4, <1>6, <3>1 DEF Ending
  <2>2. CASE queue # <<Completed>>
    <3>1. <<Completed>> \in Seq(Events) /\ <<Completed>> # <<>>
      BY EndsAre
    <3> QED BY <1>1, <1>3, <1>6, <2>2, <3>1 DEF Ending
  <2> QED BY <2>1, <2>2
<1>7. CASE /\ collector = "done" /\ sent \in Seq(Plain)
           /\ Ends(queue, Plain, <<Completed, Sentinel>>)
  <2>1. CASE queue = <<Completed, Sentinel>>
    <3>1. e = Completed /\ queue' = <<Sentinel>>
      BY <1>1, <2>1
    <3> QED BY <1>1, <1>4, <1>7, <3>1 DEF Ending
  <2>2. CASE queue # <<Completed, Sentinel>>
    <3>1. <<Completed, Sentinel>> \in Seq(Events) /\ <<Completed, Sentinel>> # <<>>
      BY EndsAre
    <3> QED BY <1>1, <1>3, <1>7, <2>2, <3>1 DEF Ending
  <2> QED BY <2>1, <2>2
<1>8. CASE collector = "done" /\ Ends(sent, Plain, <<Completed>>) /\ queue = <<Sentinel>>
  <2>1. e = Sentinel /\ queue' = <<>>
    BY <1>1, <1>8
  <2> QED BY <1>1, <1>8, <2>1, EndsAre DEF Ended
<1>9. CASE /\ collector = "done" /\ sent \in Seq(Plain)
           /\ Ends(queue, Plain, <<Error, Sentinel>>)
  <2>1. CASE queue = <<Error, Sentinel>>
    <3>1. e = Error /\ queue' = <<Sentinel>>
      BY <1>1, <2>1
    <3> QED BY <1>1, <1>9, <3>1, EndsAre, EventsAre DEF Failed
  <2>2. CASE queue # <<Error, Sentinel>>
    <3>1. <<Error, Sentinel>> \in Seq(Events) /\ <<Error, Sentinel>> # <<>>
      BY EndsAre
    <3> QED BY <1>1, <1>3, <1>9, <2>2, <3>1 DEF Failing
  <2> QED BY <2>1, <2>2
<1> QED BY <1>1, <1>5, <1>6, <1>7, <1>8, <1>9 DEF Ending, Failing

LEMMA FlowStep ==
  ASSUME Types, Phases, Flow, [StreamNext]_streamVars
  PROVE  Flow'
<1>1. CASE generator = "gone"
  <2>1. generator' = "gone"
    BY <1>1 DEF StreamNext, Graph, Round1Node, StartCore, SkipCore, Route, Propagate, Core,
                Conclude, LeaveCore, StartAgent, EndAgent, RunCallback, Collect, Read,
                Cancel, StreamFinished, streamVars
  <2> QED BY <2>1 DEF Flow
<1>2. CASE UNCHANGED streamVars
  BY <1>2 DEF streamVars, Flow, Open, Quiet, Ending, Failing, Ended, Failed
<1>3. CASE Open
  BY <1>2, <1>3, OpenStep
<1>4. CASE graph = "over" /\ Quiet /\ generator # "gone"
  <2>1. /\ Collect \/ Read \/ Cancel \/ UNCHANGED streamVars
        /\ graph' = "over" /\ Quiet'
    BY <1>4, OnlyTheFlowMoves
  <2>2. CASE Cancel
    BY <2>2 DEF Cancel, Flow
  <2>3. CASE Collect /\ generator = "reading" /\ (Ending \/ Failing)
    <3>1. generator' = "reading"
      BY <2>3 DEF Collect
    <3>2. (Ending \/ Failing)'
      BY <2>3, CollectEnd
    <3> QED BY <2>1, <3>1, <3>2 DEF Flow
  <2>4. CASE Read /\ generator = "reading" /\ (Ending \/ Failing)
    BY <2>1, <2>4, ReadEnd DEF Flow
  <2>5. CASE generator # "reading"
    <3>1. collector = "done" /\ ~ Collect /\ ~ Read
      BY <1>4, <2>5 DEF Flow, Open, Ended, Failed, Collect, Read
    <3> QED BY <1>2, <2>1, <2>2, <3>1
  <2> QED BY <1>2, <1>4, <2>1, <2>2, <2>3, <2>4, <2>5 DEF Flow, Open
<1> QED BY <1>1, <1>3, <1>4 DEF Flow

\* The client has the report that the node is completed only as the last thing,
\* and the whole debate before it; this still holds when it has left.
Shown ==
  \/ sent \in Seq(Plain)
  \/ /\ Ends(sent, Plain, <<Completed>>)
     /\ graph = "over" /\ Quiet /\ Debate(sent) = published

\* What the client has is the debate when nothing is on its way.
LEMMA NothingOnItsWay ==
  ASSUME Types, Whole, Quiet, queue \in {<<>>, <<Sentinel>>}
  PROVE  Debate(sent) = published
<1>1. Debate(ready) = <<>> /\ Debate(queue) = <<>>
  BY DebateOfNothing, DebateOfOne DEF Quiet, Sentinel, Ev, DebateKinds
<1>2. Debate(sent) \o <<>> = Debate(sent)
  BY DebatesAreTyped, ConcatEmptySeq
<1> QED BY <1>1, <1>2 DEF Whole

LEMMA ShownStep ==
  ASSUME Types, Phases, Whole, Flow, Shown, [StreamNext]_streamVars
  PROVE  Shown'
<1>1. CASE Read
  <2>1. generator = "reading" /\ generator' # "gone" /\ Flow'
    BY <1>1, FlowStep DEF Read
  <2>2. Types' /\ Whole'
    BY TypesStep, WholeStep
  <2>3. CASE sent' \in Seq(Plain)
    BY <2>3 DEF Shown
  <2>4. CASE sent' \notin Seq(Plain)
    <3>1. /\ graph' = "over" /\ Quiet' /\ Ends(sent', Plain, <<Completed>>)
          /\ queue' = <<>> \/ queue' = <<Sentinel>>
      BY <2>1, <2>4 DEF Flow, Open, Ending, Failing, Ended, Failed
    <3>2. Debate(sent') = published'
      <4>1. Debate(ready') = <<>> /\ Debate(queue') = <<>>
        BY <3>1, DebateOfNothing, DebateOfOne DEF Quiet, Sentinel, Ev, DebateKinds
      <4>2. Debate(sent') \o <<>> = Debate(sent')
        BY <2>2, DebateIsTyped, ConcatEmptySeq DEF Types
      <4> QED BY <2>2, <4>1, <4>2 DEF Whole
    <3> QED BY <3>1, <3>2 DEF Shown
  <2> QED BY <2>3, <2>4
<1>2. ASSUME UNCHANGED sent PROVE Shown'
  <2>1. CASE sent \in Seq(Plain)
    BY <1>2, <2>1 DEF Shown
  <2>2. CASE sent \notin Seq(Plain)
    <3>1. graph' = "over" /\ Quiet' /\ UNCHANGED published
      BY <2>2, OnlyTheFlowMoves DEF Shown
    <3> QED BY <1>2, <2>2, <3>1 DEF Shown
  <2> QED BY <2>1, <2>2
<1>3. Read \/ UNCHANGED sent
  BY DEF StreamNext, Graph, Round1Node, StartCore, SkipCore, Route, Propagate, Core, Conclude,
         LeaveCore, StartAgent, EndAgent, RunCallback, Collect, Read, Cancel,
         StreamFinished, streamVars
<1> QED BY <1>1, <1>2, <1>3

(***************************************************************************)
(* The theorems                                                            *)
(***************************************************************************)
StreamInv == Types /\ Phases /\ Whole /\ Flow /\ Shown

\* Everything published is with the client, in the queue or in a callback, in its
\* order, and what says that the stream ends comes behind all of it.
THEOREM StreamIsWhole == StreamSpec => []StreamInv
<1>1. StreamInit => StreamInv
  <2> SUFFICES ASSUME StreamInit PROVE StreamInv
    OBVIOUS
  <2> USE DEF StreamInit
  <2>1. Types /\ Phases
    BY DEF Types, Phases, Quiet
  <2>2. Whole
    BY DebateOfNothing, EmptySeq, ConcatEmptySeq DEF Whole
  <2>3. Open
    BY DEF Open
  <2> QED BY <2>1, <2>2, <2>3 DEF StreamInv, Flow, Shown
<1>2. StreamInv /\ [StreamNext]_streamVars => StreamInv'
  BY TypesStep, PhasesStep, WholeStep, FlowStep, ShownStep DEF StreamInv
<1> QED BY <1>1, <1>2, PTL DEF StreamSpec

\* What the client has read, with what the generator has still to read, is the
\* debate so far in the order in which the loop and the threads published it
\* (DebateEventPublisher.publish, _stream_node_events).
THEOREM DebateStaysInOrder == StreamSpec => []DebateInOrder
<1>1. StreamInv => DebateInOrder
  <2> SUFFICES ASSUME StreamInv PROVE DebateInOrder
    OBVIOUS
  <2> USE DEF StreamInv
  <2> DEFINE seen == Debate(sent) \o Debate(queue)
  <2>1. Debate(sent \o queue) = seen
    BY DebateOfConcat DEF Types
  <2>2. seen \in Seq(Events) /\ Debate(ready) \in Seq(Events)
    BY DebatesAreTyped
  <2>3. published = seen \o Debate(ready)
    BY DEF Whole
  <2> HIDE DEF seen
  <2>4. seen = SubSeq(published, 1, Len(seen))
    <3>1. /\ Len(seen) \in Nat /\ Len(published) = Len(seen) + Len(Debate(ready))
          /\ \A i \in 1..Len(seen) : published[i] = seen[i]
      BY <2>2, <2>3, ConcatProperties, LenProperties
    <3>2. Len(Debate(ready)) \in Nat
      BY <2>2, LenProperties
    <3>3. /\ SubSeq(published, 1, Len(seen)) \in Seq(Events)
          /\ Len(SubSeq(published, 1, Len(seen))) = Len(seen)
          /\ \A i \in 1..Len(seen) : SubSeq(published, 1, Len(seen))[i] = published[i]
      BY <3>1, <3>2 DEF Types
    <3> QED BY <2>2, <3>1, <3>3, SeqEqual
  <2> QED BY <2>1, <2>4 DEF DebateInOrder
<1> QED BY <1>1, StreamIsWhole, PTL

LEMMA EndsLast ==
  ASSUME NEW s, Ends(s, Plain, <<Completed>>)
  PROVE  /\ s # <<>> /\ s[Len(s)] = Completed
         /\ \A i \in DOMAIN s : s[i] = Completed => i = Len(s)
<1>1. PICK X \in Seq(Plain) : s = X \o <<Completed>>
  BY DEF Ends
<1>2. /\ X \in Seq(Events) /\ <<Completed>> \in Seq(Events) /\ Len(X) \in Nat
      /\ Len(<<Completed>>) = 1 /\ <<Completed>>[1] = Completed
  BY EventsAre, SeqOfMore, ShortSequences, LenProperties
<1>3. /\ s \in Seq(Events) /\ Len(s) = Len(X) + 1
      /\ \A i \in 1..Len(X) : s[i] = X[i]
      /\ s[Len(X) + 1] = Completed
  BY <1>1, <1>2, ConcatProperties
<1>4. \A i \in 1..Len(X) : X[i] # Completed
  BY DEF Plain
<1>5. DOMAIN s = 1..Len(s) /\ s # <<>>
  BY <1>2, <1>3
<1> QED BY <1>2, <1>3, <1>4, <1>5

\* A stream that ends by itself, with or without an error, has shown the client
\* everything that was published, and the report that the node is completed comes
\* behind all of it, also where the client has left.
THEOREM NothingIsLost == StreamSpec => []NothingLost
<1>1. StreamInv => NothingLost
  <2> SUFFICES ASSUME StreamInv PROVE NothingLost
    OBVIOUS
  <2> USE DEF StreamInv
  <2>1. ASSUME generator \in {"ended", "failed"} PROVE Debate(sent) = published
    BY <2>1, NothingOnItsWay DEF Flow, Open, Ended, Failed
  <2>2. ASSUME NEW i \in DOMAIN sent, sent[i] = Ev("node_completed", "final_judge")
        PROVE  i = Len(sent) /\ Debate(sent) = published
    <3>1. sent[i] = Completed
      BY <2>2 DEF Completed
    <3>2. sent \notin Seq(Plain)
      BY <3>1 DEF Plain
    <3> QED BY <3>1, <3>2, EndsLast DEF Shown
  <2> QED BY <2>1, <2>2 DEF NothingLost
<1> QED BY <1>1, StreamIsWhole, PTL

\* A stream that ends without an exception has shown that the last node is
\* completed: a graph that raised never looks like one that ended.
THEOREM FailuresSurface == StreamSpec => []FailureSurfaces
<1>1. StreamInv => FailureSurfaces
  BY EndsLast DEF StreamInv, Flow, Open, Ended, FailureSurfaces, Completed
<1> QED BY <1>1, StreamIsWhole, PTL
===============================================================================
