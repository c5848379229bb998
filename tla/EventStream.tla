---------------------------- MODULE EventStream ----------------------------
(***************************************************************************)
(* How the events of one execution reach the client (_stream_node_events   *)
(* of api/sse.py). The nodes of the graph run on the event loop; the agent *)
(* core runs on a thread of its own and its agents on a thread pool. They  *)
(* publish debate events through the publisher of runtime/debate_events:   *)
(* from a thread by a callback of the loop, on the loop at once. Node      *)
(* events take another way, through astream_events and a collector task.   *)
(* A generator reads the one queue both end in.                            *)
(***************************************************************************)
EXTENDS Naturals, Sequences, FiniteSets

CONSTANT Agents

VARIABLES
  graph,      \* where the graph task is
  core,       \* where the thread of the agent core is
  agent,      \* where the call of an agent is
  ready,      \* the loop's callbacks scheduled from threads, in order
  stream,     \* what astream_events has for the collector
  collector,
  queue,      \* what the collector and the publisher have for the generator
  generator,
  sent,       \* what the client got
  published   \* debate events, in the order they were published

streamVars == <<graph, core, agent, ready, stream, collector, queue,
                generator, sent, published>>

Ev(kind, of) == [kind |-> kind, of |-> of]

NodeKinds == {"node_started", "node_completed"}
DebateKinds == {"agent_started", "agent_completed", "agent_failed",
                "consensus_updated", "llm_skipped", "human_review_skipped"}

\* What a queue holds besides events: the two ways a stream ends, and the two
\* ways the thread of the agent core wakes the graph task.
Sentinel == Ev("None", "loop")
Error == Ev("Exception", "loop")
Returns == Ev("returns", "core")
Raises == Ev("raises", "core")

StreamInit ==
  /\ graph = "round1"
  /\ core = "idle"
  /\ agent = [a \in Agents |-> "idle"]
  /\ ready = <<>>
  /\ stream = <<>>
  /\ collector = "running"
  /\ queue = <<>>
  /\ generator = "reading"
  /\ sent = <<>>
  /\ published = <<>>

\* Mutation: the event is put before what other threads have published.
FromThreadAhead(e) ==
  /\ published' = Append(published, e)
  /\ ready' = <<e>> \o ready

\* publish, called on a thread: the loop will put the event.
FromThread(e) ==
  /\ published' = Append(published, e)
  /\ ready' = Append(ready, e)

\* publish, called on the loop: the event is put at once.
OnLoop(e) ==
  /\ published' = Append(published, e)
  /\ queue' = Append(queue, e)

-----------------------------------------------------------------------------
(* The graph task *)

\* A node that publishes nothing.
Round1Node ==
  /\ graph = "round1"
  /\ graph' = "final_judge"
  /\ stream' = stream \o <<Ev("node_started", "round1"),
                           Ev("node_completed", "round1")>>
  /\ UNCHANGED <<core, agent, ready, collector, queue, generator, sent,
                 published>>

\* final_judge hands the agent core to a thread ...
StartCore ==
  /\ graph = "final_judge"
  /\ graph' = "waiting"
  /\ core' = "pool"
  /\ agent' = [a \in Agents |-> "queued"]
  /\ stream' = Append(stream, Ev("node_started", "final_judge"))
  /\ UNCHANGED <<ready, collector, queue, generator, sent, published>>

\* ... or, where it cannot run, says so itself.
SkipCore ==
  /\ graph = "final_judge"
  /\ graph' = "returned"
  /\ stream' = Append(stream, Ev("node_started", "final_judge"))
  /\ OnLoop(Ev("llm_skipped", "final_judge"))
  /\ UNCHANGED <<core, agent, ready, collector, generator, sent>>

End(last) ==
  /\ graph' = "over"
  /\ stream' = stream \o last

\* The route after final_judge, part of the node's task, may publish.
Route ==
  /\ graph = "returned"
  /\ \/ UNCHANGED <<queue, published>>
     \/ OnLoop(Ev("human_review_skipped", "final_judge"))
  /\ End(<<Ev("node_completed", "final_judge"), Sentinel>>)
  /\ UNCHANGED <<core, agent, ready, collector, generator, sent>>

\* The node raises, and astream_events with it.
Propagate ==
  /\ graph = "raised"
  /\ End(<<Error>>)
  /\ UNCHANGED <<core, agent, ready, collector, queue, generator, sent,
                 published>>

-----------------------------------------------------------------------------
(* The threads *)

StartAgent(a) ==
  /\ agent[a] = "queued"
  /\ agent' = [agent EXCEPT ![a] = "running"]
  /\ FromThread(Ev("agent_started", a))
  /\ UNCHANGED <<graph, core, stream, collector, queue, generator, sent>>

EndAgent(a) ==
  /\ agent[a] = "running"
  /\ \/ /\ agent' = [agent EXCEPT ![a] = "done"]
        /\ FromThread(Ev("agent_completed", a))
     \/ /\ agent' = [agent EXCEPT ![a] = "failed"]
        /\ FromThread(Ev("agent_failed", a))
  /\ UNCHANGED <<graph, core, stream, collector, queue, generator, sent>>

\* Mutation: the pool is left when one call has failed.
JoinUntilFailure ==
  \/ \A a \in Agents : agent[a] \in {"done", "failed"}
  \/ \E a \in Agents : agent[a] = "failed"

\* The with statement of the pool ends when every call has.
Join == \A a \in Agents : agent[a] \in {"done", "failed"}

Conclude ==
  /\ core = "pool"
  /\ Join
  /\ \A a \in Agents : agent[a] # "failed"
  /\ core' = "concluded"
  /\ FromThread(Ev("consensus_updated", "core"))
  /\ UNCHANGED <<graph, agent, stream, collector, queue, generator, sent>>

\* The future of asyncio.to_thread is set by a callback of the loop as well.
Wake(e) == ready' = Append(ready, e)

LeaveCore ==
  /\ \/ core = "concluded" /\ (Wake(Returns) \/ Wake(Raises))
     \/ /\ core = "pool" /\ Join
        /\ \E a \in Agents : agent[a] = "failed"
        /\ Wake(Raises)
  /\ core' = "over"
  /\ UNCHANGED <<graph, agent, stream, collector, queue, generator, sent,
                 published>>

-----------------------------------------------------------------------------
(* The loop, the collector and the generator *)

\* A cancelled graph task is not woken.
RunCallback ==
  /\ ready # <<>>
  /\ ready' = Tail(ready)
  /\ LET e == Head(ready)
     IN  IF e \in {Returns, Raises}
         THEN /\ graph' = IF graph # "waiting" THEN graph
                          ELSE IF e = Returns THEN "returned" ELSE "raised"
              /\ UNCHANGED queue
         ELSE /\ queue' = Append(queue, e)
              /\ UNCHANGED graph
  /\ UNCHANGED <<core, agent, stream, collector, generator, sent, published>>

\* Mutation: the sentinel is put before the exception.
SentinelFirst(e) ==
  IF e = Error THEN <<Sentinel, Error>> ELSE <<e>>

\* Mutation: the exception is forwarded as the stream has it.
Unclosed(e) == IF e = Sentinel THEN <<>> ELSE <<e>>

\* What the collector puts: an exception as an item, and the sentinel last.
Puts(e) == IF e = Error THEN <<Error, Sentinel>> ELSE <<e>>

Collect ==
  /\ collector = "running"
  /\ stream # <<>>
  /\ stream' = Tail(stream)
  /\ queue' = queue \o Puts(Head(stream))
  /\ collector' = IF Head(stream) \in {Error, Sentinel} THEN "done"
                                                        ELSE "running"
  /\ UNCHANGED <<graph, core, agent, ready, generator, sent, published>>

IsShown(e) == e \notin {Sentinel, Error}

\* After an exception nobody reads what is left.
Read ==
  /\ generator = "reading"
  /\ queue # <<>>
  /\ queue' = Tail(queue)
  /\ LET e == Head(queue)
     IN  /\ generator' = IF e = Sentinel THEN "ended"
                         ELSE IF e = Error THEN "failed" ELSE "reading"
         /\ sent' = IF IsShown(e) THEN Append(sent, e) ELSE sent
  /\ UNCHANGED <<graph, core, agent, ready, stream, collector, published>>

\* The client goes away: collector and graph task are cancelled, the threads
\* cannot be. A generator suspended at its yield may be finalised in another
\* context; resetting the publisher raises there, and nothing is cancelled.
Cancel ==
  /\ generator = "reading"
  /\ generator' = "gone"
  /\ \/ /\ collector = "running"
        /\ collector' = "done"
        /\ graph' = "over"
        /\ queue' = Append(queue, Sentinel)
     \/ UNCHANGED <<collector, graph, queue>>
  /\ UNCHANGED <<core, agent, ready, stream, sent, published>>

-----------------------------------------------------------------------------
Graph == Round1Node \/ StartCore \/ SkipCore \/ Route \/ Propagate

Core == Conclude \/ LeaveCore

StreamFinished ==
  /\ generator # "reading" /\ core \in {"idle", "over"}
  /\ graph = "over" /\ ready = <<>>
  /\ UNCHANGED streamVars

StreamNext ==
  \/ Graph
  \/ Core
  \/ \E a \in Agents : StartAgent(a) \/ EndAgent(a)
  \/ RunCallback
  \/ Collect
  \/ Read
  \/ Cancel
  \/ StreamFinished

StreamSpec == StreamInit /\ [][StreamNext]_streamVars

\* The loop runs every task and callback that is ready, the threads run until
\* they are done (every call of a model has a timeout).
StreamFairness ==
  /\ WF_streamVars(Graph) /\ WF_streamVars(Core) /\ WF_streamVars(RunCallback)
  /\ WF_streamVars(Collect) /\ WF_streamVars(Read)
  /\ \A a \in Agents : WF_streamVars(StartAgent(a) \/ EndAgent(a))

FairStreamSpec == StreamSpec /\ StreamFairness
-----------------------------------------------------------------------------
(* Properties *)

\* The debate in a sequence of events.
Debate(events) ==
  LET upTo[n \in 0..Len(events)] ==
        IF n = 0 THEN <<>>
        ELSE IF events[n].kind \in DebateKinds THEN Append(upTo[n - 1], events[n])
        ELSE upTo[n - 1]
  IN  upTo[Len(events)]

\* The client sees the debate in the order in which it took place, although
\* what is published on the loop does not wait for the callbacks that threads
\* have scheduled.
DebateInOrder ==
  LET seen == Debate(sent \o queue)
  IN  seen = SubSeq(published, 1, Len(seen))

\* A stream that ends by itself, with or without an error, has shown the client
\* every event that was published, on however many threads: none comes in behind
\* the sentinel, nor behind the report that the node is completed.
NothingLost ==
  /\ generator \in {"ended", "failed"} => Debate(sent) = published
  /\ \A i \in DOMAIN sent :
       sent[i] = Ev("node_completed", "final_judge") =>
         i = Len(sent) /\ Debate(sent) = published

\* A graph that raised never looks like one that ended: the handler's exception
\* path is taken, even though the sentinel is always put.
FailureSurfaces ==
  generator = "ended" =>
    /\ sent # <<>>
    /\ sent[Len(sent)] = Ev("node_completed", "final_judge")

\* The stream comes to an end, whatever the agents do and whichever of the
\* tasks and threads is ahead of the others.
StreamEnds == (generator = "reading") ~> (generator # "reading")
=============================================================================
