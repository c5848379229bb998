----------------------------- MODULE RunService -----------------------------
(***************************************************************************)
(* The run and resume service of the agent: the two SSE handlers of        *)
(* api/sse.py, the LangGraph workflow of runtime/graph.py they drive, and  *)
(* the checkpoint store that outlives the process.                         *)
(*                                                                         *)
(* A stream is one HTTP request (POST /api/runs or                         *)
(* POST /api/runs/{thread_id}/resume) and the graph execution it starts.   *)
(* An execution works on its own in-memory copy of the thread's state      *)
(* (local) and writes a new checkpoint after every node; the latest one    *)
(* (ckpt) is what any other request of the thread reads.                   *)
(***************************************************************************)
EXTENDS Naturals

CONSTANTS
  Threads,     \* thread ids, chosen by the clients
  Streams,     \* requests; every one is used once
  Requests,    \* the kinds of run a client asks for, sets of Flags
  Exclusive,   \* TRUE: a thread has at most one execution at a time
  MaxCrashes,  \* bound on process deaths
  None

\* What the workflow reads of a run request: an empty-portfolio check
\* ("fast"), whether the agent core can run ("core"), whether human review
\* was asked for ("review").
Flags == {"fast", "core", "review"}

ASSUME RunServiceAssumption ==
  /\ None \notin Streams \cup Threads
  /\ Requests \subseteq SUBSET Flags
  /\ Exclusive \in BOOLEAN
  /\ MaxCrashes \in Nat

VARIABLES
  ckpt,     \* the latest checkpoint of every thread
  local,    \* the state an execution holds in memory
  pc,       \* where a stream is
  thread,   \* the thread of a stream
  request,  \* the flags of a run request
  cited,    \* the interrupt a resume request names
  saw,      \* the pending interrupt a resume handler found
  given,    \* the execution carries an answer for human_review
  event,    \* the terminal event a stream ended with
  report,   \* the checkpoint that event was made from
  crashes

vars == <<ckpt, local, pc, thread, request, cited, saw, given, event, report,
          crashes>>

Nodes == {"compliance_before", "empty_portfolio_finalize", "round1",
          "mediator", "final_judge", "human_review"}

Statuses == {"none", "completed", "awaiting_human_review",
             "completed_after_resume"}

\* by and next identify a checkpoint: an execution visits a node once.
Checkpoint ==
  [by      : Streams \cup {None},         \* the execution that wrote it
   next    : Nodes \cup {"none", "end"},  \* snapshot.next
   flags   : SUBSET Flags,                \* the request's inputs
   decider : Streams \cup {None},         \* who wrote final_decision
   needs   : BOOLEAN,                     \* final_decision.requires_approval
   status  : Statuses,                    \* run_status
   answer  : Streams \cup {None},         \* whose approval_response
   pending : BOOLEAN]                     \* snapshot.interrupts # ()

NoCheckpoint ==
  [by |-> None, next |-> "none", flags |-> {}, decider |-> None,
   needs |-> FALSE, status |-> "none", answer |-> None, pending |-> FALSE]

\* The events after which a stream closes.
TerminalEvents == {"interrupt_required", "resume_ignored", "run_completed",
                   "run_failed"}

Executing == {"running", "orphan"}
Open == {"starting", "checking", "accepted", "running", "failed", "ended"}
Live == Open \cup {"orphan"}
Gone == {"closed", "lost"}

Quiet(t) == \A s \in Streams : thread[s] = t => pc[s] \notin Live

Init ==
  /\ ckpt = [t \in Threads |-> NoCheckpoint]
  /\ local = [s \in Streams |-> NoCheckpoint]
  /\ pc = [s \in Streams |-> "idle"]
  /\ thread = [s \in Streams |-> None]
  /\ request = [s \in Streams |-> {}]
  /\ cited = [s \in Streams |-> None]
  /\ saw = [s \in Streams |-> None]
  /\ given = [s \in Streams |-> FALSE]
  /\ event = [s \in Streams |-> "none"]
  /\ report = [s \in Streams |-> NoCheckpoint]
  /\ crashes = 0

-----------------------------------------------------------------------------
(* The clients *)

\* The interrupts a client of thread t has been shown.
Shown(t) == {report[s].by : s \in {x \in Streams :
                 thread[x] = t /\ event[x] = "interrupt_required"}}

RequestRun(s, t, flags) ==
  /\ pc[s] = "idle"
  /\ Exclusive => Quiet(t)
  /\ pc' = [pc EXCEPT ![s] = "starting"]
  /\ thread' = [thread EXCEPT ![s] = t]
  /\ request' = [request EXCEPT ![s] = flags]
  /\ UNCHANGED <<ckpt, local, cited, saw, given, event, report, crashes>>

RequestResume(s, t, id) ==
  /\ pc[s] = "idle"
  /\ Exclusive => Quiet(t)
  /\ pc' = [pc EXCEPT ![s] = "checking"]
  /\ thread' = [thread EXCEPT ![s] = t]
  /\ cited' = [cited EXCEPT ![s] = id]
  /\ UNCHANGED <<ckpt, local, request, saw, given, event, report, crashes>>

\* The client goes away: the generator is cancelled and cancels the graph.
Disconnect(s) ==
  /\ pc[s] \in Open
  /\ pc' = [pc EXCEPT ![s] = "lost"]
  /\ UNCHANGED <<ckpt, local, thread, request, cited, saw, given, event,
                 report, crashes>>

\* The client goes away while an event is being sent: the suspended generator
\* is finalised in another context, resetting the publisher raises there, and
\* the collector is never cancelled. The graph runs on without a stream.
Abandon(s) ==
  /\ pc[s] = "running"
  /\ pc' = [pc EXCEPT ![s] = "orphan"]
  /\ UNCHANGED <<ckpt, local, thread, request, cited, saw, given, event,
                 report, crashes>>

-----------------------------------------------------------------------------
(* Loading the graph *)

\* Mutation: a run input continues what the thread was doing.
InputContinues(s, c) ==
  [c EXCEPT !.by = s, !.flags = request[s], !.pending = FALSE,
            !.next = IF @ \in {"none", "end"} THEN "compliance_before" ELSE @]

\* A run input replaces only the keys of initial_state: the decision, the
\* status and the answer of an earlier run on the thread are carried over.
InputCheckpoint(s, c) ==
  [c EXCEPT !.by = s, !.next = "compliance_before", !.flags = request[s],
            !.pending = FALSE]

LoadInput(s) ==
  /\ pc[s] = "starting"
  /\ LET c == InputCheckpoint(s, ckpt[thread[s]])
     IN  /\ local' = [local EXCEPT ![s] = c]
         /\ ckpt' = [ckpt EXCEPT ![thread[s]] = c]
  /\ pc' = [pc EXCEPT ![s] = "running"]
  /\ UNCHANGED <<thread, request, cited, saw, given, event, report, crashes>>

\* Mutation: the handler does not look for a pending interrupt.
CheckNothing(s) ==
  /\ pc[s] = "checking"
  /\ pc' = [pc EXCEPT ![s] = "accepted"]
  /\ saw' = [saw EXCEPT ![s] = IF ckpt[thread[s]].pending
                               THEN ckpt[thread[s]].by ELSE None]
  /\ UNCHANGED <<ckpt, local, thread, request, cited, given, event, report,
                 crashes>>

\* Mutation: accepting a resume takes the interrupt away at once.
CheckConsumes(s) ==
  /\ pc[s] = "checking"
  /\ ckpt[thread[s]].pending
  /\ pc' = [pc EXCEPT ![s] = "accepted"]
  /\ saw' = [saw EXCEPT ![s] = ckpt[thread[s]].by]
  /\ ckpt' = [ckpt EXCEPT ![thread[s]].pending = FALSE]
  /\ UNCHANGED <<local, thread, request, cited, given, event, report, crashes>>

\* The guard of the resume handler: nothing pending, nothing to resume.
CheckPending(s) ==
  /\ pc[s] = "checking"
  /\ \/ /\ ~ckpt[thread[s]].pending
        /\ pc' = [pc EXCEPT ![s] = "closed"]
        /\ event' = [event EXCEPT ![s] = "resume_ignored"]
        /\ report' = [report EXCEPT ![s] = ckpt[thread[s]]]
        /\ UNCHANGED saw
     \/ /\ ckpt[thread[s]].pending
        /\ pc' = [pc EXCEPT ![s] = "accepted"]
        /\ saw' = [saw EXCEPT ![s] = ckpt[thread[s]].by]
        /\ UNCHANGED <<event, report>>
  /\ UNCHANGED <<ckpt, local, thread, request, cited, given, crashes>>

\* Command(resume=...) continues from whatever checkpoint is the latest when
\* the graph loads it. Its answer is for a human_review that comes next; at
\* the end there is nothing left to run.
LoadResume(s) ==
  /\ pc[s] = "accepted"
  /\ LET c == ckpt[thread[s]]
     IN  /\ local' = [local EXCEPT ![s] = c]
         /\ given' = [given EXCEPT ![s] = c.next = "human_review"]
         /\ pc' = [pc EXCEPT ![s] = IF c.next = "end" THEN "ended"
                                                      ELSE "running"]
  /\ UNCHANGED <<ckpt, thread, request, cited, saw, event, report, crashes>>

-----------------------------------------------------------------------------
(* The nodes *)

\* The end of a node that returned an update: the next checkpoint.
Write(s, c) ==
  /\ local' = [local EXCEPT ![s] = c]
  /\ ckpt' = [ckpt EXCEPT ![thread[s]] = c]
  /\ pc' = [pc EXCEPT ![s] = IF c.next # "end" THEN @
                             ELSE IF @ = "running" THEN "ended" ELSE "lost"]
  /\ UNCHANGED <<thread, request, cited, saw, given, event, report, crashes>>

At(s, node) == pc[s] \in Executing /\ local[s].next = node

ComplianceBefore(s) ==
  /\ At(s, "compliance_before")
  /\ Write(s, [local[s] EXCEPT !.by = s, !.pending = FALSE, !.next =
                 IF "fast" \in local[s].flags THEN "empty_portfolio_finalize"
                                              ELSE "round1"])

Decided(s, needs, next) ==
  [local[s] EXCEPT !.by = s, !.pending = FALSE, !.next = next,
     !.decider = s, !.needs = needs,
     !.status = IF needs THEN "awaiting_human_review" ELSE "completed"]

EmptyPortfolioFinalize(s) ==
  /\ At(s, "empty_portfolio_finalize")
  /\ Write(s, Decided(s, FALSE, "end"))

Round1(s) ==
  /\ At(s, "round1")
  /\ Write(s, [local[s] EXCEPT !.by = s, !.pending = FALSE,
                               !.next = "mediator"])

Mediator(s) ==
  /\ At(s, "mediator")
  /\ Write(s, [local[s] EXCEPT !.by = s, !.pending = FALSE,
                               !.next = "final_judge"])

\* What the agent core may decide: nothing to execute, a rebalance plan, or a
\* decision the user has to take. Without the core it is the HOLD stub.
Outcomes(flags) ==
  IF "core" \in flags THEN {"no_trade", "plan", "action_required"}
                      ELSE {"no_trade"}

RequiresApproval(flags, outcome) ==
  outcome = "action_required" \/ (outcome = "plan" /\ "review" \in flags)

\* Mutation: review is left out when the request did not ask for it.
RouteIfReviewEnabled(flags, needs) ==
  IF needs /\ "review" \in flags THEN "human_review" ELSE "end"

\* Mutation: the route names a node the graph does not have.
RouteMisnamed(flags, needs) == IF needs THEN "human_approval" ELSE "end"

RouteAfterFinalJudge(flags, needs) == IF needs THEN "human_review" ELSE "end"

FinalJudge(s) ==
  /\ At(s, "final_judge")
  /\ \E outcome \in Outcomes(local[s].flags) :
       LET needs == RequiresApproval(local[s].flags, outcome)
       IN  Write(s, Decided(s, needs,
                            RouteAfterFinalJudge(local[s].flags, needs)))

\* interrupt() without an answer stops the execution. The interrupt belongs to
\* the checkpoint the execution holds; the thread shows it only while that one
\* is still the latest.
HumanReviewAsks(s) ==
  /\ At(s, "human_review")
  /\ ~given[s]
  /\ LET t == thread[s]
         latest == ckpt[t].by = local[s].by /\ ckpt[t].next = local[s].next
     IN  ckpt' = [ckpt EXCEPT ![t].pending = @ \/ latest]
  /\ pc' = [pc EXCEPT ![s] = IF @ = "running" THEN "ended" ELSE "lost"]
  /\ UNCHANGED <<local, thread, request, cited, saw, given, event, report,
                 crashes>>

\* Mutation: the node returns the answer without a run_status.
HumanReviewKeepsStatus(s) ==
  /\ At(s, "human_review")
  /\ given[s]
  /\ Write(s, [local[s] EXCEPT !.by = s, !.pending = FALSE, !.next = "end",
                 !.answer = s])

HumanReviewReturns(s) ==
  /\ At(s, "human_review")
  /\ given[s]
  /\ Write(s, [local[s] EXCEPT !.by = s, !.pending = FALSE, !.next = "end",
                 !.answer = s, !.status = "completed_after_resume"])

\* Loading the graph, a node or the checkpoint after it raises.
Fail(s) ==
  /\ pc[s] \in {"starting", "accepted"} \cup Executing
  /\ pc' = [pc EXCEPT ![s] = IF @ = "orphan" THEN "lost" ELSE "failed"]
  /\ UNCHANGED <<ckpt, local, thread, request, cited, saw, given, event,
                 report, crashes>>

-----------------------------------------------------------------------------
(* The end of a stream *)

Close(s, terminal) ==
  /\ pc' = [pc EXCEPT ![s] = "closed"]
  /\ event' = [event EXCEPT ![s] = terminal]
  /\ report' = [report EXCEPT ![s] = ckpt[thread[s]]]
  /\ UNCHANGED <<ckpt, local, thread, request, cited, saw, given, crashes>>

\* Mutation: the exception path reports only a pending interrupt.
ReportOnlyInterrupt(s) ==
  /\ pc[s] = "failed"
  /\ ckpt[thread[s]].pending
  /\ Close(s, "interrupt_required")

\* The exception path: a pending interrupt is reported rather than the error;
\* if the state cannot be read there is none to report.
ReportFailure(s) ==
  /\ pc[s] = "failed"
  /\ \/ ckpt[thread[s]].pending /\ Close(s, "interrupt_required")
     \/ Close(s, "run_failed")

\* The run_status of run_completed.
RunStatus(c) == IF c.status = "none" THEN "completed" ELSE c.status

FinalSnapshot(s) ==
  /\ pc[s] = "ended"
  /\ Close(s, IF ckpt[thread[s]].pending THEN "interrupt_required"
                                         ELSE "run_completed")

\* graph.aget_state raises where nothing catches it: the stream breaks off
\* without a terminal event.
SnapshotFails(s) ==
  /\ pc[s] \in {"checking", "ended"}
  /\ Close(s, "none")

\* The process dies and is started again; only the checkpoints are left.
Crash ==
  /\ crashes < MaxCrashes
  /\ \E s \in Streams : pc[s] \in Live
  /\ crashes' = crashes + 1
  /\ pc' = [s \in Streams |-> IF pc[s] \in Live THEN "lost" ELSE pc[s]]
  /\ UNCHANGED <<ckpt, local, thread, request, cited, saw, given, event,
                 report>>

-----------------------------------------------------------------------------
Client(s) ==
  \E t \in Threads :
    \/ \E flags \in Requests : RequestRun(s, t, flags)
    \/ \E id \in Shown(t) \cup {None} : RequestResume(s, t, id)

Node(s) ==
  \/ ComplianceBefore(s)
  \/ EmptyPortfolioFinalize(s)
  \/ Round1(s)
  \/ Mediator(s)
  \/ FinalJudge(s)
  \/ HumanReviewAsks(s)
  \/ HumanReviewReturns(s)

Handler(s) ==
  \/ LoadInput(s)
  \/ CheckPending(s)
  \/ LoadResume(s)
  \/ ReportFailure(s)
  \/ FinalSnapshot(s)

Fault(s) ==
  \/ Disconnect(s)
  \/ Abandon(s)
  \/ Fail(s)
  \/ SnapshotFails(s)

\* Every request has been made and every execution is over.
Finished ==
  /\ \A s \in Streams : pc[s] \in Gone
  /\ UNCHANGED vars

Next ==
  \/ \E s \in Streams : Client(s) \/ Handler(s) \/ Node(s) \/ Fault(s)
  \/ Crash
  \/ Finished

Spec == Init /\ [][Next]_vars

\* The event loop keeps running the handlers and the graph; clients, faults
\* and crashes are under no obligation.
Fairness == \A s \in Streams : WF_vars(Handler(s) \/ Node(s))

FairSpec == Spec /\ Fairness
-----------------------------------------------------------------------------
(* Properties *)

TypeOK ==
  /\ ckpt \in [Threads -> Checkpoint]
  /\ local \in [Streams -> Checkpoint]
  /\ pc \in [Streams -> {"idle"} \cup Live \cup Gone]
  /\ thread \in [Streams -> Threads \cup {None}]
  /\ \A s \in Streams : pc[s] # "idle" => thread[s] \in Threads
  /\ request \in [Streams -> SUBSET Flags]
  /\ cited \in [Streams -> Streams \cup {None}]
  /\ saw \in [Streams -> Streams \cup {None}]
  /\ given \in [Streams -> BOOLEAN]
  /\ event \in [Streams -> TerminalEvents \cup {"none"}]
  /\ report \in [Streams -> Checkpoint]
  /\ crashes \in 0..MaxCrashes

\* A decision that requires approval reaches the end only through an answer: a
\* resume request of this thread, accepted because an interrupt was pending,
\* wrote the last checkpoint. Whatever overlaps, fails or crashes; the routing
\* after final_judge and the resume path of human_review are what keeps it.
ApprovalGate ==
  \A t \in Threads :
    LET c == ckpt[t]
    IN  c.next = "end" /\ c.needs =>
          /\ c.status = "completed_after_resume"
          /\ c.answer \in Streams /\ c.answer = c.by
          /\ thread[c.answer] = t /\ saw[c.answer] \in Streams

\* While requests of a thread do not overlap, the answer that ended a run was
\* given by a client whose resume found the interrupt of this very decision
\* pending, not that of another run on the thread (resume_and_stream checks
\* before it loads).
AnswerMatchesPrompt ==
  Exclusive => \A t \in Threads :
    ckpt[t].next = "end" /\ ckpt[t].needs =>
      saw[ckpt[t].answer] = ckpt[t].decider

\* While requests of a thread do not overlap, run_completed reports the end of
\* this stream's own execution, with the status that goes with the decision:
\* the last aget_state of the handlers reads what their own graph wrote.
OwnReport ==
  Exclusive => \A s \in Streams :
    event[s] = "run_completed" =>
      /\ report[s].by = s
      /\ report[s].next = "end"
      /\ RunStatus(report[s]) = IF report[s].needs THEN "completed_after_resume"
                                                  ELSE "completed"

\* A pending review survives failures, disconnects and crashes: only an answer
\* to it or a new run on the thread takes it away.
PendingReviewSettled ==
  [][Exclusive => \A t \in Threads :
       ckpt[t].pending /\ ~ckpt'[t].pending =>
         \/ /\ ckpt'[t].next = "end" /\ ckpt'[t].answer \in Streams
            /\ saw[ckpt'[t].answer] = ckpt[t].decider
         \/ ckpt'[t].next = "compliance_before"]_vars

\* The thread's review life cycle as ReviewGate has it.
Phase(c) ==
  IF c.next = "none" THEN "fresh"
  ELSE IF c.next = "end" THEN (IF c.needs THEN "answered" ELSE "finished")
  ELSE IF c.next # "human_review" THEN "working"
  ELSE IF c.pending THEN "asked" ELSE "decided"

Gate == INSTANCE ReviewGate WITH phase <- [t \in Threads |-> Phase(ckpt[t])]

\* While requests of a thread do not overlap, the service implements the
\* review life cycle.
ImplementsReviewGate == Gate!Spec

\* Every accepted request comes to an end, whatever fails on the way: the
\* handlers have no path on which they wait for something nobody does.
EveryStreamCloses ==
  \A s \in Streams : pc[s] \in Live ~> pc[s] \in Gone

=============================================================================
