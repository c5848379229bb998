-------------------------- MODULE RunServiceProofs ---------------------------
(****************************************************************************)
(* Proofs about RunService for every set of threads, streams and requests:  *)
(* types, the approval gate in every interleaving of overlapping requests,  *)
(* and, when the requests of a thread take turns (Exclusive), whose answer  *)
(* ends a run, what a stream reports, and that the service implements the   *)
(* review life cycle of ReviewGate.                                         *)
(****************************************************************************)
EXTENDS RunService, TLAPS

-----------------------------------------------------------------------------
(* Type correctness *)

\* Writing a checkpoint keeps the types.
LEMMA WriteType ==
  ASSUME TypeOK, NEW s \in Streams, pc[s] \in Executing,
         NEW c \in Checkpoint, Write(s, c)
  PROVE  TypeOK'
BY RunServiceAssumption DEF TypeOK, Write, Executing, Live, Open, Gone

\* Ending a stream keeps the types, whatever the terminal event.
LEMMA CloseType ==
  ASSUME TypeOK, NEW s \in Streams, pc[s] # "idle",
         NEW e \in TerminalEvents \cup {"none"}, Close(s, e)
  PROVE  TypeOK'
BY RunServiceAssumption DEF TypeOK, Close, Gone, Live, Open

\* What final_judge and the fast path write is a checkpoint.
LEMMA DecidedType ==
  ASSUME TypeOK, NEW s \in Streams, NEW needs \in BOOLEAN,
         NEW next \in Nodes \cup {"end"}
  PROVE  Decided(s, needs, next) \in Checkpoint
<1>1. local[s] \in Checkpoint
  BY DEF TypeOK
<1>2. CASE needs
  BY <1>1, <1>2 DEF Decided, Checkpoint, Statuses
<1>3. CASE ~needs
  BY <1>1, <1>3 DEF Decided, Checkpoint, Statuses
<1>4. QED
  BY <1>2, <1>3

\* A request of a client keeps the types.
LEMMA ClientType ==
  ASSUME TypeOK, NEW s \in Streams, Client(s)
  PROVE  TypeOK'
<1>1. ASSUME NEW t \in Threads, NEW flags \in Requests,
             RequestRun(s, t, flags)
      PROVE  TypeOK'
  BY <1>1, RunServiceAssumption DEF TypeOK, RequestRun, Live, Open, Gone
<1>2. ASSUME NEW t \in Threads, NEW id \in Shown(t) \cup {None},
             RequestResume(s, t, id)
      PROVE  TypeOK'
  <2>1. id \in Streams \cup {None}
    BY DEF TypeOK, Shown, Checkpoint
  <2>2. QED
    BY <1>2, <2>1, RunServiceAssumption
    DEF TypeOK, RequestResume, Live, Open, Gone
<1>3. QED
  BY <1>1, <1>2 DEF Client

\* A step of the SSE handlers keeps the types.
LEMMA HandlerType ==
  ASSUME TypeOK, NEW s \in Streams, Handler(s)
  PROVE  TypeOK'
<1>1. CASE LoadInput(s)
  <2>1. thread[s] \in Threads
    BY <1>1 DEF TypeOK, LoadInput
  <2>2. ckpt[thread[s]] \in Checkpoint /\ request[s] \in SUBSET Flags
    BY <2>1 DEF TypeOK
  <2>3. InputCheckpoint(s, ckpt[thread[s]]) \in Checkpoint
    BY <2>2 DEF InputCheckpoint, Checkpoint, Nodes
  <2>4. QED
    BY <1>1, <2>1, <2>3 DEF TypeOK, LoadInput, Live, Open, Gone
<1>2. CASE CheckPending(s)
  <2>1. thread[s] \in Threads
    BY <1>2 DEF TypeOK, CheckPending
  <2>2. ckpt[thread[s]] \in Checkpoint /\ ckpt[thread[s]].by \in Streams \cup {None}
    BY <2>1 DEF TypeOK, Checkpoint
  <2>3. QED
    BY <1>2, <2>1, <2>2
    DEF TypeOK, CheckPending, Live, Open, Gone, TerminalEvents
<1>3. CASE LoadResume(s)
  <2>1. thread[s] \in Threads
    BY <1>3 DEF TypeOK, LoadResume
  <2>2. QED
    BY <1>3, <2>1 DEF TypeOK, LoadResume, Live, Open, Gone
<1>4. CASE ReportFailure(s)
  BY <1>4, CloseType DEF ReportFailure, TerminalEvents
<1>5. CASE FinalSnapshot(s)
  BY <1>5, CloseType DEF FinalSnapshot, TerminalEvents
<1>6. QED
  BY <1>1, <1>2, <1>3, <1>4, <1>5 DEF Handler

\* A node of the graph keeps the types.
LEMMA NodeType ==
  ASSUME TypeOK, NEW s \in Streams, Node(s)
  PROVE  TypeOK'
<1>1. local[s] \in Checkpoint
  BY DEF TypeOK
<1>2. CASE ComplianceBefore(s)
  <2>1. [local[s] EXCEPT !.by = s, !.pending = FALSE, !.next =
           IF "fast" \in local[s].flags THEN "empty_portfolio_finalize"
                                        ELSE "round1"] \in Checkpoint
    BY <1>1 DEF Checkpoint, Nodes
  <2>2. QED
    BY <1>2, <2>1, WriteType DEF ComplianceBefore, At
<1>3. CASE EmptyPortfolioFinalize(s)
  BY <1>3, DecidedType, WriteType DEF EmptyPortfolioFinalize, At
<1>4. CASE Round1(s)
  <2>1. [local[s] EXCEPT !.by = s, !.pending = FALSE, !.next = "mediator"]
          \in Checkpoint
    BY <1>1 DEF Checkpoint, Nodes
  <2>2. QED
    BY <1>4, <2>1, WriteType DEF Round1, At
<1>5. CASE Mediator(s)
  <2>1. [local[s] EXCEPT !.by = s, !.pending = FALSE, !.next = "final_judge"]
          \in Checkpoint
    BY <1>1 DEF Checkpoint, Nodes
  <2>2. QED
    BY <1>5, <2>1, WriteType DEF Mediator, At
<1>6. CASE FinalJudge(s)
  <2>1. PICK outcome \in Outcomes(local[s].flags) :
          LET needs == RequiresApproval(local[s].flags, outcome)
          IN  Write(s, Decided(s, needs,
                               RouteAfterFinalJudge(local[s].flags, needs)))
    BY <1>6 DEF FinalJudge
  <2> DEFINE needs == RequiresApproval(local[s].flags, outcome)
             next  == RouteAfterFinalJudge(local[s].flags, needs)
  <2>2. needs \in BOOLEAN /\ next \in Nodes \cup {"end"}
    BY DEF RequiresApproval, RouteAfterFinalJudge, Nodes
  <2>3. Decided(s, needs, next) \in Checkpoint
    BY <2>2, DecidedType
  <2>4. Write(s, Decided(s, needs, next))
    BY <2>1
  <2>5. QED
    BY <1>6, <2>3, <2>4, WriteType DEF FinalJudge, At
<1>7. CASE HumanReviewAsks(s)
  <2>1. thread[s] \in Threads
    BY <1>7 DEF TypeOK, HumanReviewAsks, At, Executing
  <2>2. \A b \in BOOLEAN : [ckpt[thread[s]] EXCEPT !.pending = b] \in Checkpoint
    BY SMTT(30), <2>1 DEF TypeOK, Checkpoint
  <2>3. ckpt[thread[s]].pending \in BOOLEAN
    BY <2>1 DEF TypeOK, Checkpoint
  <2>4. ckpt' \in [Threads -> Checkpoint]
    BY <1>7, <2>1, <2>2, <2>3 DEF TypeOK, HumanReviewAsks
  <2>5. QED
    BY <1>7, <2>1, <2>4
    DEF TypeOK, HumanReviewAsks, At, Executing, Live, Open, Gone
<1>8. CASE HumanReviewReturns(s)
  <2>1. [local[s] EXCEPT !.by = s, !.pending = FALSE, !.next = "end",
           !.answer = s, !.status = "completed_after_resume"] \in Checkpoint
    BY <1>1 DEF Checkpoint, Statuses
  <2>2. QED
    BY <1>8, <2>1, WriteType DEF HumanReviewReturns, At
<1>9. QED
  BY <1>2, <1>3, <1>4, <1>5, <1>6, <1>7, <1>8 DEF Node

\* A disconnect, an abandoned stream or a failure keeps the types.
LEMMA FaultType ==
  ASSUME TypeOK, NEW s \in Streams, Fault(s)
  PROVE  TypeOK'
<1>1. CASE Disconnect(s)
  BY <1>1 DEF TypeOK, Disconnect, Live, Open, Gone
<1>2. CASE Abandon(s)
  BY <1>2 DEF TypeOK, Abandon, Live, Open, Gone
<1>3. CASE Fail(s)
  BY <1>3 DEF TypeOK, Fail, Executing, Live, Open, Gone
<1>4. CASE SnapshotFails(s)
  BY <1>4, CloseType DEF SnapshotFails
<1>5. QED
  BY <1>1, <1>2, <1>3, <1>4 DEF Fault

\* Every variable keeps its type in every behaviour of the service.
THEOREM TypeCorrect == Spec => []TypeOK
<1>1. Init => TypeOK
  BY RunServiceAssumption
  DEF Init, TypeOK, NoCheckpoint, Checkpoint, Statuses
<1>2. TypeOK /\ [Next]_vars => TypeOK'
  <2> SUFFICES ASSUME TypeOK, [Next]_vars PROVE TypeOK'
    OBVIOUS
  <2>1. ASSUME NEW s \in Streams,
               Client(s) \/ Handler(s) \/ Node(s) \/ Fault(s)
        PROVE  TypeOK'
    BY <2>1, ClientType, HandlerType, NodeType, FaultType
  <2>2. CASE Crash
    BY <2>2, RunServiceAssumption DEF TypeOK, Crash, Live, Open, Gone
  <2>3. CASE Finished \/ UNCHANGED vars
    BY <2>3 DEF TypeOK, Finished, vars
  <2>4. QED
    BY <2>1, <2>2, <2>3 DEF Next
<1>3. QED
  BY <1>1, <1>2, PTL DEF Spec

(****************************************************************************)
(* The approval gate                                                        *)
(****************************************************************************)

Named(c) == c.next # "none" => c.by \in Streams

\* ApprovalGate needs to know that an answer in an execution's hands came from
\* a stream that has found an interrupt pending.
GateInv ==
  /\ ApprovalGate
  /\ \A t \in Threads :
       /\ Named(ckpt[t])
       /\ ckpt[t].pending => ckpt[t].next = "human_review"
  /\ \A s \in Streams :
       /\ Named(local[s])
       /\ saw[s] \in Streams => pc[s] \notin {"idle", "checking"}
       /\ pc[s] = "accepted" \/ given[s] => saw[s] \in Streams

\* What a node may write: a decision that needs approval ends the run only with
\* this execution's answer.
Gated(s, c) ==
  /\ c.by = s /\ ~c.pending
  /\ c.next = "end" /\ c.needs =>
       /\ c.status = "completed_after_resume"
       /\ c.answer = s /\ saw[s] \in Streams

\* A node's checkpoint keeps the gate when what it writes respects it.
LEMMA WriteGate ==
  ASSUME TypeOK, GateInv, NEW s \in Streams, pc[s] \in Executing,
         NEW c \in Checkpoint, Gated(s, c), Write(s, c)
  PROVE  GateInv'
<1>1. thread[s] \in Threads
  BY DEF TypeOK, Executing
<1>2. ckpt' = [ckpt EXCEPT ![thread[s]] = c]
      /\ ckpt \in [Threads -> Checkpoint]
      /\ local' = [local EXCEPT ![s] = c]
      /\ local \in [Streams -> Checkpoint]
      /\ thread' = thread /\ saw' = saw /\ given' = given
  BY DEF Write, TypeOK
<1>3. ApprovalGate'
  BY <1>1, <1>2 DEF GateInv, ApprovalGate, Gated
<1>4. (\A t \in Threads :
         /\ Named(ckpt[t])
         /\ ckpt[t].pending => ckpt[t].next = "human_review")'
  BY <1>1, <1>2 DEF GateInv, Named, Gated
<1>5. \A r \in Streams :
        /\ pc'[r] = pc[r] \/ pc'[r] \in Gone \cup {"ended"}
        /\ Named(local[r])'
  BY <1>2 DEF GateInv, Named, Gated, Write, TypeOK, Gone
<1>6. QED
  BY <1>2, <1>3, <1>4, <1>5 DEF GateInv, Gone

\* Steps that leave checkpoints alone and move streams on.
LEMMA MoveGate ==
  ASSUME TypeOK, GateInv, NEW s \in Streams, pc[s] # "idle",
         NEW p \in Gone \cup {"failed", "orphan"},
         pc' = [pc EXCEPT ![s] = p],
         UNCHANGED <<ckpt, local, thread, saw, given>>
  PROVE  GateInv'
<1>1. \A r \in Streams : pc'[r] = pc[r] \/ pc'[r] \in Gone \cup {"failed", "orphan"}
  BY DEF TypeOK
<1>2. ApprovalGate'
  BY DEF GateInv, ApprovalGate
<1>3. QED
  BY <1>1, <1>2 DEF GateInv, Named, Gone

\* A request of a client writes no checkpoint: the gate stays.
LEMMA ClientGate ==
  ASSUME TypeOK, GateInv, NEW s \in Streams, Client(s)
  PROVE  GateInv'
<1>1. /\ pc[s] = "idle"
      /\ pc' = [pc EXCEPT ![s] = "starting"] \/ pc' = [pc EXCEPT ![s] = "checking"]
      /\ \E t \in Threads : thread' = [thread EXCEPT ![s] = t]
      /\ UNCHANGED <<ckpt, local, saw, given>>
  BY DEF Client, RequestRun, RequestResume
<1>2. saw[s] \notin Streams /\ ~given[s]
  BY <1>1 DEF GateInv, TypeOK
<1>3. \A r \in Streams : r # s => pc'[r] = pc[r] /\ thread'[r] = thread[r]
  BY <1>1 DEF TypeOK
<1>4. ApprovalGate'
  BY <1>1, <1>2, <1>3 DEF GateInv, ApprovalGate
<1>5. pc'[s] \in {"starting", "checking"}
  BY <1>1 DEF TypeOK
<1>6. QED
  BY <1>1, <1>2, <1>3, <1>4, <1>5 DEF GateInv, Named

\* No node lets a decision past the gate.
LEMMA NodeGate ==
  ASSUME TypeOK, GateInv, NEW s \in Streams, Node(s)
  PROVE  GateInv'
<1>1. local[s] \in Checkpoint
  BY DEF TypeOK
<1>2. CASE ComplianceBefore(s)
  <2> DEFINE c == [local[s] EXCEPT !.by = s, !.pending = FALSE, !.next =
                     IF "fast" \in local[s].flags
                     THEN "empty_portfolio_finalize" ELSE "round1"]
  <2>1. c \in Checkpoint /\ Gated(s, c)
    BY <1>1 DEF Checkpoint, Nodes, Gated
  <2>2. QED
    BY <1>2, <2>1, WriteGate DEF ComplianceBefore, At
<1>3. CASE EmptyPortfolioFinalize(s)
  <2>1. Decided(s, FALSE, "end") \in Checkpoint
    BY DecidedType
  <2>2. Gated(s, Decided(s, FALSE, "end"))
    BY <1>1 DEF Decided, Gated, Checkpoint
  <2>3. QED
    BY <1>3, <2>1, <2>2, WriteGate DEF EmptyPortfolioFinalize, At
<1>4. CASE Round1(s)
  <2> DEFINE c == [local[s] EXCEPT !.by = s, !.pending = FALSE,
                                   !.next = "mediator"]
  <2>1. c \in Checkpoint /\ Gated(s, c)
    BY <1>1 DEF Checkpoint, Nodes, Gated
  <2>2. QED
    BY <1>4, <2>1, WriteGate DEF Round1, At
<1>5. CASE Mediator(s)
  <2> DEFINE c == [local[s] EXCEPT !.by = s, !.pending = FALSE,
                                   !.next = "final_judge"]
  <2>1. c \in Checkpoint /\ Gated(s, c)
    BY <1>1 DEF Checkpoint, Nodes, Gated
  <2>2. QED
    BY <1>5, <2>1, WriteGate DEF Mediator, At
<1>6. CASE FinalJudge(s)
  <2>1. PICK outcome \in Outcomes(local[s].flags) :
          LET needs == RequiresApproval(local[s].flags, outcome)
          IN  Write(s, Decided(s, needs,
                               RouteAfterFinalJudge(local[s].flags, needs)))
    BY <1>6 DEF FinalJudge
  <2> DEFINE needs == RequiresApproval(local[s].flags, outcome)
             next  == RouteAfterFinalJudge(local[s].flags, needs)
             c     == Decided(s, needs, next)
  <2>2. needs \in BOOLEAN /\ next \in Nodes \cup {"end"}
        /\ (next = "end" => ~needs)
    BY DEF RequiresApproval, RouteAfterFinalJudge, Nodes
  <2>3. c \in Checkpoint
    BY <2>2, DecidedType
  <2>4. c.by = s /\ c.pending = FALSE /\ c.next = next /\ c.needs = needs
    BY <1>1 DEF Decided, Checkpoint
  <2>5. Gated(s, c)
    BY <2>2, <2>4 DEF Gated
  <2>6. Write(s, c) /\ pc[s] \in Executing
    BY <1>6, <2>1 DEF FinalJudge, At
  <2>7. QED
    BY <2>3, <2>5, <2>6, WriteGate
<1>7. CASE HumanReviewAsks(s)
  <2>1. thread[s] \in Threads /\ ckpt \in [Threads -> Checkpoint]
    BY <1>7 DEF TypeOK, HumanReviewAsks, At, Executing
  <2>2. PICK b \in BOOLEAN :
          /\ ckpt' = [ckpt EXCEPT ![thread[s]].pending = b]
          /\ b => ckpt[thread[s]].pending
                  \/ ckpt[thread[s]].next = "human_review"
    BY <1>7, <2>1 DEF HumanReviewAsks, At, Checkpoint
  <2>3. \A t \in Threads :
          /\ ckpt'[t].by = ckpt[t].by /\ ckpt'[t].next = ckpt[t].next
          /\ ckpt'[t].needs = ckpt[t].needs
          /\ ckpt'[t].status = ckpt[t].status
          /\ ckpt'[t].answer = ckpt[t].answer
          /\ ckpt'[t].pending => ckpt[t].pending \/ ckpt[t].next = "human_review"
    BY <2>1, <2>2 DEF Checkpoint
  <2>4. UNCHANGED <<local, thread, saw, given>>
    BY <1>7 DEF HumanReviewAsks
  <2>5. ApprovalGate'
    BY <2>3, <2>4 DEF GateInv, ApprovalGate
  <2>6. \A r \in Streams : pc'[r] = pc[r] \/ pc'[r] \in {"ended", "lost"}
    BY <1>7 DEF HumanReviewAsks, TypeOK
  <2>7. QED
    BY <2>3, <2>4, <2>5, <2>6 DEF GateInv, Named
<1>8. CASE HumanReviewReturns(s)
  <2> DEFINE c == [local[s] EXCEPT !.by = s, !.pending = FALSE, !.next = "end",
                     !.answer = s, !.status = "completed_after_resume"]
  <2>1. c \in Checkpoint /\ Gated(s, c)
    BY <1>1, <1>8 DEF Checkpoint, Statuses, Gated, HumanReviewReturns, GateInv
  <2>2. QED
    BY <1>8, <2>1, WriteGate DEF HumanReviewReturns, At
<1>9. QED
  BY <1>2, <1>3, <1>4, <1>5, <1>6, <1>7, <1>8 DEF Node

\* Loading and reporting let no decision past the gate.
LEMMA HandlerGate ==
  ASSUME TypeOK, GateInv, NEW s \in Streams, Handler(s)
  PROVE  GateInv'
<1> USE DEF Gone
<1>1. CASE LoadInput(s)
  <2> DEFINE c == InputCheckpoint(s, ckpt[thread[s]])
  <2>1. thread[s] \in Threads /\ ckpt[thread[s]] \in Checkpoint
    BY <1>1 DEF TypeOK, LoadInput
  <2>2. c.by = s /\ c.pending = FALSE /\ c.next = "compliance_before"
    BY <2>1 DEF InputCheckpoint, Checkpoint
  <2>3. /\ ckpt' = [ckpt EXCEPT ![thread[s]] = c]
        /\ local' = [local EXCEPT ![s] = c]
        /\ pc' = [pc EXCEPT ![s] = "running"]
        /\ UNCHANGED <<thread, saw, given>>
    BY <1>1 DEF LoadInput
  <2>4. /\ \A t \in Threads : t # thread[s] => ckpt'[t] = ckpt[t]
        /\ ckpt'[thread[s]] = c
        /\ \A r \in Streams : r # s => local'[r] = local[r] /\ pc'[r] = pc[r]
        /\ local'[s] = c /\ pc'[s] = "running"
    BY <2>1, <2>3 DEF TypeOK
  <2>5. ApprovalGate'
    BY <2>2, <2>3, <2>4 DEF GateInv, ApprovalGate
  <2>6. QED
    BY <2>2, <2>3, <2>4, <2>5 DEF GateInv, Named
<1>2. CASE CheckPending(s)
  <2>1. thread[s] \in Threads /\ pc[s] = "checking"
    BY <1>2 DEF TypeOK, CheckPending
  <2>2. UNCHANGED <<ckpt, local, thread, given>>
    BY <1>2 DEF CheckPending
  <2>3. saw[s] \notin Streams
    BY <2>1 DEF GateInv
  <2>4. ApprovalGate' /\ \A r \in Streams : r # s =>
                           pc'[r] = pc[r] /\ saw'[r] = saw[r]
    BY <1>2, <2>1, <2>2, <2>3 DEF GateInv, ApprovalGate, CheckPending, TypeOK
  <2>5. \/ pc'[s] = "closed" /\ saw'[s] = saw[s]
        \/ pc'[s] = "accepted" /\ saw'[s] \in Streams
    BY <1>2, <2>1 DEF CheckPending, GateInv, Named, TypeOK
  <2>6. ~given[s]
    BY <2>3 DEF GateInv
  <2>7. QED
    BY <2>2, <2>3, <2>4, <2>5, <2>6 DEF GateInv, Named
<1>3. CASE LoadResume(s)
  <2>1. thread[s] \in Threads /\ pc[s] = "accepted"
    BY <1>3 DEF TypeOK, LoadResume
  <2>2. /\ UNCHANGED <<ckpt, thread, saw>>
        /\ \A r \in Streams : r # s =>
             local'[r] = local[r] /\ pc'[r] = pc[r] /\ given'[r] = given[r]
        /\ local'[s] = ckpt[thread[s]] /\ pc'[s] \in {"running", "ended"}
    BY <1>3 DEF LoadResume, TypeOK
  <2>3. saw[s] \in Streams
    BY <2>1 DEF GateInv
  <2>4. ApprovalGate'
    BY <2>2 DEF GateInv, ApprovalGate
  <2>5. QED
    BY <2>1, <2>2, <2>3, <2>4 DEF GateInv, Named
<1>4. CASE ReportFailure(s)
  BY <1>4, MoveGate DEF ReportFailure, Close
<1>5. CASE FinalSnapshot(s)
  BY <1>5, MoveGate DEF FinalSnapshot, Close
<1>6. QED
  BY <1>1, <1>2, <1>3, <1>4, <1>5 DEF Handler

\* Failures change no checkpoint: the gate stays.
LEMMA FaultGate ==
  ASSUME TypeOK, GateInv, NEW s \in Streams, Fault(s)
  PROVE  GateInv'
<1>1. CASE Disconnect(s)
  BY <1>1, MoveGate DEF Disconnect, Open, Gone
<1>2. CASE Abandon(s)
  BY <1>2, MoveGate DEF Abandon
<1>3. CASE Fail(s)
  BY <1>3, MoveGate DEF Fail, Executing, Gone
<1>4. CASE SnapshotFails(s)
  BY <1>4, MoveGate DEF SnapshotFails, Close, Gone
<1>5. QED
  BY <1>1, <1>2, <1>3, <1>4 DEF Fault

\* Nothing has been decided at the start.
LEMMA GateInvInit == Init => GateInv
BY RunServiceAssumption
DEF Init, GateInv, ApprovalGate, Named, NoCheckpoint

\* Every step keeps the gate.
LEMMA GateInvNext == TypeOK /\ GateInv /\ [Next]_vars => GateInv'
<1> SUFFICES ASSUME TypeOK, GateInv, [Next]_vars PROVE GateInv'
  OBVIOUS
<1>1. ASSUME NEW s \in Streams,
             Client(s) \/ Handler(s) \/ Node(s) \/ Fault(s)
      PROVE  GateInv'
  BY <1>1, ClientGate, HandlerGate, NodeGate, FaultGate
<1>2. CASE Crash
  <2>1. UNCHANGED <<ckpt, local, thread, saw, given>>
    BY <1>2 DEF Crash
  <2>2. \A s \in Streams : pc'[s] = pc[s] \/ pc'[s] = "lost"
    BY <1>2 DEF Crash
  <2>3. ApprovalGate'
    BY <2>1 DEF GateInv, ApprovalGate
  <2>4. QED
    BY <2>1, <2>2, <2>3 DEF GateInv, Named
<1>3. CASE Finished \/ UNCHANGED vars
  BY <1>3 DEF GateInv, ApprovalGate, Named, Finished, vars
<1>4. QED
  BY <1>1, <1>2, <1>3 DEF Next

\* Whatever overlaps, fails or crashes on a thread, a decision that requires
\* approval reaches the end only through an accepted resume of that thread: the
\* routing after final_judge and the answer path of human_review keep it.
THEOREM GateHolds == Spec => []ApprovalGate
<1>1. TypeOK /\ GateInv => ApprovalGate
  BY DEF GateInv
<1>2. QED
  BY <1>1, TypeCorrect, GateInvInit, GateInvNext, PTL DEF Spec

(****************************************************************************)
(* When requests take turns                                                 *)
(****************************************************************************)

\* At most one live stream on a thread.
Turns ==
  \A s, r \in Streams :
    pc[s] \in Live /\ pc[r] \in Live /\ thread[s] = thread[r] => s = r

\* What the stream whose turn it is knows of the thread's checkpoint c.
InTurn(s, c) ==
  /\ pc[s] = "starting" => ~given[s]
  /\ pc[s] = "accepted" => c.pending /\ saw[s] = c.by
  /\ pc[s] \in Executing =>
       /\ local[s] = c
       /\ given[s] => c.next = "human_review" /\ c.pending /\ saw[s] = c.by
       /\ ~given[s] => ~c.pending
  /\ pc[s] = "ended" => c.pending \/ (c.by = s /\ c.next = "end")

\* What a checkpoint says of the decision it holds.
Consistent(c) ==
  /\ c.next = "human_review" =>
       c.by = c.decider /\ c.needs /\ c.status = "awaiting_human_review"
  /\ c.next = "end" /\ ~c.needs => c.status = "completed"
  /\ c.next = "end" /\ c.needs => saw[c.answer] = c.decider

TurnInv ==
  Exclusive =>
    /\ Turns
    /\ \A s \in Streams : InTurn(s, ckpt[thread[s]])
    /\ \A t \in Threads : Consistent(ckpt[t])
    /\ OwnReport

AllInv == TypeOK /\ GateInv /\ TurnInv

-----------------------------------------------------------------------------
(* Preservation *)

\* A step of a live stream cannot disturb the stream whose turn it is on
\* another thread.
LEMMA OtherThreads ==
  ASSUME AllInv, Exclusive, NEW s \in Streams, pc[s] \in Live,
         NEW r \in Streams, pc[r] \in Live, r # s
  PROVE  thread[r] # thread[s] /\ thread[r] \in Threads
BY DEF AllInv, TurnInv, Turns, TypeOK, Live, Open

\* The stream whose turn it is keeps the turns when it writes a checkpoint.
LEMMA WriteTurn ==
  ASSUME AllInv, Exclusive, NEW s \in Streams, pc[s] \in Executing,
         NEW c \in Checkpoint, Write(s, c),
         c.by = s, c.pending = FALSE, c.next # "end" => ~given[s],
         Consistent(c)
  PROVE  TurnInv'
<1>1. thread[s] \in Threads /\ pc[s] \in Live
  BY DEF AllInv, TypeOK, Executing, Live, Open
<1>2. /\ \A t \in Threads : t # thread[s] => ckpt'[t] = ckpt[t]
      /\ ckpt'[thread[s]] = c
      /\ \A r \in Streams : r # s => local'[r] = local[r] /\ pc'[r] = pc[r]
      /\ local'[s] = c
      /\ pc'[s] = IF c.next # "end" THEN pc[s]
                  ELSE IF pc[s] = "running" THEN "ended" ELSE "lost"
      /\ UNCHANGED <<thread, saw, given, event, report>>
  BY <1>1 DEF Write, AllInv, TypeOK
<1>3. Turns'
  <2>1. \A r \in Streams : pc'[r] \in Live => pc[r] \in Live
    BY <1>1, <1>2
  <2>2. QED
    BY <1>2, <2>1 DEF AllInv, TurnInv, Turns
<1>4. ASSUME NEW r \in Streams
      PROVE  InTurn(r, ckpt[thread[r]])'
  <2>1. CASE r = s
    BY <1>2, <2>1 DEF InTurn, Executing
  <2>2. CASE r # s /\ pc[r] \in Live
    <3>1. ckpt'[thread[r]] = ckpt[thread[r]]
      BY <1>1, <1>2, <2>2, OtherThreads
    <3>2. InTurn(r, ckpt[thread[r]])
      BY DEF AllInv, TurnInv
    <3>3. QED
      BY <1>2, <2>2, <3>1, <3>2 DEF InTurn
  <2>3. CASE r # s /\ pc[r] \notin Live
    BY <1>2, <2>3 DEF InTurn, Live, Open, Executing
  <2>4. QED
    BY <2>1, <2>2, <2>3
<1>5. \A t \in Threads : Consistent(ckpt[t])'
  BY <1>2 DEF AllInv, TurnInv, Consistent
<1>6. OwnReport'
  BY <1>2 DEF AllInv, TurnInv, OwnReport, RunStatus
<1>7. QED
  BY <1>3, <1>4, <1>5, <1>6 DEF TurnInv

\* A stream that moves on, or is given up, leaves the turns as they are.
LEMMA MoveTurn ==
  ASSUME AllInv, Exclusive,
         UNCHANGED <<ckpt, local, thread, saw, given>>,
         \A r \in Streams : \/ pc'[r] = pc[r]
                            \/ pc[r] \in Live /\ pc'[r] \in Gone \cup {"failed"}
                            \/ pc[r] = "running" /\ pc'[r] = "orphan",
         OwnReport'
  PROVE  TurnInv'
<1>1. Turns'
  <2>1. \A r \in Streams : pc'[r] \in Live => pc[r] \in Live
    BY DEF Live, Open, Gone
  <2>2. QED
    BY <2>1 DEF AllInv, TurnInv, Turns
<1>2. ASSUME NEW r \in Streams
      PROVE  InTurn(r, ckpt[thread[r]])'
  <2>1. InTurn(r, ckpt[thread[r]])
    BY DEF AllInv, TurnInv
  <2>2. QED
    BY <2>1 DEF InTurn, Executing, Gone
<1>3. \A t \in Threads : Consistent(ckpt[t])'
  BY DEF AllInv, TurnInv, Consistent
<1>4. QED
  BY <1>1, <1>2, <1>3 DEF TurnInv

\* A request is accepted only on a quiet thread: turns are kept.
LEMMA ClientTurn ==
  ASSUME AllInv, Exclusive, NEW s \in Streams, Client(s)
  PROVE  TurnInv'
<1>1. PICK t \in Threads :
        /\ Quiet(t)
        /\ thread' = [thread EXCEPT ![s] = t]
        /\ pc[s] = "idle"
        /\ pc' = [pc EXCEPT ![s] = "starting"]
           \/ pc' = [pc EXCEPT ![s] = "checking"]
        /\ UNCHANGED <<ckpt, local, saw, given, event, report>>
  BY DEF Client, RequestRun, RequestResume
<1>2. /\ \A r \in Streams : r # s => pc'[r] = pc[r] /\ thread'[r] = thread[r]
      /\ pc'[s] \in {"starting", "checking"} /\ thread'[s] = t
  BY <1>1 DEF AllInv, TypeOK
<1>3. ~given[s]
  BY <1>1 DEF AllInv, GateInv
<1>4. Turns'
  BY <1>1, <1>2 DEF Quiet, AllInv, TurnInv, Turns
<1>5. ASSUME NEW r \in Streams
      PROVE  InTurn(r, ckpt[thread[r]])'
  <2>1. CASE r = s
    BY <1>1, <1>2, <1>3, <2>1 DEF InTurn, Executing
  <2>2. CASE r # s
    BY <1>1, <1>2, <2>2 DEF InTurn, AllInv, TurnInv
  <2>3. QED
    BY <2>1, <2>2
<1>6. \A u \in Threads : Consistent(ckpt[u])'
  BY <1>1 DEF AllInv, TurnInv, Consistent
<1>7. OwnReport'
  BY <1>1 DEF AllInv, TurnInv, OwnReport, RunStatus
<1>8. QED
  BY <1>4, <1>5, <1>6, <1>7 DEF TurnInv

\* An execution that is not at human_review carries no answer.
LEMMA NodeWithoutAnswer ==
  ASSUME AllInv, Exclusive, NEW s \in Streams, NEW node \in Nodes,
         At(s, node), node # "human_review"
  PROVE  ~given[s] /\ ckpt[thread[s]].pending = FALSE
         /\ local[s] = ckpt[thread[s]] /\ thread[s] \in Threads
<1>1. thread[s] \in Threads
  BY DEF At, Executing, AllInv, TypeOK
<1>2. ckpt[thread[s]].pending \in BOOLEAN
  BY <1>1 DEF AllInv, TypeOK, Checkpoint
<1>3. InTurn(s, ckpt[thread[s]])
  BY DEF AllInv, TurnInv
<1>4. QED
  BY <1>1, <1>2, <1>3 DEF InTurn, At

\* What the nodes before human_review write, and that they write it over a
\* checkpoint without a pending interrupt.
LEMMA WorkingNode ==
  ASSUME AllInv, Exclusive, NEW s \in Streams,
         \/ ComplianceBefore(s) \/ EmptyPortfolioFinalize(s)
         \/ Round1(s) \/ Mediator(s) \/ FinalJudge(s)
  PROVE  \E c \in Checkpoint :
           /\ Write(s, c) /\ pc[s] \in Executing
           /\ ~given[s] /\ thread[s] \in Threads
           /\ Phase(ckpt[thread[s]]) = "working"
           /\ ckpt[thread[s]].pending = FALSE
           /\ c.by = s /\ c.pending = FALSE /\ Consistent(c)
           /\ Phase(c) \in {"working", "decided", "finished"}
<1>1. local[s] \in Checkpoint
  BY DEF AllInv, TypeOK
<1> DEFINE Good(c) ==
      /\ c \in Checkpoint /\ Write(s, c)
      /\ c.by = s /\ c.pending = FALSE /\ Consistent(c)
      /\ Phase(c) \in {"working", "decided", "finished"}
<1>2. CASE ComplianceBefore(s)
  <2> DEFINE c == [local[s] EXCEPT !.by = s, !.pending = FALSE, !.next =
                     IF "fast" \in local[s].flags
                     THEN "empty_portfolio_finalize" ELSE "round1"]
  <2>1. Good(c)
    BY <1>1, <1>2 DEF ComplianceBefore, Checkpoint, Nodes, Consistent, Phase
  <2>2. At(s, "compliance_before")
    BY <1>2 DEF ComplianceBefore
  <2>3. /\ ~given[s] /\ ckpt[thread[s]].pending = FALSE
        /\ local[s] = ckpt[thread[s]] /\ thread[s] \in Threads
    BY <2>2, NodeWithoutAnswer DEF Nodes
  <2>4. pc[s] \in Executing /\ Phase(ckpt[thread[s]]) = "working"
    BY <2>2, <2>3 DEF At, Phase
  <2> HIDE DEF c
  <2>5. QED
    BY <2>1, <2>3, <2>4
<1>3. CASE EmptyPortfolioFinalize(s)
  <2> DEFINE c == Decided(s, FALSE, "end")
  <2>1. c \in Checkpoint
    BY DecidedType DEF AllInv
  <2>2. c.by = s /\ c.pending = FALSE /\ c.next = "end" /\ c.needs = FALSE
        /\ c.status = "completed"
    BY <1>1 DEF Decided, Checkpoint
  <2>3. Good(c)
    BY <1>3, <2>1, <2>2 DEF EmptyPortfolioFinalize, Consistent, Phase
  <2>4. At(s, "empty_portfolio_finalize")
    BY <1>3 DEF EmptyPortfolioFinalize
  <2>5. QED
    BY <2>3, <2>4, NodeWithoutAnswer DEF Nodes, At, Phase
<1>4. CASE Round1(s)
  <2> DEFINE c == [local[s] EXCEPT !.by = s, !.pending = FALSE,
                                   !.next = "mediator"]
  <2>1. Good(c)
    BY <1>1, <1>4 DEF Round1, Checkpoint, Nodes, Consistent, Phase
  <2>2. At(s, "round1")
    BY <1>4 DEF Round1
  <2>3. QED
    BY <2>1, <2>2, NodeWithoutAnswer DEF Nodes, At, Phase
<1>5. CASE Mediator(s)
  <2> DEFINE c == [local[s] EXCEPT !.by = s, !.pending = FALSE,
                                   !.next = "final_judge"]
  <2>1. Good(c)
    BY <1>1, <1>5 DEF Mediator, Checkpoint, Nodes, Consistent, Phase
  <2>2. At(s, "mediator")
    BY <1>5 DEF Mediator
  <2>3. QED
    BY <2>1, <2>2, NodeWithoutAnswer DEF Nodes, At, Phase
<1>6. CASE FinalJudge(s)
  <2>1. PICK outcome \in Outcomes(local[s].flags) :
          LET needs == RequiresApproval(local[s].flags, outcome)
          IN  Write(s, Decided(s, needs,
                               RouteAfterFinalJudge(local[s].flags, needs)))
    BY <1>6 DEF FinalJudge
  <2> DEFINE needs == RequiresApproval(local[s].flags, outcome)
             next  == RouteAfterFinalJudge(local[s].flags, needs)
             c     == Decided(s, needs, next)
  <2>2. needs \in BOOLEAN
        /\ next = IF needs THEN "human_review" ELSE "end"
    BY DEF RequiresApproval, RouteAfterFinalJudge
  <2>3. c \in Checkpoint
    BY <2>2, DecidedType DEF AllInv, Nodes
  <2>4. /\ c.by = s /\ c.pending = FALSE /\ c.next = next
        /\ c.decider = s /\ c.needs = needs
        /\ c.status = IF needs THEN "awaiting_human_review" ELSE "completed"
    BY <1>1 DEF Decided, Checkpoint
  <2>5. Consistent(c) /\ Phase(c) \in {"working", "decided", "finished"}
    BY <2>2, <2>4 DEF Consistent, Phase
  <2>6. Good(c)
    BY <2>1, <2>3, <2>4, <2>5
  <2>7. At(s, "final_judge")
    BY <1>6 DEF FinalJudge
  <2>8. QED
    BY <2>6, <2>7, NodeWithoutAnswer DEF Nodes, At, Phase
<1>7. QED
  BY <1>2, <1>3, <1>4, <1>5, <1>6

\* What the answer path of human_review writes.
LEMMA AnsweringNode ==
  ASSUME AllInv, Exclusive, NEW s \in Streams, HumanReviewReturns(s)
  PROVE  \E c \in Checkpoint :
           /\ Write(s, c) /\ pc[s] \in Executing /\ thread[s] \in Threads
           /\ Phase(ckpt[thread[s]]) = "asked"
           /\ c.by = s /\ c.pending = FALSE /\ c.next = "end" /\ c.answer = s
           /\ saw[s] = ckpt[thread[s]].decider
           /\ Consistent(c) /\ Phase(c) = "answered"
<1> DEFINE c == [local[s] EXCEPT !.by = s, !.pending = FALSE, !.next = "end",
                   !.answer = s, !.status = "completed_after_resume"]
           k == ckpt[thread[s]]
<1>1. thread[s] \in Threads /\ local[s] \in Checkpoint
  BY DEF AllInv, TypeOK, HumanReviewReturns, At, Executing
<1>2. InTurn(s, k) /\ Consistent(k)
  BY <1>1 DEF AllInv, TurnInv
<1>3. local[s] = k /\ k.next = "human_review" /\ k.pending /\ saw[s] = k.by
      /\ k.by = k.decider /\ k.needs
  BY <1>2 DEF InTurn, Consistent, HumanReviewReturns, At
<1>4. c \in Checkpoint /\ c.by = s /\ c.pending = FALSE /\ c.next = "end"
      /\ c.answer = s /\ c.needs = local[s].needs
      /\ c.decider = local[s].decider
  BY <1>1 DEF Checkpoint, Statuses
<1>5. Consistent(c) /\ Phase(c) = "answered" /\ Phase(k) = "asked"
  BY <1>3, <1>4 DEF Consistent, Phase
<1>6. QED
  BY <1>1, <1>3, <1>4, <1>5 DEF HumanReviewReturns, At

\* When requests take turns, the interrupt goes to the latest checkpoint.
LEMMA AskingNode ==
  ASSUME AllInv, Exclusive, NEW s \in Streams, HumanReviewAsks(s)
  PROVE  /\ thread[s] \in Threads /\ pc[s] \in Executing
         /\ ckpt[thread[s]].next = "human_review"
         /\ ~ckpt[thread[s]].pending
         /\ ckpt' = [ckpt EXCEPT ![thread[s]].pending = TRUE]
<1>1. thread[s] \in Threads /\ pc[s] \in Executing
  BY DEF AllInv, TypeOK, HumanReviewAsks, At, Executing
<1>2. InTurn(s, ckpt[thread[s]])
  BY DEF AllInv, TurnInv
<1>3. local[s] = ckpt[thread[s]] /\ ~ckpt[thread[s]].pending
  BY <1>1, <1>2 DEF InTurn, HumanReviewAsks
<1>4. QED
  BY <1>1, <1>3 DEF HumanReviewAsks, At, AllInv, TypeOK

\* Every node keeps the turns.
LEMMA NodeTurn ==
  ASSUME AllInv, Exclusive, NEW s \in Streams, Node(s)
  PROVE  TurnInv'
<1>1. CASE \/ ComplianceBefore(s) \/ EmptyPortfolioFinalize(s)
           \/ Round1(s) \/ Mediator(s) \/ FinalJudge(s)
  BY <1>1, WorkingNode, WriteTurn
<1>2. CASE HumanReviewReturns(s)
  BY <1>2, AnsweringNode, WriteTurn
<1>3. CASE HumanReviewAsks(s)
  <2> DEFINE t == thread[s]
  <2>1. t \in Threads /\ pc[s] \in Executing /\ pc[s] \in Live
        /\ ckpt' = [ckpt EXCEPT ![t].pending = TRUE]
    BY <1>3, AskingNode DEF Live, Open, Executing
  <2>2. /\ pc' = [pc EXCEPT ![s] = IF @ = "running" THEN "ended" ELSE "lost"]
        /\ UNCHANGED <<local, thread, saw, given, event, report>>
    BY <1>3 DEF HumanReviewAsks
  <2>3. /\ \A u \in Threads : u # t => ckpt'[u] = ckpt[u]
        /\ ckpt'[t] = [ckpt[t] EXCEPT !.pending = TRUE]
        /\ \A r \in Streams : r # s => pc'[r] = pc[r]
        /\ pc'[s] \in {"ended", "lost"}
    BY <2>1, <2>2 DEF AllInv, TypeOK
  <2>4. ckpt[t] \in Checkpoint
    BY <2>1 DEF AllInv, TypeOK
  <2>5. Turns'
    BY <2>1, <2>2, <2>3 DEF AllInv, TurnInv, Turns
  <2>6. ASSUME NEW r \in Streams
        PROVE  InTurn(r, ckpt[thread[r]])'
    <3>1. CASE r = s
      <4>1. ckpt'[t].pending
        BY <2>3, <2>4 DEF Checkpoint
      <4>2. QED
        BY <2>2, <2>3, <3>1, <4>1 DEF InTurn, Executing
    <3>2. CASE r # s /\ pc[r] \in Live
      <4>1. ckpt'[thread[r]] = ckpt[thread[r]]
        BY <2>1, <2>3, <3>2, OtherThreads
      <4>2. InTurn(r, ckpt[thread[r]])
        BY DEF AllInv, TurnInv
      <4>3. QED
        BY <2>2, <2>3, <3>2, <4>1, <4>2 DEF InTurn
    <3>3. CASE r # s /\ pc[r] \notin Live
      BY <2>3, <3>3 DEF InTurn, Live, Open, Executing
    <3>4. QED
      BY <3>1, <3>2, <3>3
  <2>7. \A u \in Threads : Consistent(ckpt[u])'
    <3>1. \A u \in Threads :
            /\ ckpt'[u].next = ckpt[u].next /\ ckpt'[u].by = ckpt[u].by
            /\ ckpt'[u].decider = ckpt[u].decider
            /\ ckpt'[u].needs = ckpt[u].needs
            /\ ckpt'[u].status = ckpt[u].status
            /\ ckpt'[u].answer = ckpt[u].answer
      BY <2>3, <2>4 DEF Checkpoint
    <3>2. QED
      BY <2>2, <3>1 DEF AllInv, TurnInv, Consistent
  <2>8. OwnReport'
    BY <2>2 DEF AllInv, TurnInv, OwnReport, RunStatus
  <2>9. QED
    BY <2>5, <2>6, <2>7, <2>8 DEF TurnInv
<1>4. QED
  BY <1>1, <1>2, <1>3 DEF Node

\* What LoadInput writes.
LEMMA LoadedInput ==
  ASSUME AllInv, NEW s \in Streams, LoadInput(s)
  PROVE  \E c \in Checkpoint :
           /\ thread[s] \in Threads
           /\ ckpt' = [ckpt EXCEPT ![thread[s]] = c]
           /\ local' = [local EXCEPT ![s] = c]
           /\ c.next = "compliance_before" /\ c.pending = FALSE
<1> DEFINE c == InputCheckpoint(s, ckpt[thread[s]])
<1>1. thread[s] \in Threads
  BY DEF AllInv, TypeOK, LoadInput
<1>2. ckpt[thread[s]] \in Checkpoint /\ request[s] \in SUBSET Flags
  BY <1>1 DEF AllInv, TypeOK
<1>3. c \in Checkpoint /\ c.next = "compliance_before" /\ c.pending = FALSE
  BY <1>2 DEF InputCheckpoint, Checkpoint, Nodes
<1>4. QED
  BY <1>1, <1>3 DEF LoadInput

\* Every step of the handlers keeps the turns.
LEMMA HandlerTurn ==
  ASSUME AllInv, Exclusive, NEW s \in Streams, Handler(s)
  PROVE  TurnInv'
<1>1. CASE LoadInput(s)
  <2>1. PICK c \in Checkpoint :
          /\ thread[s] \in Threads
          /\ ckpt' = [ckpt EXCEPT ![thread[s]] = c]
          /\ local' = [local EXCEPT ![s] = c]
          /\ c.next = "compliance_before" /\ c.pending = FALSE
    BY <1>1, LoadedInput
  <2>2. /\ pc[s] = "starting" /\ pc[s] \in Live
        /\ pc' = [pc EXCEPT ![s] = "running"]
        /\ UNCHANGED <<thread, saw, given, event, report>>
    BY <1>1 DEF LoadInput, Live, Open
  <2>3. /\ \A u \in Threads : u # thread[s] => ckpt'[u] = ckpt[u]
        /\ ckpt'[thread[s]] = c
        /\ \A r \in Streams : r # s => pc'[r] = pc[r] /\ local'[r] = local[r]
        /\ local'[s] = c /\ pc'[s] = "running"
    BY <2>1, <2>2 DEF AllInv, TypeOK
  <2>4. ~given[s]
    BY <2>2 DEF AllInv, TurnInv, InTurn
  <2>5. Turns'
    BY <2>2, <2>3 DEF AllInv, TurnInv, Turns
  <2>6. ASSUME NEW r \in Streams
        PROVE  InTurn(r, ckpt[thread[r]])'
    <3>1. CASE r = s
      BY <2>1, <2>2, <2>3, <2>4, <3>1 DEF InTurn
    <3>2. CASE r # s /\ pc[r] \in Live
      <4>1. ckpt'[thread[r]] = ckpt[thread[r]]
        BY <2>1, <2>2, <2>3, <3>2, OtherThreads
      <4>2. InTurn(r, ckpt[thread[r]])
        BY DEF AllInv, TurnInv
      <4>3. QED
        BY <2>2, <2>3, <3>2, <4>1, <4>2 DEF InTurn
    <3>3. CASE r # s /\ pc[r] \notin Live
      BY <2>3, <3>3 DEF InTurn, Live, Open, Executing
    <3>4. QED
      BY <3>1, <3>2, <3>3
  <2>7. \A u \in Threads : Consistent(ckpt[u])'
    BY <2>1, <2>2, <2>3 DEF AllInv, TurnInv, Consistent
  <2>8. OwnReport'
    BY <2>2 DEF AllInv, TurnInv, OwnReport, RunStatus
  <2>9. QED
    BY <2>5, <2>6, <2>7, <2>8 DEF TurnInv
<1>2. CASE CheckPending(s)
  <2>1. pc[s] = "checking" /\ thread[s] \in Threads /\ ~given[s]
        /\ saw[s] \notin Streams /\ pc[s] \in Live
    BY <1>2 DEF CheckPending, AllInv, TypeOK, GateInv, Live, Open
  <2>2. /\ UNCHANGED <<ckpt, local, thread, given>>
        /\ \A r \in Streams : r # s => /\ pc'[r] = pc[r] /\ saw'[r] = saw[r]
                                       /\ event'[r] = event[r]
                                       /\ report'[r] = report[r]
        /\ \/ pc'[s] = "closed" /\ event'[s] = "resume_ignored"
           \/ /\ pc'[s] = "accepted" /\ event'[s] = event[s]
              /\ report'[s] = report[s]
              /\ saw'[s] = ckpt[thread[s]].by /\ ckpt[thread[s]].pending
    BY <1>2 DEF CheckPending, AllInv, TypeOK
  <2>3. Turns'
    BY <2>1, <2>2 DEF AllInv, TurnInv, Turns
  <2>4. ASSUME NEW r \in Streams
        PROVE  InTurn(r, ckpt[thread[r]])'
    <3>1. CASE r = s
      BY <2>1, <2>2, <3>1 DEF InTurn, Executing
    <3>2. CASE r # s
      BY <2>2, <3>2 DEF InTurn, AllInv, TurnInv
    <3>3. QED
      BY <3>1, <3>2
  <2>5. \A u \in Threads : Consistent(ckpt[u])'
    BY <2>1, <2>2 DEF AllInv, GateInv, ApprovalGate, TurnInv, Consistent
  <2>6. OwnReport'
    BY <2>2 DEF AllInv, TurnInv, OwnReport, RunStatus
  <2>7. QED
    BY <2>3, <2>4, <2>5, <2>6 DEF TurnInv
<1>3. CASE LoadResume(s)
  <2> DEFINE c == ckpt[thread[s]]
  <2>1. pc[s] = "accepted" /\ thread[s] \in Threads /\ pc[s] \in Live
    BY <1>3 DEF LoadResume, AllInv, TypeOK, Live, Open
  <2>2. c.pending /\ saw[s] = c.by /\ c.next = "human_review"
    BY <2>1 DEF AllInv, TurnInv, InTurn, GateInv
  <2>3. /\ UNCHANGED <<ckpt, thread, saw, event, report>>
        /\ \A r \in Streams : r # s => /\ pc'[r] = pc[r] /\ given'[r] = given[r]
                                       /\ local'[r] = local[r]
        /\ pc'[s] = "running" /\ given'[s] = TRUE /\ local'[s] = c
    BY <1>3, <2>2 DEF LoadResume, AllInv, TypeOK
  <2>4. Turns'
    BY <2>1, <2>3 DEF AllInv, TurnInv, Turns
  <2>5. ASSUME NEW r \in Streams
        PROVE  InTurn(r, ckpt[thread[r]])'
    <3>1. CASE r = s
      BY <2>2, <2>3, <3>1 DEF InTurn
    <3>2. CASE r # s
      BY <2>3, <3>2 DEF InTurn, AllInv, TurnInv
    <3>3. QED
      BY <3>1, <3>2
  <2>6. \A u \in Threads : Consistent(ckpt[u])'
    BY <2>3 DEF AllInv, TurnInv, Consistent
  <2>7. OwnReport'
    BY <2>3 DEF AllInv, TurnInv, OwnReport, RunStatus
  <2>8. QED
    BY <2>4, <2>5, <2>6, <2>7 DEF TurnInv
<1>4. CASE ReportFailure(s)
  <2>1. OwnReport'
    BY <1>4 DEF ReportFailure, Close, AllInv, TypeOK, TurnInv, OwnReport,
                RunStatus
  <2>2. QED
    BY <1>4, <2>1, MoveTurn DEF ReportFailure, Close, AllInv, TypeOK, Gone,
                                Live, Open
<1>5. CASE FinalSnapshot(s)
  <2> DEFINE c == ckpt[thread[s]]
  <2>1. pc[s] = "ended" /\ thread[s] \in Threads
    BY <1>5 DEF FinalSnapshot, AllInv, TypeOK
  <2>2. c \in Checkpoint /\ Consistent(c) /\ InTurn(s, c)
    BY <2>1 DEF AllInv, TurnInv, TypeOK
  <2>3. ~c.pending => c.by = s /\ c.next = "end"
    BY <2>1, <2>2 DEF InTurn
  <2>4. c.next = "end" => RunStatus(c) = IF c.needs
                                         THEN "completed_after_resume"
                                         ELSE "completed"
    BY <2>1, <2>2 DEF AllInv, GateInv, ApprovalGate, Consistent, RunStatus,
                      Checkpoint
  <2>5. /\ \A r \in Streams : r # s => event'[r] = event[r]
                                       /\ report'[r] = report[r]
        /\ report'[s] = c
        /\ event'[s] = "run_completed" => ~c.pending
    BY <1>5 DEF FinalSnapshot, Close, AllInv, TypeOK
  <2>6. OwnReport'
    BY <2>3, <2>4, <2>5 DEF AllInv, TurnInv, OwnReport, RunStatus
  <2>7. QED
    BY <1>5, <2>6, MoveTurn DEF FinalSnapshot, Close, AllInv, TypeOK, Gone,
                                Live, Open
<1>6. QED
  BY <1>1, <1>2, <1>3, <1>4, <1>5 DEF Handler

\* A disconnect, an abandoned stream or a failure keeps the turns.
LEMMA FaultTurn ==
  ASSUME AllInv, Exclusive, NEW s \in Streams, Fault(s)
  PROVE  TurnInv'
<1>1. OwnReport'
  BY DEF Fault, Disconnect, Abandon, Fail, SnapshotFails, Close, AllInv,
         TypeOK, TurnInv, OwnReport, RunStatus
<1>2. \A r \in Streams : \/ pc'[r] = pc[r]
                         \/ pc[r] \in Live /\ pc'[r] \in Gone \cup {"failed"}
                         \/ pc[r] = "running" /\ pc'[r] = "orphan"
  BY DEF Fault, Disconnect, Abandon, Fail, SnapshotFails, Close, AllInv,
         TypeOK, Live, Open, Gone, Executing
<1>3. UNCHANGED <<ckpt, local, thread, saw, given>>
  BY DEF Fault, Disconnect, Abandon, Fail, SnapshotFails, Close
<1>4. QED
  BY <1>1, <1>2, <1>3, MoveTurn

\* At the start nobody has a turn.
LEMMA TurnInvInit == Init => TurnInv
<1> SUFFICES ASSUME Init PROVE TurnInv
  OBVIOUS
<1>1. Turns /\ OwnReport
  BY DEF Init, Turns, Live, Open, OwnReport
<1>2. \A s \in Streams : InTurn(s, ckpt[thread[s]])
  BY DEF Init, InTurn, Executing
<1>3. \A t \in Threads : Consistent(ckpt[t])
  BY DEF Init, Consistent, NoCheckpoint
<1>4. QED
  BY <1>1, <1>2, <1>3 DEF TurnInv

\* Every step keeps the turns.
LEMMA TurnInvNext == AllInv /\ [Next]_vars => TurnInv'
<1> SUFFICES ASSUME AllInv, [Next]_vars, Exclusive PROVE TurnInv'
  BY DEF TurnInv
<1>1. ASSUME NEW s \in Streams,
             Client(s) \/ Handler(s) \/ Node(s) \/ Fault(s)
      PROVE  TurnInv'
  BY <1>1, ClientTurn, HandlerTurn, NodeTurn, FaultTurn
<1>2. CASE Crash
  <2>1. OwnReport'
    BY <1>2 DEF Crash, AllInv, TurnInv, OwnReport, RunStatus
  <2>2. QED
    BY <1>2, <2>1, MoveTurn DEF Crash, Gone
<1>3. CASE Finished \/ UNCHANGED vars
  <2>1. OwnReport'
    BY <1>3 DEF Finished, vars, AllInv, TurnInv, OwnReport, RunStatus
  <2>2. QED
    BY <1>3, <2>1, MoveTurn DEF Finished, vars
<1>4. QED
  BY <1>1, <1>2, <1>3 DEF Next

\* The three invariants together hold throughout: what the properties of
\* the handlers and of the graph below rest on.
THEOREM Invariance == Spec => []AllInv
<1>1. Init /\ TypeOK => AllInv
  BY GateInvInit, TurnInvInit DEF AllInv
<1>2. AllInv /\ TypeOK' /\ [Next]_vars => AllInv'
  BY GateInvNext, TurnInvNext DEF AllInv
<1>3. QED
  BY <1>1, <1>2, TypeCorrect, PTL DEF Spec
-----------------------------------------------------------------------------
(* What follows *)

\* The answer that ended a run on a thread whose requests take turns is from a
\* client whose resume request found the interrupt of this very decision: the
\* check in resume_and_stream and the load of the graph see the same checkpoint.
THEOREM AnswersMatch == Spec => []AnswerMatchesPrompt
<1>1. AllInv => AnswerMatchesPrompt
  BY DEF AllInv, TurnInv, Consistent, AnswerMatchesPrompt
<1>2. QED
  BY <1>1, Invariance, PTL

\* On a thread whose requests take turns, run_completed reports the end of the
\* stream's own execution with the status that fits its decision: the handlers'
\* last aget_state reads what their own graph wrote.
THEOREM ReportsAreOwn == Spec => []OwnReport
<1>1. AllInv => OwnReport
  BY DEF AllInv, TurnInv, OwnReport
<1>2. QED
  BY <1>1, Invariance, PTL

\* How the checkpoints change: by a node that works, by an answer, by an
\* interrupt or by a new run.
CheckpointStep ==
  \E t \in Threads, c \in Checkpoint :
    /\ ckpt' = [ckpt EXCEPT ![t] = c]
    /\ \/ /\ Phase(ckpt[t]) = "working" /\ ~ckpt[t].pending
          /\ Phase(c) \in {"working", "decided", "finished"}
       \/ /\ Phase(ckpt[t]) = "asked" /\ Phase(c) = "answered"
          /\ c.next = "end" /\ c.answer \in Streams
          /\ saw[c.answer] = ckpt[t].decider /\ saw' = saw
       \/ /\ Phase(ckpt[t]) = "decided" /\ Phase(c) = "asked"
          /\ ~ckpt[t].pending
       \/ c.next = "compliance_before"

\* How one step of the service may change the checkpoints.
LEMMA CheckpointSteps ==
  ASSUME AllInv, Exclusive, [Next]_vars
  PROVE  UNCHANGED ckpt \/ CheckpointStep
<1>1. ASSUME NEW s \in Streams, Node(s)
      PROVE  CheckpointStep
  <2>1. CASE \/ ComplianceBefore(s) \/ EmptyPortfolioFinalize(s)
             \/ Round1(s) \/ Mediator(s) \/ FinalJudge(s)
    BY <2>1, WorkingNode DEF Write, CheckpointStep
  <2>2. CASE HumanReviewReturns(s)
    <3>1. PICK c \in Checkpoint :
            /\ Write(s, c) /\ thread[s] \in Threads
            /\ Phase(ckpt[thread[s]]) = "asked" /\ Phase(c) = "answered"
            /\ c.next = "end" /\ c.answer = s
            /\ saw[s] = ckpt[thread[s]].decider
      BY <2>2, AnsweringNode
    <3>2. ckpt' = [ckpt EXCEPT ![thread[s]] = c] /\ saw' = saw
      BY <3>1 DEF Write
    <3>3. QED
      BY <3>1, <3>2 DEF CheckpointStep
  <2>3. CASE HumanReviewAsks(s)
    <3> DEFINE t == thread[s]
               c == [ckpt[t] EXCEPT !.pending = TRUE]
    <3>1. /\ t \in Threads /\ ckpt[t].next = "human_review"
          /\ ~ckpt[t].pending
          /\ ckpt' = [ckpt EXCEPT ![t].pending = TRUE]
      BY <2>3, AskingNode
    <3>2. ckpt[t] \in Checkpoint /\ ckpt \in [Threads -> Checkpoint]
      BY <3>1 DEF AllInv, TypeOK
    <3>3. c \in Checkpoint /\ c.next = "human_review" /\ c.pending = TRUE
      BY <3>1, <3>2 DEF Checkpoint
    <3>4. ckpt' = [ckpt EXCEPT ![t] = c]
      BY <3>1, <3>2
    <3>5. Phase(ckpt[t]) = "decided" /\ Phase(c) = "asked"
      BY <3>1, <3>3 DEF Phase
    <3>6. QED
      BY <3>1, <3>3, <3>4, <3>5 DEF CheckpointStep
  <2>4. QED
    BY <1>1, <2>1, <2>2, <2>3 DEF Node
<1>2. ASSUME NEW s \in Streams, Handler(s)
      PROVE  UNCHANGED ckpt \/ CheckpointStep
  <2>1. CASE LoadInput(s)
    BY <2>1, LoadedInput DEF CheckpointStep
  <2>2. CASE ~LoadInput(s)
    BY <1>2, <2>2 DEF Handler, CheckPending, LoadResume, ReportFailure,
                      FinalSnapshot, Close
  <2>3. QED
    BY <2>1, <2>2
<1>3. ASSUME NEW s \in Streams, Client(s) \/ Fault(s)
      PROVE  UNCHANGED ckpt
  BY <1>3 DEF Client, RequestRun, RequestResume, Fault, Disconnect, Abandon,
              Fail, SnapshotFails, Close
<1>4. CASE Crash \/ Finished \/ UNCHANGED vars
  BY <1>4 DEF Crash, Finished, vars
<1>5. QED
  BY <1>1, <1>2, <1>3, <1>4 DEF Next

\* On a thread whose requests take turns, a pending review outlives failures,
\* disconnects and process deaths: it goes with its answer or with a new run.
THEOREM PendingReviewsSettle == Spec => PendingReviewSettled
<1> DEFINE Settles == Exclusive => \A t \in Threads :
       ckpt[t].pending /\ ~ckpt'[t].pending =>
         \/ /\ ckpt'[t].next = "end" /\ ckpt'[t].answer \in Streams
            /\ saw[ckpt'[t].answer] = ckpt[t].decider
         \/ ckpt'[t].next = "compliance_before"
<1>1. AllInv /\ [Next]_vars => Settles
  <2> SUFFICES ASSUME AllInv, [Next]_vars, Exclusive,
                      NEW t \in Threads, ckpt[t].pending, ~ckpt'[t].pending
               PROVE  \/ /\ ckpt'[t].next = "end"
                         /\ ckpt'[t].answer \in Streams
                         /\ saw[ckpt'[t].answer] = ckpt[t].decider
                      \/ ckpt'[t].next = "compliance_before"
    OBVIOUS
  <2>1. PICK u \in Threads, c \in Checkpoint :
              /\ ckpt' = [ckpt EXCEPT ![u] = c]
              /\ \/ ~ckpt[u].pending
                 \/ /\ c.next = "end" /\ c.answer \in Streams
                    /\ saw[c.answer] = ckpt[u].decider
                 \/ c.next = "compliance_before"
    BY CheckpointSteps DEF CheckpointStep
  <2>2. ckpt \in [Threads -> Checkpoint]
    BY DEF AllInv, TypeOK
  <2>3. t = u /\ ckpt'[t] = c
    BY <2>1, <2>2
  <2>4. QED
    BY <2>1, <2>3
<1>2. AllInv /\ [Next]_vars => [Settles]_vars
  BY <1>1
<1>3. QED
  BY <1>2, Invariance, PTL DEF Spec, PendingReviewSettled

\* When the requests of every thread take turns, the service implements the
\* review life cycle of ReviewGate: a decision that needs approval is put to
\* the user before it is answered, and is answered once.
THEOREM Implements == ASSUME Exclusive PROVE Spec => ImplementsReviewGate
<1> DEFINE phases == [t \in Threads |-> Phase(ckpt[t])]
<1>1. Init => Gate!Init
  BY DEF Init, Gate!Init, Phase, NoCheckpoint
<1>2. AllInv /\ [Next]_vars => [Gate!Next]_phases
  <2> SUFFICES ASSUME AllInv, [Next]_vars, phases' # phases
               PROVE  Gate!Next
    OBVIOUS
  <2>1. PICK t \in Threads, c \in Checkpoint :
              /\ ckpt' = [ckpt EXCEPT ![t] = c]
              /\ \/ /\ Phase(ckpt[t]) = "working"
                    /\ Phase(c) \in {"working", "decided", "finished"}
                 \/ Phase(ckpt[t]) = "asked" /\ Phase(c) = "answered"
                 \/ Phase(ckpt[t]) = "decided" /\ Phase(c) = "asked"
                 \/ c.next = "compliance_before"
    BY CheckpointSteps DEF CheckpointStep
  <2>2. phases' = [phases EXCEPT ![t] = Phase(c)] /\ phases[t] = Phase(ckpt[t])
    BY <2>1 DEF AllInv, TypeOK
  <2>3. c.next = "compliance_before" => Phase(c) = "working"
    BY DEF Phase
  <2>4. Phase(ckpt[t]) \in Gate!Phases
    BY DEF Phase, Gate!Phases
  <2>5. \/ Gate!Begin(t) \/ Gate!Decide(t) \/ Gate!Ask(t)
        \/ Gate!Answer(t) \/ Gate!Finish(t)
    BY <2>1, <2>2, <2>3, <2>4
    DEF Gate!Begin, Gate!Decide, Gate!Ask, Gate!Answer, Gate!Finish,
        Gate!Move, Gate!Phases
  <2>6. QED
    BY <2>1, <2>5 DEF Gate!Next
<1>3. QED
  BY <1>1, <1>2, Invariance, PTL DEF Spec, ImplementsReviewGate, Gate!Spec
==============================================================================
