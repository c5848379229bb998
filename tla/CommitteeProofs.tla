--------------------------- MODULE CommitteeProofs ---------------------------
(****************************************************************************)
(* Proofs about Committee and ExecutionPolicy, for every committee, every   *)
(* set of opinions, plans and weights and every limit: no vote is missing   *)
(* from a decision, a veto of compliance stands, only agents that spoke of an*)
(* unsettled subject are called again, and what was settled stays within    *)
(* its cap; the plans shown to the user are cash neutral, approach the      *)
(* target without passing it and sell losses before gains.                  *)
(****************************************************************************)
EXTENDS Committee, ExecutionPolicy, FiniteSums

Phases == {"round1", "mediator", "round2", "conclusion", "explanation",
           "decided", "delivered", "failed"}

Calls == {"idle", "queued", "running", "done", "failed"}

\* What the rounds keep: phases and calls are typed, and outside a round no
\* call is queued or running.
RoundsInv ==
  /\ phase \in Phases
  /\ call \in [Agents -> Calls]
  /\ ~InRound => \A a \in Agents : call[a] \notin {"queued", "running"}

\* A round starts with every call of the committee.
LEMMA RoundsInit == Init => RoundsInv
  BY DEF Init, RoundsInv, InRound, Phases, Calls

\* No step ends a round with a call that is queued or running.
LEMMA RoundsNext == RoundsInv /\ [Next]_vars => RoundsInv'
<1> SUFFICES ASSUME RoundsInv, [Next]_vars
             PROVE  RoundsInv'
  OBVIOUS
<1> USE DEF RoundsInv, InRound, Phases, Calls
<1>1. ASSUME NEW a \in Agents, Call(a)
      PROVE  RoundsInv'
  BY <1>1 DEF Call, Start, Answer, Raise
<1>2. CASE EndRound
  <2>1. \A a \in Agents : call[a] \notin {"queued", "running"}
    BY <1>2 DEF EndRound, In
  <2>2. phase' \in {"mediator", "conclusion", "failed"}
    BY <1>2 DEF EndRound, AfterRound
  <2> QED
    BY <2>1, <2>2, <1>2 DEF EndRound
<1>3. CASE Mediate
  <2>1. call' \in [Agents -> {"idle", "queued"}]
    BY <1>3 DEF Mediate
  <2>2. CASE recalled' = {}
    BY <2>1, <2>2, <1>3 DEF Mediate
  <2>3. CASE recalled' # {}
    BY <2>1, <2>3, <1>3 DEF Mediate
  <2> QED
    BY <2>2, <2>3
<1>4. CASE MediatorFails
  BY <1>4 DEF MediatorFails
<1>5. CASE Conclude
  <2>1. phase = "conclusion" /\ phase' = "explanation" /\ call' = call
    BY <1>5, Zenon DEF Conclude
  <2> QED
    BY <2>1
<1>6. CASE Fill
  BY <1>6 DEF Fill
<1>7. CASE FillFails
  BY <1>7 DEF FillFails
<1>8. CASE Deliver
  BY <1>8 DEF Deliver
<1>9. CASE UNCHANGED vars
  BY <1>9 DEF vars
<1> QED
  BY <1>1, <1>2, <1>3, <1>4, <1>5, <1>6, <1>7, <1>8, <1>9
     DEF Next, Judge, Finished

-----------------------------------------------------------------------------
\* Where compliance vetoes, rendering leaves nothing to execute and asks the
\* user, whichever conflicts the trades could resolve.
LEMMA VetoRendered ==
  ASSUME NEW consensus, NEW proceed, NEW tentative, NEW tickers, ~proceed,
         NEW decision \in RenderFinalDecision(consensus, proceed, tentative,
                                              tickers)
  PROVE  /\ decision.trades = NoTrades
         /\ decision.decision = "USER_DECISION_REQUIRED"
<1>1. PICK asked \in CashNeutralTrades(tentative) :
        decision = Rendered(Resolved(consensus, proceed, asked, tickers), asked)
  BY DEF RenderFinalDecision
<1>2. DetermineBranch(consensus, proceed) = "COMPLIANCE_VETO"
  BY DEF DetermineBranch
<1>3. DecisionOf("COMPLIANCE_VETO") = "USER_DECISION_REQUIRED"
  BY DEF DecisionOf
<1>4. Resolved(consensus, proceed, asked, tickers) = "COMPLIANCE_VETO"
  BY <1>2, <1>3 DEF Resolved
<1> QED
  BY <1>1, <1>3, <1>4 DEF Rendered

\* VetoStands, of whatever trades have been checked.
VetoInv ==
  phase \in {"explanation", "decided", "delivered"} =>
    \A asked : asked = checked /\ ~CanProceed(asked) =>
      /\ final.trades = NoTrades
      /\ final.decision = "USER_DECISION_REQUIRED"

\* Nothing has been decided before the conclusion.
LEMMA VetoInit == Init => VetoInv
  BY DEF Init, VetoInv

\* Only the conclusion decides, and it decides on what it has checked.
LEMMA VetoNext == VetoInv /\ [Next]_vars => VetoInv'
<1> SUFFICES ASSUME VetoInv, [Next]_vars
             PROVE  VetoInv'
  OBVIOUS
<1>1. CASE Conclude
  <2>1. PICK consensus, asked, tickers :
          /\ checked' = asked
          /\ final' \in RenderFinalDecision(consensus, CanProceed(asked),
                                            asked, tickers)
    BY <1>1, Zenon DEF Conclude, Proposed
  <2>2. ~CanProceed(asked) => /\ final'.trades = NoTrades
                               /\ final'.decision = "USER_DECISION_REQUIRED"
    BY <2>1, VetoRendered
  <2> QED
    BY <2>1, <2>2 DEF VetoInv
<1>2. ASSUME UNCHANGED <<checked, final>>,
             phase' \in {"explanation", "decided", "delivered"} =>
               phase \in {"explanation", "decided", "delivered"}
      PROVE  VetoInv'
  BY <1>2 DEF VetoInv
<1>3. ASSUME NEW a \in Agents, Call(a)
      PROVE  VetoInv'
  BY <1>2, <1>3 DEF Call, Start, Answer, Raise
<1>4. CASE EndRound
  BY <1>2, <1>4 DEF EndRound, AfterRound
<1>5. CASE Mediate \/ MediatorFails
  <2>1. UNCHANGED <<checked, final>>
    BY <1>5 DEF Mediate, MediatorFails
  <2>2. phase' \in {"failed", "conclusion", "round2"}
    BY <1>5 DEF Mediate, MediatorFails
  <2> QED
    BY <1>2, <2>1, <2>2
<1>6. CASE Fill \/ FillFails
  BY <1>2, <1>6 DEF Fill, FillFails
<1>7. CASE Deliver
  BY <1>2, <1>7 DEF Deliver
<1>8. CASE UNCHANGED vars
  BY <1>2, <1>8 DEF vars
<1> QED
  BY <1>1, <1>3, <1>4, <1>5, <1>6, <1>7, <1>8 DEF Next, Judge, Finished

\* A veto of compliance AFTER stands: nothing is executed and the user is
\* asked, whatever the votes, the candidate plan and the execution policy say
\* (render_rule_based_final_decision).
THEOREM VetoesStand == Spec => []VetoStands
<1>1. VetoInv => VetoStands
  BY DEF VetoInv, VetoStands
<1> QED
  BY <1>1, VetoInit, VetoNext, PTL DEF Spec

(***************************************************************************)
(* Who may be called again                                                 *)
(***************************************************************************)
LEMMA RatioOfAll ==
  ASSUME NEW r \in 0..10, NEW n \in Nat
  PROVE  r * n \in Nat /\ 10 * n >= r * n
<1>1. r \in {0, 1, 2, 3, 4, 5, 6, 7, 8, 9, 10}
  OBVIOUS
<1> QED BY <1>1

LEMMA VotesAreTyped ==
  ASSUME NEW opinions, IsFiniteSet(DOMAIN opinions),
         \A o \in DOMAIN opinions : opinions[o] \in Opinion, NEW subject
  PROVE  LET voters == Voters(opinions, subject)
         IN  /\ IsFiniteSet(voters) /\ voters \subseteq DOMAIN opinions
             /\ Cardinality(voters) \in Nat
             /\ Weight(opinions, voters) \in Nat
<1> DEFINE voters == Voters(opinions, subject)
<1>1. voters \subseteq DOMAIN opinions
  BY DEF Voters
<1>2. IsFiniteSet(voters) /\ Cardinality(voters) \in Nat
  BY <1>1, FS_Subset, FS_CardinalityType
<1> HIDE DEF voters
<1> DEFINE confidence == [o \in voters |-> opinions[o].confidence]
<1>3. \A o \in voters : confidence[o] \in Nat
  BY <1>1 DEF Opinion
<1> HIDE DEF confidence
<1>4. SumFunctionOnSet(confidence, voters) \in Nat
  BY <1>2, <1>3, SumIsNatural
<1>5. Weight(opinions, voters) = SumFunctionOnSet(confidence, voters)
  BY DEF Weight, SumFunction, confidence
<1> QED BY <1>1, <1>2, <1>4, <1>5 DEF voters

\* When all voters vote in one direction the score is the weight.
LEMMA OneDirection ==
  ASSUME NEW opinions, IsFiniteSet(DOMAIN opinions),
         \A o \in DOMAIN opinions : opinions[o] \in Opinion, NEW subject,
         NEW s \in {-1, 1},
         \A o \in Voters(opinions, subject) : Sign(opinions[o].magnitude) = s
  PROVE  LET voters == Voters(opinions, subject)
         IN  Direction(opinions, voters) = s * Weight(opinions, voters)
<1> DEFINE voters == Voters(opinions, subject)
<1>1. voters \subseteq DOMAIN opinions /\ IsFiniteSet(voters)
  BY VotesAreTyped
<1>2. \A o \in voters : opinions[o].confidence \in Int /\ Sign(opinions[o].magnitude) = s
  BY <1>1 DEF Opinion
<1> HIDE DEF voters
<1> DEFINE confidence == [o \in voters |-> opinions[o].confidence]
           signed == [o \in voters |-> Sign(opinions[o].magnitude) * opinions[o].confidence]
<1>3. \A o \in voters : confidence[o] \in Int /\ signed[o] = s * confidence[o]
  BY <1>2
<1>4. /\ Weight(opinions, voters) = SumFunctionOnSet(confidence, voters)
      /\ Direction(opinions, voters) = SumFunctionOnSet(signed, voters)
  BY DEF Weight, Direction, SumFunction
<1> HIDE DEF confidence, signed
<1>5. SumFunctionOnSet(signed, voters) = s * SumFunctionOnSet(confidence, voters)
  BY <1>1, <1>3, SumOfMultiples
<1> QED BY <1>4, <1>5 DEF voters

\* A subject is in conflict only between voters of different directions.
LEMMA ConflictHasTwoSides ==
  ASSUME NEW opinions, IsFiniteSet(DOMAIN opinions),
         \A o \in DOMAIN opinions : opinions[o] \in Opinion, NEW subject,
         ClassifyBranch(opinions, subject) = "conflict",
         NEW a \in Voters(opinions, subject)
  PROVE  \E b \in Voters(opinions, subject) :
           Sign(opinions[b].magnitude) # Sign(opinions[a].magnitude)
<1> DEFINE voters == Voters(opinions, subject)
           n == Cardinality(voters)
           weight == Weight(opinions, voters)
           holds == {o \in voters : opinions[o].magnitude = 0}
           score == 10 * Abs(Direction(opinions, voters))
           s == Sign(opinions[a].magnitude)
<1> SUFFICES ASSUME \A b \in voters : Sign(opinions[b].magnitude) = s
             PROVE  FALSE
  OBVIOUS
<1>1. voters \subseteq DOMAIN opinions /\ n \in Nat /\ weight \in Nat
  BY VotesAreTyped
<1>2. \A b \in voters : opinions[b].magnitude \in Int
  BY <1>1 DEF Opinion
<1>3. s \in {-1, 0, 1}
  BY DEF Sign
<1>4. /\ ~(n < 2 \/ weight < ConfidenceSum)
      /\ ~(10 * Cardinality(holds) >= HoldRatio * n)
      /\ ~(score >= StrongScore * weight)
  BY DEF ClassifyBranch
<1>5. 10 * n >= HoldRatio * n /\ 10 * weight >= StrongScore * weight
  BY <1>1, RatioOfAll, ConsensusAssumption
<1>6. CASE s = 0
  <2>1. holds = voters
    BY <1>2, <1>6 DEF Sign
  <2> QED BY <1>4, <1>5, <2>1
<1>7. CASE s # 0
  <2>1. s \in {-1, 1}
    BY <1>3, <1>7
  <2>2. Direction(opinions, voters) = s * weight
    BY <2>1, OneDirection
  <2>3. Abs(Direction(opinions, voters)) = weight
    BY <1>1, <2>1, <2>2 DEF Abs
  <2> QED BY <1>4, <1>5, <2>3
<1> QED BY <1>6, <1>7

\* What has been said is an opinion of an agent, every agent has spoken in
\* round 1 when the mediator is asked, and nobody is called again before.
SaidInv ==
  /\ DOMAIN said \subseteq Agents \X {1, 2}
  /\ \A x \in DOMAIN said : said[x] \in Opinions
  /\ recalled \subseteq Agents
  /\ plan \in Plans
  /\ phase = "round1" =>
       /\ recalled = {}
       /\ \A a \in Agents : call[a] # "idle"
       /\ \A a \in Agents : call[a] = "done" => <<a, 1>> \in DOMAIN said
  /\ phase = "mediator" => recalled = {}
  /\ phase = "mediator" \/ recalled # {} =>
       \A a \in Agents : <<a, 1>> \in DOMAIN said

LEMMA SaidInit == Init => SaidInv
BY DEF Init, SaidInv

\* What an answer adds.
LEMMA AnswerSaid ==
  ASSUME SaidInv, NEW a \in Agents, Answer(a)
  PROVE  /\ phase \in {"round1", "round2"} /\ call[a] = "running"
         /\ DOMAIN said' = DOMAIN said \cup {<<a, Round>>}
         /\ \A x \in DOMAIN said \ {<<a, Round>>} : said'[x] = said[x]
         /\ said'[<<a, Round>>] \in Opinions
BY DEF Answer, InRound

LEMMA SaidNext == RoundsInv /\ SaidInv /\ [Next]_vars => SaidInv'
<1> SUFFICES ASSUME RoundsInv, SaidInv, [Next]_vars
             PROVE  SaidInv'
  OBVIOUS
<1>1. ASSUME NEW a \in Agents, Start(a) \/ Raise(a)
      PROVE  SaidInv'
  <2>1. call' \in [Agents -> Calls] /\ UNCHANGED <<phase, said, recalled, plan>>
    BY <1>1 DEF RoundsInv, Start, Raise, Calls
  <2>2. \A b \in Agents : /\ call'[b] = "done" => call[b] = "done"
                          /\ call'[b] = "idle" => call[b] = "idle"
    BY <1>1 DEF RoundsInv, Start, Raise, Calls
  <2> QED BY <2>1, <2>2 DEF SaidInv
<1>2. ASSUME NEW a \in Agents, Answer(a)
      PROVE  SaidInv'
  <2>1. /\ call' = [call EXCEPT ![a] = "done"]
        /\ UNCHANGED <<phase, recalled, plan>>
    BY <1>2 DEF Answer
  <2>2. Round \in {1, 2} /\ (phase = "round1" => Round = 1)
    BY DEF Round
  <2>3. \A b \in Agents : b # a => call'[b] = call[b]
    BY <2>1 DEF RoundsInv
  <2>4. call'[a] = "done"
    BY <2>1 DEF RoundsInv
  <2>5. DOMAIN said' = DOMAIN said \cup {<<a, Round>>}
    BY <1>2, AnswerSaid
  <2>6. \A x \in DOMAIN said' : said'[x] \in Opinions
    BY <1>2, <2>5, AnswerSaid DEF SaidInv
  <2> QED BY <2>1, <2>2, <2>3, <2>4, <2>5, <2>6 DEF SaidInv
<1>3. CASE EndRound
  <2>1. UNCHANGED <<call, said, recalled, plan>> /\ phase \in {"round1", "round2"}
    BY <1>3 DEF EndRound, InRound
  <2>2. \A a \in Agents : call[a] \notin {"queued", "running"}
    BY <1>3 DEF EndRound, In
  <2>3. phase' = IF In("failed") # {} THEN "failed"
                 ELSE IF phase = "round1" THEN "mediator" ELSE "conclusion"
    BY <1>3 DEF EndRound, AfterRound
  <2>4. CASE phase' = "mediator"
    <3>1. phase = "round1" /\ \A a \in Agents : call[a] # "failed"
      BY <2>1, <2>3, <2>4 DEF In
    <3>2. \A a \in Agents : call[a] = "done"
      BY <2>2, <3>1 DEF SaidInv, RoundsInv, Calls
    <3> QED BY <2>1, <2>4, <3>1, <3>2 DEF SaidInv
  <2>5. CASE phase' \in {"failed", "conclusion"}
    BY <2>1, <2>5 DEF SaidInv
  <2> QED BY <2>3, <2>4, <2>5
<1>4. CASE Mediate
  <2>1. UNCHANGED <<said, plan>> /\ phase = "mediator" /\ phase' \in {"conclusion", "round2"}
    BY <1>4 DEF Mediate
  <2>2. recalled' \subseteq Agents
    <3>1. \E reply \in Replies : \E candidates : recalled' = Targets(reply, candidates)
      BY <1>4 DEF Mediate
    <3> QED BY <3>1 DEF Targets, Replies
  <2> QED BY <2>1, <2>2 DEF SaidInv
<1>5. CASE MediatorFails
  BY <1>5 DEF MediatorFails, SaidInv
<1>6. CASE Conclude
  <2>1. UNCHANGED <<call, said, recalled, plan>> /\ phase' = "explanation"
    BY <1>6, Zenon DEF Conclude
  <2> QED BY <2>1 DEF SaidInv
<1>7. CASE Fill \/ FillFails \/ Deliver
  <2>1. UNCHANGED <<call, said, recalled, plan>>
    BY <1>7 DEF Fill, FillFails, Deliver
  <2>2. phase' \in {"decided", "failed", "delivered"}
    BY <1>7 DEF Fill, FillFails, Deliver
  <2> QED BY <2>1, <2>2 DEF SaidInv
<1>8. CASE UNCHANGED vars
  BY <1>8 DEF vars, SaidInv
<1> QED
  BY <1>1, <1>2, <1>3, <1>4, <1>5, <1>6, <1>7, <1>8
     DEF Next, Judge, Finished, Call

\* Within a round the votes so far are those of the calls that are done; in
\* round 2 only the mediator's targets are called.
VotesInv ==
  /\ phase = "round1" => DOMAIN said = In("done") \X {1}
  /\ phase = "round2" =>
       /\ DOMAIN said = (Agents \X {1}) \cup (In("done") \X {2})
       /\ In("idle") = Agents \ recalled
  /\ phase \notin {"round1", "round2", "failed"} => DOMAIN said = Votes

\* At the start no call is done and nothing has been said.
LEMMA VotesInit == Init => VotesInv
BY DEF Init, VotesInv, In

\* An answer adds the vote of the call that becomes done, and a round that
\* ends well ends with every call done.
LEMMA VotesNext == RoundsInv /\ SaidInv /\ VotesInv /\ [Next]_vars => VotesInv'
<1> SUFFICES ASSUME RoundsInv, SaidInv, VotesInv, [Next]_vars
             PROVE  VotesInv'
  OBVIOUS
<1>1. ASSUME NEW a \in Agents, Start(a) \/ Raise(a)
      PROVE  VotesInv'
  <2>1. UNCHANGED <<phase, said, recalled>> /\ phase \in {"round1", "round2"}
    BY <1>1 DEF Start, Raise, InRound
  <2>2. In("done")' = In("done") /\ In("idle")' = In("idle")
    BY <1>1 DEF In, Start, Raise, RoundsInv
  <2> QED BY <2>1, <2>2 DEF VotesInv
<1>2. ASSUME NEW a \in Agents, Answer(a)
      PROVE  VotesInv'
  <2>1. UNCHANGED <<phase, recalled>> /\ phase \in {"round1", "round2"}
    BY <1>2 DEF Answer, InRound
  <2>2. In("done")' = In("done") \cup {a} /\ In("idle")' = In("idle")
    BY <1>2 DEF In, Answer, RoundsInv
  <2>3. DOMAIN said' = DOMAIN said \cup {<<a, Round>>}
    BY <1>2, AnswerSaid
  <2>4. Round = IF phase = "round1" THEN 1 ELSE 2
    BY DEF Round
  <2> QED BY <2>1, <2>2, <2>3, <2>4 DEF VotesInv
<1>3. CASE EndRound
  <2>1. UNCHANGED <<call, said, recalled>> /\ phase \in {"round1", "round2"}
    BY <1>3 DEF EndRound, InRound
  <2>2. phase' = IF In("failed") # {} THEN "failed"
                 ELSE IF phase = "round1" THEN "mediator" ELSE "conclusion"
    BY <1>3 DEF EndRound, AfterRound
  <2>3. In("queued") = {} /\ In("running") = {}
    BY <1>3 DEF EndRound
  <2>4. CASE In("failed") = {}
    <3>1. In("done") = Agents \ In("idle")
      BY <2>3, <2>4 DEF In, RoundsInv, Calls
    <3>2. CASE phase = "round1"
      <4>1. In("idle") = {} /\ recalled = {}
        BY <3>2 DEF SaidInv, In
      <4> QED BY <2>1, <2>2, <2>4, <3>1, <3>2, <4>1 DEF VotesInv, Votes
    <3>3. CASE phase = "round2"
      <4>1. In("idle") = Agents \ recalled /\ recalled \subseteq Agents
        BY <3>3 DEF VotesInv, SaidInv
      <4>2. In("done") = recalled
        BY <3>1, <4>1
      <4> QED BY <2>1, <2>2, <2>4, <3>3, <4>2 DEF VotesInv, Votes
    <3> QED BY <2>1, <3>2, <3>3
  <2>5. CASE In("failed") # {}
    BY <2>2, <2>5 DEF VotesInv
  <2> QED BY <2>4, <2>5
<1>4. CASE Mediate
  <2>1. UNCHANGED said /\ phase = "mediator"
    BY <1>4 DEF Mediate
  <2>2. phase' = IF recalled' = {} THEN "conclusion" ELSE "round2"
    BY <1>4 DEF Mediate
  <2>3. call' = [a \in Agents |-> IF a \in recalled' THEN "queued" ELSE "idle"]
    BY <1>4 DEF Mediate
  <2>4. In("done")' = {} /\ In("idle")' = Agents \ recalled'
    BY <2>3 DEF In
  <2>5. DOMAIN said = Agents \X {1}
    BY <2>1 DEF VotesInv, SaidInv, Votes
  <2> QED BY <2>1, <2>2, <2>4, <2>5 DEF VotesInv, Votes
<1>5. CASE MediatorFails \/ FillFails
  BY <1>5 DEF MediatorFails, FillFails, VotesInv
<1>6. CASE Conclude
  <2>1. UNCHANGED <<said, recalled>> /\ phase = "conclusion" /\ phase' = "explanation"
    BY <1>6, Zenon DEF Conclude
  <2> QED BY <2>1 DEF VotesInv, Votes
<1>7. CASE Fill \/ Deliver
  <2>1. UNCHANGED <<said, recalled>> /\ phase \in {"explanation", "decided"}
    BY <1>7 DEF Fill, Deliver
  <2>2. phase' \in {"decided", "failed", "delivered"}
    BY <1>7 DEF Fill, Deliver
  <2> QED BY <2>1, <2>2 DEF VotesInv, Votes
<1>8. CASE UNCHANGED vars
  BY <1>8 DEF vars, VotesInv, Votes, In
<1> QED
  BY <1>1, <1>2, <1>3, <1>4, <1>5, <1>6, <1>7, <1>8
     DEF Next, Judge, Finished, Call

\* No decision, and no mediator, sees the votes of half a round: every agent
\* that was called has voted once in the round it was called in, or the run
\* has failed (run_agent_callables_parallel).
THEOREM NoVoteMissing == Spec => []VotesAreComplete
<1>1. VotesInv => VotesAreComplete
  BY DEF VotesInv, VotesAreComplete
<1> QED
  BY <1>1, RoundsInit, RoundsNext, SaidInit, SaidNext, VotesInit, VotesNext,
     PTL DEF Spec

\* Whom the selection of targets leaves to the mediator's model.
LEMMA CandidatesDispute ==
  ASSUME NEW opinions, NEW candidates \in SelectTargets(opinions, ConsensusBySubject(opinions)),
         NEW a \in candidates
  PROVE  /\ a \in DOMAIN opinions /\ ~opinions[a].informational
         /\ opinions[a].confidence >= RecallConfidence
         /\ \E subject \in opinions[a].subjects :
              ClassifyBranch(opinions, subject) = "conflict"
<1>1. a \in Disputants(opinions, ConsensusBySubject(opinions))
  BY DEF SelectTargets
<1>2. PICK subject \in opinions[a].subjects :
        subject \in Conflicts(ConsensusBySubject(opinions))
  BY <1>1 DEF Disputants
<1>3. ClassifyBranch(opinions, subject) = "conflict"
  BY <1>2 DEF Conflicts, ConsensusBySubject
<1> QED BY <1>1, <1>2, <1>3 DEF Disputants

LEMMA RecallInit == Init => RecallJustified
BY DEF Init, RecallJustified

LEMMA RecallNext ==
  RoundsInv /\ SaidInv /\ RecallJustified /\ [Next]_vars => RecallJustified'
<1> SUFFICES ASSUME RoundsInv, SaidInv, RecallJustified, [Next]_vars
             PROVE  RecallJustified'
  OBVIOUS
<1>1. CASE Mediate
  <2> DEFINE round1 == [a \in Agents |-> said[<<a, 1>>]]
  <2>1. PICK candidates \in SelectTargets(round1, ConsensusBySubject(round1)),
             reply \in Replies : recalled' = Targets(reply, candidates)
    BY <1>1 DEF Mediate
  <2>2. UNCHANGED said /\ phase = "mediator"
    BY <1>1 DEF Mediate
  <2>3. \A a \in Agents : round1[a] \in Opinion
    BY <2>2, CommitteeAssumption DEF SaidInv
  <2>4. DOMAIN round1 = Agents /\ IsFiniteSet(DOMAIN round1)
    BY CommitteeAssumption
  <2>5. \A a \in Agents : round1[a] = said[<<a, 1>>]
    OBVIOUS
  <2> HIDE DEF round1
  <2>6. ASSUME NEW a \in recalled'
        PROVE  /\ said[<<a, 1>>].confidence >= RecallConfidence
               /\ \E b \in Agents \ {a} :
                    /\ said[<<a, 1>>].subjects \cap said[<<b, 1>>].subjects # {}
                    /\ Sign(said[<<a, 1>>].magnitude) # Sign(said[<<b, 1>>].magnitude)
    <3>1. a \in candidates
      BY <2>1, <2>6 DEF Targets
    <3>2. /\ a \in Agents /\ ~round1[a].informational
          /\ round1[a].confidence >= RecallConfidence
      BY <2>4, <3>1, CandidatesDispute
    <3>3. PICK subject \in round1[a].subjects :
            ClassifyBranch(round1, subject) = "conflict"
      BY <3>1, CandidatesDispute
    <3>4. a \in Voters(round1, subject)
      BY <2>4, <3>2, <3>3 DEF Voters
    <3>5. PICK b \in Voters(round1, subject) :
            Sign(round1[b].magnitude) # Sign(round1[a].magnitude)
      BY <2>3, <2>4, <3>3, <3>4, ConflictHasTwoSides
    <3>6. b \in Agents \ {a} /\ subject \in round1[b].subjects
      BY <2>4, <3>5 DEF Voters
    <3>7. round1[a] = said[<<a, 1>>] /\ round1[b] = said[<<b, 1>>]
      BY <2>5, <3>2, <3>6
    <3>8. subject \in round1[a].subjects \cap round1[b].subjects
      BY <3>3, <3>6
    <3> QED BY <3>2, <3>5, <3>6, <3>7, <3>8
  <2> QED BY <2>2, <2>6 DEF RecallJustified
<1>2. ASSUME NEW a \in Agents, Answer(a)
      PROVE  RecallJustified'
  <2>1. UNCHANGED recalled
    BY <1>2 DEF Answer
  <2>2. CASE recalled = {}
    BY <2>1, <2>2 DEF RecallJustified
  <2>3. CASE recalled # {}
    <3>1. phase = "round2" /\ Round = 2
      BY <1>2, <2>3 DEF Answer, InRound, SaidInv, Round
    <3>2. \A b \in Agents : <<b, 1>> \in DOMAIN said
      BY <2>3 DEF SaidInv
    <3>3. ASSUME NEW b \in Agents
          PROVE  said'[<<b, 1>>] = said[<<b, 1>>]
      <4>1. <<b, 1>> \in DOMAIN said \ {<<a, Round>>}
        BY <3>1, <3>2
      <4> QED BY <1>2, <4>1, AnswerSaid
    <3>4. recalled \subseteq Agents
      BY DEF SaidInv
    <3> QED BY <2>1, <3>3, <3>4 DEF RecallJustified
  <2> QED BY <2>2, <2>3
<1>3. CASE UNCHANGED <<said, recalled>>
  BY <1>3 DEF RecallJustified
<1>4. ASSUME NEW a \in Agents, Start(a) \/ Raise(a)
      PROVE  UNCHANGED <<said, recalled>>
  BY <1>4 DEF Start, Raise
<1>5. CASE EndRound \/ MediatorFails \/ Fill \/ FillFails \/ Deliver
  BY <1>3, <1>5 DEF EndRound, MediatorFails, Fill, FillFails, Deliver
<1>6. CASE Conclude
  <2>1. UNCHANGED <<said, recalled>>
    BY <1>6, Zenon DEF Conclude
  <2> QED BY <1>3, <2>1
<1>7. CASE UNCHANGED vars
  BY <1>3, <1>7 DEF vars
<1> QED
  BY <1>1, <1>2, <1>3, <1>4, <1>5, <1>6, <1>7 DEF Next, Judge, Finished, Call

\* The mediator calls again only agents that spoke, with enough confidence, on a
\* subject that is in dispute (_parse_mediator_decision, select_recall_targets).
THEOREM RecallsAreJustified == Spec => []RecallJustified
<1>1. Init => RoundsInv /\ SaidInv /\ RecallJustified
  BY RoundsInit, SaidInit, RecallInit
<1>2. RoundsInv /\ SaidInv /\ RecallJustified /\ [Next]_vars
        => (RoundsInv /\ SaidInv /\ RecallJustified)'
  BY RoundsNext, SaidNext, RecallNext
<1> QED BY <1>1, <1>2, PTL DEF Spec

(***************************************************************************)
(* Rounding and balancing                                                  *)
(***************************************************************************)
LEMMA RoundedIsInteger ==
  ASSUME NEW n \in Int, NEW d \in Nat \ {0}, NEW k \in Rounded(n, d)
  PROVE  k \in Int /\ 2 * (k * d - n) <= d /\ 2 * (n - k * d) <= d
<1>1. k \in Int
  BY DEF Rounded
<1>2. 2 * Abs(k * d - n) <= d /\ k * d \in Int
  BY <1>1 DEF Rounded
<1> QED BY <1>1, <1>2 DEF Abs

\* Rounding does not pass an integer.
LEMMA RoundedStays ==
  ASSUME NEW n \in Int, NEW d \in Nat \ {0}, NEW k \in Rounded(n, d), NEW m \in Int
  PROVE  /\ n <= m * d => k <= m
         /\ m * d <= n => m <= k
<1>1. k \in Int /\ k * d \in Int /\ 2 * (k * d - n) <= d /\ 2 * (n - k * d) <= d
  BY RoundedIsInteger
<1>2. (m + 1) * d = m * d + d /\ (m - 1) * d = m * d - d /\ m * d \in Int
  OBVIOUS
<1>3. ASSUME n <= m * d, ~(k <= m)
      PROVE  FALSE
  <2>1. (m + 1) * d <= k * d
    BY <1>1, <1>3, ProductIsMonotonic
  <2> QED BY <1>1, <1>2, <1>3, <2>1
<1>4. ASSUME m * d <= n, ~(m <= k)
      PROVE  FALSE
  <2>1. k * d <= (m - 1) * d
    BY <1>1, <1>4, ProductIsMonotonic
  <2> QED BY <1>1, <1>2, <1>4, <2>1
<1> QED BY <1>3, <1>4

\* A delta scaled by total / side, where total is not more than side, keeps its
\* sign and does not grow.
LEMMA ScaledDown ==
  ASSUME NEW t \in Int, NEW total \in Nat, NEW side \in Nat \ {0}, total <= side,
         NEW k \in Rounded(t * total, side), k # 0
  PROVE  k \in Int /\ Sign(k) = Sign(t) /\ Abs(k) <= Abs(t)
<1>1. t * total \in Int /\ k \in Int
  BY RoundedIsInteger
<1>2. CASE t >= 0
  <2>1. 0 * side <= t * total /\ t * total <= t * side
    <3>1. total * t <= side * t /\ 0 * total <= t * total
      BY <1>2, ProductIsMonotonic
    <3> QED BY <3>1
  <2>2. 0 <= k /\ k <= t
    BY <1>1, <2>1, RoundedStays
  <2> QED BY <1>1, <1>2, <2>2 DEF Sign, Abs
<1>3. CASE t <= 0
  <2>1. t * side <= t * total /\ t * total <= 0 * side
    <3>1. total * (-t) <= side * (-t)
      BY <1>3, ProductIsMonotonic
    <3>2. t * total <= 0 * total
      BY <1>3, ProductIsMonotonic
    <3>3. total * (-t) = -(t * total) /\ side * (-t) = -(t * side)
      OBVIOUS
    <3> QED BY <1>1, <3>1, <3>2, <3>3
  <2>2. t <= k /\ k <= 0
    BY <1>1, <2>1, RoundedStays
  <2> QED BY <1>1, <1>3, <2>2 DEF Sign, Abs
<1> QED BY <1>2, <1>3

LEMMA ExecutableChooses ==
  ASSUME NEW options, NEW f \in Executable(options)
  PROVE  /\ DOMAIN f \subseteq DOMAIN options
         /\ \A x \in DOMAIN f : f[x] \in options[x] /\ f[x] # 0
BY DEF Executable, Restrict

LEMMA SidesAreNatural ==
  ASSUME NEW f, IsDeltas(f)
  PROVE  Bought(f) \in Nat /\ Sold(f) \in Nat
<1> DEFINE up == {x \in DOMAIN f : f[x] > 0}
           down == {x \in DOMAIN f : f[x] < 0}
<1>1. IsFiniteSet(up) /\ IsFiniteSet(down)
  BY FS_Subset DEF IsDeltas
<1>2. SumFunctionOnSet(f, up) \in Nat
  <2>1. \A x \in up : f[x] \in Nat
    BY DEF IsDeltas
  <2> QED BY <1>1, <2>1, SumIsNatural
<1> DEFINE minus == [x \in down |-> -f[x]]
<1>3. \A x \in down : f[x] \in Int /\ minus[x] \in Nat /\ minus[x] = (-1) * f[x]
  BY DEF IsDeltas
<1> HIDE DEF minus
<1>4. SumFunctionOnSet(minus, down) \in Nat
  BY <1>1, <1>3, SumIsNatural
<1>5. SumFunctionOnSet(minus, down) = (-1) * SumFunctionOnSet(f, down)
  BY <1>1, <1>3, SumOfMultiples
<1>6. SumFunctionOnSet(f, down) \in Int
  BY <1>1, <1>3, SumIsInteger
<1>7. -SumFunctionOnSet(f, down) \in Nat
  <2> HIDE DEF down
  <2> QED BY <1>4, <1>5, <1>6
<1> QED BY <1>2, <1>7 DEF Bought, Sold

\* Balancing adds no trade, turns none around and, in the unit of the deltas,
\* enlarges none.
LEMMA BalancedWithin ==
  ASSUME NEW f, IsDeltas(f), NEW unit \in Nat \ {0}, NEW g \in Balanced(f, unit)
  PROVE  /\ DOMAIN g \subseteq DOMAIN f
         /\ IsDeltas(g)
         /\ unit = 1 => \A x \in DOMAIN g :
                          Sign(g[x]) = Sign(f[x]) /\ Abs(g[x]) <= Abs(f[x])
<1> DEFINE buys == Bought(f)
           sells == Sold(f)
           total == IF buys < sells THEN buys ELSE sells
           side(x) == IF f[x] > 0 THEN buys ELSE sells
           options == [x \in DOMAIN f |-> Rounded(f[x] * total, unit * side(x))]
<1>1. buys \in Nat /\ sells \in Nat
  BY SidesAreNatural
<1>2. g \in IF total = 0 THEN {NoTrades} ELSE Executable(options)
  BY DEF Balanced
<1> HIDE DEF buys, sells
<1>3. CASE total = 0
  BY <1>2, <1>3, FS_EmptySet DEF NoTrades, IsDeltas
<1>4. CASE total # 0
  <2>1. DOMAIN g \subseteq DOMAIN f /\ \A x \in DOMAIN g : g[x] \in options[x] /\ g[x] # 0
    BY <1>2, <1>4, ExecutableChooses
  <2>2. ASSUME NEW x \in DOMAIN g
        PROVE  /\ g[x] \in Int
               /\ unit = 1 => Sign(g[x]) = Sign(f[x]) /\ Abs(g[x]) <= Abs(f[x])
    <3>1. g[x] \in Rounded(f[x] * total, unit * side(x)) /\ g[x] # 0 /\ f[x] \in Int
      BY <2>1 DEF IsDeltas
    <3>2. side(x) \in Nat \ {0} /\ total \in Nat /\ total <= side(x)
      BY <1>1, <1>4
    <3> HIDE DEF side, total
    <3>3. unit * side(x) \in Nat \ {0} /\ f[x] * total \in Int
      BY <3>1, <3>2
    <3>4. g[x] \in Int
      BY <3>1, <3>3, RoundedIsInteger
    <3>5. CASE unit = 1
      <4>1. unit * side(x) = side(x)
        BY <3>2, <3>5
      <4>2. g[x] \in Rounded(f[x] * total, side(x))
        BY <3>1, <4>1
      <4> QED BY <3>1, <3>2, <4>2, ScaledDown
    <3> QED BY <3>4, <3>5
  <2>3. IsFiniteSet(DOMAIN g)
    BY <2>1, FS_Subset DEF IsDeltas
  <2> QED BY <2>1, <2>2, <2>3 DEF IsDeltas
<1> QED BY <1>3, <1>4

\* The trades of the votes: any number of opinions, each on some subjects.
LEMMA TentativeTradesAreDeltas ==
  ASSUME NEW opinions, IsFiniteSet(DOMAIN opinions),
         \A o \in DOMAIN opinions : opinions[o] \in Opinion,
         NEW f \in TentativeTrades(opinions, ConsensusBySubject(opinions))
  PROVE  IsDeltas(f)
<1> DEFINE consensus == ConsensusBySubject(opinions)
           agreed == {x \in DOMAIN consensus \ {"PORTFOLIO"} :
                        consensus[x] \in {"strong_consensus", "weak_consensus"}}
           options == [x \in agreed |->
                         TradeConsensus(opinions, x, consensus[x] = "weak_consensus")]
<1>1. DOMAIN f \subseteq agreed /\ \A x \in DOMAIN f : f[x] \in options[x]
  <2>1. f \in Executable(options)
    BY DEF TentativeTrades
  <2> HIDE DEF options
  <2>2. DOMAIN f \subseteq DOMAIN options /\ \A x \in DOMAIN f : f[x] \in options[x]
    BY <2>1, ExecutableChooses
  <2> QED BY <2>2 DEF options
<1>2. IsFiniteSet(DOMAIN f)
  <2>1. DOMAIN consensus \subseteq Subjects
    BY DEF ConsensusBySubject, Discussed, Opinion
  <2>2. DOMAIN f \subseteq Subjects
    BY <1>1, <2>1
  <2> QED BY <2>2, ConsensusAssumption, FS_Subset
<1>3. ASSUME NEW x \in DOMAIN f
      PROVE  f[x] \in Int
  <2> DEFINE voters == {o \in Voters(opinions, x) : opinions[o].magnitude # 0}
             weight == Weight(opinions, voters)
             confidence == [o \in voters |-> opinions[o].confidence]
             terms == [o \in voters |-> opinions[o].magnitude * opinions[o].confidence]
             total == SumFunction(terms)
  <2>1. f[x] \in TradeConsensus(opinions, x, consensus[x] = "weak_consensus")
    BY <1>1
  <2>2. /\ IsFiniteSet(voters)
        /\ \A o \in voters : /\ opinions[o].magnitude \in Int
                             /\ opinions[o].confidence \in Nat
    <3>1. voters \subseteq DOMAIN opinions
      BY DEF Voters
    <3> QED BY <3>1, FS_Subset DEF Opinion
  <2>3. f[x] \in IF weight = 0 THEN {0}
                 ELSE Rounded(total, IF consensus[x] = "weak_consensus"
                                     THEN 2 * weight ELSE weight)
    BY <2>1 DEF TradeConsensus
  <2> HIDE DEF voters
  <2>4. \A o \in voters : confidence[o] \in Nat /\ terms[o] \in Int
    BY <2>2
  <2>5. weight = SumFunctionOnSet(confidence, voters) /\ total = SumFunctionOnSet(terms, voters)
    BY DEF Weight, SumFunction
  <2> HIDE DEF confidence, terms, weight, total
  <2>6. weight \in Nat /\ total \in Int
    BY <2>2, <2>4, <2>5, SumIsNatural, SumIsInteger
  <2>7. CASE weight = 0
    BY <2>3, <2>7
  <2>8. CASE weight # 0
    <3>1. PICK d \in Nat \ {0} : f[x] \in Rounded(total, d)
      BY <2>3, <2>6, <2>8
    <3> QED BY <2>6, <3>1, RoundedIsInteger
  <2> QED BY <2>7, <2>8
<1> QED BY <1>2, <1>3 DEF IsDeltas

LEMMA PlanTradesAreDeltas ==
  ASSUME NEW f, IsDeltas(f), NEW g \in CandidatePlanToTrades(f)
  PROVE  IsDeltas(g)
<1> DEFINE legs == {x \in DOMAIN f : Abs(f[x]) >= 10}
           cap(n) == IF n > MaxLeg THEN MaxLeg ELSE IF n < -MaxLeg THEN -MaxLeg ELSE n
           capped == [x \in legs |-> cap(f[x])]
<1>1. g \in Balanced(capped, 10)
  BY DEF CandidatePlanToTrades
<1>2. IsDeltas(capped)
  <2>1. IsFiniteSet(legs)
    BY FS_Subset DEF IsDeltas
  <2>2. \A x \in legs : capped[x] \in Int
    BY FinalJudgeAssumption DEF IsDeltas
  <2> QED BY <2>1, <2>2 DEF IsDeltas
<1> HIDE DEF capped
<1> QED BY <1>1, <1>2, BalancedWithin

\* What is rendered lies within what compliance was asked about.
LEMMA RenderedWithin ==
  ASSUME NEW consensus, NEW proceed, NEW tentative, IsDeltas(tentative), NEW tickers,
         NEW decision \in RenderFinalDecision(consensus, proceed, tentative, tickers)
  PROVE  \A x \in DOMAIN decision.trades :
           /\ x \in DOMAIN tentative
           /\ Sign(decision.trades[x]) = Sign(tentative[x])
           /\ Abs(decision.trades[x]) <= Abs(tentative[x])
<1>1. PICK f \in CashNeutralTrades(tentative) :
        decision = Rendered(Resolved(consensus, proceed, f, tickers), f)
  BY DEF RenderFinalDecision
<1>2. decision.trades \in {f, NoTrades}
  BY <1>1 DEF Rendered
<1>3. CASE decision.trades = NoTrades
  BY <1>3 DEF NoTrades
<1>4. CASE decision.trades = f
  <2>1. f \in Balanced(tentative, 1)
    BY DEF CashNeutralTrades
  <2>2. /\ DOMAIN f \subseteq DOMAIN tentative
        /\ \A x \in DOMAIN f : Sign(f[x]) = Sign(tentative[x]) /\ Abs(f[x]) <= Abs(tentative[x])
    BY <2>1, BalancedWithin
  <2> QED BY <1>4, <2>2
<1> QED BY <1>2, <1>3, <1>4

\* What compliance is asked about AFTER, and what becomes of it.
LEMMA ConcludeChecks ==
  ASSUME SaidInv, Conclude
  PROVE  /\ IsDeltas(checked')
         /\ \E consensus, proceed, tickers :
              final' \in RenderFinalDecision(consensus, proceed, checked', tickers)
<1> DEFINE consensus == ConsensusBySubject(said)
<1>1. PICK votes \in TentativeTrades(said, consensus),
           candidate \in CandidatePlanToTrades(plan),
           policy \in {NoTrades} \cup ExecutionPlans :
      \E own \in CashNeutralTrades(votes) :
        LET tentative == Tentative(consensus, own, candidate, policy)
        IN  /\ checked' = tentative
            /\ \E proceed, tickers :
                 final' \in RenderFinalDecision(consensus, proceed, tentative, tickers)
  BY Zenon DEF Conclude, Proposed
<1>2. PICK own \in CashNeutralTrades(votes) :
        /\ checked' = Tentative(consensus, own, candidate, policy)
        /\ \E proceed, tickers :
             final' \in RenderFinalDecision(consensus, proceed, checked', tickers)
  BY <1>1
<1>3. IsFiniteSet(DOMAIN said) /\ \A x \in DOMAIN said : said[x] \in Opinion
  <2>1. IsFiniteSet(Agents \X {1, 2})
    <3>1. IsFiniteSet({1} \cup {2})
      BY FS_Singleton, FS_AddElement
    <3>2. {1} \cup {2} = {1, 2}
      OBVIOUS
    <3> QED BY <3>1, <3>2, CommitteeAssumption, FS_Product
  <2> QED BY <2>1, CommitteeAssumption, FS_Subset DEF SaidInv
<1>4. IsDeltas(own)
  <2>1. IsDeltas(votes)
    BY <1>3, TentativeTradesAreDeltas
  <2> QED BY <2>1, BalancedWithin DEF CashNeutralTrades
<1>5. IsDeltas(candidate) /\ IsDeltas(policy)
  <2>1. IsDeltas(plan) /\ IsDeltas(NoTrades)
    BY CommitteeAssumption, FS_EmptySet DEF SaidInv, IsDeltas, NoTrades
  <2> QED BY <2>1, CommitteeAssumption, PlanTradesAreDeltas
<1>6. IsDeltas(checked')
  BY <1>2, <1>4, <1>5 DEF Tentative
<1> QED BY <1>2, <1>6

LEMMA OnlyConcludeJudges ==
  ASSUME [Next]_vars
  PROVE  Conclude \/ UNCHANGED <<checked, final>>
<1>1. ASSUME NEW a \in Agents, Call(a)
      PROVE  UNCHANGED <<checked, final>>
  BY <1>1 DEF Call, Start, Answer, Raise
<1>2. CASE EndRound \/ Mediate \/ MediatorFails \/ Fill \/ FillFails \/ Deliver
  BY <1>2 DEF EndRound, Mediate, MediatorFails, Fill, FillFails, Deliver
<1>3. CASE UNCHANGED vars
  BY <1>3 DEF vars
<1> QED BY <1>1, <1>2, <1>3 DEF Next, Judge, Finished

LEMMA WithinInit == Init => FinalWithinChecked
BY DEF Init, FinalWithinChecked, Undecided, Rendered, DecisionOf, NoTrades

LEMMA WithinNext == SaidInv /\ FinalWithinChecked /\ [Next]_vars => FinalWithinChecked'
<1> SUFFICES ASSUME SaidInv, FinalWithinChecked, [Next]_vars
             PROVE  FinalWithinChecked'
  OBVIOUS
<1>1. CASE Conclude
  BY <1>1, ConcludeChecks, RenderedWithin DEF FinalWithinChecked
<1>2. CASE UNCHANGED <<checked, final>>
  BY <1>2 DEF FinalWithinChecked
<1> QED BY <1>1, <1>2, OnlyConcludeJudges

\* Rendering balances the trades that compliance AFTER has checked once more, and
\* neither enlarges one nor turns one around (render_rule_based_final_decision).
THEOREM FinalsWithinChecked == Spec => []FinalWithinChecked
<1>1. Init => RoundsInv /\ SaidInv /\ FinalWithinChecked
  BY RoundsInit, SaidInit, WithinInit
<1>2. RoundsInv /\ SaidInv /\ FinalWithinChecked /\ [Next]_vars
        => (RoundsInv /\ SaidInv /\ FinalWithinChecked)'
  BY RoundsNext, SaidNext, WithinNext
<1> QED BY <1>1, <1>2, PTL DEF Spec

(***************************************************************************)
(* The two sides of a plan                                                 *)
(***************************************************************************)
\* The sum of the deltas is what is bought less what is sold.
LEMMA TotalIsSum ==
  ASSUME NEW f, IsDeltas(f)
  PROVE  /\ SumFunctionOnSet(f, DOMAIN f) \in Int
         /\ TotalOf(f) = SumFunctionOnSet(f, DOMAIN f)
<1> DEFINE D == DOMAIN f
           up == {x \in D : f[x] > 0}
           down == {x \in D : f[x] < 0}
           rest == D \ up
<1>1. IsFiniteSet(D) /\ \A x \in D : f[x] \in Int
  BY DEF IsDeltas
<1> HIDE DEF D
<1>2. IsFiniteSet(rest) /\ IsFiniteSet(up) /\ IsFiniteSet(down) /\ IsFiniteSet(rest \ down)
  BY <1>1, FS_Subset
<1>3. SumFunctionOnSet(f, D) = SumFunctionOnSet(f, up) + SumFunctionOnSet(f, rest)
  <2>1. up \in SUBSET D
    OBVIOUS
  <2> HIDE DEF up
  <2> QED BY <1>1, <2>1, SumOfParts
<1>4. SumFunctionOnSet(f, rest) =
        SumFunctionOnSet(f, down) + SumFunctionOnSet(f, rest \ down)
  <2>1. down \in SUBSET rest /\ \A x \in rest : f[x] \in Int
    BY <1>1
  <2> HIDE DEF down, rest
  <2> QED BY <1>2, <2>1, SumOfParts
<1>5. SumFunctionOnSet(f, rest \ down) = 0
  <2>1. \A x \in rest \ down : f[x] = 0
    BY <1>1
  <2> HIDE DEF down, rest
  <2> QED BY <1>2, <2>1, SumOfZeros
<1>6. SumFunctionOnSet(f, up) \in Int /\ SumFunctionOnSet(f, down) \in Int
  BY <1>1, <1>2, SumIsInteger
<1>7. TotalOf(f) = SumFunctionOnSet(f, up) - (-SumFunctionOnSet(f, down))
  BY DEF TotalOf, Bought, Sold, D
<1> HIDE DEF up, down, rest
<1>8. SumFunctionOnSet(f, D) \in Int /\ TotalOf(f) = SumFunctionOnSet(f, D)
  BY <1>3, <1>4, <1>5, <1>6, <1>7
<1> QED BY <1>8 DEF D

\* Where nothing is bought no delta is above 0.
LEMMA NothingBought ==
  ASSUME NEW f, IsDeltas(f), Bought(f) = 0, NEW x \in DOMAIN f
  PROVE  ~(f[x] > 0)
<1> DEFINE up == {y \in DOMAIN f : f[y] > 0}
<1> SUFFICES ASSUME x \in up
             PROVE  FALSE
  OBVIOUS
<1>1. IsFiniteSet(up) /\ IsFiniteSet(up \ {x}) /\ \A y \in up : f[y] \in Nat \ {0}
  BY FS_Subset DEF IsDeltas
<1>2. SumFunctionOnSet(f, up) = 0
  BY DEF Bought
<1> HIDE DEF up
<1>3. SumFunctionOnSet(f, up) = f[x] + SumFunctionOnSet(f, up \ {x})
  BY <1>1, SumWithout
<1>4. SumFunctionOnSet(f, up \ {x}) \in Nat
  BY <1>1, SumIsNatural
<1> QED BY <1>1, <1>2, <1>3, <1>4

\* Deltas of which the purchases are those of f times b and the sales those of
\* f times s.
LEMMA SidesTimes ==
  ASSUME NEW f, IsDeltas(f), NEW g, DOMAIN g = DOMAIN f,
         NEW b \in Nat \ {0}, NEW s \in Nat \ {0},
         \A x \in DOMAIN f : g[x] = f[x] * IF f[x] > 0 THEN b ELSE s
  PROVE  IsDeltas(g) /\ Bought(g) = b * Bought(f) /\ Sold(g) = s * Sold(f)
<1> DEFINE up == {x \in DOMAIN f : f[x] > 0}
           down == {x \in DOMAIN f : f[x] < 0}
<1>1. \A x \in DOMAIN f : f[x] \in Int /\ g[x] \in Int
  BY DEF IsDeltas
<1>2. \A x \in DOMAIN f : (g[x] > 0 <=> f[x] > 0) /\ (g[x] < 0 <=> f[x] < 0)
  <2> SUFFICES ASSUME NEW x \in DOMAIN f
               PROVE  (g[x] > 0 <=> f[x] > 0) /\ (g[x] < 0 <=> f[x] < 0)
    OBVIOUS
  <2>1. PICK m \in Nat \ {0} : g[x] = f[x] * m
    OBVIOUS
  <2>2. CASE f[x] > 0
    <3>1. m <= f[x] * m
      <4>1. 1 * m <= f[x] * m
        BY <1>1, <2>2, ProductIsMonotonic
      <4> QED BY <4>1
    <3> QED BY <1>1, <2>1, <2>2, <3>1
  <2>3. CASE f[x] < 0
    <3>1. f[x] * m <= (-1) * m
      BY <1>1, <2>3, ProductIsMonotonic
    <3> QED BY <1>1, <2>1, <2>3, <3>1
  <2>4. CASE f[x] = 0
    BY <2>1, <2>4
  <2> QED BY <1>1, <2>2, <2>3, <2>4
<1>3. up = {x \in DOMAIN g : g[x] > 0} /\ down = {x \in DOMAIN g : g[x] < 0}
  BY <1>2
<1>4. IsFiniteSet(up) /\ IsFiniteSet(down) /\ IsFiniteSet(DOMAIN g)
  BY FS_Subset DEF IsDeltas
<1>5. \A x \in up : f[x] \in Int /\ g[x] = b * f[x]
  BY <1>1
<1>6. \A x \in down : f[x] \in Int /\ g[x] = s * f[x]
  BY <1>1
<1>7. /\ Bought(f) = SumFunctionOnSet(f, up) /\ Sold(f) = -SumFunctionOnSet(f, down)
      /\ Bought(g) = SumFunctionOnSet(g, up) /\ Sold(g) = -SumFunctionOnSet(g, down)
  BY <1>3 DEF Bought, Sold
<1>8. IsDeltas(g)
  BY <1>1, <1>4 DEF IsDeltas
<1> HIDE DEF up, down
<1>9. /\ SumFunctionOnSet(g, up) = b * SumFunctionOnSet(f, up)
      /\ SumFunctionOnSet(g, down) = s * SumFunctionOnSet(f, down)
  BY <1>4, <1>5, <1>6, SumOfMultiples
<1>10. SumFunctionOnSet(f, down) \in Int
  BY <1>4, <1>6, SumIsInteger
<1>11. -(s * SumFunctionOnSet(f, down)) = s * (-SumFunctionOnSet(f, down))
  BY <1>10
<1> QED BY <1>7, <1>8, <1>9, <1>11

(***************************************************************************)
(* Plans are neutral                                                       *)
(***************************************************************************)
IsPlan(p) ==
  /\ p = [delta |-> p.delta, unit |-> p.unit]
  /\ IsDeltas(p.delta)
  /\ p.unit \in Nat \ {0}

\* A part of some deltas.
LEMMA PartOfDeltas ==
  ASSUME NEW f, IsDeltas(f), NEW S \in SUBSET DOMAIN f
  PROVE  /\ IsDeltas(Restrict(f, S)) /\ DOMAIN Restrict(f, S) = S
         /\ \A x \in S : Restrict(f, S)[x] = f[x]
BY FS_Subset DEF IsDeltas, Restrict

LEMMA NoDeltasNeutral == IsPlan(NoDeltas) /\ TotalOf(NoDeltas.delta) = 0
<1>1. DOMAIN NoTrades = {} /\ IsDeltas(NoTrades)
  BY FS_EmptySet DEF NoTrades, IsDeltas
<1>2. IsPlan(NoDeltas) /\ NoDeltas.delta = NoTrades
  BY <1>1 DEF IsPlan, NoDeltas
<1>3. TotalOf(NoTrades) = 0
  BY <1>1, TotalIsSum, SumOfNone
<1> QED BY <1>2, <1>3

LEMMA CappedIsPlan ==
  ASSUME NEW p, IsPlan(p), NEW cap \in Nat
  PROVE  IsPlan(CapAndFilter(p, cap))
<1> DEFINE capped(n) == IF n > cap * p.unit THEN cap * p.unit
                        ELSE IF n < -cap * p.unit THEN -cap * p.unit ELSE n
           delta == [x \in DOMAIN p.delta |-> capped(p.delta[x])]
           S == {x \in DOMAIN delta : Abs(delta[x]) >= MinDelta * p.unit}
<1>1. IsDeltas(delta)
  <2>1. cap * p.unit \in Int /\ -cap * p.unit \in Int
    BY DEF IsPlan
  <2> QED BY <2>1 DEF IsPlan, IsDeltas
<1>2. CapAndFilter(p, cap) = [p EXCEPT !.delta = Restrict(delta, S)]
  BY DEF CapAndFilter
<1>3. S \in SUBSET DOMAIN delta
  OBVIOUS
<1> HIDE DEF delta, S
<1>4. IsDeltas(Restrict(delta, S))
  BY <1>1, <1>3, PartOfDeltas
<1>5. CapAndFilter(p, cap) = [delta |-> Restrict(delta, S), unit |-> p.unit]
  BY <1>2 DEF IsPlan
<1> QED BY <1>4, <1>5 DEF IsPlan

LEMMA ScaledIsNeutral ==
  ASSUME NEW p, IsPlan(p), Bought(p.delta) > 0, Sold(p.delta) > 0
  PROVE  IsPlan(Scaled(p)) /\ TotalOf(Scaled(p).delta) = 0
<1> DEFINE f == p.delta
           buys == Bought(f)
           sells == Sold(f)
           less == IF buys < sells THEN buys ELSE sells
           more == IF buys < sells THEN sells ELSE buys
           b == IF buys = less THEN more ELSE less
           s == IF sells = less THEN more ELSE less
           g == [x \in DOMAIN f |->
                   f[x] * IF (IF f[x] > 0 THEN buys ELSE sells) = less THEN more ELSE less]
<1>1. IsDeltas(f) /\ buys \in Nat \ {0} /\ sells \in Nat \ {0}
  BY SidesAreNatural DEF IsPlan
<1>2. Scaled(p) = [delta |-> g, unit |-> p.unit * more]
  BY DEF Scaled
<1> HIDE DEF buys, sells
<1>3. /\ b \in Nat \ {0} /\ s \in Nat \ {0} /\ more \in Nat \ {0}
      /\ b * buys = s * sells /\ b * buys \in Int
  BY <1>1
<1>4. \A x \in DOMAIN f : g[x] = f[x] * IF f[x] > 0 THEN b ELSE s
  OBVIOUS
<1>5. DOMAIN g = DOMAIN f
  OBVIOUS
<1> HIDE DEF b, s, g, more
<1>6. IsDeltas(g) /\ Bought(g) = b * buys /\ Sold(g) = s * sells
  <2> HIDE DEF f
  <2>1. IsDeltas(g) /\ Bought(g) = b * Bought(f) /\ Sold(g) = s * Sold(f)
    BY <1>1, <1>3, <1>4, <1>5, SidesTimes
  <2> QED BY <2>1 DEF buys, sells
<1>7. TotalOf(g) = 0
  BY <1>3, <1>6 DEF TotalOf
<1>8. p.unit * more \in Nat \ {0}
  BY <1>3 DEF IsPlan
<1> QED BY <1>2, <1>6, <1>7, <1>8 DEF IsPlan

\* Who sells without buying buys for exactly as much.
LEMMA RepairIsNeutral ==
  ASSUME NEW p, IsPlan(p), Bought(p.delta) = 0, Sold(p.delta) > 0,
         IsDeltas(Gaps(portfolio.weight, portfolio.target))
  PROVE  IsPlan(RepairOneSidedSell(p)) /\ TotalOf(RepairOneSidedSell(p).delta) = 0
<1> DEFINE f == p.delta
           gap == Gaps(portfolio.weight, portfolio.target)
           eligible == {x \in DOMAIN gap \ DOMAIN f : gap[x] >= MinDelta}
           total == SumFunctionOnSet(gap, eligible)
           sells == Sold(f)
           g == [x \in DOMAIN f \cup eligible |->
                   IF x \in eligible THEN sells * gap[x] ELSE f[x] * total]
           down == {x \in DOMAIN f : f[x] < 0}
<1>1. /\ IsFiniteSet(eligible) /\ eligible \cap DOMAIN f = {}
      /\ \A x \in eligible : gap[x] \in Nat \ {0}
  BY FS_Subset DEF IsDeltas, MinDelta
<1>2. /\ \A x \in DOMAIN f : f[x] \in Int /\ ~(f[x] > 0)
      /\ sells \in Nat \ {0} /\ IsFiniteSet(DOMAIN f) /\ IsFiniteSet(down)
  BY NothingBought, SidesAreNatural, FS_Subset DEF IsPlan, IsDeltas
<1>3. RepairOneSidedSell(p) =
        IF total = 0 THEN NoDeltas ELSE [delta |-> g, unit |-> p.unit * total]
  BY DEF RepairOneSidedSell
<1>4. sells = -SumFunctionOnSet(f, down)
  BY DEF Sold
<1> HIDE DEF gap, eligible, sells
<1>5. total \in Nat
  BY <1>1, SumIsNatural
<1>6. CASE total = 0
  BY <1>3, <1>6, NoDeltasNeutral
<1>7. CASE total # 0
  <2> HIDE DEF total
  <2>1. \A x \in eligible : g[x] = sells * gap[x] /\ g[x] > 0 /\ gap[x] \in Int
    <3> SUFFICES ASSUME NEW x \in eligible
                 PROVE  g[x] = sells * gap[x] /\ g[x] > 0 /\ gap[x] \in Int
      OBVIOUS
    <3>1. 1 * gap[x] <= sells * gap[x]
      BY <1>1, <1>2, ProductIsMonotonic
    <3> QED BY <1>1, <1>2, <3>1
  <2>2. \A x \in DOMAIN f : /\ g[x] = total * f[x] /\ g[x] \in Int /\ ~(g[x] > 0)
                            /\ (g[x] < 0 <=> f[x] < 0)
    <3> SUFFICES ASSUME NEW x \in DOMAIN f
                 PROVE  /\ g[x] = total * f[x] /\ g[x] \in Int /\ ~(g[x] > 0)
                        /\ (g[x] < 0 <=> f[x] < 0)
      OBVIOUS
    <3>1. g[x] = f[x] * total
      BY <1>1
    <3> HIDE DEF g
    <3>2. CASE f[x] < 0
      <4>1. f[x] * total <= (-1) * total
        BY <1>2, <1>5, <3>2, ProductIsMonotonic
      <4> QED BY <1>2, <1>5, <1>7, <3>1, <3>2, <4>1
    <3>3. CASE f[x] = 0
      BY <1>5, <3>1, <3>3
    <3> QED BY <1>2, <3>2, <3>3
  <2>3. DOMAIN g = DOMAIN f \cup eligible
    OBVIOUS
  <2> HIDE DEF g
  <2>4. eligible = {x \in DOMAIN g : g[x] > 0} /\ down = {x \in DOMAIN g : g[x] < 0}
    BY <1>2, <2>1, <2>2, <2>3
  <2>5. Bought(g) = SumFunctionOnSet(g, eligible) /\ Sold(g) = -SumFunctionOnSet(g, down)
    BY <2>4 DEF Bought, Sold
  <2>6. SumFunctionOnSet(g, eligible) = sells * total
    BY <1>1, <1>2, <2>1, SumOfMultiples DEF total
  <2>7. SumFunctionOnSet(g, down) = total * SumFunctionOnSet(f, down)
    <3>1. \A x \in down : f[x] \in Int /\ g[x] = total * f[x]
      BY <1>2, <2>2
    <3> QED BY <1>2, <1>5, <3>1, SumOfMultiples
  <2>8. IsDeltas(g)
    <3>1. \A x \in DOMAIN g : g[x] \in Int
      BY <1>2, <2>1, <2>2, <2>3
    <3>2. IsFiniteSet(DOMAIN g)
      BY <1>1, <1>2, <2>3, FS_Union
    <3> QED BY <3>1, <3>2 DEF IsDeltas
  <2>9. SumFunctionOnSet(f, down) \in Int
    <3>1. \A x \in down : f[x] \in Int
      BY <1>2
    <3> QED BY <1>2, <3>1, SumIsInteger
  <2> HIDE DEF down
  <2>10. -(total * SumFunctionOnSet(f, down)) = sells * total
    BY <1>4, <1>5, <2>9
  <2>11. TotalOf(g) = 0
    BY <1>2, <1>5, <2>5, <2>6, <2>7, <2>10 DEF TotalOf
  <2>12. p.unit * total \in Nat \ {0}
    BY <1>5, <1>7 DEF IsPlan
  <2> QED BY <1>3, <1>7, <2>8, <2>11, <2>12 DEF IsPlan
<1> QED BY <1>6, <1>7

LEMMA NeutralizedIsNeutral ==
  ASSUME NEW p, IsPlan(p), NEW cap \in Nat,
         IsDeltas(Gaps(portfolio.weight, portfolio.target))
  PROVE  /\ IsPlan(CashNeutralizeDeltas(p, cap))
         /\ TotalOf(CashNeutralizeDeltas(p, cap).delta) = 0
<1> DEFINE raw == CapAndFilter(p, cap)
<1>1. IsPlan(raw)
  BY CappedIsPlan
<1>2. CashNeutralizeDeltas(p, cap) =
        IF Bought(raw.delta) > 0 /\ Sold(raw.delta) > 0 THEN Scaled(raw)
        ELSE IF Sold(raw.delta) > 0 THEN RepairOneSidedSell(raw) ELSE NoDeltas
  BY DEF CashNeutralizeDeltas
<1> HIDE DEF raw
<1>3. Bought(raw.delta) \in Nat /\ Sold(raw.delta) \in Nat
  BY <1>1, SidesAreNatural DEF IsPlan
<1>4. CASE Bought(raw.delta) > 0 /\ Sold(raw.delta) > 0
  BY <1>1, <1>2, <1>4, ScaledIsNeutral
<1>5. CASE Bought(raw.delta) = 0 /\ Sold(raw.delta) > 0
  BY <1>1, <1>2, <1>5, RepairIsNeutral
<1>6. CASE Sold(raw.delta) = 0
  BY <1>2, <1>6, NoDeltasNeutral
<1> QED BY <1>3, <1>4, <1>5, <1>6

(***************************************************************************)
(* Drafts                                                                  *)
(***************************************************************************)
LEMMA GapsAreDeltas ==
  ASSUME NEW w, IsDeltas(w), NEW t, IsDeltas(t)
  PROVE  IsDeltas(Gaps(w, t))
<1>1. IsFiniteSet(DOMAIN w \cup DOMAIN t)
  BY FS_Union DEF IsDeltas
<1>2. \A x : At(w, x) \in Int /\ At(t, x) \in Int
  BY DEF At, IsDeltas
<1> QED BY <1>1, <1>2 DEF Gaps, IsDeltas

\* What the deltas of a draft from signals do not sum to 0 by is less than the
\* smallest delta, and 0 unless the one that was to settle it is dropped.
LEMMA SettledIsNearlyNeutral ==
  ASSUME NEW f, IsDeltas(f), NEW n \in Nat \ {0}, NEW g \in Settled(f, n)
  PROVE  /\ IsDeltas(g) /\ Abs(TotalOf(g)) < MinTilt * n
         /\ TotalOf(g) # 0 => \E x \in Anchors(f) : DOMAIN g = DOMAIN f \ {x}
<1> DEFINE residual == TotalOf(f)
           kept == DOMAIN f
           settle(a) == [x \in kept |-> IF x = a THEN f[x] - residual ELSE f[x]]
           stays(a) == {y \in kept : y # a \/ Abs(settle(a)[y]) >= MinTilt * n}
<1>1. /\ residual \in Int /\ residual = SumFunctionOnSet(f, kept)
      /\ IsFiniteSet(kept) /\ \A x \in kept : f[x] \in Int
  BY TotalIsSum DEF IsDeltas
<1>2. g \in IF residual = 0 THEN {f}
           ELSE {Restrict(settle(a), stays(a)) : a \in Anchors(f)}
  BY DEF Settled, TotalOf
<1>3. MinTilt * n \in Nat \ {0}
  BY DEF MinTilt
<1>4. CASE residual = 0
  BY <1>2, <1>3, <1>4 DEF Abs
<1>5. CASE residual # 0
  <2>1. PICK a \in Anchors(f) : g = Restrict(settle(a), stays(a))
    BY <1>2, <1>5
  <2> a \in kept
    BY DEF Anchors
  <2> DEFINE h == settle(a)
             rest == kept \ {a}
  <2>2. /\ DOMAIN h = kept /\ h[a] = f[a] - residual /\ h[a] \in Int
        /\ \A x \in kept : h[x] \in Int
        /\ \A x \in rest : h[x] = f[x]
    <3> HIDE DEF residual
    <3> QED BY <1>1
  <2>3. stays(a) = IF Abs(h[a]) >= MinTilt * n THEN kept ELSE rest
    BY <2>1
  <2> HIDE DEF h, residual, kept
  <2>4. IsFiniteSet(rest)
    BY <1>1, FS_Subset
  <2>5. SumFunctionOnSet(h, kept) = h[a] + SumFunctionOnSet(h, rest)
    BY <1>1, <2>2, SumWithout
  <2>6. SumFunctionOnSet(f, kept) = f[a] + SumFunctionOnSet(f, rest)
    BY <1>1, SumWithout
  <2>7. /\ SumFunctionOnSet(h, rest) = SumFunctionOnSet(f, rest)
        /\ SumFunctionOnSet(f, rest) \in Int /\ f[a] \in Int
    BY <1>1, <2>2, <2>4, SumOfEqualTerms, SumIsInteger
  <2>8. SumFunctionOnSet(h, kept) = 0 /\ SumFunctionOnSet(h, rest) = -h[a]
    BY <1>1, <2>2, <2>5, <2>6, <2>7
  <2>9. IsDeltas(h)
    BY <1>1, <2>2 DEF IsDeltas
  <2>10. ASSUME NEW S \in SUBSET kept, g = Restrict(h, S)
         PROVE  IsDeltas(g) /\ DOMAIN g = S /\ TotalOf(g) = SumFunctionOnSet(h, S)
    <3>1. IsDeltas(g) /\ DOMAIN g = S /\ \A x \in S : g[x] = h[x]
      BY <2>2, <2>9, <2>10, PartOfDeltas
    <3>2. TotalOf(g) = SumFunctionOnSet(g, S)
      BY <3>1, TotalIsSum
    <3>3. IsFiniteSet(S) /\ \A x \in S : g[x] \in Int
      BY <3>1 DEF IsDeltas
    <3> QED BY <3>1, <3>2, <3>3, SumOfEqualTerms
  <2>11. g = Restrict(h, stays(a))
    BY <2>1 DEF h
  <2> HIDE DEF stays, rest
  <2>12. CASE Abs(h[a]) >= MinTilt * n
    <3>1. g = Restrict(h, kept)
      BY <2>3, <2>11, <2>12
    <3> QED BY <1>3, <2>8, <2>10, <3>1 DEF Abs
  <2>13. CASE ~(Abs(h[a]) >= MinTilt * n)
    <3>1. g = Restrict(h, rest)
      BY <2>3, <2>11, <2>13
    <3>2. IsDeltas(g) /\ DOMAIN g = rest /\ TotalOf(g) = -h[a]
      BY <2>8, <2>10, <3>1 DEF rest
    <3>3. Abs(TotalOf(g)) < MinTilt * n
      BY <1>3, <2>2, <2>13, <3>2 DEF Abs
    <3> QED BY <3>2, <3>3 DEF rest, kept
  <2> QED BY <2>12, <2>13
<1> QED BY <1>4, <1>5

LEMMA ActiveAreDeltas ==
  ASSUME NEW signals, IsDeltas(signals), NEW returns, IsDeltas(returns)
  PROVE  IsDeltas(Active(signals, returns))
<1> DEFINE strong(f) == {x \in DOMAIN f : Abs(f[x]) >= 10}
           own == strong(signals)
           both == [x \in own \cup strong(returns) |->
                      IF x \in own THEN signals[x] ELSE returns[x]]
<1>1. Active(signals, returns) =
        IF Cardinality(own) >= 2 THEN Restrict(signals, own) ELSE both
  BY DEF Active
<1>2. own \in SUBSET DOMAIN signals
  OBVIOUS
<1>3. IsDeltas(both)
  <2>1. IsFiniteSet(own) /\ IsFiniteSet(strong(returns))
    BY FS_Subset DEF IsDeltas
  <2>2. IsFiniteSet(own \cup strong(returns))
    BY <2>1, FS_Union
  <2>3. \A x \in own \cup strong(returns) : both[x] \in Int
    BY DEF IsDeltas
  <2> QED BY <2>2, <2>3 DEF IsDeltas
<1> HIDE DEF own, both
<1>4. IsDeltas(Restrict(signals, own))
  BY <1>2, PartOfDeltas
<1> QED BY <1>1, <1>3, <1>4

LEMMA FromSignalsIsNearlyNeutral ==
  ASSUME NEW signals, IsDeltas(signals), NEW returns, IsDeltas(returns),
         NEW p \in FromSignals(signals, returns)
  PROVE  LET tilts == Tilts(Active(signals, returns))
         IN  /\ IsPlan(p) /\ Abs(TotalOf(p.delta)) < MinTilt * p.unit
             /\ TotalOf(p.delta) # 0 =>
                  \E x \in Anchors(tilts) : DOMAIN p.delta = DOMAIN tilts \ {x}
<1> DEFINE active == Active(signals, returns)
           n == Cardinality(DOMAIN active)
           total == SumFunction(active)
           tilt == [x \in DOMAIN active |-> 8 * (n * active[x] - total)]
           kept == {x \in DOMAIN tilt : Abs(tilt[x]) >= MinTilt * n}
           tilts == Tilts(active)
<1>1. /\ p \in IF n < 2 THEN {NoDeltas}
               ELSE {[delta |-> f, unit |-> n] : f \in Settled(tilts, n)}
      /\ tilts = Restrict(tilt, kept)
  BY DEF FromSignals, Tilts
<1> HIDE DEF tilts
<1>2. IsDeltas(active) /\ IsFiniteSet(DOMAIN active)
  BY ActiveAreDeltas DEF IsDeltas
<1> HIDE DEF active
<1>3. n \in Nat
  BY <1>2, FS_CardinalityType
<1>4. total \in Int
  BY <1>2, SumIsInteger DEF SumFunction, IsDeltas
<1> HIDE DEF n, total
<1>5. IsDeltas(tilt)
  BY <1>2, <1>3, <1>4 DEF IsDeltas
<1>6. kept \in SUBSET DOMAIN tilt
  OBVIOUS
<1> HIDE DEF tilt, kept
<1>7. IsDeltas(tilts)
  BY <1>1, <1>5, <1>6, PartOfDeltas
<1>8. CASE n < 2
  <2>1. p = NoDeltas
    BY <1>1, <1>8
  <2> QED BY <2>1, NoDeltasNeutral DEF MinTilt, Abs, NoDeltas
<1>9. CASE ~(n < 2)
  <2>1. PICK f \in Settled(tilts, n) : p = [delta |-> f, unit |-> n]
    BY <1>1, <1>9
  <2>2. /\ IsDeltas(f) /\ Abs(TotalOf(f)) < MinTilt * n
        /\ TotalOf(f) # 0 => \E x \in Anchors(tilts) : DOMAIN f = DOMAIN tilts \ {x}
    BY <1>3, <1>7, <1>9, SettledIsNearlyNeutral
  <2> QED BY <1>3, <1>9, <2>1, <2>2 DEF IsPlan, tilts, active
<1> QED BY <1>8, <1>9 DEF tilts, active

LEMMA FromDriftIsPlan ==
  ASSUME NEW w, IsDeltas(w), NEW t, IsDeltas(t)
  PROVE  IsPlan(FromDrift(w, t))
<1> DEFINE gap == Gaps(w, t)
           S == {x \in DOMAIN gap : Abs(gap[x]) >= DriftThreshold}
<1>1. IsDeltas(gap)
  BY GapsAreDeltas
<1>2. FromDrift(w, t) = [delta |-> Restrict(gap, S), unit |-> 1]
  BY DEF FromDrift
<1>3. S \in SUBSET DOMAIN gap
  OBVIOUS
<1> HIDE DEF gap, S
<1>4. IsDeltas(Restrict(gap, S))
  BY <1>1, <1>3, PartOfDeltas
<1> QED BY <1>2, <1>4 DEF IsPlan

LEMMA FromTriggerIsPlan ==
  ASSUME NEW w, IsDeltas(w), NEW event, NEW p \in FromTrigger(w, event)
  PROVE  IsPlan(p)
<1> DEFINE x == event.ticker
<1>1. CASE p = NoDeltas
  BY <1>1, NoDeltasNeutral
<1>2. CASE p = [delta |-> [y \in {x} |-> 500], unit |-> 1]
  <2> DEFINE delta == [y \in {x} |-> 500]
  <2>1. DOMAIN delta = {x} /\ \A y \in DOMAIN delta : delta[y] \in Int
    OBVIOUS
  <2>2. p = [delta |-> delta, unit |-> 1]
    BY <1>2
  <2>3. IsFiniteSet({x})
    BY FS_Singleton
  <2> HIDE DEF delta
  <2>4. IsDeltas(delta)
    BY <2>1, <2>3 DEF IsDeltas
  <2> QED BY <2>2, <2>4 DEF IsPlan
<1>3. ASSUME NEW others \in SUBSET DOMAIN w,
             p = [delta |-> [y \in {x} \cup others |-> IF y = x THEN -1000 ELSE -500],
                  unit |-> 1]
      PROVE  IsPlan(p)
  <2>1. IsFiniteSet({x}) /\ IsFiniteSet(others)
    BY FS_Singleton, FS_Subset DEF IsDeltas
  <2>2. IsFiniteSet({x} \cup others)
    BY <2>1, FS_Union
  <2> DEFINE delta == [y \in {x} \cup others |-> IF y = x THEN -1000 ELSE -500]
  <2>3. IsDeltas(delta)
    <3>1. DOMAIN delta = {x} \cup others /\ \A y \in DOMAIN delta : delta[y] \in Int
      OBVIOUS
    <3> HIDE DEF delta
    <3> QED BY <2>2, <3>1 DEF IsDeltas
  <2> HIDE DEF delta
  <2>4. p = [delta |-> delta, unit |-> 1]
    BY <1>3 DEF delta
  <2> QED BY <2>3, <2>4 DEF IsPlan
<1> QED BY <1>1, <1>2, <1>3 DEF FromTrigger, Largest

\* A draft from signals is neutral unless it leaves out one of its largest
\* tilts, and then nearly so.
NearlyNeutralDraft(p, tilts) ==
  /\ Abs(TotalOf(p.delta)) < MinTilt * p.unit
  /\ TotalOf(p.delta) # 0 =>
       \E x \in Anchors(tilts) : DOMAIN p.delta = DOMAIN tilts \ {x}

\* Every draft is a plan; one that neither drift nor an event brings is nearly
\* neutral.
LEMMA CandidatePlansArePlans ==
  ASSUME NEW w, IsDeltas(w), NEW t, IsDeltas(t), NEW trigger,
         NEW signals, IsDeltas(signals), NEW returns, IsDeltas(returns),
         NEW p \in CandidatePlans(w, t, trigger, signals, returns)
  PROVE  /\ IsPlan(p)
         /\ t = NoTrades /\ trigger = {} =>
              NearlyNeutralDraft(p, Tilts(Active(signals, returns)))
<1> DEFINE drift == IF t = NoTrades THEN NoDeltas ELSE FromDrift(w, t)
           pushed == UNION {FromTrigger(w, event) : event \in trigger}
<1>1. p \in IF ~IsEmpty(drift) THEN {drift}
            ELSE IF \E plan_ \in pushed : ~IsEmpty(plan_) THEN pushed
            ELSE FromSignals(signals, returns)
  BY DEF CandidatePlans
<1>2. IsPlan(drift)
  BY FromDriftIsPlan, NoDeltasNeutral
<1>3. \A q \in pushed : IsPlan(q)
  BY FromTriggerIsPlan
<1>4. p \in FromSignals(signals, returns) =>
        IsPlan(p) /\ NearlyNeutralDraft(p, Tilts(Active(signals, returns)))
  BY FromSignalsIsNearlyNeutral DEF NearlyNeutralDraft
<1>5. IsPlan(p)
  <2> HIDE DEF drift, pushed
  <2> QED BY <1>1, <1>2, <1>3, <1>4
<1>6. ASSUME t = NoTrades, trigger = {}
      PROVE  p \in FromSignals(signals, returns)
  <2>1. IsEmpty(drift)
    BY <1>6 DEF IsEmpty, NoDeltas, NoTrades
  <2>2. pushed = {}
    BY <1>6
  <2> QED BY <1>1, <2>1, <2>2
<1> QED BY <1>4, <1>5, <1>6

(***************************************************************************)
(* Plans on the way to the target                                          *)
(***************************************************************************)
\* Purchases of what is short of its target and sales of what is above it, the
\* purchases of extra more at most.
Approaches(gap, extra, f, unit) ==
  \A x \in DOMAIN f :
    /\ x \in DOMAIN gap
    /\ f[x] > 0 => gap[x] > 0 /\ f[x] <= (gap[x] + extra) * unit
    /\ f[x] < 0 => gap[x] < 0 /\ gap[x] * unit <= f[x]

GapNow == Gaps(portfolio.weight, portfolio.target)

LEMMA ApproachesMore ==
  ASSUME NEW gap, IsDeltas(gap), NEW f, IsDeltas(f), NEW unit \in Nat, NEW extra \in Nat,
         Approaches(gap, 0, f, unit)
  PROVE  Approaches(gap, extra, f, unit)
<1> SUFFICES ASSUME NEW x \in DOMAIN f, f[x] > 0
             PROVE  f[x] <= (gap[x] + extra) * unit
  BY DEF Approaches
<1>1. f[x] \in Int /\ x \in DOMAIN gap /\ f[x] <= (gap[x] + 0) * unit
  BY DEF Approaches, IsDeltas
<1>2. gap[x] \in Int
  BY <1>1 DEF IsDeltas
<1>3. /\ (gap[x] + 0) * unit \in Int /\ (gap[x] + extra) * unit \in Int
      /\ (gap[x] + 0) * unit <= (gap[x] + extra) * unit
  BY <1>2, ProductIsMonotonic
<1> QED BY <1>1, <1>3

\* A delta times k over a unit times k, or times less.
LEMMA ApproachesTimes ==
  ASSUME NEW n \in Int, NEW bound \in Int, NEW unit \in Nat \ {0}, NEW k \in Nat \ {0},
         NEW more \in Nat, k <= more
  PROVE  /\ n * k \in Int /\ (n > 0 => n * k > 0) /\ (n < 0 => n * k < 0)
         /\ n > 0 /\ n <= bound * unit => n * k <= bound * (unit * more)
         /\ n < 0 /\ bound * unit <= n => bound * (unit * more) <= n * k
<1>1. n * k \in Int /\ n * more \in Int /\ bound * unit \in Int
      /\ (bound * unit) * more = bound * (unit * more)
  OBVIOUS
<1>2. ASSUME n > 0
      PROVE  n * k > 0 /\ n * k <= n * more
  <2>1. 1 * k <= n * k
    BY <1>2, ProductIsMonotonic
  <2>2. k * n <= more * n
    BY <1>2, ProductIsMonotonic
  <2> QED BY <2>1, <2>2
<1>3. ASSUME n < 0
      PROVE  n * k < 0 /\ n * more <= n * k
  <2>1. n * k <= (-1) * k
    BY <1>3, ProductIsMonotonic
  <2>2. k * (-n) <= more * (-n)
    BY <1>3, ProductIsMonotonic
  <2>3. k * (-n) = -(n * k) /\ more * (-n) = -(n * more)
    OBVIOUS
  <2> QED BY <1>1, <2>1, <2>2, <2>3
<1>4. ASSUME n > 0, n <= bound * unit
      PROVE  n * k <= bound * (unit * more)
  <2>1. n * more <= (bound * unit) * more
    BY <1>1, <1>4, ProductIsMonotonic
  <2> QED BY <1>1, <1>2, <1>4, <2>1
<1>5. ASSUME n < 0, bound * unit <= n
      PROVE  bound * (unit * more) <= n * k
  <2>1. (bound * unit) * more <= n * more
    BY <1>1, <1>5, ProductIsMonotonic
  <2> QED BY <1>1, <1>3, <1>5, <2>1
<1> QED BY <1>1, <1>2, <1>3, <1>4, <1>5

NoneIsZero(f) == \A x \in DOMAIN f : f[x] # 0

LEMMA CappedApproaches ==
  ASSUME NEW p, IsPlan(p), NEW cap \in Nat, NEW gap, IsDeltas(gap)
  PROVE  LET raw == CapAndFilter(p, cap)
         IN  /\ raw.unit = p.unit /\ DOMAIN raw.delta \subseteq DOMAIN p.delta
             /\ NoneIsZero(raw.delta)
             /\ Approaches(gap, 0, p.delta, p.unit) =>
                  Approaches(gap, 0, raw.delta, p.unit)
<1> DEFINE capped(n) == IF n > cap * p.unit THEN cap * p.unit
                        ELSE IF n < -cap * p.unit THEN -cap * p.unit ELSE n
           delta == [x \in DOMAIN p.delta |-> capped(p.delta[x])]
           S == {x \in DOMAIN delta : Abs(delta[x]) >= MinDelta * p.unit}
           f == Restrict(delta, S)
<1>1. CapAndFilter(p, cap) = [delta |-> f, unit |-> p.unit]
  <2>1. CapAndFilter(p, cap) = [p EXCEPT !.delta = f]
    BY DEF CapAndFilter
  <2> HIDE DEF f
  <2> QED BY <2>1 DEF IsPlan
<1>2. p.unit \in Nat \ {0} /\ MinDelta * p.unit \in Nat \ {0}
      /\ cap * p.unit \in Nat /\ -cap * p.unit \in Int /\ -cap * p.unit = -(cap * p.unit)
  BY DEF IsPlan, MinDelta
<1>3. ASSUME NEW x \in DOMAIN p.delta
      PROVE  /\ delta[x] \in Int /\ p.delta[x] \in Int
             /\ delta[x] > 0 => p.delta[x] > 0 /\ delta[x] <= p.delta[x]
             /\ delta[x] < 0 => p.delta[x] < 0 /\ p.delta[x] <= delta[x]
  BY <1>2 DEF IsPlan, IsDeltas
<1>4. S \in SUBSET DOMAIN delta /\ DOMAIN delta = DOMAIN p.delta
  OBVIOUS
<1>5. \A x \in S : Abs(delta[x]) >= MinDelta * p.unit
  OBVIOUS
<1> HIDE DEF delta, S
<1>6. DOMAIN f = S /\ \A x \in S : f[x] = delta[x]
  BY DEF Restrict
<1> HIDE DEF f
<1>7. NoneIsZero(f)
  <2> SUFFICES ASSUME NEW x \in S
               PROVE  f[x] # 0
    BY <1>6 DEF NoneIsZero
  <2> QED BY <1>2, <1>3, <1>4, <1>5, <1>6 DEF Abs
<1>8. ASSUME Approaches(gap, 0, p.delta, p.unit)
      PROVE  Approaches(gap, 0, f, p.unit)
  <2> SUFFICES ASSUME NEW x \in S
               PROVE  /\ x \in DOMAIN gap
                      /\ f[x] > 0 => gap[x] > 0 /\ f[x] <= (gap[x] + 0) * p.unit
                      /\ f[x] < 0 => gap[x] < 0 /\ gap[x] * p.unit <= f[x]
    BY <1>6 DEF Approaches
  <2>1. /\ x \in DOMAIN gap
        /\ p.delta[x] > 0 => gap[x] > 0 /\ p.delta[x] <= (gap[x] + 0) * p.unit
        /\ p.delta[x] < 0 => gap[x] < 0 /\ gap[x] * p.unit <= p.delta[x]
    BY <1>4, <1>8 DEF Approaches
  <2>2. gap[x] \in Int
    BY <2>1 DEF IsDeltas
  <2>3. (gap[x] + 0) * p.unit \in Int /\ gap[x] * p.unit \in Int
    BY <1>2, <2>2
  <2>4. /\ delta[x] \in Int /\ p.delta[x] \in Int /\ f[x] = delta[x]
        /\ delta[x] > 0 => p.delta[x] > 0 /\ delta[x] <= p.delta[x]
        /\ delta[x] < 0 => p.delta[x] < 0 /\ p.delta[x] <= delta[x]
    BY <1>3, <1>4, <1>6
  <2> QED BY <2>1, <2>3, <2>4
<1> QED BY <1>1, <1>4, <1>6, <1>7, <1>8

LEMMA ScaledApproaches ==
  ASSUME NEW p, IsPlan(p), Bought(p.delta) > 0, Sold(p.delta) > 0,
         NEW gap, IsDeltas(gap), NoneIsZero(p.delta)
  PROVE  LET q == Scaled(p)
         IN  /\ DOMAIN q.delta = DOMAIN p.delta /\ NoneIsZero(q.delta)
             /\ Approaches(gap, 0, p.delta, p.unit) =>
                  Approaches(gap, 0, q.delta, q.unit)
<1> DEFINE f == p.delta
           buys == Bought(f)
           sells == Sold(f)
           less == IF buys < sells THEN buys ELSE sells
           more == IF buys < sells THEN sells ELSE buys
           k(x) == IF (IF f[x] > 0 THEN buys ELSE sells) = less THEN more ELSE less
           g == [x \in DOMAIN f |-> f[x] * k(x)]
<1>1. IsDeltas(f) /\ buys \in Nat \ {0} /\ sells \in Nat \ {0} /\ p.unit \in Nat \ {0}
  BY SidesAreNatural DEF IsPlan
<1>2. Scaled(p) = [delta |-> g, unit |-> p.unit * more]
  BY DEF Scaled
<1> HIDE DEF buys, sells
<1>3. more \in Nat /\ \A x : k(x) \in Nat \ {0} /\ k(x) <= more
  BY <1>1
<1> HIDE DEF k, more
<1>4. DOMAIN g = DOMAIN f /\ \A x \in DOMAIN f : g[x] = f[x] * k(x)
  OBVIOUS
<1>5. \A x \in DOMAIN f : f[x] \in Int /\ f[x] # 0
  BY <1>1 DEF IsDeltas, NoneIsZero
<1> HIDE DEF g, f
<1>6. ASSUME NEW x \in DOMAIN f, NEW bound \in Int
      PROVE  /\ g[x] \in Int /\ (f[x] > 0 => g[x] > 0) /\ (f[x] < 0 => g[x] < 0)
             /\ f[x] > 0 /\ f[x] <= bound * p.unit => g[x] <= bound * (p.unit * more)
             /\ f[x] < 0 /\ bound * p.unit <= f[x] => bound * (p.unit * more) <= g[x]
  BY <1>1, <1>3, <1>4, <1>5, ApproachesTimes
<1>7. ASSUME NEW x \in DOMAIN f
      PROVE  g[x] \in Int /\ g[x] # 0 /\ (g[x] > 0 => f[x] > 0) /\ (g[x] < 0 => f[x] < 0)
  <2>1. g[x] \in Int /\ (f[x] > 0 => g[x] > 0) /\ (f[x] < 0 => g[x] < 0)
    BY <1>6
  <2> QED BY <1>5, <2>1
<1>8. NoneIsZero(g)
  BY <1>4, <1>7 DEF NoneIsZero
<1>9. ASSUME Approaches(gap, 0, f, p.unit)
      PROVE  Approaches(gap, 0, g, p.unit * more)
  <2> SUFFICES ASSUME NEW x \in DOMAIN f
               PROVE  /\ x \in DOMAIN gap
                      /\ g[x] > 0 => gap[x] > 0 /\ g[x] <= (gap[x] + 0) * (p.unit * more)
                      /\ g[x] < 0 => gap[x] < 0 /\ gap[x] * (p.unit * more) <= g[x]
    BY <1>4 DEF Approaches
  <2>1. /\ x \in DOMAIN gap
        /\ f[x] > 0 => gap[x] > 0 /\ f[x] <= (gap[x] + 0) * p.unit
        /\ f[x] < 0 => gap[x] < 0 /\ gap[x] * p.unit <= f[x]
    BY <1>9 DEF Approaches
  <2>2. gap[x] \in Int /\ gap[x] + 0 = gap[x]
    BY <2>1 DEF IsDeltas
  <2> QED BY <1>6, <1>7, <2>1, <2>2
<1> QED BY <1>2, <1>4, <1>8, <1>9 DEF f

\* More terms that are 0 do not change a sum.
LEMMA SumExtended ==
  ASSUME NEW f, IsDeltas(f), NEW D, IsFiniteSet(D), DOMAIN f \subseteq D,
         NEW h, \A x \in D : h[x] = At(f, x)
  PROVE  /\ SumFunctionOnSet(h, D) = SumFunctionOnSet(f, DOMAIN f)
         /\ SumFunctionOnSet(h, D) \in Int
<1>1. IsFiniteSet(DOMAIN f) /\ \A x \in D : h[x] \in Int
  BY DEF IsDeltas, At
<1>2. SumFunctionOnSet(h, D) = SumFunctionOnSet(h, DOMAIN f) + SumFunctionOnSet(h, D \ DOMAIN f)
  <2>1. DOMAIN f \in SUBSET D
    OBVIOUS
  <2> QED BY <1>1, <2>1, SumOfParts
<1>3. SumFunctionOnSet(h, D \ DOMAIN f) = 0
  <2>1. IsFiniteSet(D \ DOMAIN f) /\ \A x \in D \ DOMAIN f : h[x] = 0
    BY FS_Subset DEF At
  <2> QED BY <2>1, SumOfZeros
<1>4. SumFunctionOnSet(h, DOMAIN f) = SumFunctionOnSet(f, DOMAIN f)
  <2>1. \A x \in DOMAIN f : h[x] \in Int /\ h[x] = f[x]
    BY <1>1 DEF At
  <2> QED BY <1>1, <2>1, SumOfEqualTerms
<1>5. SumFunctionOnSet(f, DOMAIN f) \in Int
  BY TotalIsSum
<1> QED BY <1>2, <1>3, <1>4, <1>5

LEMMA GapsAddUp ==
  ASSUME NEW w, IsDeltas(w), NEW t, IsDeltas(t), SumFunction(w) <= SumFunction(t)
  PROVE  SumFunctionOnSet(Gaps(w, t), DOMAIN Gaps(w, t)) \in Nat
<1> DEFINE gap == Gaps(w, t)
           D == DOMAIN w \cup DOMAIN t
           held == [x \in D |-> At(w, x)]
           aim == [x \in D |-> At(t, x)]
<1>1. DOMAIN gap = D /\ IsDeltas(gap) /\ \A x \in D : gap[x] = aim[x] - held[x]
  BY GapsAreDeltas DEF Gaps
<1>2. /\ IsFiniteSet(D) /\ DOMAIN w \subseteq D /\ DOMAIN t \subseteq D
      /\ \A x \in D : held[x] = At(w, x) /\ aim[x] = At(t, x)
  BY FS_Union DEF IsDeltas
<1>3. \A x \in D : gap[x] \in Int /\ held[x] \in Int /\ aim[x] = gap[x] + held[x]
  <2>1. \A x : At(w, x) \in Int /\ At(t, x) \in Int
    BY DEF At, IsDeltas
  <2> HIDE DEF gap, D, held, aim
  <2> QED BY <1>1, <1>2, <2>1
<1> HIDE DEF gap, D, held, aim
<1>4. SumFunctionOnSet(aim, D) = SumFunctionOnSet(gap, D) + SumFunctionOnSet(held, D)
  BY <1>2, <1>3, SumOfSums
<1>5. SumFunctionOnSet(aim, D) = SumFunction(t) /\ SumFunctionOnSet(aim, D) \in Int
  BY <1>2, SumExtended DEF SumFunction
<1>6. SumFunctionOnSet(held, D) = SumFunction(w) /\ SumFunctionOnSet(held, D) \in Int
  BY <1>2, SumExtended DEF SumFunction
<1>7. SumFunctionOnSet(gap, D) \in Int
  BY <1>2, <1>3, SumIsInteger
<1>8. SumFunctionOnSet(gap, D) \in Nat
  BY <1>4, <1>5, <1>6, <1>7
<1> QED BY <1>1, <1>8 DEF gap

\* Sales towards the target bring no more than what is short of it.
LEMMA SalesWithinGaps ==
  ASSUME NEW gap, IsDeltas(gap), SumFunctionOnSet(gap, DOMAIN gap) \in Nat,
         NEW f, IsDeltas(f), NEW unit \in Nat \ {0}, Approaches(gap, 0, f, unit)
  PROVE  LET up == {x \in DOMAIN gap : gap[x] > 0}
         IN  /\ SumFunctionOnSet(gap, up) \in Nat
             /\ Sold(f) <= unit * SumFunctionOnSet(gap, up)
<1> DEFINE D == DOMAIN gap
           up == {x \in D : gap[x] > 0}
           down == {x \in DOMAIN f : f[x] < 0}
           rest == D \ up
           minus == [x \in down |-> -f[x]]
           room == [x \in down |-> -unit * gap[x]]
           Sum(S) == SumFunctionOnSet(gap, S)
<1>1. IsFiniteSet(D) /\ \A x \in D : gap[x] \in Int
  BY DEF IsDeltas
<1>2. down \in SUBSET rest /\ \A x \in down : f[x] \in Int /\ gap[x] * unit <= f[x]
  BY <1>1 DEF Approaches, IsDeltas
<1>3. up \in SUBSET D /\ rest \in SUBSET D /\ \A x \in up : gap[x] \in Nat
  BY <1>1
<1>4. \A x \in rest : gap[x] \in Int /\ gap[x] <= 0
  BY <1>1
<1>5. IsFiniteSet(up) /\ IsFiniteSet(rest) /\ IsFiniteSet(down) /\ IsFiniteSet(rest \ down)
  <2>1. IsFiniteSet(up) /\ IsFiniteSet(rest)
    BY <1>1, <1>3, FS_Subset
  <2> QED BY <1>2, <2>1, FS_Subset
<1>6. \A x \in down : minus[x] = -f[x] /\ room[x] = -unit * gap[x]
  OBVIOUS
<1>7. Sold(f) = -SumFunctionOnSet(f, down)
  BY DEF Sold
<1>8. D \ up = rest
  OBVIOUS
<1> HIDE DEF D, up, down, rest, minus, room
<1>9. Sum(D) = Sum(up) + Sum(rest)
  BY <1>1, <1>3, <1>8, SumOfParts
<1>10. Sum(rest) = Sum(down) + Sum(rest \ down)
  BY <1>2, <1>4, <1>5, SumOfParts
<1>11. Sum(rest \ down) \in Int /\ Sum(rest \ down) <= 0
  <2> DEFINE none == [x \in rest \ down |-> 0]
  <2>1. \A x \in rest \ down : gap[x] \in Int /\ none[x] \in Int /\ gap[x] <= none[x]
    BY <1>4
  <2>2. \A x \in rest \ down : none[x] = 0
    OBVIOUS
  <2> HIDE DEF none
  <2>3. SumFunctionOnSet(none, rest \ down) = 0
    BY <1>5, <2>2, SumOfZeros
  <2>4. Sum(rest \ down) <= SumFunctionOnSet(none, rest \ down)
    BY <1>5, <2>1, SumIsMonotonic
  <2>5. Sum(rest \ down) \in Int
    BY <1>5, <2>1, SumIsInteger
  <2> QED BY <2>3, <2>4, <2>5
<1>12. Sum(up) \in Nat /\ Sum(down) \in Int /\ Sum(D) \in Nat
  <2>1. \A x \in down : gap[x] \in Int
    BY <1>2, <1>4
  <2>2. Sum(down) \in Int
    BY <1>5, <2>1, SumIsInteger
  <2>3. Sum(up) \in Nat
    BY <1>3, <1>5, SumIsNatural
  <2> QED BY <2>2, <2>3 DEF D
<1>13. -Sum(down) <= Sum(up)
  <2> HIDE DEF Sum
  <2> QED BY <1>9, <1>10, <1>11, <1>12
<1>14. SumFunctionOnSet(minus, down) <= SumFunctionOnSet(room, down)
  <2>1. ASSUME NEW x \in down
        PROVE  minus[x] \in Int /\ room[x] \in Int /\ minus[x] <= room[x]
    <3>1. gap[x] \in Int /\ f[x] \in Int /\ gap[x] * unit <= f[x]
      BY <1>2, <1>4
    <3>2. -unit * gap[x] = -(gap[x] * unit) /\ gap[x] * unit \in Int
      BY <3>1
    <3>3. minus[x] = -f[x] /\ room[x] = -(gap[x] * unit)
      BY <1>6, <3>2
    <3> QED BY <3>1, <3>2, <3>3
  <2>2. \A x \in down : minus[x] \in Int /\ room[x] \in Int /\ minus[x] <= room[x]
    BY <2>1
  <2> QED BY <1>5, <2>2, SumIsMonotonic
<1>15. SumFunctionOnSet(room, down) = (-unit) * Sum(down)
  <2>1. \A x \in down : gap[x] \in Int /\ room[x] = (-unit) * gap[x]
    <3> SUFFICES ASSUME NEW x \in down
                 PROVE  gap[x] \in Int /\ room[x] = (-unit) * gap[x]
      OBVIOUS
    <3>1. gap[x] \in Int
      BY <1>2, <1>4
    <3>2. -unit * gap[x] = (-unit) * gap[x]
      BY <3>1
    <3> QED BY <1>6, <3>1, <3>2
  <2>2. -unit \in Int
    OBVIOUS
  <2> QED BY <1>5, <2>1, <2>2, SumOfMultiples
<1>16. SumFunctionOnSet(minus, down) = Sold(f) /\ Sold(f) \in Int
  <2>1. \A x \in down : f[x] \in Int /\ minus[x] = (-1) * f[x]
    BY <1>2, <1>6
  <2>2. SumFunctionOnSet(minus, down) = (-1) * SumFunctionOnSet(f, down)
    BY <1>5, <2>1, SumOfMultiples
  <2>3. SumFunctionOnSet(f, down) \in Int
    BY <1>5, <2>1, SumIsInteger
  <2> QED BY <1>7, <2>2, <2>3
<1>17. /\ (-Sum(down)) * unit \in Int /\ Sum(up) * unit \in Int
       /\ (-Sum(down)) * unit <= Sum(up) * unit
  BY <1>12, <1>13, ProductIsMonotonic
<1>18. (-unit) * Sum(down) = (-Sum(down)) * unit /\ Sum(up) * unit = unit * Sum(up)
  <2> HIDE DEF Sum
  <2> QED BY <1>12
<1>19. Sold(f) <= unit * Sum(up)
  BY <1>14, <1>15, <1>16, <1>17, <1>18
<1> QED BY <1>12, <1>19 DEF up, D

LEMMA SmallGapsAreNatural ==
  ASSUME IsDeltas(GapNow)
  PROVE  SmallGaps \in Nat
<1> DEFINE small == {x \in DOMAIN GapNow : GapNow[x] \in 1..(MinDelta - 1)}
<1>1. IsFiniteSet(small) /\ \A x \in small : GapNow[x] \in Nat
  BY FS_Subset DEF IsDeltas
<1>2. SmallGaps = SumFunctionOnSet(GapNow, small)
  BY DEF SmallGaps, GapNow
<1> HIDE DEF small
<1> QED BY <1>1, <1>2, SumIsNatural

\* The proceeds of a trim, in proportion to the gaps: none grows past its own
\* by more than the small ones together.
LEMMA RepairApproaches ==
  ASSUME NEW p, IsPlan(p), Bought(p.delta) = 0, Sold(p.delta) > 0, NoneIsZero(p.delta),
         IsDeltas(GapNow)
  PROVE  LET q == RepairOneSidedSell(p)
         IN  /\ DOMAIN q.delta \subseteq DOMAIN p.delta \cup DOMAIN GapNow
             /\ NoneIsZero(q.delta)
             /\ Approaches(GapNow, 0, p.delta, p.unit)
                  /\ SumFunctionOnSet(GapNow, DOMAIN GapNow) \in Nat =>
                  Approaches(GapNow, SmallGaps, q.delta, q.unit)
<1> DEFINE f == p.delta
           eligible == {x \in DOMAIN GapNow \ DOMAIN f : GapNow[x] >= MinDelta}
           total == SumFunctionOnSet(GapNow, eligible)
           sells == Sold(f)
           g == [x \in DOMAIN f \cup eligible |->
                   IF x \in eligible THEN sells * GapNow[x] ELSE f[x] * total]
           q == RepairOneSidedSell(p)
<1>1. /\ IsFiniteSet(eligible) /\ eligible \cap DOMAIN f = {}
      /\ eligible \subseteq DOMAIN GapNow
      /\ \A x \in eligible : GapNow[x] \in Nat \ {0} /\ GapNow[x] >= MinDelta
  BY FS_Subset DEF IsDeltas, MinDelta
<1>2. /\ \A x \in DOMAIN f : f[x] \in Int /\ f[x] < 0
      /\ sells \in Nat \ {0} /\ p.unit \in Nat \ {0}
  <2>1. \A x \in DOMAIN f : f[x] \in Int /\ ~(f[x] > 0) /\ f[x] # 0
    BY NothingBought DEF IsPlan, IsDeltas, NoneIsZero
  <2>2. sells \in Nat \ {0} /\ p.unit \in Nat \ {0}
    BY SidesAreNatural DEF IsPlan
  <2> QED BY <2>1, <2>2
<1>3. q = IF total = 0 THEN NoDeltas ELSE [delta |-> g, unit |-> p.unit * total]
  BY DEF RepairOneSidedSell, GapNow
<1>4. \A x \in DOMAIN GapNow : x \notin DOMAIN f /\ GapNow[x] >= MinDelta => x \in eligible
  OBVIOUS
<1> HIDE DEF eligible, sells
<1>5. total \in Nat
  BY <1>1, SumIsNatural
<1>6. CASE total = 0
  <2>1. q.delta = NoTrades
    BY <1>3, <1>6 DEF NoDeltas
  <2>2. DOMAIN NoTrades = {}
    BY DEF NoTrades
  <2> QED BY <2>1, <2>2 DEF NoneIsZero, Approaches
<1>7. CASE total # 0
  <2> HIDE DEF total
  <2>1. q.delta = g /\ q.unit = p.unit * total
    BY <1>3, <1>7
  <2>2. /\ DOMAIN g = DOMAIN f \cup eligible
        /\ \A x \in eligible : g[x] = sells * GapNow[x]
        /\ \A x \in DOMAIN f : g[x] = f[x] * total
    BY <1>1
  <2> HIDE DEF g, q
  <2>3. \A x \in eligible : g[x] > 0
    <3> SUFFICES ASSUME NEW x \in eligible
                 PROVE  g[x] > 0
      OBVIOUS
    <3>1. 1 * GapNow[x] <= sells * GapNow[x]
      BY <1>1, <1>2, ProductIsMonotonic
    <3> QED BY <1>1, <1>2, <2>2, <3>1
  <2>4. \A x \in DOMAIN f : g[x] < 0 /\ g[x] \in Int
    <3> SUFFICES ASSUME NEW x \in DOMAIN f
                 PROVE  g[x] < 0 /\ g[x] \in Int
      OBVIOUS
    <3>1. f[x] * total <= (-1) * total
      BY <1>2, <1>5, ProductIsMonotonic
    <3> QED BY <1>2, <1>5, <1>7, <2>2, <3>1
  <2>5. NoneIsZero(g)
    BY <2>2, <2>3, <2>4 DEF NoneIsZero
  <2>6. ASSUME Approaches(GapNow, 0, f, p.unit),
               SumFunctionOnSet(GapNow, DOMAIN GapNow) \in Nat
        PROVE  Approaches(GapNow, SmallGaps, g, p.unit * total)
    <3> DEFINE up == {x \in DOMAIN GapNow : GapNow[x] > 0}
               small == {x \in DOMAIN GapNow : GapNow[x] \in 1..(MinDelta - 1)}
    <3>1. sells <= p.unit * SumFunctionOnSet(GapNow, up)
      BY <1>2, <2>6, SalesWithinGaps DEF IsPlan, sells
    <3>2. SumFunctionOnSet(GapNow, up) = total + SmallGaps /\ SmallGaps \in Nat
      <4>1. \A x \in DOMAIN f : ~(GapNow[x] > 0)
        <5> SUFFICES ASSUME NEW x \in DOMAIN f
                     PROVE  ~(GapNow[x] > 0)
          OBVIOUS
        <5>1. x \in DOMAIN GapNow /\ GapNow[x] < 0
          BY <1>2, <2>6 DEF Approaches
        <5> QED BY <5>1 DEF IsDeltas
      <4>2. eligible \in SUBSET up /\ up \ eligible = small
        <5>1. \A x \in DOMAIN GapNow : GapNow[x] \in Int
          BY DEF IsDeltas
        <5>2. eligible \in SUBSET up
          BY <1>1
        <5>3. ASSUME NEW x \in up \ eligible
              PROVE  x \in small
          BY <1>4, <4>1, <5>1, <5>3 DEF MinDelta
        <5>4. ASSUME NEW x \in small
              PROVE  x \in up \ eligible
          BY <1>1, <5>1, <5>4 DEF MinDelta
        <5> QED BY <5>2, <5>3, <5>4
      <4>3. IsFiniteSet(up) /\ \A x \in up : GapNow[x] \in Int
        BY FS_Subset DEF IsDeltas
      <4>4. SmallGaps = SumFunctionOnSet(GapNow, small)
        BY DEF SmallGaps, GapNow
      <4> HIDE DEF up, small
      <4>5. SumFunctionOnSet(GapNow, up) =
              SumFunctionOnSet(GapNow, eligible) + SumFunctionOnSet(GapNow, up \ eligible)
        BY <4>2, <4>3, SumOfParts
      <4> QED BY <4>2, <4>4, <4>5, SmallGapsAreNatural DEF total
    <3> HIDE DEF up, small
    <3>3. ASSUME NEW x \in eligible
          PROVE  g[x] <= (GapNow[x] + SmallGaps) * (p.unit * total)
      <4> DEFINE n == GapNow[x]
                 s == SmallGaps
                 u == p.unit
      <4>1. n \in Nat /\ s \in Nat /\ u \in Nat /\ n <= total
        <5>1. \A y \in eligible : GapNow[y] \in Nat
          BY <1>1
        <5>2. GapNow[x] <= SumFunctionOnSet(GapNow, eligible)
          BY <1>1, <5>1, TermIsAtMostSum
        <5> QED BY <1>2, <3>2, <5>1, <5>2 DEF total
      <4>2. g[x] = sells * n /\ sells <= u * (total + s)
        BY <2>2, <3>1, <3>2, <3>3
      <4> HIDE DEF n, s, u
      <4>3. u * (total + s) \in Int
        BY <1>5, <4>1
      <4>4. sells * n \in Int /\ (u * (total + s)) * n \in Int
            /\ sells * n <= (u * (total + s)) * n
        BY <1>2, <4>1, <4>2, <4>3, ProductIsMonotonic
      <4>5. s * u \in Nat /\ total * u \in Nat
        BY <1>5, <4>1
      <4>6. n * (s * u) <= total * (s * u) /\ n * (s * u) \in Int /\ total * (s * u) \in Int
        BY <1>5, <4>1, <4>5, ProductIsMonotonic
      <4>7. (u * (total + s)) * n = n * (total * u) + n * (s * u)
        <5>1. (u * (total + s)) * n = n * ((total * u) + (s * u))
          BY <1>5, <4>1
        <5> QED BY <4>1, <4>5, <5>1, Distributes
      <4>8. (n + s) * (u * total) = n * (total * u) + total * (s * u)
        <5>1. (n + s) * (u * total) = (u * total) * n + (u * total) * s
          <6>1. (n + s) * (u * total) = (u * total) * (n + s)
            BY <1>5, <4>1
          <6>2. u * total \in Int
            BY <1>5, <4>1
          <6> QED BY <4>1, <6>1, <6>2, Distributes
        <5>2. (u * total) * n = n * (total * u) /\ (u * total) * s = total * (s * u)
          BY <1>5, <4>1
        <5> QED BY <5>1, <5>2
      <4>9. n * (total * u) \in Int
        BY <4>1, <4>5
      <4>10. sells * n <= (n + s) * (u * total)
        BY <4>4, <4>6, <4>7, <4>8, <4>9
      <4> QED BY <4>2, <4>10 DEF n, s, u
    <3>4. ASSUME NEW x \in DOMAIN f
          PROVE  /\ x \in DOMAIN GapNow /\ GapNow[x] < 0
                 /\ GapNow[x] * (p.unit * total) <= g[x]
      <4>1. x \in DOMAIN GapNow /\ GapNow[x] < 0 /\ GapNow[x] * p.unit <= f[x]
        BY <1>2, <2>6 DEF Approaches
      <4>2. GapNow[x] \in Int /\ f[x] \in Int
        BY <1>2, <4>1 DEF IsDeltas
      <4>3. GapNow[x] * (p.unit * total) <= f[x] * total
        BY <1>2, <1>5, <1>7, <4>1, <4>2, ApproachesTimes
      <4> QED BY <2>2, <4>1, <4>3
    <3>5. ASSUME NEW x \in DOMAIN g
          PROVE  /\ x \in DOMAIN GapNow
                 /\ g[x] > 0 => GapNow[x] > 0
                                /\ g[x] <= (GapNow[x] + SmallGaps) * (p.unit * total)
                 /\ g[x] < 0 => GapNow[x] < 0 /\ GapNow[x] * (p.unit * total) <= g[x]
      <4>1. CASE x \in eligible
        <5>1. g[x] > 0 /\ g[x] = sells * GapNow[x] /\ GapNow[x] \in Nat \ {0}
          BY <1>1, <2>2, <2>3, <4>1
        <5>2. g[x] \in Int
          BY <1>2, <5>1
        <5> QED BY <1>1, <3>3, <4>1, <5>1, <5>2
      <4>2. CASE x \in DOMAIN f
        BY <2>4, <3>4, <4>2
      <4> QED BY <2>2, <4>1, <4>2
    <3> QED BY <3>5 DEF Approaches
  <2> QED BY <1>1, <2>1, <2>2, <2>5, <2>6 DEF q
<1> QED BY <1>5, <1>6, <1>7

LEMMA NeutralizedApproaches ==
  ASSUME NEW p, IsPlan(p), NEW cap \in Nat, IsDeltas(GapNow)
  PROVE  LET q == CashNeutralizeDeltas(p, cap)
         IN  /\ DOMAIN q.delta \subseteq DOMAIN p.delta \cup DOMAIN GapNow
             /\ NoneIsZero(q.delta)
             /\ Approaches(GapNow, 0, p.delta, p.unit)
                  /\ SumFunctionOnSet(GapNow, DOMAIN GapNow) \in Nat =>
                  Approaches(GapNow, SmallGaps, q.delta, q.unit)
<1> DEFINE raw == CapAndFilter(p, cap)
           q == CashNeutralizeDeltas(p, cap)
<1>1. /\ IsPlan(raw) /\ raw.unit = p.unit /\ DOMAIN raw.delta \subseteq DOMAIN p.delta
      /\ NoneIsZero(raw.delta)
      /\ Approaches(GapNow, 0, p.delta, p.unit) => Approaches(GapNow, 0, raw.delta, raw.unit)
  BY CappedIsPlan, CappedApproaches
<1>2. q = IF Bought(raw.delta) > 0 /\ Sold(raw.delta) > 0 THEN Scaled(raw)
          ELSE IF Sold(raw.delta) > 0 THEN RepairOneSidedSell(raw) ELSE NoDeltas
  BY DEF CashNeutralizeDeltas
<1> HIDE DEF raw, q
<1>3. Bought(raw.delta) \in Nat /\ Sold(raw.delta) \in Nat
  BY <1>1, SidesAreNatural DEF IsPlan
<1>4. CASE Bought(raw.delta) > 0 /\ Sold(raw.delta) > 0
  <2>1. q = Scaled(raw)
    BY <1>2, <1>4
  <2>2. /\ DOMAIN q.delta = DOMAIN raw.delta /\ NoneIsZero(q.delta)
        /\ Approaches(GapNow, 0, raw.delta, raw.unit) =>
             Approaches(GapNow, 0, q.delta, q.unit)
    BY <1>1, <1>4, <2>1, ScaledApproaches
  <2>3. Approaches(GapNow, 0, q.delta, q.unit) =>
          Approaches(GapNow, SmallGaps, q.delta, q.unit)
    <3>1. IsDeltas(q.delta) /\ q.unit \in Nat
      BY <1>1, <1>4, <2>1, ScaledIsNeutral DEF IsPlan
    <3> QED BY <3>1, SmallGapsAreNatural, ApproachesMore
  <2> QED BY <1>1, <2>2, <2>3 DEF q
<1>5. CASE Bought(raw.delta) = 0 /\ Sold(raw.delta) > 0
  <2>1. q = RepairOneSidedSell(raw)
    BY <1>2, <1>5
  <2> QED BY <1>1, <1>5, <2>1, RepairApproaches DEF q
<1>6. CASE Sold(raw.delta) = 0
  <2>1. q.delta = NoTrades
    BY <1>2, <1>6 DEF NoDeltas
  <2>2. DOMAIN NoTrades = {}
    BY DEF NoTrades
  <2> QED BY <2>1, <2>2 DEF q, NoneIsZero, Approaches
<1> QED BY <1>3, <1>4, <1>5, <1>6

LEMMA SellsOnlyIsPlan ==
  ASSUME NEW p, IsPlan(p)
  PROVE  /\ IsPlan(SellsOnly(p)) /\ SellsOnly(p).unit = p.unit
         /\ DOMAIN SellsOnly(p).delta \subseteq DOMAIN p.delta
         /\ \A x \in DOMAIN SellsOnly(p).delta : SellsOnly(p).delta[x] = p.delta[x]
<1> DEFINE S == {x \in DOMAIN p.delta : p.delta[x] < 0}
<1>1. SellsOnly(p) = [p EXCEPT !.delta = Restrict(p.delta, S)]
  BY DEF SellsOnly, IsPlan
<1>2. S \in SUBSET DOMAIN p.delta
  OBVIOUS
<1> HIDE DEF S
<1>3. /\ IsDeltas(Restrict(p.delta, S)) /\ DOMAIN Restrict(p.delta, S) = S
      /\ \A x \in S : Restrict(p.delta, S)[x] = p.delta[x]
  BY <1>2, PartOfDeltas DEF IsPlan
<1>4. SellsOnly(p) = [delta |-> Restrict(p.delta, S), unit |-> p.unit]
  BY <1>1 DEF IsPlan
<1> QED BY <1>2, <1>3, <1>4 DEF IsPlan

LEMMA TargetDiffIsPlan ==
  ASSUME IsDeltas(GapNow), NEW rate \in 0..2
  PROVE  /\ IsPlan(TargetDiff(rate)) /\ DOMAIN TargetDiff(rate).delta = DOMAIN GapNow
         /\ Approaches(GapNow, 0, TargetDiff(rate).delta, TargetDiff(rate).unit)
<1> DEFINE delta == [x \in DOMAIN GapNow |-> GapNow[x] * rate]
<1>1. TargetDiff(rate) = [delta |-> delta, unit |-> 2]
  BY DEF TargetDiff, GapNow
<1>2. \A x \in DOMAIN GapNow : GapNow[x] \in Int /\ delta[x] = GapNow[x] * rate
  BY DEF IsDeltas
<1>3. IsDeltas(delta) /\ DOMAIN delta = DOMAIN GapNow
  BY DEF IsDeltas
<1> HIDE DEF delta
<1>4. ASSUME NEW x \in DOMAIN GapNow
      PROVE  /\ delta[x] > 0 => GapNow[x] > 0 /\ delta[x] <= (GapNow[x] + 0) * 2
             /\ delta[x] < 0 => GapNow[x] < 0 /\ GapNow[x] * 2 <= delta[x]
  <2>1. CASE rate = 0
    BY <1>2, <2>1
  <2>2. CASE rate = 1
    BY <1>2, <2>2
  <2>3. CASE rate = 2
    BY <1>2, <2>3
  <2> QED BY <2>1, <2>2, <2>3
<1>5. Approaches(GapNow, 0, delta, 2)
  BY <1>3, <1>4 DEF Approaches
<1> QED BY <1>1, <1>3, <1>5 DEF IsPlan

\* The deltas of drift are the gaps it is drafted for.
LEMMA DriftApproaches ==
  ASSUME IsDeltas(GapNow),
         NEW f, DOMAIN f \subseteq DOMAIN GapNow, \A x \in DOMAIN f : f[x] = GapNow[x]
  PROVE  Approaches(GapNow, 0, f, 1)
<1> SUFFICES ASSUME NEW x \in DOMAIN f
             PROVE  /\ f[x] > 0 => GapNow[x] > 0 /\ f[x] <= (GapNow[x] + 0) * 1
                    /\ f[x] < 0 => GapNow[x] < 0 /\ GapNow[x] * 1 <= f[x]
  BY DEF Approaches
<1>1. GapNow[x] \in Int /\ f[x] = GapNow[x]
  BY DEF IsDeltas
<1> QED BY <1>1

\* What a mode plans: neutral, of what is held, targeted or drafted, and, from
\* drift, on the way to the target.
LEMMA PlannedIsNeutral ==
  ASSUME portfolio \in Portfolios, IsPlan(draft),
         NEW mode, NEW rate \in Rates, NEW cap \in Caps
  PROVE  LET q == Planned(mode, rate, cap)
         IN  /\ IsPlan(q) /\ TotalOf(q.delta) = 0
             /\ DOMAIN q.delta \subseteq DOMAIN draft.delta \cup DOMAIN GapNow
             /\ NoneIsZero(q.delta)
             /\ portfolio.target # NoTrades /\ draft = Drift =>
                  Approaches(GapNow, SmallGaps, q.delta, q.unit)
<1> DEFINE q == Planned(mode, rate, cap)
           from(p) == CashNeutralizeDeltas(p, cap)
           drifts == portfolio.target # NoTrades /\ draft = Drift
<1>1. IsDeltas(portfolio.weight) /\ IsDeltas(portfolio.target)
  BY ExecutionPolicyAssumption
<1>2. cap \in Nat /\ rate \in 0..2
  BY ExecutionPolicyAssumption
<1>3. IsDeltas(GapNow) /\ IsDeltas(Gaps(portfolio.weight, portfolio.target))
  BY <1>1, GapsAreDeltas DEF GapNow
<1>4. ASSUME NEW p, IsPlan(p), DOMAIN p.delta \subseteq DOMAIN draft.delta \cup DOMAIN GapNow,
             drifts => Approaches(GapNow, 0, p.delta, p.unit)
      PROVE  /\ IsPlan(from(p)) /\ TotalOf(from(p).delta) = 0
             /\ DOMAIN from(p).delta \subseteq DOMAIN draft.delta \cup DOMAIN GapNow
             /\ NoneIsZero(from(p).delta)
             /\ drifts => Approaches(GapNow, SmallGaps, from(p).delta, from(p).unit)
  <2>1. IsPlan(from(p)) /\ TotalOf(from(p).delta) = 0
    BY <1>2, <1>3, <1>4, NeutralizedIsNeutral
  <2>2. drifts => SumFunctionOnSet(GapNow, DOMAIN GapNow) \in Nat
    BY <1>1, WholeAssumption, GapsAddUp DEF GapNow
  <2>3. /\ DOMAIN from(p).delta \subseteq DOMAIN p.delta \cup DOMAIN GapNow
        /\ NoneIsZero(from(p).delta)
        /\ Approaches(GapNow, 0, p.delta, p.unit)
             /\ SumFunctionOnSet(GapNow, DOMAIN GapNow) \in Nat =>
             Approaches(GapNow, SmallGaps, from(p).delta, from(p).unit)
    BY <1>2, <1>3, <1>4, NeutralizedApproaches
  <2> HIDE DEF from, drifts
  <2> QED BY <1>4, <2>1, <2>2, <2>3
<1>5. drifts => /\ draft.unit = 1 /\ DOMAIN draft.delta \subseteq DOMAIN GapNow
                /\ \A x \in DOMAIN draft.delta : draft.delta[x] = GapNow[x]
  <2> DEFINE S == {x \in DOMAIN GapNow : Abs(GapNow[x]) >= DriftThreshold}
  <2>1. Drift = [delta |-> Restrict(GapNow, S), unit |-> 1]
    BY DEF Drift, FromDrift, GapNow
  <2>2. S \in SUBSET DOMAIN GapNow
    OBVIOUS
  <2> HIDE DEF S
  <2>3. /\ DOMAIN Restrict(GapNow, S) = S
        /\ \A x \in S : Restrict(GapNow, S)[x] = GapNow[x]
    BY DEF Restrict
  <2>4. Drift.unit = 1 /\ Drift.delta = Restrict(GapNow, S)
    BY <2>1
  <2> QED BY <2>2, <2>3, <2>4
<1>6. drifts => Approaches(GapNow, 0, draft.delta, draft.unit)
  BY <1>3, <1>5, DriftApproaches
<1>7. /\ IsPlan(SellsOnly(draft)) /\ DOMAIN SellsOnly(draft).delta \subseteq DOMAIN draft.delta
      /\ drifts => Approaches(GapNow, 0, SellsOnly(draft).delta, SellsOnly(draft).unit)
  <2>1. /\ IsPlan(SellsOnly(draft)) /\ SellsOnly(draft).unit = draft.unit
        /\ DOMAIN SellsOnly(draft).delta \subseteq DOMAIN draft.delta
        /\ \A x \in DOMAIN SellsOnly(draft).delta : SellsOnly(draft).delta[x] = draft.delta[x]
    BY SellsOnlyIsPlan
  <2>2. ASSUME drifts
        PROVE  Approaches(GapNow, 0, SellsOnly(draft).delta, SellsOnly(draft).unit)
    <3>1. /\ DOMAIN SellsOnly(draft).delta \subseteq DOMAIN GapNow
          /\ SellsOnly(draft).unit = 1
          /\ \A x \in DOMAIN SellsOnly(draft).delta : SellsOnly(draft).delta[x] = GapNow[x]
      BY <1>5, <2>1, <2>2
    <3> QED BY <1>3, <3>1, DriftApproaches
  <2> QED BY <2>1, <2>2
<1>8. /\ IsPlan(TargetDiff(rate)) /\ DOMAIN TargetDiff(rate).delta = DOMAIN GapNow
      /\ Approaches(GapNow, 0, TargetDiff(rate).delta, TargetDiff(rate).unit)
  BY <1>2, <1>3, TargetDiffIsPlan
<1>9. q \in {from(draft), from(SellsOnly(draft)), from(TargetDiff(rate)), NoDeltas}
  BY DEF Planned
<1> HIDE DEF from, drifts, q
<1>10. CASE q = from(draft)
  BY <1>4, <1>6, <1>10 DEF drifts, q
<1>11. CASE q = from(SellsOnly(draft))
  <2>1. DOMAIN SellsOnly(draft).delta \subseteq DOMAIN draft.delta \cup DOMAIN GapNow
    BY <1>7
  <2> QED BY <1>4, <1>7, <1>11, <2>1 DEF drifts, q
<1>12. CASE q = from(TargetDiff(rate))
  <2>1. DOMAIN TargetDiff(rate).delta \subseteq DOMAIN draft.delta \cup DOMAIN GapNow
    BY <1>8
  <2> QED BY <1>4, <1>8, <1>12, <2>1 DEF drifts, q
<1>13. CASE q = NoDeltas
  <2>1. q.delta = NoTrades /\ DOMAIN NoTrades = {}
    BY <1>13 DEF NoDeltas, NoTrades
  <2>2. IsPlan(q) /\ TotalOf(q.delta) = 0
    BY <1>13, NoDeltasNeutral
  <2> QED BY <2>1, <2>2 DEF q, NoneIsZero, Approaches
<1> QED BY <1>9, <1>10, <1>11, <1>12, <1>13

(***************************************************************************)
(* Sales moved from gains to losses                                        *)
(***************************************************************************)
\* g is f with n of the sale of gain moved to loss.
Moved(f, g, gain, loss, n) ==
  /\ DOMAIN g = DOMAIN f \cup {loss}
  /\ g[gain] = f[gain] + n
  /\ g[loss] = At(f, loss) - n
  /\ \A x \in DOMAIN f \ {gain, loss} : g[x] = f[x]

LEMMA MovedKeepsTotal ==
  ASSUME NEW f, IsDeltas(f), NEW g, NEW gain \in DOMAIN f, NEW loss, loss # gain,
         NEW n \in Int, Moved(f, g, gain, loss, n)
  PROVE  IsDeltas(g) /\ TotalOf(g) = TotalOf(f)
<1> DEFINE D == DOMAIN f \cup {loss}
           h == [x \in D |-> At(f, x)]
           d == [x \in D |-> IF x = gain THEN n ELSE IF x = loss THEN -n ELSE 0]
<1>1. DOMAIN g = D /\ IsFiniteSet(D) /\ IsFiniteSet(DOMAIN f)
  <2>1. IsFiniteSet(DOMAIN f)
    BY DEF IsDeltas
  <2> QED BY <2>1, FS_AddElement DEF Moved
<1>2. \A x \in D : h[x] \in Int /\ d[x] \in Int /\ g[x] = h[x] + d[x]
  BY DEF Moved, At, IsDeltas
<1>3. IsDeltas(g)
  <2>1. \A x \in D : g[x] \in Int
    <3> HIDE DEF D, h, d
    <3> QED BY <1>2
  <2> HIDE DEF D
  <2> QED BY <1>1, <2>1 DEF IsDeltas
<1>4. gain \in D /\ loss \in D \ {gain} /\ d[gain] = n /\ d[loss] = -n
  OBVIOUS
<1>5. \A x \in (D \ {gain}) \ {loss} : d[x] = 0
  OBVIOUS
<1>6. \A x \in DOMAIN f : h[x] = f[x]
  BY DEF At
<1>7. \A x \in D \ DOMAIN f : h[x] = 0
  BY DEF At
<1>8. DOMAIN f \in SUBSET D
  OBVIOUS
<1> HIDE DEF D, h, d
<1>9. SumFunctionOnSet(g, D) = SumFunctionOnSet(h, D) + SumFunctionOnSet(d, D)
  BY <1>1, <1>2, SumOfSums
<1>10. SumFunctionOnSet(d, D) = 0
  <2>1. SumFunctionOnSet(d, D) = d[gain] + SumFunctionOnSet(d, D \ {gain})
    BY <1>1, <1>2, <1>4, SumWithout
  <2>2. IsFiniteSet(D \ {gain}) /\ IsFiniteSet((D \ {gain}) \ {loss})
    BY <1>1, FS_Subset
  <2>3. SumFunctionOnSet(d, D \ {gain}) = d[loss] + SumFunctionOnSet(d, (D \ {gain}) \ {loss})
    BY <1>2, <1>4, <2>2, SumWithout
  <2>4. SumFunctionOnSet(d, (D \ {gain}) \ {loss}) = 0
    BY <1>5, <2>2, SumOfZeros
  <2> QED BY <1>4, <2>1, <2>3, <2>4
<1>11. SumFunctionOnSet(h, D) = SumFunctionOnSet(f, DOMAIN f)
  <2>1. SumFunctionOnSet(h, D) =
          SumFunctionOnSet(h, DOMAIN f) + SumFunctionOnSet(h, D \ DOMAIN f)
    BY <1>1, <1>2, <1>8, SumOfParts
  <2>2. SumFunctionOnSet(h, D \ DOMAIN f) = 0
    <3>1. IsFiniteSet(D \ DOMAIN f)
      BY <1>1, FS_Subset
    <3> QED BY <1>7, <3>1, SumOfZeros
  <2>3. SumFunctionOnSet(h, DOMAIN f) = SumFunctionOnSet(f, DOMAIN f)
    BY <1>1, <1>2, <1>6, <1>8, SumOfEqualTerms
  <2>4. SumFunctionOnSet(f, DOMAIN f) \in Int
    BY TotalIsSum
  <2> QED BY <2>1, <2>2, <2>3, <2>4
<1>12. SumFunctionOnSet(f, DOMAIN f) \in Int
  BY TotalIsSum
<1>13. TotalOf(g) = SumFunctionOnSet(g, D) /\ TotalOf(f) = SumFunctionOnSet(f, DOMAIN f)
  BY <1>1, <1>3, TotalIsSum
<1> QED BY <1>3, <1>9, <1>10, <1>11, <1>12, <1>13

(***************************************************************************)
(* The recursions of ShiftOne and ShiftAll                                 *)
(***************************************************************************)
OneStep(f, gain, losses, h, n) ==
  IF n = 0 THEN [delta |-> f, left |-> Sale(f, gain)]
           ELSE Shift(h[n - 1], gain, losses[n])

IsOne(f, gain, losses, n, h) == h = [m \in 0..n |-> OneStep(f, gain, losses, h, m)]

LEMMA OneExists ==
  ASSUME NEW f, NEW gain, NEW losses
  PROVE  \A n \in Nat : \E h : IsOne(f, gain, losses, n, h)
<1> DEFINE N == {n \in Nat : \E h : IsOne(f, gain, losses, n, h)}
           step(h, m) == OneStep(f, gain, losses, h, m)
<1>1. 0 \in N
  <2> DEFINE h == [m \in 0..0 |-> [delta |-> f, left |-> Sale(f, gain)]]
  <2>1. h = [m \in 0..0 |-> step(h, m)]
    BY DEF OneStep
  <2> HIDE DEF h
  <2> QED BY <2>1 DEF IsOne
<1>2. ASSUME NEW n \in Nat, n \in N
      PROVE  n + 1 \in N
  <2>1. PICK g : g = [m \in 0..n |-> step(g, m)]
    BY <1>2 DEF IsOne
  <2> DEFINE h == [m \in 0..(n + 1) |-> IF m = n + 1 THEN step(g, m) ELSE g[m]]
  <2>2. \A m \in 0..n : h[m] = g[m]
    OBVIOUS
  <2>3. \A m \in 0..(n + 1) : step(h, m) = step(g, m)
    <3> SUFFICES ASSUME NEW m \in 0..(n + 1), m # 0
                 PROVE  h[m - 1] = g[m - 1]
      BY DEF OneStep
    <3>1. m - 1 \in 0..n
      OBVIOUS
    <3> QED BY <2>2, <3>1
  <2>4. \A m \in 0..(n + 1) : h[m] = step(g, m)
    BY <2>1
  <2>5. h = [m \in 0..(n + 1) |-> step(h, m)]
    BY <2>3, <2>4
  <2> HIDE DEF h
  <2> QED BY <2>5 DEF IsOne
<1> HIDE DEF N
<1>3. \A n \in Nat : n \in N
  BY <1>1, <1>2, NumberInduction
<1> QED BY <1>3 DEF N

LEMMA OneIsFixpoint ==
  ASSUME NEW f, NEW gain, NEW losses, Len(losses) \in Nat
  PROVE  \E h : /\ IsOne(f, gain, losses, Len(losses), h)
                /\ ShiftOne(f, gain, losses) = h[Len(losses)].delta
<1> DEFINE h == CHOOSE g : IsOne(f, gain, losses, Len(losses), g)
<1>1. IsOne(f, gain, losses, Len(losses), h)
  BY OneExists
<1>2. ShiftOne(f, gain, losses) = h[Len(losses)].delta
  BY DEF ShiftOne, IsOne, OneStep
<1> QED BY <1>1, <1>2

AllStep(f, gains, losses, h, n) ==
  IF n = 0 THEN f ELSE ShiftOne(h[n - 1], gains[n], losses)

IsAll(f, gains, losses, n, h) == h = [m \in 0..n |-> AllStep(f, gains, losses, h, m)]

LEMMA AllExists ==
  ASSUME NEW f, NEW gains, NEW losses
  PROVE  \A n \in Nat : \E h : IsAll(f, gains, losses, n, h)
<1> DEFINE N == {n \in Nat : \E h : IsAll(f, gains, losses, n, h)}
           step(h, m) == AllStep(f, gains, losses, h, m)
<1>1. 0 \in N
  <2> DEFINE h == [m \in 0..0 |-> f]
  <2>1. h = [m \in 0..0 |-> step(h, m)]
    BY DEF AllStep
  <2> HIDE DEF h
  <2> QED BY <2>1 DEF IsAll
<1>2. ASSUME NEW n \in Nat, n \in N
      PROVE  n + 1 \in N
  <2>1. PICK g : g = [m \in 0..n |-> step(g, m)]
    BY <1>2 DEF IsAll
  <2> DEFINE h == [m \in 0..(n + 1) |-> IF m = n + 1 THEN step(g, m) ELSE g[m]]
  <2>2. \A m \in 0..n : h[m] = g[m]
    OBVIOUS
  <2>3. \A m \in 0..(n + 1) : step(h, m) = step(g, m)
    <3> SUFFICES ASSUME NEW m \in 0..(n + 1), m # 0
                 PROVE  h[m - 1] = g[m - 1]
      BY DEF AllStep
    <3>1. m - 1 \in 0..n
      OBVIOUS
    <3> QED BY <2>2, <3>1
  <2>4. \A m \in 0..(n + 1) : h[m] = step(g, m)
    BY <2>1
  <2>5. h = [m \in 0..(n + 1) |-> step(h, m)]
    BY <2>3, <2>4
  <2> HIDE DEF h
  <2> QED BY <2>5 DEF IsAll
<1> HIDE DEF N
<1>3. \A n \in Nat : n \in N
  BY <1>1, <1>2, NumberInduction
<1> QED BY <1>3 DEF N

LEMMA AllIsFixpoint ==
  ASSUME NEW f, NEW gains, NEW losses, Len(gains) \in Nat
  PROVE  \E h : /\ IsAll(f, gains, losses, Len(gains), h)
                /\ ShiftAll(f, gains, losses) = h[Len(gains)]
<1> DEFINE h == CHOOSE g : IsAll(f, gains, losses, Len(gains), g)
<1>1. IsAll(f, gains, losses, Len(gains), h)
  BY AllExists
<1>2. ShiftAll(f, gains, losses) = h[Len(gains)]
  BY DEF ShiftAll, IsAll, AllStep
<1> QED BY <1>1, <1>2

(***************************************************************************)
(* One shift                                                               *)
(***************************************************************************)
TaxSetting ==
  /\ IsDeltas(portfolio.weight) /\ IsDeltas(portfolio.target)
  /\ deltas.unit \in Nat \ {0}

Least == MinDelta * deltas.unit

LEMMA LossIsKnown ==
  ASSUME TaxSetting, NEW loss \in LossCandidates
  PROVE  /\ loss \in DOMAIN portfolio.weight
         /\ Overweight(loss) \in Nat /\ Overweight(loss) > MinDelta
         /\ Least \in Nat \ {0} /\ deltas.unit \in Nat
         /\ Overweight(loss) * deltas.unit \in Nat
<1>1. loss \in DOMAIN portfolio.weight /\ Overweight(loss) > MinDelta
  BY DEF LossCandidates, Has
<1>2. Overweight(loss) \in Int
  BY <1>1 DEF Overweight, At, TaxSetting, IsDeltas
<1>3. Least \in Nat \ {0} /\ deltas.unit \in Nat
  BY DEF Least, MinDelta, TaxSetting
<1>4. Overweight(loss) \in Nat
  BY <1>1, <1>2 DEF MinDelta
<1>5. Overweight(loss) * deltas.unit \in Nat
  BY <1>3, <1>4
<1> QED BY <1>1, <1>3, <1>4, <1>5

LEMMA CapacityIsNatural ==
  ASSUME TaxSetting, NEW loss \in LossCandidates, NEW f, IsDeltas(f)
  PROVE  /\ At(f, loss) \in Int /\ Sale(f, loss) \in Nat
         /\ Capacity(f, loss) \in Nat
<1>1. At(f, loss) \in Int
  BY DEF At, IsDeltas
<1>2. Sale(f, loss) \in Nat
  BY <1>1 DEF Sale
<1>3. Overweight(loss) * deltas.unit \in Nat
  BY LossIsKnown
<1> QED BY <1>1, <1>2, <1>3 DEF Capacity

\* A shift moves as much as is left of the sale, or all the loss has room for,
\* or nothing where that is too little.
LEMMA ShiftMoves ==
  ASSUME TaxSetting, NEW loss \in LossCandidates,
         NEW acc, IsDeltas(acc.delta), acc.left \in Int,
         NEW gain \in DOMAIN acc.delta, gain # loss
  PROVE  LET next == Shift(acc, gain, loss)
             capacity == Capacity(acc.delta, loss)
         IN  \/ /\ next = acc
                /\ acc.left > Least => capacity < Least
             \/ \E n \in {acc.left, capacity} :
                  /\ n \in Nat /\ n <= acc.left /\ n <= capacity
                  /\ next.left = acc.left - n
                  /\ Moved(acc.delta, next.delta, gain, loss, n)
<1> DEFINE min == MinDelta * deltas.unit
           capacity == Capacity(acc.delta, loss)
           shift == IF acc.left < capacity THEN acc.left ELSE capacity
           g == [x \in DOMAIN acc.delta \cup {loss} |->
                         IF x = gain THEN acc.delta[x] + shift
                         ELSE IF x = loss THEN At(acc.delta, x) - shift
                         ELSE acc.delta[x]]
           next == Shift(acc, gain, loss)
<1>1. capacity \in Nat /\ min \in Nat \ {0} /\ Least = min
  BY CapacityIsNatural, LossIsKnown DEF Least
<1>2. next = IF acc.left <= min \/ shift < min THEN acc
             ELSE [delta |-> g, left |-> acc.left - shift]
  BY DEF Shift
<1>3. Moved(acc.delta, g, gain, loss, shift)
  <2> HIDE DEF shift
  <2> QED BY DEF Moved
<1> HIDE DEF min, capacity, g, next
<1>4. CASE acc.left <= min \/ shift < min
  <2>1. next = acc
    BY <1>2, <1>4
  <2>2. acc.left > min => capacity < min
    BY <1>1, <1>4
  <2> QED BY <1>1, <2>1, <2>2 DEF next, capacity
<1>5. CASE ~(acc.left <= min \/ shift < min)
  <2>1. next = [delta |-> g, left |-> acc.left - shift]
    BY <1>2, <1>5
  <2>2. /\ shift \in {acc.left, capacity} /\ shift \in Nat
        /\ shift <= acc.left /\ shift <= capacity
    BY <1>1, <1>5
  <2> HIDE DEF shift
  <2>3. next.left = acc.left - shift /\ Moved(acc.delta, next.delta, gain, loss, shift)
    BY <1>3, <2>1
  <2> QED BY <2>2, <2>3 DEF next, capacity
<1> QED BY <1>4, <1>5

\* A sequence of all elements of a set, each once.
LEMMA OrdersAll ==
  ASSUME NEW S, IsFiniteSet(S), NEW s \in SetToSeqs(S)
  PROVE  /\ Len(s) \in Nat
         /\ \A i \in 1..Len(s) : s[i] \in S
         /\ \A x \in S : \E i \in 1..Len(s) : s[i] = x
         /\ \A i, j \in 1..Len(s) : i # j => s[i] # s[j]
<1> DEFINE n == Cardinality(S)
<1>1. /\ s \in [1..n -> S]
      /\ \A i, j \in 1..n : i # j => s[i] # s[j]
  BY DEF SetToSeqs
<1>2. n \in Nat
  BY FS_CardinalityType
<1>3. Len(s) = n
  <2> HIDE DEF n
  <2>1. s \in Seq(S)
    BY <1>1, <1>2
  <2> QED BY <1>1, <1>2, <2>1
<1>4. s \in Surjection(1..n, S)
  <2>1. IsFiniteSet(1..n) /\ Cardinality(1..n) = n
    BY <1>2, FS_Interval
  <2>2. s \in Injection(1..n, S)
    BY <1>1 DEF Injection, IsInjective
  <2> QED BY <2>1, <2>2, FS_Injection
<1>5. \A x \in S : \E i \in 1..n : s[i] = x
  BY <1>4 DEF Surjection
<1> QED BY <1>1, <1>2, <1>3, <1>5

(***************************************************************************)
(* What a loss has room for, offer by offer                                *)
(***************************************************************************)
Fitting(f) == Approaches(GapNow, SmallGaps, f, deltas.unit)

LEMMA LossInBounds ==
  ASSUME TaxSetting, NEW loss \in LossCandidates, NEW f, IsDeltas(f), Fitting(f)
  PROVE  /\ loss \in DOMAIN GapNow /\ GapNow[loss] < 0
         /\ GapNow[loss] * deltas.unit = -(Overweight(loss) * deltas.unit)
         /\ ~(At(f, loss) > 0)
         /\ Sale(f, loss) = -At(f, loss)
         /\ Capacity(f, loss) = Overweight(loss) * deltas.unit + At(f, loss)
<1>1. /\ loss \in DOMAIN portfolio.weight /\ Overweight(loss) \in Nat
      /\ Overweight(loss) > MinDelta /\ deltas.unit \in Nat
      /\ Overweight(loss) * deltas.unit \in Nat
  BY LossIsKnown
<1>2. loss \in DOMAIN GapNow /\ GapNow[loss] = At(portfolio.target, loss) - portfolio.weight[loss]
  BY <1>1 DEF GapNow, Gaps, At
<1>3. At(portfolio.target, loss) \in Int /\ portfolio.weight[loss] \in Int
  BY <1>1 DEF TaxSetting, IsDeltas, At
<1>4. GapNow[loss] = -Overweight(loss) /\ GapNow[loss] \in Int
  BY <1>2, <1>3 DEF Overweight
<1>5. GapNow[loss] < 0
  BY <1>1, <1>4 DEF MinDelta
<1>6. GapNow[loss] * deltas.unit = -(Overweight(loss) * deltas.unit)
  BY <1>1, <1>4
<1>7. At(f, loss) \in Int
  BY CapacityIsNatural
<1>8. ~(At(f, loss) > 0)
  BY <1>4, <1>5 DEF At, Fitting, Approaches
<1>9. -(Overweight(loss) * deltas.unit) <= At(f, loss)
  <2>1. CASE loss \in DOMAIN f /\ f[loss] < 0
    BY <1>6, <2>1 DEF At, Fitting, Approaches
  <2>2. CASE ~(loss \in DOMAIN f /\ f[loss] < 0)
    BY <1>1, <1>7, <1>8, <2>2 DEF At
  <2> QED BY <2>1, <2>2
<1>10. Sale(f, loss) = -At(f, loss)
  BY <1>7, <1>8 DEF Sale
<1>11. Capacity(f, loss) = Overweight(loss) * deltas.unit + At(f, loss)
  BY <1>1, <1>7, <1>9, <1>10 DEF Capacity
<1> QED BY <1>2, <1>5, <1>6, <1>8, <1>10, <1>11

LEMMA MovedFits ==
  ASSUME TaxSetting, NEW loss \in LossCandidates, NEW f, IsDeltas(f), Fitting(f),
         NEW gain \in DOMAIN f, gain # loss, NEW g, NEW n \in Nat,
         Moved(f, g, gain, loss, n), n <= -f[gain], n <= Capacity(f, loss)
  PROVE  /\ Fitting(g) /\ g[gain] <= 0 /\ g[gain] = f[gain] + n
         /\ At(g, loss) = At(f, loss) - n
         /\ Capacity(g, loss) = Capacity(f, loss) - n
<1>1. /\ f[gain] \in Int /\ At(f, loss) \in Int
      /\ Overweight(loss) * deltas.unit \in Nat
  BY CapacityIsNatural, LossIsKnown DEF IsDeltas
<1>2. /\ loss \in DOMAIN GapNow /\ GapNow[loss] < 0
      /\ GapNow[loss] * deltas.unit = -(Overweight(loss) * deltas.unit)
      /\ ~(At(f, loss) > 0)
      /\ Capacity(f, loss) = Overweight(loss) * deltas.unit + At(f, loss)
  BY LossInBounds
<1>3. /\ g[gain] = f[gain] + n /\ g[loss] = At(f, loss) - n /\ At(g, loss) = g[loss]
      /\ DOMAIN g = DOMAIN f \cup {loss}
  BY DEF Moved, At
<1>4. g[gain] <= 0 /\ f[gain] <= g[gain] /\ g[gain] \in Int
  BY <1>1, <1>3
<1>5. g[loss] <= 0 /\ GapNow[loss] * deltas.unit <= g[loss]
  BY <1>1, <1>2, <1>3
<1>6. ASSUME NEW x \in DOMAIN g
      PROVE  /\ x \in DOMAIN GapNow
             /\ g[x] > 0 => GapNow[x] > 0 /\ g[x] <= (GapNow[x] + SmallGaps) * deltas.unit
             /\ g[x] < 0 => GapNow[x] < 0 /\ GapNow[x] * deltas.unit <= g[x]
  <2>1. CASE x = gain
    <3>1. ~(g[x] > 0) /\ x \in DOMAIN GapNow
      BY <1>4, <2>1 DEF Fitting, Approaches
    <3>2. ASSUME g[x] < 0
          PROVE  GapNow[x] < 0 /\ GapNow[x] * deltas.unit <= g[x]
      <4>1. f[x] < 0
        BY <1>1, <1>4, <2>1, <3>2
      <4>2. GapNow[x] < 0 /\ GapNow[x] * deltas.unit <= f[x]
        BY <2>1, <4>1 DEF Fitting, Approaches
      <4>3. GapNow[x] \in Int /\ deltas.unit \in Int
        BY <3>1, GapsAreDeltas DEF GapNow, TaxSetting, IsDeltas
      <4>4. GapNow[x] * deltas.unit \in Int
        BY <4>3
      <4> QED BY <1>1, <1>4, <2>1, <4>2, <4>4
    <3> QED BY <3>1, <3>2
  <2>2. CASE x = loss
    BY <1>1, <1>2, <1>3, <1>5, <2>2
  <2>3. CASE x \notin {gain, loss}
    <3>1. x \in DOMAIN f /\ g[x] = f[x]
      BY <1>3, <2>3 DEF Moved
    <3> QED BY <3>1 DEF Fitting, Approaches
  <2> QED BY <2>1, <2>2, <2>3
<1>7. Fitting(g)
  BY <1>6 DEF Fitting, Approaches
<1>8. IsDeltas(g)
  BY MovedKeepsTotal
<1>9. Capacity(g, loss) = Overweight(loss) * deltas.unit + At(g, loss)
  BY <1>7, <1>8, LossInBounds
<1> QED BY <1>1, <1>2, <1>3, <1>4, <1>7, <1>9

\* What holds of a gain's sale that has been offered to the first i losses.
Offered(f, gain, losses, acc, i) ==
  /\ acc.left \in Int /\ IsDeltas(acc.delta) /\ TotalOf(acc.delta) = TotalOf(f)
  /\ DOMAIN f \subseteq DOMAIN acc.delta
  /\ DOMAIN acc.delta \subseteq DOMAIN f \cup LossCandidates
  /\ \A x \in DOMAIN f \ LossCandidates : x # gain => acc.delta[x] = f[x]
  /\ i = 0 => acc.delta = f
  /\ Fitting(f) /\ f[gain] < 0 =>
       /\ Fitting(acc.delta) /\ acc.left = -acc.delta[gain] /\ acc.left >= 0
       /\ f[gain] <= acc.delta[gain]
       /\ \A loss \in LossCandidates : Capacity(acc.delta, loss) <= Capacity(f, loss)
       /\ acc.left > Least =>
            \A j \in 1..i : Capacity(acc.delta, losses[j]) < Least

LEMMA OfferedFirst ==
  ASSUME NEW f, IsDeltas(f), NEW gain \in DOMAIN f, NEW losses, TaxSetting
  PROVE  Offered(f, gain, losses, [delta |-> f, left |-> Sale(f, gain)], 0)
<1> DEFINE acc == [delta |-> f, left |-> Sale(f, gain)]
<1>1. f[gain] \in Int /\ At(f, gain) = f[gain]
  BY DEF IsDeltas, At
<1>2. /\ Sale(f, gain) \in Int
      /\ f[gain] < 0 => Sale(f, gain) = -f[gain]
  BY <1>1 DEF Sale
<1>3. acc.delta = f /\ acc.left = Sale(f, gain)
  OBVIOUS
<1>4. \A loss \in LossCandidates : Capacity(f, loss) \in Nat
  BY CapacityIsNatural
<1>5. \A loss \in LossCandidates : Capacity(f, loss) <= Capacity(f, loss)
  BY <1>4
<1> HIDE DEF acc
<1>6. f[gain] < 0 => acc.left = -acc.delta[gain] /\ acc.left >= 0 /\ f[gain] <= acc.delta[gain]
  BY <1>1, <1>2, <1>3
<1>7. 1..0 = {}
  OBVIOUS
<1>8. Offered(f, gain, losses, acc, 0)
  BY <1>2, <1>3, <1>5, <1>6, <1>7 DEF Offered
<1> QED BY <1>8 DEF acc

LEMMA OfferedNext ==
  ASSUME TaxSetting, NEW f, IsDeltas(f), NEW gain \in DOMAIN f, gain \notin LossCandidates,
         NEW losses, NEW i \in Nat, \A j \in 1..(i + 1) : losses[j] \in LossCandidates,
         NEW acc, Offered(f, gain, losses, acc, i)
  PROVE  Offered(f, gain, losses, Shift(acc, gain, losses[i + 1]), i + 1)
<1> DEFINE loss == losses[i + 1]
           next == Shift(acc, gain, loss)
           capacity == Capacity(acc.delta, loss)
<1>1. loss \in LossCandidates /\ gain # loss /\ gain \in DOMAIN acc.delta
  BY DEF Offered
<1>2. IsDeltas(acc.delta) /\ acc.left \in Int
  BY DEF Offered
<1> HIDE DEF loss
<1>3. capacity \in Nat /\ Least \in Nat \ {0} /\ At(acc.delta, loss) \in Int
  BY <1>1, <1>2, CapacityIsNatural, LossIsKnown
<1>4. \/ /\ next = acc
         /\ acc.left > Least => capacity < Least
      \/ \E n \in {acc.left, capacity} :
           /\ n \in Nat /\ n <= acc.left /\ n <= capacity
           /\ next.left = acc.left - n
           /\ Moved(acc.delta, next.delta, gain, loss, n)
  BY <1>1, <1>2, ShiftMoves
<1> HIDE DEF capacity, next
<1>5. \A j \in 1..(i + 1) : j \in 1..i \/ j = i + 1
  OBVIOUS
<1>6. CASE next = acc /\ (acc.left > Least => capacity < Least)
  <2>1. ASSUME Fitting(f), f[gain] < 0, acc.left > Least
        PROVE  \A j \in 1..(i + 1) : Capacity(acc.delta, losses[j]) < Least
    <3>1. \A j \in 1..i : Capacity(acc.delta, losses[j]) < Least
      BY <2>1 DEF Offered
    <3>2. Capacity(acc.delta, losses[i + 1]) < Least
      BY <1>6, <2>1 DEF loss, capacity
    <3> QED BY <1>5, <3>1, <3>2
  <2>2. Offered(f, gain, losses, acc, i + 1)
    BY <2>1 DEF Offered
  <2> QED BY <1>6, <2>2 DEF next, loss
<1>7. CASE \E n \in {acc.left, capacity} :
             /\ n \in Nat /\ n <= acc.left /\ n <= capacity
             /\ next.left = acc.left - n
             /\ Moved(acc.delta, next.delta, gain, loss, n)
  <2> DEFINE g == next.delta
  <2>1. PICK n \in Nat : /\ n = acc.left \/ n = capacity
                         /\ n <= acc.left /\ n <= capacity
                         /\ next.left = acc.left - n
                         /\ Moved(acc.delta, g, gain, loss, n)
    BY <1>7
  <2>2. IsDeltas(g) /\ TotalOf(g) = TotalOf(acc.delta)
    BY <1>1, <1>2, <2>1, MovedKeepsTotal
  <2>3. next.left \in Int
    BY <1>2, <2>1
  <2>4. DOMAIN g = DOMAIN acc.delta \cup {loss}
    BY <2>1 DEF Moved
  <2>5. \A x \in DOMAIN f \ LossCandidates : x # gain => g[x] = f[x]
    <3> SUFFICES ASSUME NEW x \in DOMAIN f \ LossCandidates, x # gain
                 PROVE  g[x] = f[x]
      OBVIOUS
    <3>1. x \in DOMAIN acc.delta \ {gain, loss}
      BY <1>1 DEF Offered
    <3>2. g[x] = acc.delta[x]
      BY <2>1, <3>1 DEF Moved
    <3> QED BY <3>2 DEF Offered
  <2> HIDE DEF g
  <2>6. ASSUME Fitting(f), f[gain] < 0
        PROVE  /\ Fitting(g) /\ next.left = -g[gain] /\ next.left >= 0
               /\ f[gain] <= g[gain]
               /\ \A l \in LossCandidates : Capacity(g, l) <= Capacity(f, l)
               /\ next.left > Least =>
                    \A j \in 1..(i + 1) : Capacity(g, losses[j]) < Least
    <3>1. /\ Fitting(acc.delta) /\ acc.left = -acc.delta[gain] /\ acc.left >= 0
          /\ f[gain] <= acc.delta[gain]
          /\ \A l \in LossCandidates : Capacity(acc.delta, l) <= Capacity(f, l)
          /\ acc.left > Least =>
               \A j \in 1..i : Capacity(acc.delta, losses[j]) < Least
      BY <2>6 DEF Offered
    <3>2. acc.delta[gain] \in Int /\ f[gain] \in Int
      BY <1>1, <1>2 DEF IsDeltas
    <3>3. /\ Fitting(g) /\ g[gain] <= 0 /\ g[gain] = acc.delta[gain] + n
          /\ Capacity(g, loss) = capacity - n
      <4>1. n <= -acc.delta[gain]
        BY <2>1, <3>1
      <4> QED BY <1>1, <1>2, <2>1, <3>1, <4>1, MovedFits DEF capacity
    <3>4. ASSUME NEW l \in LossCandidates
          PROVE  /\ Capacity(g, l) \in Nat /\ Capacity(acc.delta, l) \in Nat /\ Capacity(f, l) \in Nat
                 /\ Capacity(g, l) <= Capacity(acc.delta, l)
      <4>1. /\ Capacity(g, l) \in Nat /\ Capacity(acc.delta, l) \in Nat
            /\ Capacity(f, l) \in Nat
        BY <1>2, <2>2, CapacityIsNatural
      <4>2. CASE l = loss
        BY <1>3, <2>1, <3>3, <4>1, <4>2 DEF capacity
      <4>3. CASE l # loss
        <5>1. l # gain
          OBVIOUS
        <5>2. At(g, l) = At(acc.delta, l)
          BY <2>1, <2>4, <4>3, <5>1 DEF At, Moved
        <5>3. Capacity(g, l) = Capacity(acc.delta, l)
          BY <5>2 DEF Capacity, Sale
        <5> QED BY <4>1, <5>3
      <4> QED BY <4>1, <4>2, <4>3
    <3>5. \A l \in LossCandidates : Capacity(g, l) <= Capacity(f, l)
      <4> SUFFICES ASSUME NEW l \in LossCandidates
                   PROVE  Capacity(g, l) <= Capacity(f, l)
        OBVIOUS
      <4>1. Capacity(acc.delta, l) <= Capacity(f, l)
        BY <3>1
      <4> QED BY <3>4, <4>1
    <3>6. next.left = -g[gain] /\ next.left >= 0 /\ f[gain] <= g[gain]
      BY <1>2, <2>1, <3>1, <3>2, <3>3
    <3>7. ASSUME next.left > Least, NEW j \in 1..(i + 1)
          PROVE  Capacity(g, losses[j]) < Least
      <4>1. acc.left > Least
        BY <1>2, <1>3, <2>1, <3>7
      <4>2. n = capacity
        BY <1>2, <1>3, <2>1, <3>7
      <4>3. CASE j = i + 1
        BY <1>3, <3>3, <4>2, <4>3 DEF loss
      <4>4. CASE j \in 1..i
        <5>1. Capacity(acc.delta, losses[j]) < Least /\ losses[j] \in LossCandidates
          BY <3>1, <4>1, <4>4
        <5> QED BY <1>3, <3>4, <5>1
      <4> QED BY <1>5, <4>3, <4>4
    <3> QED BY <3>3, <3>5, <3>6, <3>7
  <2>7. /\ TotalOf(acc.delta) = TotalOf(f) /\ DOMAIN f \subseteq DOMAIN acc.delta
        /\ DOMAIN acc.delta \subseteq DOMAIN f \cup LossCandidates
    BY DEF Offered
  <2>8. Offered(f, gain, losses, next, i + 1)
    BY <1>1, <2>2, <2>3, <2>4, <2>5, <2>6, <2>7 DEF Offered, g
  <2> QED BY <2>8 DEF next, loss
<1> QED BY <1>4, <1>6, <1>7

LEMMA OneShifts ==
  ASSUME TaxSetting, NEW f, IsDeltas(f), NEW gain \in DOMAIN f, gain \notin LossCandidates,
         NEW losses, Len(losses) \in Nat,
         \A j \in 1..Len(losses) : losses[j] \in LossCandidates
  PROVE  \E acc : /\ ShiftOne(f, gain, losses) = acc.delta
                  /\ Offered(f, gain, losses, acc, Len(losses))
<1>1. PICK h : /\ IsOne(f, gain, losses, Len(losses), h)
               /\ ShiftOne(f, gain, losses) = h[Len(losses)].delta
  BY OneIsFixpoint
<1> DEFINE N == {n \in Nat : n <= Len(losses) => Offered(f, gain, losses, h[n], n)}
<1>2. 0 \in N
  <2>1. h[0] = [delta |-> f, left |-> Sale(f, gain)]
    BY <1>1 DEF IsOne, OneStep
  <2> QED BY <2>1, OfferedFirst
<1>3. ASSUME NEW n \in Nat, n \in N
      PROVE  n + 1 \in N
  <2> SUFFICES ASSUME n + 1 <= Len(losses)
               PROVE  Offered(f, gain, losses, h[n + 1], n + 1)
    OBVIOUS
  <2>1. Offered(f, gain, losses, h[n], n)
    BY <1>3
  <2>2. h[n + 1] = Shift(h[n], gain, losses[n + 1])
    <3>1. n + 1 \in 0..Len(losses) /\ n + 1 # 0 /\ (n + 1) - 1 = n
      OBVIOUS
    <3> QED BY <1>1, <3>1 DEF IsOne, OneStep
  <2>3. \A j \in 1..(n + 1) : losses[j] \in LossCandidates
    OBVIOUS
  <2> QED BY <2>1, <2>2, <2>3, OfferedNext
<1> HIDE DEF N
<1>4. \A n \in Nat : n \in N
  BY <1>2, <1>3, NumberInduction
<1> QED BY <1>1, <1>4 DEF N

\* What holds when the sales of the first k gains have been offered.
Spread(f, gains, g, k) ==
  /\ IsDeltas(g) /\ TotalOf(g) = TotalOf(f)
  /\ DOMAIN f \subseteq DOMAIN g /\ DOMAIN g \subseteq DOMAIN f \cup LossCandidates
  /\ \A x \in DOMAIN f \ LossCandidates : (\A j \in 1..k : gains[j] # x) => g[x] = f[x]
  /\ k = 0 \/ LossCandidates = {} => g = f
  /\ Fitting(f) =>
       /\ Fitting(g)
       /\ \A j \in 1..k, loss \in LossCandidates :
            -g[gains[j]] > Least => Capacity(g, loss) < Least

LEMMA SpreadNext ==
  ASSUME TaxSetting, NEW f, IsDeltas(f), NEW losses \in SetToSeqs(LossCandidates),
         IsFiniteSet(LossCandidates), NEW gains, NEW k \in Nat,
         \A j \in 1..(k + 1) : /\ gains[j] \in DOMAIN f \ LossCandidates
                               /\ f[gains[j]] < 0,
         \A i, j \in 1..(k + 1) : i # j => gains[i] # gains[j],
         NEW g, Spread(f, gains, g, k)
  PROVE  Spread(f, gains, ShiftOne(g, gains[k + 1], losses), k + 1)
<1> DEFINE gain == gains[k + 1]
           h == ShiftOne(g, gain, losses)
<1>1. /\ Len(losses) \in Nat
      /\ \A i \in 1..Len(losses) : losses[i] \in LossCandidates
      /\ \A x \in LossCandidates : \E i \in 1..Len(losses) : losses[i] = x
  BY OrdersAll
<1>2. gain \in DOMAIN f \ LossCandidates /\ f[gain] < 0
  OBVIOUS
<1>3. \A j \in 1..k : gains[j] # gain /\ gains[j] \in DOMAIN f \ LossCandidates
  OBVIOUS
<1>4. \A j \in 1..(k + 1) : j \in 1..k \/ j = k + 1
  OBVIOUS
<1> HIDE DEF gain
<1>5. g[gain] = f[gain] /\ gain \in DOMAIN g /\ IsDeltas(g)
  BY <1>2, <1>3 DEF Spread
<1>6. PICK acc : h = acc.delta /\ Offered(g, gain, losses, acc, Len(losses))
  BY <1>1, <1>2, <1>5, OneShifts
<1> HIDE DEF h
<1>7. IsDeltas(h) /\ TotalOf(h) = TotalOf(f)
  BY <1>6 DEF Offered, Spread
<1>8. DOMAIN f \subseteq DOMAIN h /\ DOMAIN h \subseteq DOMAIN f \cup LossCandidates
  BY <1>6 DEF Offered, Spread
<1>9. \A x \in DOMAIN g \ LossCandidates : x # gain => h[x] = g[x]
  BY <1>6 DEF Offered
<1>10. \A x \in DOMAIN f \ LossCandidates : (\A j \in 1..(k + 1) : gains[j] # x) => h[x] = f[x]
  <2> SUFFICES ASSUME NEW x \in DOMAIN f \ LossCandidates, \A j \in 1..(k + 1) : gains[j] # x
               PROVE  h[x] = f[x]
    OBVIOUS
  <2>1. x # gain /\ \A j \in 1..k : gains[j] # x
    BY DEF gain
  <2>2. g[x] = f[x] /\ x \in DOMAIN g
    BY <2>1 DEF Spread
  <2> QED BY <1>9, <2>1, <2>2
<1>11. ASSUME Fitting(f)
       PROVE  /\ Fitting(h)
              /\ \A j \in 1..(k + 1), loss \in LossCandidates :
                   -h[gains[j]] > Least => Capacity(h, loss) < Least
  <2>1. /\ Fitting(g)
        /\ \A j \in 1..k, loss \in LossCandidates :
            -g[gains[j]] > Least => Capacity(g, loss) < Least
    BY <1>11 DEF Spread
  <2>2. /\ Fitting(h) /\ acc.left = -h[gain]
        /\ \A loss \in LossCandidates : Capacity(h, loss) <= Capacity(g, loss)
        /\ acc.left > Least =>
             \A j \in 1..Len(losses) : Capacity(h, losses[j]) < Least
    BY <1>2, <1>5, <1>6, <2>1 DEF Offered
  <2>3. ASSUME NEW j \in 1..(k + 1), NEW loss \in LossCandidates, -h[gains[j]] > Least
        PROVE  Capacity(h, loss) < Least
    <3>1. CASE j = k + 1
      <4>1. -h[gain] > Least
        BY <2>3, <3>1 DEF gain
      <4>2. PICK i \in 1..Len(losses) : losses[i] = loss
        BY <1>1
      <4> QED BY <2>2, <4>1, <4>2
    <3>2. CASE j \in 1..k
      <4>1. h[gains[j]] = g[gains[j]]
        BY <1>3, <1>9, <3>2 DEF Spread
      <4>2. Capacity(g, loss) < Least /\ Capacity(h, loss) <= Capacity(g, loss)
        BY <2>1, <2>2, <2>3, <3>2, <4>1
      <4>3. Capacity(g, loss) \in Nat /\ Capacity(h, loss) \in Nat /\ Least \in Nat
        BY <1>5, <1>7, CapacityIsNatural, LossIsKnown
      <4> QED BY <4>2, <4>3
    <3> QED BY <1>4, <3>1, <3>2
  <2> QED BY <2>2, <2>3
<1>12. ASSUME LossCandidates = {}
       PROVE  h = f
  <2>1. Len(losses) = 0
    BY <1>1, <1>12
  <2> QED BY <1>6, <1>12, <2>1 DEF Offered, Spread
<1>13. Spread(f, gains, h, k + 1)
  <2>1. k + 1 # 0
    OBVIOUS
  <2> QED BY <1>7, <1>8, <1>10, <1>11, <1>12, <2>1 DEF Spread
<1> QED BY <1>13 DEF h, gain

LEMMA AllShifts ==
  ASSUME TaxSetting, IsDeltas(deltas.delta), IsFiniteSet(LossCandidates),
         NEW losses \in SetToSeqs(LossCandidates), NEW gains \in SetToSeqs(GainSells)
  PROVE  LET f == deltas.delta
             g == ShiftAll(f, gains, losses)
         IN  /\ IsDeltas(g) /\ TotalOf(g) = TotalOf(f)
             /\ DOMAIN f \subseteq DOMAIN g /\ DOMAIN g \subseteq DOMAIN f \cup LossCandidates
             /\ \A x \in DOMAIN f \ LossCandidates : x \notin GainSells => g[x] = f[x]
             /\ GainSells = {} \/ LossCandidates = {} => g = f
             /\ Fitting(f) =>
                  /\ Fitting(g)
                  /\ \A gain \in GainSells, loss \in LossCandidates :
                       -g[gain] > Least => Capacity(g, loss) < Least
<1> DEFINE f == deltas.delta
           g == ShiftAll(f, gains, losses)
<1>1. /\ Len(gains) \in Nat
      /\ \A i \in 1..Len(gains) : gains[i] \in GainSells
      /\ \A x \in GainSells : \E i \in 1..Len(gains) : gains[i] = x
      /\ \A i, j \in 1..Len(gains) : i # j => gains[i] # gains[j]
  <2>1. GainSells \in SUBSET DOMAIN f
    BY DEF GainSells
  <2>2. IsFiniteSet(GainSells)
    BY <2>1, FS_Subset DEF IsDeltas
  <2> QED BY <2>2, OrdersAll
<1>2. ASSUME NEW x \in GainSells
      PROVE  x \in DOMAIN f \ LossCandidates /\ f[x] < 0
  <2>1. x \in DOMAIN f /\ portfolio.pnl[x] = "gain" /\ f[x] < -MinDelta * deltas.unit
    BY DEF GainSells, Has
  <2>2. x \notin LossCandidates
    BY <2>1 DEF LossCandidates, Has
  <2>3. f[x] \in Int /\ deltas.unit \in Nat /\ -MinDelta * deltas.unit \in Int
        /\ -MinDelta * deltas.unit <= 0
    BY <2>1 DEF IsDeltas, TaxSetting, MinDelta
  <2> QED BY <2>1, <2>2, <2>3
<1> HIDE DEF f, g
<1>3. IsDeltas(f)
  BY DEF f
<1>4. PICK h : IsAll(f, gains, losses, Len(gains), h) /\ g = h[Len(gains)]
  BY <1>1, AllIsFixpoint DEF g
<1> DEFINE N == {n \in Nat : n <= Len(gains) => Spread(f, gains, h[n], n)}
<1>5. 0 \in N
  <2>1. h[0] = f
    BY <1>1, <1>4 DEF IsAll, AllStep
  <2>2. 1..0 = {}
    OBVIOUS
  <2>3. Spread(f, gains, f, 0)
    BY <1>3, <2>2 DEF Spread
  <2> QED BY <2>1, <2>3
<1>6. ASSUME NEW n \in Nat, n \in N
      PROVE  n + 1 \in N
  <2> SUFFICES ASSUME n + 1 <= Len(gains)
               PROVE  Spread(f, gains, h[n + 1], n + 1)
    OBVIOUS
  <2>1. Spread(f, gains, h[n], n)
    BY <1>1, <1>6
  <2>2. h[n + 1] = ShiftOne(h[n], gains[n + 1], losses)
    <3>1. n + 1 \in 0..Len(gains) /\ n + 1 # 0 /\ (n + 1) - 1 = n
      BY <1>1
    <3> QED BY <1>4, <3>1 DEF IsAll, AllStep
  <2>3. \A j \in 1..(n + 1) : j \in 1..Len(gains)
    BY <1>1
  <2>4. \A j \in 1..(n + 1) : /\ gains[j] \in DOMAIN f \ LossCandidates
                              /\ f[gains[j]] < 0
    BY <1>1, <1>2, <2>3
  <2>5. \A i, j \in 1..(n + 1) : i # j => gains[i] # gains[j]
    BY <1>1, <2>3
  <2> QED BY <1>3, <2>1, <2>2, <2>4, <2>5, SpreadNext
<1> HIDE DEF N
<1>7. \A n \in Nat : n \in N
  BY <1>5, <1>6, NumberInduction
<1>8. Spread(f, gains, g, Len(gains))
  BY <1>1, <1>4, <1>7 DEF N
<1>9. \A x \in DOMAIN f \ LossCandidates : x \notin GainSells => g[x] = f[x]
  BY <1>1, <1>8 DEF Spread
<1>10. ASSUME Fitting(f), NEW gain \in GainSells, NEW loss \in LossCandidates, -g[gain] > Least
       PROVE  Capacity(g, loss) < Least
  <2>1. PICK j \in 1..Len(gains) : gains[j] = gain
    BY <1>1
  <2> QED BY <1>8, <1>10, <2>1 DEF Spread
<1>11. /\ IsDeltas(g) /\ TotalOf(g) = TotalOf(f)
       /\ DOMAIN f \subseteq DOMAIN g /\ DOMAIN g \subseteq DOMAIN f \cup LossCandidates
       /\ Fitting(f) => Fitting(g)
  BY <1>8 DEF Spread
<1>12. ASSUME GainSells = {} \/ LossCandidates = {}
       PROVE  g = f
  <2>1. GainSells = {} => Len(gains) = 0
    BY <1>1
  <2> QED BY <1>8, <1>12, <2>1 DEF Spread
<1> QED BY <1>9, <1>10, <1>11, <1>12 DEF f, g

\* What the tax step makes of neutral deltas: what it drops is small, and where
\* they were on the way to the target no gain is sold for want of a loss.
LEMMA LossesPreferred ==
  ASSUME TaxSetting, IsPlan(deltas), IsFiniteSet(LossCandidates),
         TotalOf(deltas.delta) = 0,
         NEW losses \in SetToSeqs(LossCandidates), NEW gains \in SetToSeqs(GainSells),
         NEW T, IsFiniteSet(T), DOMAIN deltas.delta \cup LossCandidates \subseteq T
  PROVE  LET q == PreferLossSellsOverGainSells(gains, losses)
         IN  /\ IsPlan(q) /\ q.unit = deltas.unit
             /\ DOMAIN q.delta \subseteq DOMAIN deltas.delta \cup LossCandidates
             /\ TotalOf(q.delta) # 0 => GainSells # {} /\ LossCandidates # {}
             /\ Abs(TotalOf(q.delta)) <= Least * Cardinality(T \ DOMAIN q.delta)
             /\ Fitting(deltas.delta) =>
                  /\ Fitting(q.delta)
                  /\ \A gain \in DOMAIN q.delta, loss \in LossCandidates :
                       gain \in Has("gain") /\ q.delta[gain] < -Least =>
                         Capacity(q.delta, loss) <
                           (IF loss \in DOMAIN q.delta THEN 1 ELSE 2) * Least
<1> DEFINE f == deltas.delta
           g == ShiftAll(f, gains, losses)
           big == {x \in DOMAIN g : Abs(g[x]) >= MinDelta * deltas.unit}
           S == IF g = f THEN DOMAIN g ELSE big
           h == IF g = f THEN f ELSE Restrict(g, big)
           q == PreferLossSellsOverGainSells(gains, losses)
<1>1. /\ IsDeltas(f) /\ IsDeltas(g) /\ TotalOf(g) = 0
      /\ DOMAIN f \subseteq DOMAIN g /\ DOMAIN g \subseteq DOMAIN f \cup LossCandidates
      /\ \A x \in DOMAIN f \ LossCandidates : x \notin GainSells => g[x] = f[x]
      /\ GainSells = {} \/ LossCandidates = {} => g = f
      /\ Fitting(f) =>
           /\ Fitting(g)
           /\ \A gain \in GainSells, loss \in LossCandidates :
                -g[gain] > Least => Capacity(g, loss) < Least
  BY AllShifts DEF IsPlan
<1>2. Least \in Nat \ {0} /\ deltas.unit \in Nat \ {0}
  BY DEF Least, MinDelta, TaxSetting
<1>3. big \in SUBSET DOMAIN g /\ \A x \in DOMAIN g : x \notin big => Abs(g[x]) < Least
  <2>1. \A x \in DOMAIN g : Abs(g[x]) \in Int
    BY <1>1 DEF Abs, IsDeltas
  <2> HIDE DEF g
  <2> QED BY <1>2, <2>1 DEF Least
<1>4. q = IF g = f THEN deltas ELSE [deltas EXCEPT !.delta = Restrict(g, big)]
  BY DEF PreferLossSellsOverGainSells
<1> HIDE DEF f, g, big
<1>5. S \in SUBSET DOMAIN g /\ \A x \in DOMAIN g \ S : Abs(g[x]) < Least
  BY <1>3
<1>6. q.unit = deltas.unit /\ q.delta = h /\ q = [delta |-> q.delta, unit |-> q.unit]
  <2>1. deltas = [delta |-> f, unit |-> deltas.unit]
    BY DEF IsPlan, f
  <2>2. q = [delta |-> h, unit |-> deltas.unit]
    BY <1>4, <2>1
  <2> HIDE DEF h, q
  <2> QED BY <2>2
<1>7. IsDeltas(h) /\ DOMAIN h = S /\ \A x \in S : h[x] = g[x]
  BY <1>1, <1>3, PartOfDeltas
<1> HIDE DEF S, q, h
<1>8. IsPlan(q)
  BY <1>2, <1>6, <1>7 DEF IsPlan
<1>9. DOMAIN q.delta \subseteq DOMAIN f \cup LossCandidates
  BY <1>1, <1>5, <1>6, <1>7
<1>10. Abs(TotalOf(h)) <= Least * Cardinality(T \ S)
  <2> DEFINE dropped == DOMAIN g \ S
  <2>1. /\ IsFiniteSet(DOMAIN g) /\ IsFiniteSet(dropped) /\ IsFiniteSet(S)
        /\ IsFiniteSet(T \ S) /\ \A x \in DOMAIN g : g[x] \in Int
    BY <1>1, <1>5, FS_Subset DEF IsDeltas
  <2>2. dropped \subseteq T \ S
    BY <1>1 DEF f
  <2>3. \A x \in dropped : g[x] \in Int /\ -Least <= g[x] /\ g[x] <= Least
    <3> SUFFICES ASSUME NEW x \in dropped
                 PROVE  g[x] \in Int /\ -Least <= g[x] /\ g[x] <= Least
      OBVIOUS
    <3>1. g[x] \in Int /\ Abs(g[x]) < Least
      BY <1>5, <2>1
    <3> QED BY <1>2, <3>1 DEF Abs
  <2>4. SumFunctionOnSet(g, DOMAIN g) =
          SumFunctionOnSet(g, S) + SumFunctionOnSet(g, dropped)
    BY <1>5, <2>1, SumOfParts
  <2> HIDE DEF dropped
  <2>5. SumFunctionOnSet(g, DOMAIN g) = 0
    BY <1>1, TotalIsSum
  <2>6. TotalOf(h) = SumFunctionOnSet(g, S) /\ SumFunctionOnSet(g, S) \in Int
    <3>1. TotalOf(h) = SumFunctionOnSet(h, S)
      BY <1>7, TotalIsSum
    <3>2. \A x \in S : g[x] \in Int /\ g[x] = h[x]
      BY <1>5, <1>7, <2>1
    <3>3. SumFunctionOnSet(g, S) \in Int /\ SumFunctionOnSet(g, S) = SumFunctionOnSet(h, S)
      BY <2>1, <3>2, SumIsInteger, SumOfEqualTerms
    <3> QED BY <3>1, <3>3
  <2>7. /\ SumFunctionOnSet(g, dropped) \in Int /\ Cardinality(dropped) \in Nat
        /\ -(Least * Cardinality(dropped)) <= SumFunctionOnSet(g, dropped)
        /\ SumFunctionOnSet(g, dropped) <= Least * Cardinality(dropped)
    BY <1>2, <2>1, <2>3, SumIsBounded
  <2>8. Cardinality(dropped) <= Cardinality(T \ S) /\ Cardinality(T \ S) \in Nat
    BY <2>1, <2>2, FS_Subset, FS_CardinalityType
  <2>9. /\ Cardinality(dropped) * Least <= Cardinality(T \ S) * Least
        /\ Cardinality(dropped) * Least = Least * Cardinality(dropped)
        /\ Cardinality(T \ S) * Least = Least * Cardinality(T \ S)
        /\ Least * Cardinality(dropped) \in Int /\ Least * Cardinality(T \ S) \in Int
    <3>1. Cardinality(dropped) \in Nat
      BY <2>7
    <3> QED BY <1>2, <2>8, <3>1, ProductIsMonotonic
  <2>10. TotalOf(h) = -SumFunctionOnSet(g, dropped)
    BY <2>4, <2>5, <2>6, <2>7
  <2> DEFINE all == Least * Cardinality(T \ S)
             total == TotalOf(h)
  <2>11. total \in Int /\ all \in Int /\ -all <= total /\ total <= all
    BY <2>7, <2>9, <2>10
  <2> HIDE DEF all, total
  <2>12. Abs(total) <= all
    BY <2>11 DEF Abs
  <2> QED BY <2>12 DEF all, total
<1>11. ASSUME Fitting(f)
       PROVE  Fitting(h)
  <2>1. Fitting(g)
    BY <1>1, <1>11
  <2> QED BY <1>5, <1>7, <2>1 DEF Fitting, Approaches
<1>12. ASSUME Fitting(f), NEW gain \in S, NEW loss \in LossCandidates,
              gain \in Has("gain"), h[gain] < -Least
       PROVE  Capacity(h, loss) < (IF loss \in S THEN 1 ELSE 2) * Least
  <2>1. gain \notin LossCandidates
    BY <1>12 DEF LossCandidates, Has
  <2>2. gain \in DOMAIN f /\ h[gain] = g[gain] /\ g[gain] \in Int
    BY <1>1, <1>5, <1>7, <2>1 DEF IsDeltas
  <2>3. gain \in GainSells
    <3> SUFFICES ASSUME gain \notin GainSells
                 PROVE  FALSE
      OBVIOUS
    <3>1. f[gain] = g[gain]
      BY <1>1, <2>1, <2>2
    <3>2. -MinDelta * deltas.unit = -Least
      BY <1>2 DEF Least, MinDelta
    <3>3. f[gain] < -MinDelta * deltas.unit
      BY <1>12, <2>2, <3>1, <3>2
    <3> QED BY <1>12, <2>2, <3>3 DEF GainSells, f
  <2>4. Capacity(g, loss) < Least
    <3>1. -g[gain] > Least
      BY <1>2, <1>12, <2>2
    <3> QED BY <1>1, <1>12, <2>3, <3>1
  <2>5. /\ Capacity(g, loss) = Overweight(loss) * deltas.unit + At(g, loss)
        /\ Capacity(h, loss) = Overweight(loss) * deltas.unit + At(h, loss)
        /\ Overweight(loss) * deltas.unit \in Int
        /\ At(g, loss) \in Int /\ At(h, loss) \in Int
    BY <1>1, <1>7, <1>11, <1>12, LossInBounds, LossIsKnown, CapacityIsNatural
  <2>6. CASE loss \in S
    <3>1. At(h, loss) = At(g, loss)
      BY <1>5, <1>7, <2>6 DEF At
    <3> QED BY <1>2, <2>4, <2>5, <2>6, <3>1
  <2>7. CASE loss \notin S
    <3>1. At(h, loss) = 0
      BY <1>7, <2>7 DEF At
    <3>2. Abs(At(g, loss)) < Least
      <4>1. CASE loss \in DOMAIN g
        BY <1>5, <2>7, <4>1 DEF At
      <4>2. CASE loss \notin DOMAIN g
        BY <1>2, <4>2 DEF At, Abs
      <4> QED BY <4>1, <4>2
    <3> QED BY <1>2, <2>4, <2>5, <2>7, <3>1, <3>2 DEF Abs
  <2> QED BY <2>6, <2>7
<1>13. TotalOf(q.delta) # 0 => GainSells # {} /\ LossCandidates # {}
  <2>1. g = f => TotalOf(h) = 0
    BY <1>1 DEF h, S
  <2> QED BY <1>1, <1>6, <2>1
<1> HIDE DEF f
<1>14. Fitting(f) => /\ Fitting(h)
                     /\ \A gain \in S, loss \in LossCandidates :
                          gain \in Has("gain") /\ h[gain] < -Least =>
                            Capacity(h, loss) < (IF loss \in S THEN 1 ELSE 2) * Least
  BY <1>11, <1>12
<1> QED BY <1>6, <1>7, <1>8, <1>9, <1>10, <1>13, <1>14 DEF q, f

\* A trade is within half a tenth of its delta, and so of the gap.
LEMMA TradeApproaches ==
  ASSUME NEW n \in Int, NEW unit \in Nat \ {0}, NEW gap \in Int, NEW extra \in Nat,
         n > 0 => gap > 0 /\ n <= (gap + extra) * unit,
         n < 0 => gap < 0 /\ gap * unit <= n,
         NEW k \in Rounded(n, 10 * unit), k # 0
  PROVE  Sign(k) = Sign(gap) /\ 10 * Abs(k) <= Abs(gap) + extra + 5
<1> DEFINE d == 10 * unit
<1>1. d \in Nat \ {0} /\ k \in Int /\ 2 * (k * d - n) <= d /\ 2 * (n - k * d) <= d
  <2>1. d \in Nat \ {0}
    OBVIOUS
  <2> HIDE DEF d
  <2> QED BY <2>1, RoundedIsInteger DEF d
<1>2. (n <= 0 => k <= 0) /\ (0 <= n => 0 <= k)
  <2>1. 0 * d = 0
    BY <1>1
  <2> QED BY <1>1, <2>1, RoundedStays
<1>3. k * d = (10 * k) * unit /\ k * d \in Int
  BY <1>1
<1>4. CASE k > 0
  <2>1. n > 0 /\ gap > 0
    BY <1>1, <1>2, <1>4
  <2>2. 10 * k <= gap + extra + 5
    <3> SUFFICES ASSUME gap + extra + 6 <= 10 * k
                 PROVE  FALSE
      BY <1>1
    <3>1. (gap + extra + 6) * unit <= (10 * k) * unit
      BY <1>1, ProductIsMonotonic
    <3>2. (gap + extra + 6) * unit = (gap + extra) * unit + 6 * unit
          /\ (gap + extra) * unit \in Int
      <4>1. \A a \in Int : (a + 6) * unit = a * unit + 6 * unit /\ a * unit \in Int
        OBVIOUS
      <4> QED BY <4>1
    <3> QED BY <1>1, <1>3, <2>1, <3>1, <3>2
  <2> QED BY <1>1, <1>4, <2>1, <2>2 DEF Sign, Abs
<1>5. CASE k < 0
  <2>1. n < 0 /\ gap < 0
    BY <1>1, <1>2, <1>5
  <2>2. gap - 5 <= 10 * k
    <3> SUFFICES ASSUME 10 * k <= gap - 6
                 PROVE  FALSE
      BY <1>1
    <3>1. (10 * k) * unit <= (gap - 6) * unit
      BY <1>1, ProductIsMonotonic
    <3>2. (gap - 6) * unit = gap * unit - 6 * unit /\ gap * unit \in Int
      OBVIOUS
    <3> QED BY <1>1, <1>3, <2>1, <3>1, <3>2
  <2> QED BY <1>1, <1>5, <2>1, <2>2 DEF Sign, Abs
<1> QED BY <1>1, <1>4, <1>5

(***************************************************************************)
(* The steps of a plan                                                     *)
(***************************************************************************)
\* Every draft is a plan, one from signals nearly neutral, and what neutralizing
\* leaves is neutral, of what is held, targeted or drafted, and on the way to the
\* target where it comes from drift.
PlanInv ==
  /\ portfolio \in Portfolios
  /\ IsPlan(draft)
  /\ IsPlan(deltas)
  /\ stage = "start" => deltas = NoDeltas
  /\ stage # "start" /\ Drifted => draft = Drift
  /\ DOMAIN deltas.delta \subseteq DOMAIN draft.delta \cup DOMAIN GapNow
  /\ Drifted => Fitting(deltas.delta)
  /\ CashNeutral
  /\ TradesApproachTarget
  /\ LossesFirst

LEMMA PlanStart == PlanInit => PlanInv
<1> SUFFICES ASSUME PlanInit
             PROVE  PlanInv
  OBVIOUS
<1>1. IsPlan(NoDeltas) /\ TotalOf(NoDeltas.delta) = 0 /\ NoDeltas.unit = 1
  BY NoDeltasNeutral DEF NoDeltas
<1>2. NoDeltas.delta = NoTrades /\ DOMAIN NoTrades = {}
  BY DEF NoDeltas, NoTrades
<1>3. stage = "start" /\ draft = NoDeltas /\ deltas = NoDeltas /\ portfolio \in Portfolios
  BY DEF PlanInit
<1>4. Fitting(deltas.delta)
  BY <1>2, <1>3 DEF Fitting, Approaches
<1>5. CashNeutral /\ TradesApproachTarget /\ LossesFirst
  BY <1>1, <1>3 DEF CashNeutral, TradesApproachTarget, LossesFirst
<1> QED BY <1>1, <1>2, <1>3, <1>4, <1>5 DEF PlanInv

LEMMA PlanSetting ==
  ASSUME PlanInv
  PROVE  /\ IsDeltas(portfolio.weight) /\ IsDeltas(portfolio.target)
         /\ IsDeltas(portfolio.signals) /\ IsDeltas(portfolio.returns)
         /\ IsDeltas(GapNow) /\ TaxSetting /\ IsFiniteSet(LossCandidates)
         /\ LossCandidates \subseteq DOMAIN GapNow
         /\ DOMAIN GapNow = DOMAIN portfolio.weight \cup DOMAIN portfolio.target
<1>1. /\ IsDeltas(portfolio.weight) /\ IsDeltas(portfolio.target)
      /\ IsDeltas(portfolio.signals) /\ IsDeltas(portfolio.returns)
  BY ExecutionPolicyAssumption DEF PlanInv
<1>2. IsDeltas(GapNow)
  BY <1>1, GapsAreDeltas DEF GapNow
<1>3. TaxSetting
  BY <1>1 DEF TaxSetting, PlanInv, IsPlan
<1>4. DOMAIN GapNow = DOMAIN portfolio.weight \cup DOMAIN portfolio.target
  BY DEF GapNow, Gaps
<1>5. LossCandidates \subseteq DOMAIN portfolio.weight
  BY DEF LossCandidates, Has
<1>6. IsFiniteSet(LossCandidates)
  BY <1>1, <1>5, FS_Subset DEF IsDeltas
<1> QED BY <1>1, <1>2, <1>3, <1>4, <1>5, <1>6

LEMMA DraftKeepsPlan ==
  ASSUME PlanInv, Draft
  PROVE  PlanInv'
<1>1. /\ draft' \in CandidatePlans(portfolio.weight, portfolio.target,
                                   portfolio.trigger, portfolio.signals,
                                   portfolio.returns)
      /\ stage = "start" /\ stage' = "drafted"
      /\ UNCHANGED <<portfolio, taxAware, deltas, trades>>
  BY DEF Draft
<1>2. /\ IsPlan(draft')
      /\ portfolio.target = NoTrades /\ portfolio.trigger = {}
           => NearlyNeutralDraft(draft', Leanings)
  BY <1>1, PlanSetting, CandidatePlansArePlans DEF Leanings
<1>3. CashNeutral'
  <2>1. Leanings' = Leanings
    BY <1>1 DEF Leanings
  <2> QED BY <1>1, <1>2, <2>1 DEF CashNeutral, Tilted, NearlyNeutralDraft
<1>4. Drifted => draft' = Drift
  BY <1>1 DEF CandidatePlans, Drifted, Drift
<1>5. deltas.delta = NoTrades /\ DOMAIN NoTrades = {}
  BY <1>1 DEF PlanInv, NoDeltas, NoTrades
<1>6. Fitting(deltas.delta)'
  BY <1>1, <1>5 DEF Fitting, Approaches
<1>7. (Drifted <=> Drifted') /\ Drift' = Drift
  BY <1>1 DEF Drifted, Drift
<1>8. TradesApproachTarget' /\ LossesFirst'
  BY <1>1 DEF TradesApproachTarget, LossesFirst
<1> QED BY <1>1, <1>2, <1>3, <1>4, <1>5, <1>6, <1>7, <1>8 DEF PlanInv

\* What was said of the draft still holds after a step that leaves it alone.
LEMMA DraftStaysNeutral ==
  ASSUME CashNeutral, UNCHANGED <<portfolio, draft>>
  PROVE  (Tilted /\ TotalOf(draft.delta) # 0 =>
            /\ \E x \in Anchors(Leanings) : DOMAIN draft.delta = DOMAIN Leanings \ {x}
            /\ Abs(TotalOf(draft.delta)) < MinTilt * draft.unit)'
<1>1. Leanings' = Leanings /\ (Tilted <=> Tilted')
  BY DEF Leanings, Tilted
<1> QED BY <1>1 DEF CashNeutral

LEMMA NeutralizeKeepsPlan ==
  ASSUME PlanInv, Neutralize
  PROVE  PlanInv'
<1>1. PICK mode \in Modes, rate \in Rates, cap \in Caps :
        deltas' = Planned(mode, rate, cap)
  BY DEF Neutralize
<1>2. stage = "drafted" /\ stage' = "neutral" /\ UNCHANGED <<portfolio, taxAware, draft, trades>>
  BY DEF Neutralize
<1>3. /\ IsPlan(deltas') /\ TotalOf(deltas'.delta) = 0
      /\ DOMAIN deltas'.delta \subseteq DOMAIN draft.delta \cup DOMAIN GapNow
      /\ portfolio.target # NoTrades /\ draft = Drift =>
           Approaches(GapNow, SmallGaps, deltas'.delta, deltas'.unit)
  BY <1>1, PlannedIsNeutral DEF PlanInv
<1>4. (Drifted <=> Drifted') /\ Drift' = Drift /\ GapNow' = GapNow /\ SmallGaps' = SmallGaps
  BY <1>2 DEF Drifted, Drift, GapNow, SmallGaps
<1>5. Drifted => Fitting(deltas.delta)'
  <2>1. Drifted => portfolio.target # NoTrades /\ draft = Drift
    BY <1>2 DEF PlanInv, Drifted
  <2> QED BY <1>3, <1>4, <2>1 DEF Fitting
<1>6. CashNeutral'
  BY <1>2, <1>3, DraftStaysNeutral DEF PlanInv, CashNeutral
<1>7. TradesApproachTarget' /\ LossesFirst'
  BY <1>2 DEF TradesApproachTarget, LossesFirst
<1> QED BY <1>2, <1>3, <1>4, <1>5, <1>6, <1>7 DEF PlanInv

LEMMA PreferLossesKeepsPlan ==
  ASSUME PlanInv, PreferLosses
  PROVE  PlanInv'
<1> DEFINE T == DOMAIN GapNow \cup DOMAIN draft.delta
<1>1. stage = "neutral" /\ stage' = "taxed" /\ UNCHANGED <<portfolio, taxAware, draft, trades>>
  BY DEF PreferLosses
<1>2. /\ (Drifted <=> Drifted') /\ Drift' = Drift /\ GapNow' = GapNow
      /\ SmallGaps' = SmallGaps /\ LossCandidates' = LossCandidates /\ T' = T
      /\ \A pnl : Has(pnl)' = Has(pnl)
  BY <1>1 DEF Drifted, Drift, GapNow, SmallGaps, LossCandidates, Has, Overweight
<1>3. TotalOf(deltas.delta) = 0
  BY <1>1 DEF PlanInv, CashNeutral
<1>4. IsFiniteSet(T) /\ DOMAIN deltas.delta \cup LossCandidates \subseteq T
  <2>1. IsFiniteSet(DOMAIN GapNow) /\ IsFiniteSet(DOMAIN draft.delta)
    BY PlanSetting DEF PlanInv, IsPlan, IsDeltas
  <2> QED BY <2>1, PlanSetting, FS_Union DEF PlanInv
<1> HIDE DEF T
<1>5. ASSUME NEW gains \in SetToSeqs(GainSells), NEW losses \in SetToSeqs(LossCandidates),
             deltas' = PreferLossSellsOverGainSells(gains, losses)
      PROVE  /\ IsPlan(deltas') /\ deltas'.unit = deltas.unit
             /\ DOMAIN deltas'.delta \subseteq T
             /\ TotalOf(deltas'.delta) # 0 => GainSells # {} /\ LossCandidates # {}
             /\ Abs(TotalOf(deltas'.delta)) <= Least * Cardinality(T \ DOMAIN deltas'.delta)
             /\ Fitting(deltas.delta) =>
                  /\ Fitting(deltas'.delta)
                  /\ \A gain \in DOMAIN deltas'.delta, loss \in LossCandidates :
                       gain \in Has("gain") /\ deltas'.delta[gain] < -Least =>
                         Capacity(deltas'.delta, loss) <
                           (IF loss \in DOMAIN deltas'.delta THEN 1 ELSE 2) * Least
  <2>1. IsPlan(deltas)
    BY DEF PlanInv
  <2>2. TaxSetting /\ IsFiniteSet(LossCandidates)
    BY PlanSetting
  <2> DEFINE q == PreferLossSellsOverGainSells(gains, losses)
  <2>3. /\ IsPlan(q) /\ q.unit = deltas.unit
        /\ DOMAIN q.delta \subseteq DOMAIN deltas.delta \cup LossCandidates
        /\ TotalOf(q.delta) # 0 => GainSells # {} /\ LossCandidates # {}
        /\ Abs(TotalOf(q.delta)) <= Least * Cardinality(T \ DOMAIN q.delta)
        /\ Fitting(deltas.delta) =>
             /\ Fitting(q.delta)
             /\ \A gain \in DOMAIN q.delta, loss \in LossCandidates :
                  gain \in Has("gain") /\ q.delta[gain] < -Least =>
                    Capacity(q.delta, loss) <
                      (IF loss \in DOMAIN q.delta THEN 1 ELSE 2) * Least
    BY <1>3, <1>4, <2>1, <2>2, LossesPreferred
  <2>4. deltas' = q
    BY <1>5
  <2> HIDE DEF q
  <2> QED BY <1>4, <2>3, <2>4
<1>6. CASE taxAware
  <2>1. PICK gains \in SetToSeqs(GainSells), losses \in SetToSeqs(LossCandidates) :
          deltas' = PreferLossSellsOverGainSells(gains, losses)
    BY <1>6 DEF PreferLosses
  <2>2. /\ IsPlan(deltas') /\ deltas'.unit = deltas.unit /\ DOMAIN deltas'.delta \subseteq T
        /\ TotalOf(deltas'.delta) # 0 => GainSells # {} /\ LossCandidates # {}
        /\ Abs(TotalOf(deltas'.delta)) <= Least * Cardinality(T \ DOMAIN deltas'.delta)
        /\ Fitting(deltas.delta) =>
             /\ Fitting(deltas'.delta)
             /\ \A gain \in DOMAIN deltas'.delta, loss \in LossCandidates :
                  gain \in Has("gain") /\ deltas'.delta[gain] < -Least =>
                    Capacity(deltas'.delta, loss) <
                      (IF loss \in DOMAIN deltas'.delta THEN 1 ELSE 2) * Least
    BY <1>5, <2>1
  <2>3. deltas.unit \in Nat \ {0} /\ MinDelta = 10
        /\ Least = MinDelta * deltas'.unit /\ -Least = -MinDelta * deltas'.unit
    BY <2>2 DEF PlanInv, IsPlan, Least, MinDelta
  <2>4. CashNeutral'
    <3>1. Untouched' = T \ DOMAIN deltas'.delta
      BY <1>2 DEF Untouched, T, GapNow
    <3>2. Abs(TotalOf(deltas'.delta)) <=
            MinDelta * deltas'.unit * Cardinality(Untouched')
      BY <2>2, <2>3, <3>1
    <3>3. TotalOf(deltas'.delta) # 0 =>
            taxAware' /\ LossCandidates' # {} /\ Has("gain")' # {}
      <4>1. GainSells \subseteq Has("gain")
        BY DEF GainSells
      <4> QED BY <1>1, <1>2, <1>6, <2>2, <4>1
    <3> QED BY <1>1, <3>2, <3>3, DraftStaysNeutral DEF PlanInv, CashNeutral
  <2>5. ASSUME Drifted
        PROVE  Fitting(deltas.delta)'
    <3>1. Fitting(deltas'.delta)
      BY <2>2, <2>5 DEF PlanInv
    <3> QED BY <1>2, <2>2, <3>1 DEF Fitting
  <2>6. LossesFirst'
    <3> SUFFICES ASSUME Drifted, NEW gain \in GainSells', NEW loss \in LossCandidates
                 PROVE  Capacity(deltas.delta, loss)' <
                          (IF loss \in DOMAIN deltas'.delta THEN 1 ELSE 2)
                            * MinDelta * deltas'.unit
      BY <1>2 DEF LossesFirst
    <3>1. /\ gain \in DOMAIN deltas'.delta /\ gain \in Has("gain")
          /\ deltas'.delta[gain] < -Least
      BY <1>2, <2>3 DEF GainSells
    <3>2. Capacity(deltas'.delta, loss) <
            (IF loss \in DOMAIN deltas'.delta THEN 1 ELSE 2) * Least
      BY <2>2, <3>1 DEF PlanInv
    <3>3. Capacity(deltas.delta, loss)' = Capacity(deltas'.delta, loss)
      BY <1>1, <2>2 DEF Capacity, Overweight
    <3>4. \A i \in {1, 2} : i * MinDelta * deltas'.unit = i * Least
      BY <2>2, <2>3
    <3>5. (IF loss \in DOMAIN deltas'.delta THEN 1 ELSE 2) \in {1, 2}
      OBVIOUS
    <3> QED BY <3>2, <3>3, <3>4, <3>5
  <2>7. DOMAIN deltas'.delta \subseteq DOMAIN draft'.delta \cup DOMAIN GapNow'
    BY <1>1, <1>2, <2>2 DEF T
  <2>8. TradesApproachTarget'
    BY <1>1 DEF TradesApproachTarget
  <2> QED BY <1>1, <1>2, <2>2, <2>4, <2>5, <2>6, <2>7, <2>8 DEF PlanInv
<1>7. CASE ~taxAware
  <2>1. UNCHANGED deltas
    BY <1>7 DEF PreferLosses
  <2>2. CashNeutral'
    BY <1>1, <1>3, <2>1, DraftStaysNeutral DEF PlanInv, CashNeutral
  <2>3. LossesFirst' /\ TradesApproachTarget'
    BY <1>1, <1>7 DEF LossesFirst, TradesApproachTarget
  <2>4. Drifted => Fitting(deltas.delta)'
    BY <1>2, <2>1 DEF PlanInv, Fitting
  <2> QED BY <1>1, <1>2, <2>1, <2>2, <2>3, <2>4 DEF PlanInv
<1> QED BY <1>6, <1>7

LEMMA TradesKeepPlan ==
  ASSUME PlanInv, DeltasToTrades
  PROVE  PlanInv'
<1> DEFINE options == [x \in DOMAIN deltas.delta |->
                         Rounded(deltas.delta[x], 10 * deltas.unit)]
<1>1. /\ stage = "taxed" /\ stage' = "done" /\ UNCHANGED <<portfolio, taxAware, draft, deltas>>
      /\ trades' \in Executable(options)
  BY DEF DeltasToTrades
<1>2. /\ (Drifted <=> Drifted') /\ Drift' = Drift /\ GapNow' = GapNow
      /\ SmallGaps' = SmallGaps
  BY <1>1 DEF Drifted, Drift, GapNow, SmallGaps
<1>3. CashNeutral' /\ LossesFirst'
  BY <1>1, DraftStaysNeutral DEF PlanInv, CashNeutral, LossesFirst
<1>4. ASSUME Drifted, NEW x \in DOMAIN trades'
      PROVE  /\ Sign(trades'[x]) = Sign(GapNow[x])
             /\ 10 * Abs(trades'[x]) <= Abs(GapNow[x]) + SmallGaps + 5
  <2>1. /\ x \in DOMAIN deltas.delta /\ trades'[x] # 0
        /\ trades'[x] \in Rounded(deltas.delta[x], 10 * deltas.unit)
    BY <1>1, ExecutableChooses
  <2>2. Fitting(deltas.delta)
    BY <1>4 DEF PlanInv
  <2>3. /\ x \in DOMAIN GapNow
        /\ deltas.delta[x] > 0 =>
             GapNow[x] > 0 /\ deltas.delta[x] <= (GapNow[x] + SmallGaps) * deltas.unit
        /\ deltas.delta[x] < 0 => GapNow[x] < 0 /\ GapNow[x] * deltas.unit <= deltas.delta[x]
    BY <2>1, <2>2 DEF Fitting, Approaches
  <2>4. /\ GapNow[x] \in Int /\ deltas.delta[x] \in Int /\ deltas.unit \in Nat \ {0}
        /\ SmallGaps \in Nat
    BY <2>1, <2>3, PlanSetting, SmallGapsAreNatural DEF PlanInv, IsPlan, IsDeltas
  <2> QED BY <2>1, <2>3, <2>4, TradeApproaches
<1>5. TradesApproachTarget'
  <2> SUFFICES ASSUME Drifted, NEW x \in DOMAIN trades'
               PROVE  /\ Sign(trades'[x]) = Sign(GapNow[x])
                      /\ 10 * Abs(trades'[x]) <= Abs(GapNow[x]) + SmallGaps + 5
    BY <1>2 DEF TradesApproachTarget, GapNow
  <2> QED BY <1>4
<1>6. Drifted => Fitting(deltas.delta)'
  BY <1>1, <1>2 DEF PlanInv, Fitting
<1> QED BY <1>1, <1>2, <1>3, <1>5, <1>6 DEF PlanInv

LEMMA PlanStep == PlanInv /\ [PlanNext]_planVars => PlanInv'
<1> SUFFICES ASSUME PlanInv, [PlanNext]_planVars
             PROVE  PlanInv'
  OBVIOUS
<1>1. CASE UNCHANGED planVars
  <2>1. UNCHANGED <<portfolio, taxAware, stage, draft, deltas, trades>>
    BY <1>1 DEF planVars
  <2>2. /\ (Drifted <=> Drifted') /\ Drift' = Drift /\ GapNow' = GapNow
        /\ (Fitting(deltas.delta) <=> Fitting(deltas.delta)')
    BY <2>1 DEF Drifted, Drift, GapNow, Fitting, SmallGaps
  <2>3. CashNeutral' /\ TradesApproachTarget' /\ LossesFirst'
    BY <2>1 DEF PlanInv, CashNeutral, Untouched, Tilted, Leanings, TradesApproachTarget,
                LossesFirst, SmallGaps, Drifted, Drift, GainSells, LossCandidates, Capacity,
                Overweight, Has
  <2> QED BY <2>1, <2>2, <2>3 DEF PlanInv
<1> QED BY <1>1, DraftKeepsPlan, NeutralizeKeepsPlan, PreferLossesKeepsPlan, TradesKeepPlan
        DEF PlanNext, PlanFinished

LEMMA PlansAreInvariant == PlanSpec => []PlanInv
BY PlanStart, PlanStep, PTL DEF PlanSpec

\* The plan of every mode buys what it sells; only a tax step that has a gain and
\* a loss to move between leaves it off, by no more than the small deltas it
\* drops, and of the drafts from signals only one without one of its largest
\* tilts.
THEOREM PlansAreCashNeutral == PlanSpec => []CashNeutral
<1>1. PlanInv => CashNeutral
  BY DEF PlanInv
<1> QED BY <1>1, PlansAreInvariant, PTL

\* No trade of a plan from drift leads away from the target of its ticker or past
\* it, by whatever way its sales were financed or moved.
THEOREM TradesApproach == PlanSpec => []TradesApproachTarget
<1>1. PlanInv => TradesApproachTarget
  BY DEF PlanInv
<1> QED BY <1>1, PlansAreInvariant, PTL

\* After the tax step no gain is still sold while a loss could be sold instead.
THEOREM LossesComeFirst == PlanSpec => []LossesFirst
<1>1. PlanInv => LossesFirst
  BY DEF PlanInv
<1> QED BY <1>1, PlansAreInvariant, PTL

(***************************************************************************)
(* What is executed is nearly neutral                                      *)
(***************************************************************************)
\* The deltas of one side, scaled to total and rounded one by one: their sum is
\* off by at most a half for each. s is the sign of the side.
LEMMA SideIsNearlyTotal ==
  ASSUME NEW S, IsFiniteSet(S), NEW f, \A x \in S : f[x] \in Int,
         NEW total \in Nat, NEW side \in Nat \ {0}, NEW s \in {-1, 1},
         SumFunctionOnSet(f, S) = s * side,
         NEW h, \A x \in S : h[x] \in Rounded(f[x] * total, side)
  PROVE  LET off == 2 * (SumFunctionOnSet(h, S) - s * total)
         IN  /\ SumFunctionOnSet(h, S) \in Int /\ Cardinality(S) \in Nat
             /\ off <= Cardinality(S) /\ -Cardinality(S) <= off
<1> DEFINE scaled == [x \in S |-> (2 * side) * h[x]]
           exact == [x \in S |-> (2 * total) * f[x]]
           error == [x \in S |-> scaled[x] - exact[x]]
           sum == SumFunctionOnSet(h, S)
           off == 2 * (sum - s * total)
           n == Cardinality(S)
<1>1. ASSUME NEW x \in S
      PROVE  /\ h[x] \in Int /\ scaled[x] \in Int /\ exact[x] \in Int
             /\ -side <= error[x] /\ error[x] <= side
  <2>1. f[x] * total \in Int
    OBVIOUS
  <2>2. /\ h[x] \in Int /\ 2 * (h[x] * side - f[x] * total) <= side
        /\ 2 * (f[x] * total - h[x] * side) <= side
    BY <2>1, RoundedIsInteger
  <2>3. /\ (2 * side) * h[x] = 2 * (h[x] * side) /\ h[x] * side \in Int
        /\ (2 * total) * f[x] = 2 * (f[x] * total)
    BY <2>2
  <2> QED BY <2>1, <2>2, <2>3
<1>2. \A x \in S : /\ scaled[x] = (2 * side) * h[x] /\ exact[x] = (2 * total) * f[x]
                   /\ error[x] = scaled[x] - exact[x]
  OBVIOUS
<1> HIDE DEF scaled, exact, error
<1>3. SumFunctionOnSet(scaled, S) = (2 * side) * sum /\ sum \in Int
  <2>1. 2 * side \in Int /\ \A x \in S : h[x] \in Int /\ scaled[x] = (2 * side) * h[x]
    BY <1>1, <1>2
  <2> QED BY <2>1, SumOfMultiples, SumIsInteger
<1>4. SumFunctionOnSet(exact, S) = (2 * total) * (s * side)
  <2>1. 2 * total \in Int /\ \A x \in S : f[x] \in Int /\ exact[x] = (2 * total) * f[x]
    BY <1>2
  <2>2. SumFunctionOnSet(exact, S) = (2 * total) * SumFunctionOnSet(f, S)
    BY <2>1, SumOfMultiples
  <2> QED BY <2>2
<1>5. SumFunctionOnSet(scaled, S) =
        SumFunctionOnSet(error, S) + SumFunctionOnSet(exact, S)
  <2>1. \A x \in S : /\ error[x] \in Int /\ exact[x] \in Int
                     /\ scaled[x] = error[x] + exact[x]
    BY <1>1, <1>2
  <2> QED BY <2>1, SumOfSums
<1>6. /\ SumFunctionOnSet(error, S) \in Int /\ n \in Nat
      /\ -(side * n) <= SumFunctionOnSet(error, S)
      /\ SumFunctionOnSet(error, S) <= side * n
  <2>1. \A x \in S : error[x] \in Int /\ -side <= error[x] /\ error[x] <= side
    BY <1>1, <1>2
  <2> QED BY <2>1, SumIsBounded
<1> HIDE DEF sum, n
<1>7. off \in Int
  BY <1>3
<1>8. SumFunctionOnSet(error, S) = off * side
  <2>1. (2 * side) * sum - (2 * total) * (s * side) = (2 * (sum - s * total)) * side
    <3>1. \A i \in Int : (2 * side) * i = (2 * i) * side
      OBVIOUS
    <3>2. (2 * total) * (s * side) = (2 * (s * total)) * side
      OBVIOUS
    <3>3. \A i, j \in Int : (2 * i) * side - (2 * j) * side = (2 * (i - j)) * side
      OBVIOUS
    <3> QED BY <1>3, <3>1, <3>2, <3>3
  <2> QED BY <1>3, <1>4, <1>5, <1>6, <2>1
<1> HIDE DEF off
<1>9. ~(off >= n + 1)
  <2> SUFFICES ASSUME n + 1 <= off
               PROVE  FALSE
    BY <1>6, <1>7
  <2>1. (n + 1) * side <= off * side
    BY <1>6, <1>7, ProductIsMonotonic
  <2>2. (n + 1) * side = side * n + side /\ side * n \in Int /\ off * side \in Int
    BY <1>6, <1>7
  <2> QED BY <1>6, <1>8, <2>1, <2>2
<1>10. ~(off <= -n - 1)
  <2> SUFFICES ASSUME off <= -n - 1
               PROVE  FALSE
    BY <1>6, <1>7
  <2>1. off * side <= (-n - 1) * side
    BY <1>6, <1>7, ProductIsMonotonic
  <2>2. (-n - 1) * side = -(side * n) - side /\ side * n \in Int /\ off * side \in Int
    BY <1>6, <1>7
  <2> QED BY <1>6, <1>8, <2>1, <2>2
<1>11. sum \in Int /\ n \in Nat /\ off <= n /\ -n <= off
  BY <1>3, <1>6, <1>7, <1>9, <1>10
<1> QED BY <1>11 DEF sum, off, n

LEMMA BalancedIsNearlyNeutral ==
  ASSUME NEW f, IsDeltas(f), NEW g \in CashNeutralTrades(f)
  PROVE  2 * Abs(TotalOf(g)) <= Cardinality(DOMAIN f)
<1> DEFINE D == DOMAIN f
           buys == Bought(f)
           sells == Sold(f)
           total == IF buys < sells THEN buys ELSE sells
           side(x) == IF f[x] > 0 THEN buys ELSE sells
           options == [x \in D |-> Rounded(f[x] * total, 1 * side(x))]
           up == {x \in D : f[x] > 0}
           rest == D \ up
           down == {x \in D : f[x] < 0}
<1>1. buys \in Nat /\ sells \in Nat /\ Cardinality(D) \in Nat
  BY SidesAreNatural, FS_CardinalityType DEF IsDeltas
<1>2. g \in IF total = 0 THEN {NoTrades} ELSE Executable(options)
  BY DEF CashNeutralTrades, Balanced
<1>3. /\ IsFiniteSet(D) /\ IsFiniteSet(up) /\ IsFiniteSet(rest) /\ up \in SUBSET D
      /\ \A x \in D : f[x] \in Int
  BY FS_Subset DEF IsDeltas
<1>4. buys = SumFunctionOnSet(f, up)
  BY DEF Bought
<1>5. sells = -SumFunctionOnSet(f, rest) /\ SumFunctionOnSet(f, rest) \in Int
  <2>1. sells = -SumFunctionOnSet(f, down)
    BY DEF Sold
  <2>2. down \in SUBSET rest /\ \A x \in rest \ down : f[x] = 0
    BY <1>3
  <2>3. SumFunctionOnSet(f, rest \ down) = 0
    BY <1>3, <2>2, FS_Subset, SumOfZeros
  <2>4. /\ SumFunctionOnSet(f, rest) \in Int /\ SumFunctionOnSet(f, down) \in Int
        /\ SumFunctionOnSet(f, rest) =
             SumFunctionOnSet(f, down) + SumFunctionOnSet(f, rest \ down)
    <3>1. IsFiniteSet(down) /\ \A x \in rest : f[x] \in Int
      BY <1>3, FS_Subset
    <3> QED BY <1>3, <2>2, <3>1, SumOfParts, SumIsInteger
  <2> QED BY <2>1, <2>3, <2>4
<1>6. CASE total = 0
  <2>1. TotalOf(g) = 0
    BY <1>2, <1>6, NoDeltasNeutral DEF NoDeltas
  <2> QED BY <1>1, <2>1 DEF Abs
<1>7. CASE total # 0
  <2>1. PICK h : /\ \A x \in D : h[x] \in options[x]
                 /\ g = Restrict(h, {x \in D : h[x] # 0})
    <3>1. g \in Executable(options)
      BY <1>2, <1>7
    <3> HIDE DEF options
    <3>2. DOMAIN options = D
      BY DEF options
    <3>3. PICK h \in [D -> UNION {options[x] : x \in D}] :
            /\ \A x \in D : h[x] \in options[x]
            /\ g = Restrict(h, {x \in D : h[x] # 0})
      BY <3>1, <3>2 DEF Executable
    <3> QED BY <3>3
  <2>2. /\ total \in Nat /\ buys \in Nat \ {0} /\ sells \in Nat \ {0}
    BY <1>1, <1>7
  <2>3. /\ \A x \in up : h[x] \in Rounded(f[x] * total, buys)
        /\ \A x \in rest : h[x] \in Rounded(f[x] * total, sells)
    <3>1. \A x \in up : side(x) = buys /\ 1 * buys = buys
      BY <2>2
    <3>2. \A x \in rest : side(x) = sells /\ 1 * sells = sells
      BY <2>2
    <3> HIDE DEF side, total, buys, sells
    <3> QED BY <2>1, <3>1, <3>2
  <2> HIDE DEF D, up, rest, total, buys, sells, options, down
  <2>4. SumFunctionOnSet(f, up) = 1 * buys /\ SumFunctionOnSet(f, rest) = (-1) * sells
    BY <1>4, <1>5, <2>2
  <2>5. /\ SumFunctionOnSet(h, up) \in Int /\ Cardinality(up) \in Nat
        /\ 2 * (SumFunctionOnSet(h, up) - 1 * total) <= Cardinality(up)
        /\ -Cardinality(up) <= 2 * (SumFunctionOnSet(h, up) - 1 * total)
    <3>1. \A x \in up : f[x] \in Int
      BY <1>3
    <3> QED BY <1>3, <2>2, <2>3, <2>4, <3>1, SideIsNearlyTotal
  <2>6. /\ SumFunctionOnSet(h, rest) \in Int /\ Cardinality(rest) \in Nat
        /\ 2 * (SumFunctionOnSet(h, rest) - (-1) * total) <= Cardinality(rest)
        /\ -Cardinality(rest) <= 2 * (SumFunctionOnSet(h, rest) - (-1) * total)
    <3>1. \A x \in rest : f[x] \in Int
      BY <1>3 DEF rest
    <3> QED BY <1>3, <2>2, <2>3, <2>4, <3>1, SideIsNearlyTotal
  <2>7. \A x \in D : h[x] \in Int
    <3>1. \A x \in D : f[x] * total \in Int /\ (x \in up \/ x \in rest)
      BY <1>3, <2>2 DEF rest
    <3> QED BY <2>2, <2>3, <3>1, RoundedIsInteger
  <2>8. TotalOf(g) = SumFunctionOnSet(h, D)
    <3> DEFINE kept == {x \in D : h[x] # 0}
    <3>1. DOMAIN g = kept /\ \A x \in kept : g[x] = h[x]
      BY <2>1 DEF Restrict
    <3>2. IsDeltas(g)
      BY <1>3, <2>7, <3>1, FS_Subset DEF IsDeltas
    <3>3. DOMAIN g \subseteq D /\ \A x \in D : h[x] = At(g, x)
      BY <3>1 DEF At
    <3>4. SumFunctionOnSet(h, D) = SumFunctionOnSet(g, DOMAIN g)
      BY <1>3, <3>2, <3>3, SumExtended
    <3> QED BY <3>2, <3>4, TotalIsSum
  <2>9. SumFunctionOnSet(h, D) = SumFunctionOnSet(h, up) + SumFunctionOnSet(h, rest)
    BY <1>3, <2>7, SumOfParts DEF rest
  <2>10. Cardinality(D) = Cardinality(up) + Cardinality(rest)
    <3>1. Cardinality(D \ up) = Cardinality(D) - Cardinality(D \cap up)
      BY <1>3, FS_Difference
    <3>2. D \cap up = up /\ D \ up = rest
      BY <1>3 DEF rest
    <3>3. Cardinality(D) \in Nat
      BY <1>3, FS_CardinalityType
    <3> QED BY <2>5, <2>6, <3>1, <3>2, <3>3
  <2> DEFINE all == SumFunctionOnSet(h, up) + SumFunctionOnSet(h, rest)
             n == Cardinality(up) + Cardinality(rest)
  <2>11. all \in Int /\ n \in Nat /\ 2 * all <= n /\ -n <= 2 * all
    BY <2>2, <2>5, <2>6
  <2> HIDE DEF all, n
  <2>12. 2 * Abs(all) <= n
    BY <2>11 DEF Abs
  <2> QED BY <2>8, <2>9, <2>10, <2>12 DEF all, n, D
<1> QED BY <1>6, <1>7

LEMMA NearlyInit == Init => NearlyNeutral
<1> SUFFICES ASSUME Init
             PROVE  NearlyNeutral
  OBVIOUS
<1>1. final.trades = NoTrades /\ checked = NoTrades
  BY DEF Init, Undecided, Rendered, DecisionOf
<1>2. TotalOf(NoTrades) = 0
  BY NoDeltasNeutral DEF NoDeltas
<1>3. Cardinality(DOMAIN NoTrades) \in Nat
  BY FS_EmptySet DEF NoTrades
<1> QED BY <1>1, <1>2, <1>3 DEF NearlyNeutral, TotalOf, Abs

LEMMA NearlyNext == SaidInv /\ NearlyNeutral /\ [Next]_vars => NearlyNeutral'
<1> SUFFICES ASSUME SaidInv, NearlyNeutral, [Next]_vars
             PROVE  NearlyNeutral'
  OBVIOUS
<1>1. CASE Conclude
  <2>1. IsDeltas(checked')
    BY <1>1, ConcludeChecks
  <2>2. PICK consensus, proceed, tickers :
          final' \in RenderFinalDecision(consensus, proceed, checked', tickers)
    BY <1>1, ConcludeChecks
  <2>3. PICK f \in CashNeutralTrades(checked') :
          final' = Rendered(Resolved(consensus, proceed, f, tickers), f)
    BY <2>2 DEF RenderFinalDecision
  <2>4. final'.trades \in {f, NoTrades}
    BY <2>3 DEF Rendered
  <2>5. CASE final'.trades = f
    <3>1. 2 * Abs(TotalOf(f)) <= Cardinality(DOMAIN checked')
      BY <2>1, BalancedIsNearlyNeutral
    <3> QED BY <2>5, <3>1 DEF NearlyNeutral, TotalOf
  <2>6. CASE final'.trades = NoTrades
    <3>1. TotalOf(NoTrades) = 0
      BY NoDeltasNeutral DEF NoDeltas
    <3>2. Cardinality(DOMAIN checked') \in Nat
      BY <2>1, FS_CardinalityType DEF IsDeltas
    <3> QED BY <2>6, <3>1, <3>2 DEF NearlyNeutral, TotalOf, Abs
  <2> QED BY <2>4, <2>5, <2>6
<1>2. CASE UNCHANGED <<checked, final>>
  BY <1>2 DEF NearlyNeutral
<1> QED BY <1>1, <1>2, OnlyConcludeJudges

\* What the committee executes is off cash neutrality by at most half a tenth of
\* a percentage point for each trade that compliance AFTER has checked.
THEOREM FinalsAreNearlyNeutral == Spec => []NearlyNeutral
<1>1. Init => RoundsInv /\ SaidInv /\ NearlyNeutral
  BY RoundsInit, SaidInit, NearlyInit
<1>2. RoundsInv /\ SaidInv /\ NearlyNeutral /\ [Next]_vars
        => (RoundsInv /\ SaidInv /\ NearlyNeutral)'
  BY RoundsNext, SaidNext, NearlyNext
<1> QED BY <1>1, <1>2, PTL DEF Spec
=============================================================================
