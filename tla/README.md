# A TLA+ model of libra-agent

libra-agent is a FastAPI service that lets a committee of LLM agents argue about a
portfolio and, if the user agrees, proposes trades; around it are a replay of the
committee over history, its evaluation, and clients of models, brokers and data
services. These modules model the parts in which order, overlap, failure and limits
matter. TLC checks them on small instances, and TLAPS proves every state invariant that
holds for all instances. Paths below are relative to the repository; `libra_agent/`
stands for `src/libra_agent/`.

## 1. The system

    client --POST /api/runs, /api/runs/{thread_id}/resume--> api/routes.py
       ^                                                        |
       | SSE events                                             v
    api/sse.py  run_and_stream / resume_and_stream ---> runtime/graph.py (LangGraph)
       ^   ^  queue      collector <--astream_events--    |  nodes        | checkpoints
       |   +--------- runtime/debate_events.py            v               v
       |              (publisher) <---- libra_runtime.py  to_thread   runtime/checkpointer.py
       |                                run_v1_committee              (PostgreSQL)
       |                                libra/committee.py: thread pool of agents,
       |                                mediator, compliance, final judge
       |                                   |               |            |
       |                          chat clients      knowledge base   domain_agents/
       |                          (llama-server)    (ingest jobs)
    scripts/replay_full_committee_backtest.py --rows--> scripts/evaluate_replay_strategies.py
    scripts/enrich_fixture_with_kis_ohlcv.py            libra_api.py (library server)
    scripts/kis_paper_buy.py --> libra/portfolio_sources/kis.py --> broker

| Part | State it keeps | Operations | What is hard about it |
|---|---|---|---|
| Run service (`api/sse.py`, `api/routes.py`, `main.py`) | per request: a generator; nothing across requests but the checkpoints | start a run, resume one, report its end | requests of one thread overlap; the resume check and the resume are two reads; clients vanish; three reads of the state are unguarded |
| Workflow (`runtime/graph.py`) | `GraphState`, in memory and in checkpoints | six nodes, two routes, one `interrupt()` | a thread is used again with the state of its last run; an interrupt must outlive failures |
| Checkpoint store (`runtime/checkpointer.py`) | the checkpoints of every thread | put, get latest | the only thing left after a death |
| Event stream (`api/sse.py` 41-85, `runtime/debate_events.py`) | a queue, a collector task, a context variable | publish, collect, read | three ways into one queue; a sentinel; cancellation that does not reach threads |
| Committee (`libra/committee.py`, `libra_runtime.py` 1975-2256) | opinions of two rounds, the mediator's decision | call agents in parallel, mediate, recall, conclude, word | one failing call among many; a model that does not follow its prompt; trades checked at one point and changed at another |
| Consensus, final judge, compliance (`libra/mediator/consensus.py`, `libra/judge/final.py`, `libra/compliance/engine.py`) | none | votes to consensus to trades to a decision | thresholds, rounding, balancing, the order of the rules |
| Execution policy (`libra/execution_policy.py`) | counts of issues | build, cap, repair a plan; suppress an issue | rounding; a cooldown counted by a manager that may be new |
| Candidate plans (`libra_runtime.py` 2487-2585, `libra/direct_indexing.py`) | none | a draft from drift, a trigger or signals | residuals |
| Agent calls (`libra_runtime.py` 1015-1970) | per call only | search, refresh, ask, repair, fall back | a refresh that other calls see; what a strict run may make up |
| Knowledge base (`libra_runtime.py`, ingest jobs) | items of a run, files of jobs | slice, refresh, merge | threads share it without a lock; directories named by the second |
| Chat clients (`anthropic_client.py`, `gemini_client.py`, `llama_cpp_client.py`, `ollama_client.py`) | a class-wide throttle; the process of a server | call, retry, throttle; start, wait for, stop a server | two threads launch at once; a rate over all threads; every way a call may end |
| Domain agents (`domain_agents/`) | none | measure, judge, vote | the order of limits; what of a vote counts |
| Replay and evaluation (`scripts/replay_full_committee_backtest.py`, `scripts/evaluate_replay_strategies.py`) | raw files of rows; a portfolio; pending intents of a strategy | decide day by day, write, resume, append; simulate each strategy | a kill between any two steps; look-ahead; intents at the end of the data |
| Price history (`scripts/enrich_fixture_with_kis_ohlcv.py`) | windows still to ask | ask, halve, skip, lay over | off-by-one in windows; row caps; what a skipped window hides |
| KIS client (`libra/portfolio_sources/kis.py`) | none; the account is the broker's | orders one by one, balance page by page | one order of several fails; pages of different moments |
| Library API (`libra_api.py`, `libra_store.py`) | run files, a cached client | judge run, evaluation | a record written before the answer; a death between the two |
| Validation, ingest bundle, command line, benchmark | none | conversions | little order or overlap |

What makes each part correct, in words:

- Run service and workflow: a decision that needs approval never counts as done without
  an answer the service accepted; that answer is for the decision it ends; a pending
  review is not lost by a failure or a death; a stream reports its own execution; every
  request comes to an end.
- Event stream: the client sees every event, in the order of the debate, before the
  stream ends, and sees a failure as a failure.
- Committee: nothing is decided on the votes of half a round; whoever is recalled is in a
  dispute; what is executed is covered by what compliance checked and buys what it
  sells, up to rounding; a veto stands.
- Candidate plans and execution policy: a plan buys what it sells but for the small
  deltas two steps drop, brings every holding nearer to its target, and prefers sales of
  losses; an issue is suppressed only after
  the user was asked, and not for longer than the cooldown.
- Agents, knowledge and clients: an item is in a knowledge base once; a strict run gets
  no made-up answer; what a refresh found reaches the agent that asked; every call ends;
  the rate is kept; a server that was started is stopped. A worse measure, of those an
  agent counts, is never a better vote, and a tax vote counts only for sales that
  include a loss.
- Replay: the portfolio is what the decisions made of it, whatever was killed and
  resumed; a finished file is complete; the committee meets when the schedule says.
  Evaluation: a strategy trades when its policy says and never on the price that gave
  the signal.
- Price history: each day of a range is asked for once; what is missing was reported.
- KIS: the broker has only orders of the list, at most one of them unknown to the
  program; a snapshot adds up but for what was filled while it was read and for rows
  the broker repeats.
- Library API: who is told of a decision finds it on disk, and who is told of a failure
  does not; an evaluation does not depend on the direction a price happened to take.

`PROJECT.json` lists the components, what of each is modelled, and the hazards with
their lines.

## 2. The modules

| Module | Models | Correspondence |
|---|---|---|
| `ReviewGate` | what human review promises of one thread | abstract: `fresh`, `working`, `decided`, `asked`, `answered`, `finished` |
| `RunService` | both SSE handlers, the workflow, the checkpoint store | one action per handler step up to the next await that reads or writes shared state, one per node; faults are actions |
| `EventStream` | `_stream_node_events`, the publisher, the threads that publish | one action per task or thread step; queues are sequences (its `Init`, `Next` and the like bear the prefix `Stream`, so that `MCStreams` can extend it beside `RunService`) |
| `Consensus`, `FinalJudge`, `ComplianceRules` | the pure functions, as operators | one operator per function; rounding as the set of nearest tenths |
| `Committee` | a deliberation from the first agent call to what the workflow reports | one action per pool event, model reply or step of the orchestrator |
| `CandidatePlan` | the drafts from drift, a push event or signals, as operators | one operator per function; what the order of holdings decides is a set of outcomes |
| `ExecutionPolicy` | from a portfolio to the trades of an execution plan | one action per step of `build_execution_plan` |
| `IssueState` | the issue manager over runs | one action per observation, one for a manager made anew |
| `KnowledgeBase` | slices, jobs and their directory, merge | operators and variables used by `AgentCall` |
| `AgentCall` | the tool loop of a reader, the one question of a domain agent | one action per read or write of the base or the directory and per `chat_json` |
| `LlamaServer` | starting, waiting for and stopping a llama.cpp server | one action per request to the server or read of `_process` |
| `ChatClient` | `chat_json` of the four clients, the shared throttle | extends `LlamaServer`; one action per post, reply, sleep |
| `DomainAgents` | the eight domain agents up to their votes | one operator per agent's verdict; called, asked, judged, voted |
| `Replay` | a replay process and its raw file | one action per step between two writes; a kill is an action at each |
| `StrategyEvaluation` | every strategy of `build_results`, day by day | extends `Replay`: it simulates over the rows a replay wrote |
| `PriceHistory` | the fetch of daily volumes | one action per window asked, halved or given up |
| `KisClient` | orders and balance pages | one action per exchange with the broker |
| `JudgeApi` | `create_judge_run`, `create_evaluation`, the run file | one action per step of a request's thread |
| `RunServiceProofs`, `StreamProofs`, `CommitteeProofs`, `ReplayProofs`, `ProgramsProofs`, `AgentCallProofs`, `ClientProofs` | proofs, section 4 | `CommitteeProofs` also those of the plans, `ReplayProofs` of the evaluation, `ProgramsProofs` of the five parts of `MCPrograms` |
| `FiniteSums` | what the proofs need of sums, numbers and products | - |
| `MC...` | instances for TLC | sets of inputs, symmetry |

Composition: `Committee` extends the judge, consensus and compliance operators;
`ExecutionPolicy` extends `CandidatePlan`; `ChatClient` extends `LlamaServer`;
`AgentCall` extends `KnowledgeBase`; `StrategyEvaluation` extends `Replay` and starts
where a file of its can be read back; `RunService` implements `ReviewGate`. `MCPrograms`
holds five parts that share nothing (`PriceHistory`, `KisClient`, `DomainAgents`,
`JudgeApi`, `IssueState`): its variable `program` says which one a behaviour runs, and
the others are idle in it. `MCStreams` (`RunService`, `EventStream`) and `MCDecision`
(`Committee`, `ExecutionPolicy`) do the same with a variable `part`.

**RunService.** `ckpt[t]` is the latest checkpoint of a thread, `local[s]` the copy an
execution works on; they are different as soon as two executions of a thread overlap,
and the last writer wins. A checkpoint holds what the handlers and routes read:
`next`, the request's flags, who decided, whether approval is needed, `run_status`,
whose answer it carries, whether an interrupt is pending. `pc[s]` runs `idle`,
`starting` or `checking`, `accepted`, `running` (or `orphan`: running without a
stream), `failed` or `ended`, and `closed` (with an event or without one) or `lost`.
`CheckPending` and `LoadResume` are two steps as in the code, `aget_state` and then the
graph's own load. LangGraph is external and modelled by its use: one checkpoint per
node; a dictionary as input overwrites its keys, drops a pending interrupt and starts
at the first node; `Command(resume=...)` goes on from the latest checkpoint; an
interrupt belongs to the checkpoint it was raised at. `human_review` has one more
branch, for a decision that needs no approval: the route never leads there.

**EventStream.** One queue has three writers: the collector, which forwards node events
and in the end puts the sentinel; the publisher called on the loop, which puts at once;
and the publisher called on a thread, which schedules a callback (`ready`). The end of
the agent core's thread reaches the graph's task through the same callbacks. Two nodes
stand for all: one that publishes nothing and `final_judge`. `consensus_updated` stands
for all that the core publishes once its pool is done.

**Committee.** Opinions are drawn from a set of votes: subjects, a magnitude in tenths
of a percentage point (its sign is the direction), a confidence in tenths. Candidate
plans and valid execution plans are inputs. `Conclude` is `_complete_from_opinions`,
with the choice of tentative trades, compliance AFTER and rendering; `Deliver` is the
way from the decision to `requires_approval` and the request of `human_review`.
Compliance BEFORE only informs prompts and is left out. `Abs`, `Sign` and the sums are
over exact tenths; where a float could land on either of two equally near tenths, both
results are possible.

**CandidatePlan and ExecutionPolicy.** Weights are hundredths of a percentage point; a
plan is a delta per ticker over a common unit, so that means, scaled sides and shares
of proceeds are exact fractions (the code rounds drafts to six decimals, a hundredth of
this unit). `Draft` is the precedence of `run_v1_committee`: drift, then a push event,
then signals. `Neutralize` is the dispatch on the mode with `cash_neutralize_deltas`,
`PreferLosses` the tax step, whose two loops are two recursions, over every order of
losses and gains (the code's order is that of the dictionaries), and `DeltasToTrades` the
rounding to tenths and the drop of what rounds to nothing. A cap of 10000 stands for
none. Whether a holding has a gain or a loss above the minimum is given. An empty
target stands for no portfolio definition. `Committee` takes a valid plan as given;
`MCCommittee!AllExecutionPlans` are plans this module can end with.

**IssueState.** `count` is what the manager counts, `told` what the runs reported.
`onePerRun` tells the callers that make a manager for each run (service, library
server, command line) from the replay, which keeps one until it is started anew.

**AgentCall and KnowledgeBase.** `kb[r]` counts the copies of an item in a run's base:
`merge` looks up the ids it has first and appends afterwards, which are two steps.
`dir` is what a job's directory holds at a moment, `Absent`, `Torn` or items; two runs
whose agents start a job in the same second share it. `at[c]` is where a call is, from
its first slice over the expanded one, the refresh, the job's two files, their reading
and merging, to the question and its repairs. A model's reply is `usable`,
`blank`, `malformed`, an `error` the reader catches, or `escaped`: an exception of
another type, which nothing catches before the round. The attempts within one
`chat_json` are `ChatClient`'s, and its `EndsOf` says which errors leave it.

**ChatClient and LlamaServer.** A reply is a class (a JSON object, text without one,
JSON of another shape than the client reads, a body that is no JSON, 429 or 5xx, 408 or
409, another status, nothing), which is what the clients' retries tell apart. `lock`,
`lastAt` and `clock` are the throttle all Gemini clients of a process share; its sleep
happens under the lock, so time passes while others wait. `life` of a client is its
`with` block, `process` its `_process`, `lost` the servers that were started and that
nobody will stop.

**DomainAgents.** A context holds an agent's measures on both sides of every limit, and
zeros, which the code takes for measures not given (`ScoreOf`, `Given`); what is
computed from prices is an input. The verdict is a vote, a direction and the
lots in focus; the votes are what the adapter and the committee make of it. Only the
sentiment agent uses more of the model's reply than its text.

**Replay and StrategyEvaluation.** Days are positions in the selected range, and a
portfolio is the set of <<day, plan>> applied to it, since prices and the order of
rebalances determine the rest. A file is a sequence of rows with the way each ends:
`whole`, `bare` (without its newline) or `torn`, the last two left by a kill. A process
is started with any of the commands, any number of times up to `MaxStarts`. `decisions`,
`shares`, `schedule` and `cursor` are the process's memory and gone with it.
`StrategyEvaluation` reads the file back as `build_replay_fixture` does and lets
`pending` and `scheduled` be the two intents of a strategy; `log` is what its row
reports, with the days of the signal, of the confirmation and of the fill.

**PriceHistory.** Days are calendar days; `pending` are the windows of the current chunk
still to be asked (their recursion's order is that of their first days), `answered` and
`skipped` those that are done. `RowCap` is the service's limit of rows.

**KisClient.** `book` is what the broker has taken, `placed` what the program was told
of. A reply may be lost or garbled after the broker took the order. `account` changes
while pages are read (`Fill`, purchases and sales); prices do not. Any page may give a
summary in one of four `Forms`, of which the first is kept. `seen` has the first row of
each holding, `again` the sum of its further rows, which the code keeps as well.

**JudgeApi.** `phase[r]` is where the thread of a request is; the run file becomes
`torn` when it is opened and `whole` when it is closed. `shared` is the evaluations'
client, `StackGiven` the argument its opening lacks.

## 3. What TLC checks

Bounds are the constants of the cfg files; nothing else bounds the models.

| Run | Module | Instance | Shows |
|---|---|---|---|
| `exclusive` | `MCRunService` | 1 thread, 3 requests of 4 kinds, 1 death, no overlap | `TypeOK`, `AnswerMatchesPrompt`, `OwnReport`, `PendingReviewSettled`, and that the service implements `ReviewGate` |
| `streams` | `MCStreams` | the service: 2 threads, 2 requests at any time, 1 death; the events: 2 agents | `ApprovalGate` does not depend on turns, every accepted request ends (`EveryStreamCloses`); `DebateInOrder`, `NothingLost`, `FailureSurfaces`, `StreamEnds` |
| `decisions` | `MCDecision` | the committee: 4 agents, 7 opinions, 5 subjects, 3 drafts, 2 execution plans, pools of 2 and 1; the plans: 4 tickers, 7 offsets from the target, every set of gains, modes, 2 rates, a cap or none, with and without tax awareness | `VotesAreComplete`, `RecallJustified`, `FinalWithinChecked`, `NearlyNeutral`, `VetoStands`; `CashNeutral`, `TradesApproachTarget`, `LossesFirst` |
| `replay` | `MCBacktest` | 5 days, 2 processes, 2 plans, 2 files, 3 settings, 3 commands; 12 strategies of every kind | `PortfolioFollowsDecisions`, `OutComplete`, `CadenceKept`, `DelayKept`, `LostOnlyAtTheEnd`, `ImmediateFollowsReplay`, `IssueActedOnOnce` |
| `clients` | `MCChatClient` | 2 clients, 2 threads that share one, 3 servers, 1 death of a server, 1 call a thread; one configuration of each kind of client | `NothingElseLeaks`, `RateKept`, `EveryCallEnds` |
| `agents` | `MCAgents` | 2 runs; 2 news agents, a disclosure agent, a domain agent; 4 items, 2 seconds, 4 settings, one of which is a refresh that finds nothing | `EachItemOnce`, `FallbacksAsSet`, `EvidenceIsUsed` |
| `programs` | `MCPrograms` | see below | `EachDayOnce`, `MissingIsAccountedFor`, `OrdersAccountedFor`, `SnapshotAddsUp`, `WorseIsNeverBetter`, `TaxCountsForLossSalesOnly`, `AnswerMatchesRecord`, `SuppressedAfterAsked` |
| `limit`, `prompt` | `MCCommittee` | smallest instances | a violation each, see section 5 |
| `tax`, `draft` | `MCExecutionPolicy` | portfolios of `decisions`; without tax awareness in `draft` | a violation each, see section 5 |
| `reflection` | `MCPrograms` | as `programs` | a violation, see section 5 |

Why the bounds suffice.

- *Requests.* Three requests on a thread are a run, its resume, and one more that gets
  in their way or comes after them (a new run, a second resume, a resume that names the
  first interrupt). Streams of different threads share nothing in the model but the
  process, so one thread is enough for safety; `streams` has two, because a death hits
  both.
- *Committee.* Four agents are the fewest with a quorum of two on each side of a
  dispute; the pool of two makes calls wait, the pool of one makes recalled agents
  queue. The opinions reach consensus, a weak one, a strong hold, conflicts on a ticker
  and on the portfolio, and silence; the drafts and plans reach every branch.
- *Plans.* The offsets lie on both sides of the drift threshold (200) and of the
  smallest delta (10); four tickers allow two sales and two purchases, a purchase too
  small to trade among those that are short, and two losses for two gains. Four more
  offsets (`SqueezedWeights`) make the sale of a loss so small that scaling it to the
  purchases leaves less than the smallest delta, one portfolio (`TakenOver`) has a gain
  whose sale two losses take over but for too little to trade, and five signals
  (`FiveSignals`) make the largest tilt too small once it is settled. Target weights sum
  to the whole and holdings to at most the whole, the rest is cash.
  `TradesApproachTarget` and `LossesFirst` are about portfolios that are out of their
  band; drafts from events and signals have no target to approach.
- *Stream.* Two agents are enough for one to fail while the other has not started, is
  running, or is done.
- *Replay.* The second process resumes whatever the first left, at each step of it. In
  five days there are skipped days by interval and by week, a day without a price, a
  month's and a quarter's end, a delay of two and a lag of one with days to spare, and
  the first and the last day, at which loops begin and delays are cut.
- *Clients.* Two threads are what a launch race needs and the other client is one that
  finds the server of the first, or takes it away. The kinds differ in attempts and in
  what they retry; a delay of two ticks tells a slot from the next.
- *Agents.* The two news agents may start their jobs in the same second, the third
  reader changes the base while one of them merges. The items are: one only a macro
  question admits, two for the news, one for the disclosure agent. The domain agent,
  which shares nothing with the readers, is asked last (`DomainLast`).
- *Programs.* Nine calendar days with gaps in the market give windows that are halved
  down to a day, and ones that hold more than the service's three rows, or no more.
  Order lists are empty, single, with a repetition, with a malformed ticker in the
  middle; balances have one to four pages with three read at most, one of them empty,
  two with a row repeated; each gives a summary in any form, and two fills come between.
  Three lots with measures at and on both sides of each limit, missing and zero, give
  every order in which limits are looked at. Two requests of each kind overlap, with one
  death. Two issues over seven runs pass the cooldown of two with the other issue in
  between.

Symmetry is used among requests of `exclusive` and among agents of `decisions`, `limit`
and `prompt`, never with liveness: neither is ever compared or ordered.

`CHECK_DEADLOCK FALSE` stands where the system really stops: a replay after its
processes, and the programs of `MCPrograms`, which end.

A few definitions are not used by any specification (`RefreshedSliceMissing`,
`SourcesOfLive`, `CheckNothing`, ...): each is its neighbour with a fault a programmer
could make. `PROJECT.json` pairs them with the property that notices the exchange.

**Fairness.** `RunService`: `WF` of the handlers and nodes of each stream: the event
loop runs what is ready, and a node ends (its model calls have timeouts). `EventStream`:
`WF` of the graph's task, of the loop's callbacks, of collector and generator, and of
each thread. `ChatClient`: `WF` of a thread that is in a call (its requests have
timeouts and its sleeps end), of whoever starts a server (every wait has a timeout) and
of time. Clients that call, faults, cancellation and deaths have no fairness.

## 4. What is proved

Every state invariant that a passing run checks is also a theorem here, with the action
property `PendingReviewSettled` and the refinement of `ReviewGate`: what TLC shows on
the instances of section 3 holds for all values of the constants that satisfy the named
assumptions of the modules. Liveness is not proved. Each theorem below is named with the
property it states.

**Sums, numbers and sequences** (`FiniteSums`). The library's induction rules take an
operator, which the provers cannot instantiate. `NumberInduction` and `SubsetInduction`
state them for sets instead (a set of numbers with 0 and the successors of its elements
is all of them; a set of subsets with `{}` that is closed under adding an element has
the whole), from `LeastNumber` and `MinimalSubset`. With these, what
`SumFunctionOnSet` computes is proved from its definition, a recursion over a chosen
element: that the recursion has a solution (`SumExists`), that it is the same whatever
is chosen first (`SumWithout`), and that sums are integers, monotonic, additive in terms
and sets, and bounded (`SumIsMonotonic`, `SumOfParts`, `SumOfSums`, `SumOfMultiples`,
`SumIsBounded`). `ProductIsMonotonic` is the one fact about products the rest needs.

**RunService** (`RunServiceProofs`).

- `TypeCorrect`: `TypeOK`.
- `GateHolds`: `ApprovalGate`. It speaks of the
  latest checkpoint; it is not inductive, because an execution may have decided, or
  hold an answer, long before it writes. The invariant says for every local copy and
  every checkpoint that one which needs approval is either before its answer, at
  `human_review`, or carries an answer of an accepted resume of the same thread, and
  that an execution with an answer was accepted. It needs no turns: each checkpoint is
  right by itself, so it does not matter whose is the latest.
- For `Exclusive = TRUE`: `AnswersMatch`, `ReportsAreOwn`, `PendingReviewsSettle` and
  `Implements`. `Invariance` is the common invariant: at most one stream of a thread is
  live; what the live one holds is the latest checkpoint; what it saw when it was
  accepted is still pending until it loads; an interrupt is pending only at
  `human_review` of the checkpoint's own decision. `Implements` maps every action to a
  step of `ReviewGate` or a stutter under the mapping `Phase`.

**EventStream** (`StreamProofs`), for any agents: `DebateStaysInOrder`
(`DebateInOrder`), `NothingIsLost` (`NothingLost`), `FailuresSurface`
(`FailureSurfaces`). `StreamInv` has three parts besides types and phases. `Whole`: what
was published is what the client has, then what is in the queue, then what waits in
callbacks, in this order; each action moves an event from the head of one to the tail of
the next, which takes the lemmas on `SelectSeq` and concatenation. `Flow`: the stream is
open, or the graph is over, nobody has anything to say any more, and everything on its
way ends in the completed node and the sentinel, or in the sentinel of a failure alone.
`Shown`: what the client was told at the end is what it has read. That nobody has
anything to say any more is the hard part: threads outlive a cancelled task, so the
invariant follows the join of the pool.

**Committee** (`CommitteeProofs`), for any agents, opinions, plans and limits.

- `NoVoteMissing`: `VotesAreComplete`. `VotesInv` says that in a round exactly those
  whose call is done have spoken, and who is called in the second; a round that did not
  fail ends with every call done.
- `VetoesStand`: `VetoStands`. `VetoRendered` is the step it rests on: whatever trades
  are balanced, without the consent of compliance the branch stays `COMPLIANCE_VETO`,
  which executes nothing. The invariant says it of every value that `checked` has.
- `RecallsAreJustified`: `RecallJustified`. `SaidInv` says who has spoken when: every
  agent in round 1 before the mediator is asked, and nobody is called again before. What
  consensus makes of votes is expanded: one with a direction has votes on one side only,
  and a conflict has one on each (`OneDirection`, `ConflictHasTwoSides`), so whoever is a
  candidate for recall is in a dispute.
- `FinalsWithinChecked`: `FinalWithinChecked`. Each leg is scaled by the smaller side
  over the larger and rounded, and rounding never passes an integer (`RoundedStays`), so
  none grows or changes sign (`ScaledDown`); that the sides are what the sums say is
  `BalancedWithin`.
- `FinalsAreNearlyNeutral`: `NearlyNeutral`. Scaled exactly, the two sides are equal; each
  rounded leg is off by at most half a tenth, and so the sides by half a tenth a leg
  (`SideIsNearlyTotal`, `BalancedIsNearlyNeutral`). Whatever is dropped is nothing.

**ExecutionPolicy and CandidatePlan** (`CommitteeProofs`), for any portfolio of finitely
many tickers, modes, rates and caps. `PlanInv` is one invariant for three theorems; it
says that drafts and deltas are plans over a positive unit, of tickers that are held,
targeted or drafted; that where there is drift the draft is the drift, and that the
deltas then approach the target (`Fitting`): purchases of what is short of it, by at
most the gap and the small gaps, sales of what is above it, by at most the excess.

- `PlansAreCashNeutral` (`CashNeutral`): case by case over `Scaled`, the repair of a
  one-sided sale, and the settled residual of drafts from signals, as equalities of sums
  (`ScaledIsNeutral`, `RepairIsNeutral`, `SettledIsNearlyNeutral`), and a draft that is
  not balanced has dropped a largest tilt (`NearlyNeutralDraft`). The tax step keeps the
  total of the deltas until it drops small ones, each less than the smallest delta, and
  changes nothing where there are no gains or no losses. The bounds are proved because
  neutrality itself is refuted, by `tax` and `draft`.
- `TradesApproach` (`TradesApproachTarget`): capping and scaling keep `Fitting`
  (`CappedApproaches`, `ScaledApproaches`). The repair gives the proceeds to what is
  short of its target in proportion; they are at most what is short in all
  (`SalesWithinGaps`, which needs `WholeAssumption`), so a gap grows by at most the gaps
  too small to trade (`RepairApproaches`).
- `LossesComeFirst` (`LossesFirst`): the tax step is two nested recursions, over any
  order of gains and losses. `Offered` is the invariant of the inner one (what is left
  of a gain is its delta; every loss offered so far has room for less than the smallest
  delta, unless no more than that is left), `Spread` that of the outer one (gains that
  were offered stay served: a later gain only takes room away).

Two things were found by failed attempts at these proofs. An earlier `LossesFirst` was
false, though TLC had found it true: a sale of a loss that was scaled below the smallest
delta is dropped after the shifts (execution_policy.py:403-408), and up to twice that
delta can be left. The portfolios of `decisions` now reach it (`SqueezedWeights`). And the
tax step is not neutral as its docstring says (see section 5); the bound in
`CashNeutral` is what does hold.

**Replay and StrategyEvaluation** (`ReplayProofs`), for any days, plans, settings,
commands, strategies and number of processes.

- `TypeCorrect`, `PortfolioTheorem`, `CompletenessTheorem`, `CadenceTheorem`. The
  properties are about what a finished process wrote, but a process may resume from rows
  of one that was killed, so the invariant `IInv` has a part for files (`FileInv`: its
  days are priced, skipped off the schedule, and if they are the first ones of the range,
  its portfolios follow from the rows before), one for the running process (`RunInv`: its
  portfolio is that of its rows, also between a decision and its rebalance, and its
  output file ends with the rows it has written), one for the days (`DaysInv`: those
  before `cursor` are decided or in error) and one for the schedule (`RowInv`). That rows
  are appended only to the file resumed from is an assumption on `Commands`, see
  section 5.
- `DelaysAreKept` (`DelayKept`), `EndLosses` (`LostOnlyAtTheEnd`) and
  `IssuesActedOnOnce` (`IssueActedOnOnce`). `OpenInv` says of both intents when they are
  due, counted from the day they began on and cut at the last one (`Waits`), and that
  only what began today may be due today; `ExecutedInv` that what was executed began on a
  simulated day, and that a question acted on was marked as seen.
- `ImmediateAgreesWithReplay` (`ImmediateFollowsReplay`) relates a strategy's holdings
  to the portfolio of another program. `FilesInv` says that every readable file is the
  end of a list of rows that follow from each other (`EndOfReplay`), whoever wrote which
  part; `ImmediateInv` that the strategy holds the rebalances of the days simulated.

**Programs around it** (`ProgramsProofs`).

- `HistoryTyped`, `CoverTheorem` (`EachDayOnce`), `MissingTheorem`
  (`MissingIsAccountedFor`). `IndInv` joins types, `EachDayOnce`, `Orderly` (windows are
  pending only for the ticker being fetched, and a provider without chunks has none) and
  `Explained` (a volume in an answered window is in the history, unless the provider is
  kis and the window holds as many later ones as the service returns; only a lenient
  fetch gives windows up; what is written is all of it). `HalvesSplit`: the halves of a
  window are shorter and share no day.
- `RecordTheorem` (`AnswerMatchesRecord`): `RecordInv` says from which step on the run
  file is whole, and that only a lost or answered request has left it.
- `VerdictsAreMirrored` (`MirroredVerdict`): by `VerdictInv` an answer has the verdict of
  its outcome, and verdicts of opposite outcomes are opposite. It is a fact about one pure
  function, and no run repeats it.
- `SuppressionTheorem` (`SuppressedAfterAsked`): `CountInv` relates the manager's count
  to what the runs reported: while a count has not passed the cooldown there was a
  question, and fewer suppressions since than observations.
- `OrderTheorem` (`OrdersAccountedFor`): in `OrderInv` what the broker holds and what the
  program was told of are prefixes of the list, equal until the run ends.
- `SnapshotsAddUp` (`SnapshotAddsUp`): in `BalanceInv` what was read, what is still to be
  read and the cash that was shown differ from what the account was worth by at most the
  fills so far and the rows read again, since a fill moves one unit between cash and a
  holding; `SumWithOneChange` follows the one holding a fill changes.
- `VotesAreMonotonic` (`WorseIsNeverBetter`) and `TaxVotesAreForLosses`
  (`TaxCountsForLossSalesOnly`): `JudgedInv` says what a call has come to from what the
  agent measured; the first is then a fact about each agent's verdict, over every pair of
  contexts of which one is worse in every measure the agent counts.

**Agent calls and knowledge** (`AgentCallProofs`).

- `OnceTheorem` (`EachItemOnce`): the lookup and the append of `merge` are two steps that
  any other call may come between, so `OnceInv` says that what a call is about to append
  is of the sources of its agent, and is absent and stays so, because two agents' jobs
  read different sources (`SourcesOf`). It rests on the assumptions that a round calls
  each agent once and that an item has one source.
- `FallbackTheorem` (`FallbacksAsSet`): a reader that raises without strict mode let an
  exception of another type through, or has read half a file, and `Witnessed` says of
  every half file whose job is writing it or was killed at it; that job is another
  run's.
- `EvidenceTheorem` (`EvidenceIsUsed`): `UseInv` says for each step of a call what it
  knows of the base: nothing is ever taken out, so what a slice showed can be shown
  again, what a refresh read is in the base before the next slice, and a slice within
  positive limits has the newest item of each form that fits (`SliceShows`).

**Clients** (`ClientProofs`), for any clients, threads, servers and attempts.

- `ServersAreStopped` (`NothingElseLeaks`): `ClientsInv` says who may be starting a
  server at which stage of a client's life: every server that runs is then one of `lost`,
  or the process of a client that is entering its context, checking or open.
- `RateIsKept` (`RateKept`): `RateInv` counts the requests sent and those released from
  the throttle but not yet sent; each took a delay up to the last time the throttle was
  left, which is not after now.

Assumptions are as weak as the code allows, and TLC evaluates them on the instances: the
sets of agents, subjects and holdings are finite; weights, targets, signals and plans
are integer functions on finitely many tickers; targets are normalised to the whole
(`normalize_weight_map`), of which the holdings are shares (`WholeAssumption`); limits
of slices are positive; every balance page list has a page; each agent is called once a
round.

TLC alone checks the liveness properties `EveryStreamCloses`, `StreamEnds` and
`EveryCallEnds` (fairness and `ENABLED` are out of the prover's reach), and refutes
those of section 5.

## 5. What the code says and does not keep

Findings, each a run that TLC refutes:

- `limit`: the final trades may break a limit the checked ones kept
  (libra/committee.py:685): they are balanced again after the check.
  `FinalWithinChecked` is what does hold: the second balancing only shrinks trades.
- `prompt`: the approval request shows the draft, never the decision's trades
  (runtime/graph.py:355-360).
- `tax`: moving sales to losses "keeps the net cash-neutral rebalance amount unchanged"
  (libra/execution_policy.py:344). This holds of the shifts and not of what follows them:
  the rest of a sale that became smaller than the smallest delta is dropped (405), and the
  plan buys more than it sells. A sale of 2.6 points that two losses take over as 1.3 and
  1.25 leaves 0.05. `CashNeutral` bounds by how much, and says that nothing else does it.
- `draft`: the residual of a draft from signals is taken from the largest tilt "to bring
  the sum to 0 (cash neutral)" (libra_runtime.py:2578, in Korean), and that tilt is dropped
  if it became too small (2583), with the balance. Five signals .34, .32, .17, .21, .21
  leave a purchase of 0.56 and a sale of 0.64 points.
- `reflection`: the chat client of evaluations, "or None if unavailable"
  (libra_api.py:57), is always None: it is opened without its required argument
  (libra_api.py:67) and the exception is swallowed.

Observed while modelling, in the models as the code has it, and not listed as findings:

- Service. Nothing compares `interrupt_id` with the interrupt that is resumed
  (libra_agent/api/sse.py:239). A thread cut short by a death can be resumed only where
  it waited for the user.
- Judge. The residual of dropped tilts is taken from the largest and can turn it around
  (libra_runtime.py:2581). A model that follows its prompt fails a run without consensus
  (libra/committee.py:691 against 784). "Conflict resolution keeps the plan cash-neutral"
  (libra/judge/final.py:96) holds up to rounding: `NearlyNeutral` says how far.
- Replay. A torn row makes a raw file unreadable, and a day without a price makes it
  impossible to resume from; rows appended to another replay's mix two portfolios
  (replay_full_committee_backtest.py:793), which an assumption excludes here; the gate on
  fallbacks (901) counts those of the current process only. Evaluation: a delay or a
  lag is cut at the last day, so a signal of that day is lost and, with a lag, one
  confirmed on it, when it began earlier too (880); and an issue counts as seen before it
  is known whether its plan can be traded (evaluate_replay_strategies.py:697).
- Clients. Two threads of a run may each launch a server, and the first is orphaned; a
  client whose start times out never stops its server (`lost` has exactly these); the
  end of one run stops the server others use; the throttle sleeps under its lock; a
  garbled body leaves three of the four clients as a ValueError; JSON of another shape
  leaves all but Gemini's as an AttributeError (ollama_client.py:55-56,
  llama_cpp_client.py:91-96, anthropic_client.py:70), and a usage log that cannot be
  written leaves Gemini's as an OSError (gemini_client.py:170).
- Agents. Neither an AttributeError nor an OSError of a client, nor the OverflowError of an
  infinite count in a reply, is caught (libra_runtime.py:1132): the round fails even where
  opinions may be made up. A torn file of another run's job raises through the agent.
  LIBRA_INGEST_REFRESH_ENABLED overrides `_without_ingest_refresh`.
- Domain agents. A score, a spread or a free float of 0 counts as not given
  (esg_agent.py:114, liquidity_agent.py:56, 69), so 0 may get a better vote than 1; a
  holding without a score gets the baseline of its sector, also one of no weight. So
  "an explicit ESG criterion is not passed without approval" (esg_agent.py:173, in Korean)
  is kept of the baseline, not of a score of 0. An empty sentiment score fails the run
  (sentiment_agent.py:128); the macro agent's reject needs a rate change no caller sets
  (macro_agent.py:72); the
  execution agent reads `adv_volume`, which the adapter does not write
  (execution_agent.py:59); the tail of returns counts by size, whatever its sign
  (portfolio_optimizer.py:366), so a portfolio without losses can be rejected for it.
- KIS. When an order fails, the results of those already placed are not shown; an order
  whose reply is lost may be placed twice by the next call; a malformed ticker is found
  only when it is its turn; holdings beyond the last page read are missing; rows repeated
  over pages are counted again; the summary may be a later page's than the first.
- Library API. A record that cannot be written loses a decision that was made;
  `deadline_seconds` is read and never enforced.
- Issues. Where each run has a manager of its own nothing is ever suppressed, and once
  the cooldown is over every observation asks again.

## 6. What is not modelled

- The legacy sequential judge (libra_runtime.py 2649-4300): only tests call it.
- The library's command line (the same run as `create_judge_run`, alone in its process);
  the ingest bundle and knowledge adapters (conversions); run_benchmark.py and the other
  scripts (calls of an HTTP service, one after the other); deployment and schemas.
- What validation does to each field of a reply; prompts, texts, wording of events.
- Writes within a node (the durable answer of a resume that crashed, a checkpoint in
  flight when a client leaves): the store is asked only between nodes.
- The connection pool and tables of the checkpoint store; the models behind the
  sentiment services; warnings of compliance; reason codes and reports.
- The arithmetic of values and statistics in evaluations, and float sums:
  0.6 + 0.3 + 0.1 is below 1.0 in the code and not here.
- Time, but for the throttle: timeouts are choices. Prices while the pages of a balance are
  read, and a summary without its cash.
- A record that is written and whose answer cannot be encoded: a failure after
  `Recorded` that `JudgeApi` has only as a death.

## 7. Plan

1. Done: the service, the committee with its operators, the stream, the plans; replay
   and evaluation, agents, clients, price history, broker, domain agents, library API and
   issues; a theorem for every state invariant that is checked.
2. To extend: the policy run on the tentative trades inside `Committee` instead of given
   plans; `AgentCall` as a refinement of the committee's answer-or-raise; the validation
   of one reply; the legacy judge only if something calls it again.
3. To prove: that the trades of a plan are those `Committee` takes as given (a rounded
   plan is a plan of integers, and its sides differ by at most half a tenth a trade);
   `ApprovalGate` for requests of the refinement without turns; what the liveness
   properties need of safety (that a call not over has a step to take), as invariants.
