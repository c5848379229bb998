------------------------------ MODULE MCPrograms ------------------------------
(* Instance of PriceHistory, KisClient, DomainAgents, JudgeApi and IssueState  *)
(* for TLC.  They share nothing: a behaviour runs one and the others are idle. *)
EXTENDS PriceHistory, KisClient, DomainAgents, JudgeApi, IssueState
CONSTANTS t1, t2, a, b, bad, h1, h2, h3, i1, i2

MCTickers == {t1, t2}
MCDates == {0, 2, 3, 6, 8}
MCMarkets ==
  {[t \in MCTickers |-> 0..8],
   [t \in MCTickers |-> IF t = t1 THEN {0, 3, 4, 6, 8} ELSE 0..8]}
MCBefores == {{}, {<<3, t1>>, <<8, t2>>}}

MCOrders == {a, b, bad}
MCFixture == <<a, b>>
MCOrderLists == {<<>>, <<a>>, <<b, a, b>>, <<a, bad, b>>}
MCHoldings == {h1, h2, h3}
MCPages ==
  {<<{h1, h2, h3}>>, <<{h1}, {h2, h3}>>, <<{h1}, {h2}, {h3}>>, <<{h1}, {h2}, {}, {h3}>>,
   <<{h1, h2}, {h2, h3}>>, <<{h1, h2, h3}, {h1, h2}>>}

(* On both sides of every limit, and at it.                                    *)
MCLots == 1..3
MCReplies ==
  [form : {"json"}, score : {-31, -30, 50, 51}, vote : Verdicts]
  \cup [form : {"words"}, score : {0}, vote : {"approve", "reject", "abstain"}]
  \cup [form : {"null"}, score : {0}, vote : {"abstain"}]
MCRiskContexts ==
  [held : {TRUE}, deltas : SUBSET {-101, -100, 100, 101},
   tail : {Unseen, -31, -30, 0, 30, 31}]
  \cup [held : {FALSE}, deltas : SUBSET {100, 101}, tail : {Unseen}]
MCTaxContexts == [pnl : [MCLots -> {-101, -100, 101}], delta : [MCLots -> {-1, 0, 1}]]
MCMacroContexts == [subject : BOOLEAN, rate : {FALSE}]
MCSentimentContexts == [analysed : BOOLEAN]
MCExecutionContexts == [order : [MCLots -> {0, 100, 150, 200}], priced : SUBSET MCLots]
MCEsgContexts ==
  [excluded : BOOLEAN, target : {30, 40, 50},
   weight : {[x \in MCLots |-> IF x = 3 THEN 0 ELSE 50], [x \in MCLots |-> IF x = 1 THEN 80 ELSE 0],
             [x \in MCLots |-> 0]},
   score : [MCLots -> {0, 30, 50, 60}], baseline : {[x \in MCLots |-> IF x = 1 THEN 45 ELSE 55]}]
Metrics == {[u |-> Unseen, s |-> Unseen, f |-> Unseen], [u |-> 10, s |-> 50, f |-> 20],
            [u |-> 11, s |-> 50, f |-> 20], [u |-> 10, s |-> 51, f |-> 20],
            [u |-> 10, s |-> 50, f |-> 19], [u |-> 11, s |-> Unseen, f |-> Unseen],
            [u |-> Unseen, s |-> 0, f |-> 0], [u |-> 0, s |-> 0, f |-> 20]}
MCLiquidityContexts ==
  {[usage |-> [x \in MCLots |-> m[x].u], spread |-> [x \in MCLots |-> m[x].s],
    float |-> [x \in MCLots |-> m[x].f]] : m \in [MCLots -> Metrics]}
Charts ==
  {Unseen, [kind |-> "returns", return |-> -120], [kind |-> "returns", return |-> 7],
   [kind |-> "returns", return |-> 8],
   [kind |-> "chart", ma20 |-> 40, ma60 |-> -3, rsi |-> -24, surge |-> TRUE],
   [kind |-> "chart", ma20 |-> 0, ma60 |-> -9, rsi |-> 0, surge |-> FALSE]}
MCTechnicalContexts == [MCLots -> Charts]

Story(decision, rejected, score, return) ==
  [decision |-> decision, planned |-> decision \in {"REBALANCE", "DEFER"},
   rejected |-> rejected, score |-> score, return |-> return]
MCOutcomes ==
  {Story("REBALANCE", r, 1, n) : r \in BOOLEAN, n \in {-5, 5}}
  \cup {Story("HOLD", FALSE, 1, n) : n \in {-1, 1}}
  \cup {Story("DEFER", TRUE, 1, n) : n \in {-5, 5}}
  \cup {Story("USER_DECISION_REQUIRED", TRUE, -1, n) : n \in {-1, 1}}
MCIssues == {i1, i2}

VARIABLE program
pvars == <<program, hvars, kvars, dvars, avars, ivars>>

HIdle ==
  /\ hstep = "idle" /\ HUntouched
  /\ provider = "kis" /\ lenient = FALSE /\ before = {}
  /\ market = [t \in Tickers |-> {}]
KIdle ==
  /\ kstep = "idle" /\ KUntouched
  /\ command = "list" /\ orders = <<>> /\ pages = <<>>
  /\ account = Start([h \in Holdings |-> 0])
DIdle ==
  /\ agent = "none" /\ context = Unseen
  /\ dstep = "idle" /\ reply = NoReply /\ verdict = NoVerdict /\ votes = {}
AIdle ==
  /\ configured = FALSE /\ deaths = 0 /\ shared = Unresolved
  /\ phase = [r \in Runs |-> "idle"] /\ status = [r \in Runs |-> 0]
  /\ runFile = [r \in Runs |-> "none"]
  /\ estep = [e \in Evaluations |-> "idle"]
  /\ outcome = [e \in Evaluations |-> NoOutcome] /\ answer = [e \in Evaluations |-> NoAnswer]
IIdle == onePerRun = FALSE /\ count = NotSeen /\ told = <<>>

ProgramsInit ==
  \/ program = "history" /\ HInit /\ KIdle /\ DIdle /\ AIdle /\ IIdle
  \/ program = "broker" /\ HIdle /\ KInit /\ DIdle /\ AIdle /\ IIdle
  \/ program = "agent" /\ HIdle /\ KIdle /\ DInit /\ AIdle /\ IIdle
  \/ program = "api" /\ HIdle /\ KIdle /\ DIdle /\ AInit /\ IIdle
  \/ program = "issues" /\ HIdle /\ KIdle /\ DIdle /\ AIdle /\ IInit
ProgramsNext ==
  \/ program = "history" /\ HNext /\ UNCHANGED <<program, kvars, dvars, avars, ivars>>
  \/ program = "broker" /\ KNext /\ UNCHANGED <<program, hvars, dvars, avars, ivars>>
  \/ program = "agent" /\ DNext /\ UNCHANGED <<program, hvars, kvars, avars, ivars>>
  \/ program = "api" /\ ANext /\ UNCHANGED <<program, hvars, kvars, dvars, ivars>>
  \/ program = "issues" /\ INext /\ UNCHANGED <<program, hvars, kvars, dvars, avars>>
ProgramsSpec == ProgramsInit /\ [][ProgramsNext]_pvars
=============================================================================
