---------------------------- MODULE PriceHistory ----------------------------
(***************************************************************************)
(* scripts/enrich_fixture_with_kis_ohlcv.py: the daily volumes of every    *)
(* ticker of a fixture, asked for in windows of at most ChunkDays calendar *)
(* days.  A window the service refuses is halved and asked again until it  *)
(* is too short; then it is skipped (--allow-missing) or the tool fails.   *)
(* What was fetched is laid over the volumes the fixture already had.      *)
(*                                                                         *)
(* Days are the calendar days from the fixture's first date to its last.   *)
(* The order of the recursion is that of the windows' first days, so the   *)
(* windows still to be asked are a set.                                    *)
(***************************************************************************)
EXTENDS Integers, FiniteSets

CONSTANTS
  LastDay,    \* days are 0..LastDay
  Dates,      \* days of the fixture's rows, the first and the last among them
  Tickers,    \* tickers to fetch
  ChunkDays,  \* --chunk-days
  MinSpan,    \* a window that spans no more days than this is not halved
  RowCap,     \* rows the service returns at most, the latest ones of the window
  Markets,    \* which days each ticker has a volume on
  Befores,    \* what the fixture may hold already, as <<date, ticker>>
  NoTicker

Days == 0..LastDay
Windows == {w \in Days \X Days : w[1] <= w[2]}
In(d, w) == w[1] <= d /\ d <= w[2]

ASSUME HistoryAssumption ==
  /\ LastDay \in Nat
  /\ Dates \subseteq Days /\ {0, LastDay} \subseteq Dates
  /\ ChunkDays \in Nat \ {0} /\ MinSpan \in Nat /\ RowCap \in Nat
  /\ Markets \subseteq [Tickers -> SUBSET Days]
  /\ Befores \subseteq SUBSET (Dates \X Tickers)
  /\ NoTicker \notin Tickers

VARIABLES
  hstep,     \* idle, token, fetch, failed, written
  provider,  \* --provider
  lenient,   \* --allow-missing
  market,    \* volumes the service knows
  before,    \* volumes of the fixture that is read
  ticker,    \* ticker being fetched
  cursor,    \* first day of the next chunk, for each ticker
  pending,   \* windows of this chunk still to be asked
  answered,  \* windows the service has answered, for each ticker
  skipped,   \* windows given up
  history,   \* days with a volume, for each ticker
  out        \* what is written: volumes just fetched and volumes kept
hvars == <<hstep, provider, lenient, market, before, ticker, cursor, pending,
           answered, skipped, history, out>>
asked == <<cursor, pending, answered, skipped>>
options == <<provider, lenient, market, before>>

NothingOut == [fresh |-> {}, kept |-> {}]
HUntouched ==
  /\ ticker = NoTicker /\ pending = {}
  /\ cursor = [t \in Tickers |-> 0]
  /\ answered = [t \in Tickers |-> {}] /\ skipped = [t \in Tickers |-> {}]
  /\ history = [t \in Tickers |-> {}] /\ out = NothingOut
HInit ==
  /\ provider \in {"kis", "pykrx"} /\ lenient \in BOOLEAN
  /\ market \in Markets /\ before \in Befores
  /\ hstep = IF provider = "kis" THEN "token" ELSE "fetch"
  /\ HUntouched
-----------------------------------------------------------------------------
Abort == hstep' = "failed" /\ UNCHANGED <<options, ticker, asked, history, out>>

Token ==
  /\ hstep = "token" /\ hstep' = "fetch"
  /\ UNCHANGED <<options, ticker, asked, history, out>>
TokenFails == hstep = "token" /\ Abort

\* The next ticker, once all chunks of the one before are done.
Fetched(t) == cursor[t] = LastDay + 1
NextTicker(t) ==
  /\ hstep = "fetch" /\ ~Fetched(t)
  /\ IF ticker = NoTicker THEN TRUE ELSE Fetched(ticker) /\ pending = {}
  /\ ticker' = t
  /\ UNCHANGED <<hstep, options, asked, history, out>>

\* pykrx is asked once for the whole range; what it raises ends the tool.
FetchWhole ==
  /\ provider = "pykrx" /\ hstep = "fetch" /\ ticker # NoTicker /\ ~Fetched(ticker)
  /\ cursor' = [cursor EXCEPT ![ticker] = LastDay + 1]
  /\ answered' = [answered EXCEPT ![ticker] = {<<0, LastDay>>}]
  /\ history' = [history EXCEPT ![ticker] = market[ticker]]
  /\ UNCHANGED <<hstep, options, ticker, pending, skipped, out>>
WholeFails ==
  provider = "pykrx" /\ hstep = "fetch" /\ ticker # NoTicker /\ ~Fetched(ticker) /\ Abort
-----------------------------------------------------------------------------
ChunkEnd(c) == IF c + ChunkDays - 1 < LastDay THEN c + ChunkDays - 1 ELSE LastDay
TakeChunk ==
  /\ provider = "kis" /\ hstep = "fetch" /\ ticker # NoTicker
  /\ pending = {} /\ ~Fetched(ticker)
  /\ pending' = {<<cursor[ticker], ChunkEnd(cursor[ticker])>>}
  /\ cursor' = [cursor EXCEPT ![ticker] = ChunkEnd(cursor[ticker]) + 1]
  /\ UNCHANGED <<hstep, options, ticker, answered, skipped, history, out>>

Foremost(w) ==
  /\ hstep = "fetch" /\ w \in pending
  /\ \A v \in pending : w[1] <= v[1]

Known(t, w) == {d \in market[t] : In(d, w)}
Replied(t, w) ==
  {d \in Known(t, w) : Cardinality({e \in Known(t, w) : d < e}) < RowCap}
MergedAnew(t, w) == Replied(t, w)
Merged(t, w) == history[t] \cup Replied(t, w)
Answered(w) ==
  /\ Foremost(w)
  /\ pending' = pending \ {w}
  /\ answered' = [answered EXCEPT ![ticker] = @ \cup {w}]
  /\ history' = [history EXCEPT ![ticker] = Merged(ticker, w)]
  /\ UNCHANGED <<hstep, options, ticker, cursor, skipped, out>>

Middle(w) == w[1] + (w[2] - w[1]) \div 2
HalvesApart(w) == {<<w[1], Middle(w) - 1>>, <<Middle(w) + 1, w[2]>>}
Halves(w) == {<<w[1], Middle(w)>>, <<Middle(w) + 1, w[2]>>}
Short(w) == w[2] - w[1] <= MinSpan

\* An HTTP error, or a body that says the request failed.
RefusedLong(w) ==
  /\ Foremost(w) /\ ~Short(w)
  /\ pending' = (pending \ {w}) \cup Halves(w)
  /\ UNCHANGED <<hstep, options, ticker, cursor, answered, skipped, history, out>>
RefusedShort(w) ==
  /\ Foremost(w) /\ Short(w)
  /\ IF lenient
     THEN /\ pending' = pending \ {w} /\ skipped' = [skipped EXCEPT ![ticker] = @ \cup {w}]
          /\ UNCHANGED <<hstep, options, ticker, cursor, answered, history, out>>
     ELSE Abort

\* A body that is not JSON raises ValueError, which no handler expects.
Garbled(w) == Foremost(w) /\ Abort
-----------------------------------------------------------------------------
Fresh == {x \in Dates \X Tickers : x[1] \in history[x[2]]}
Enriched == [fresh |-> Fresh, kept |-> before \ Fresh]
Enrich ==
  /\ hstep = "fetch" /\ pending = {} /\ \A t \in Tickers : Fetched(t)
  /\ IF lenient \/ Fresh = Dates \X Tickers
     THEN hstep' = "written" /\ out' = Enriched
     ELSE hstep' = "failed" /\ UNCHANGED out
  /\ UNCHANGED <<options, ticker, asked, history>>

HNext ==
  \/ Token \/ TokenFails \/ FetchWhole \/ WholeFails \/ TakeChunk \/ Enrich
  \/ \E t \in Tickers : NextTicker(t)
  \/ \E w \in pending : Answered(w) \/ RefusedLong(w) \/ RefusedShort(w) \/ Garbled(w)
HSpec == HInit /\ [][HNext]_hvars
-----------------------------------------------------------------------------
HTypeOK ==
  /\ hstep \in {"idle", "token", "fetch", "failed", "written"}
  /\ provider \in {"kis", "pykrx"} /\ lenient \in BOOLEAN
  /\ market \in [Tickers -> SUBSET Days] /\ before \subseteq Dates \X Tickers
  /\ ticker \in Tickers \cup {NoTicker}
  /\ cursor \in [Tickers -> 0..LastDay + 1]
  /\ pending \subseteq Windows
  /\ answered \in [Tickers -> SUBSET Windows] /\ skipped \in [Tickers -> SUBSET Windows]
  /\ history \in [Tickers -> SUBSET Days]
  /\ out \in [fresh : SUBSET (Dates \X Tickers), kept : SUBSET (Dates \X Tickers)]

Pending(t) == IF t = ticker THEN pending ELSE {}
CoveredOnce(open, done, lost, c) ==
  /\ \A d \in Days : d < c <=> \E w \in open \cup done \cup lost : In(d, w)
  /\ \A v, w \in open \cup done \cup lost : v # w => v[2] < w[1] \/ w[2] < v[1]
  /\ open \cap done = {} /\ open \cap lost = {} /\ done \cap lost = {}

(* However often windows are refused and halved, every day before the      *)
(* cursor of its ticker is in exactly one window, and a window is pending, *)
(* answered or given up, never two of these: a history has no gap the      *)
(* tool does not know of and asks for no day twice                         *)
(* (_date_chunks, _fetch_daily_chart_resilient).                           *)
EachDayOnce ==
  \A t \in Tickers : CoveredOnce(Pending(t), answered[t], skipped[t], cursor[t])

(* A volume missing from what is written, or left over from an earlier     *)
(* enrichment, is one the service has no volume for, one in a window given *)
(* up with a warning, or one that kis itself leaves out, without a word,   *)
(* because its window has as many later rows as a reply holds: nothing is  *)
(* lost in merging the replies of the windows, nor between the history and *)
(* the fixture, and nothing at all with pykrx                              *)
(* (_fetch_ticker_history, enrich_fixture).                                *)
RowsAfter(t, w, d) == {e \in Known(t, w) : d < e}
MissingIsAccountedFor ==
  hstep = "written" =>
    \A d \in Dates, t \in Tickers :
      \/ <<d, t>> \in out.fresh
      \/ d \notin market[t]
      \/ lenient /\ \E w \in skipped[t] : In(d, w)
      \/ /\ provider = "kis"
         /\ \E w \in answered[t] : In(d, w) /\ RowCap <= Cardinality(RowsAfter(t, w, d))
=============================================================================
