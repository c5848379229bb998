--------------------------- MODULE ProgramsProofs ----------------------------
(****************************************************************************)
(* Theorems about PriceHistory, JudgeApi, IssueState, KisClient and         *)
(* DomainAgents, which share nothing: each one is about the specification   *)
(* of its own module.                                                       *)
(****************************************************************************)
EXTENDS PriceHistory, KisClient, DomainAgents, JudgeApi, IssueState, FiniteSums, SequenceTheorems

(****************************************************************************)
(* PriceHistory: the windows asked for cover a range exactly once however   *)
(* they are halved, and what is missing from the enriched fixture is        *)
(* accounted for.                                                           *)
(****************************************************************************)

\* Windows are pending only for a ticker, and pykrx knows no windows.
Orderly ==
  /\ pending # {} => ticker \in Tickers
  /\ provider = "pykrx" =>
       /\ pending = {}
       /\ \A t \in Tickers : skipped[t] = {} /\ cursor[t] \in {0, LastDay + 1}

\* What an answered window leaves out, and when the fixture is written.
CutOff(t, w, d) == provider = "kis" /\ RowCap <= Cardinality(RowsAfter(t, w, d))
Explained ==
  /\ \A t \in Tickers : \A w \in answered[t] : \A d \in market[t] :
       In(d, w) => d \in history[t] \/ CutOff(t, w, d)
  /\ \A t \in Tickers : skipped[t] # {} => lenient
  /\ hstep = "written" =>
       pending = {} /\ out.fresh = Fresh /\ \A t \in Tickers : Fetched(t)

IndInv == HTypeOK /\ EachDayOnce /\ Orderly /\ Explained
-----------------------------------------------------------------------------
\* Halving gives two windows, each of them shorter, that share no day.
LEMMA HalvesSplit ==
  ASSUME NEW w \in Windows, ~Short(w)
  PROVE  /\ Middle(w) \in Days /\ Middle(w) + 1 \in Days
         /\ w[1] <= Middle(w) /\ Middle(w) < w[2]
         /\ Halves(w) \subseteq Windows
         /\ \A d \in Days : In(d, w) <=> \E v \in Halves(w) : In(d, v)
<1>1. w[1] \in Days /\ w[2] \in Days /\ w[2] - w[1] > MinSpan /\ MinSpan \in Nat /\ LastDay \in Nat
  BY HistoryAssumption DEF Windows, Short, Days
<1>2. w[1] <= Middle(w) /\ Middle(w) < w[2] /\ Middle(w) \in Int
  BY <1>1 DEF Middle, Days
<1>3. Middle(w) \in Days /\ Middle(w) + 1 \in Days
  BY <1>1, <1>2 DEF Days
<1>. HIDE DEF Middle
<1>4. Halves(w) \subseteq Windows
  BY <1>1, <1>2, <1>3 DEF Halves, Windows, Days
<1>5. \A d \in Days : In(d, w) <=> \E v \in Halves(w) : In(d, v)
  BY <1>1, <1>2, <1>3 DEF Halves, In, Days
<1>. QED BY <1>2, <1>3, <1>4, <1>5

\* A day the reply leaves out is followed by RowCap others of its window.
LEMMA LeftOut ==
  ASSUME NEW w \in Windows, NEW t \in Tickers, NEW d \in market[t],
         market[t] \subseteq Days, In(d, w), d \notin Replied(t, w)
  PROVE  RowCap <= Cardinality(RowsAfter(t, w, d))
<1>. DEFINE Later == RowsAfter(t, w, d)
<1>1. Later \subseteq Days
  BY DEF RowsAfter, Known
<1>2. IsFiniteSet(Days)
  BY HistoryAssumption, FS_Interval DEF Days
<1>3. Cardinality(Later) \in Nat /\ RowCap \in Nat
  BY <1>1, <1>2, FS_Subset, FS_CardinalityType, HistoryAssumption
<1>4. ~(Cardinality(Later) < RowCap)
  BY DEF Replied, Known, RowsAfter
<1>. HIDE DEF Later
<1>. QED BY <1>3, <1>4 DEF Later
-----------------------------------------------------------------------------
LEMMA InitInv == HInit => IndInv
<1>. SUFFICES ASSUME HInit PROVE IndInv
  OBVIOUS
<1>. USE HistoryAssumption DEF HInit, HUntouched
<1>1. HTypeOK
  BY DEF HTypeOK, NothingOut, Days
<1>2. EachDayOnce
  BY DEF EachDayOnce, CoveredOnce, Pending, In, Days
<1>3. Orderly
  BY DEF Orderly
<1>4. Explained
  BY DEF Explained
<1>. QED BY <1>1, <1>2, <1>3, <1>4 DEF IndInv

\* A day of a chunk is one between the cursor and its end.
LEMMA ChunkEnds ==
  ASSUME NEW c \in 0..LastDay
  PROVE  ChunkEnd(c) \in Days /\ c <= ChunkEnd(c)
BY HistoryAssumption DEF ChunkEnd, Days

LEMMA TypeStep == HTypeOK /\ Orderly /\ [HNext]_hvars => HTypeOK'
<1>. SUFFICES ASSUME HTypeOK, Orderly, [HNext]_hvars PROVE HTypeOK'
  OBVIOUS
<1>. USE HistoryAssumption DEF HTypeOK, options, asked
<1>1. CASE Token
  BY <1>1 DEF Token
<1>2. CASE TokenFails
  BY <1>2 DEF TokenFails, Abort
<1>3. CASE FetchWhole
  <2>1. <<0, LastDay>> \in Windows
    BY DEF Windows, Days
  <2>. QED BY <1>3, <2>1 DEF FetchWhole
<1>4. CASE WholeFails
  BY <1>4 DEF WholeFails, Abort
<1>5. CASE TakeChunk
  <2>1. ticker \in Tickers /\ cursor[ticker] \in 0..LastDay
    BY <1>5 DEF TakeChunk, Fetched
  <2>2. ChunkEnd(cursor[ticker]) \in Days /\ cursor[ticker] <= ChunkEnd(cursor[ticker])
    BY <2>1, ChunkEnds
  <2>3. pending' \subseteq Windows
    BY <1>5, <2>1, <2>2 DEF TakeChunk, Windows, Days
  <2>4. cursor' \in [Tickers -> 0..LastDay + 1]
    BY <1>5, <2>1, <2>2 DEF TakeChunk, Days
  <2>. QED BY <1>5, <2>3, <2>4 DEF TakeChunk
<1>6. CASE Enrich
  BY <1>6 DEF Enrich, Enriched, Fresh
<1>7. ASSUME NEW t \in Tickers, NextTicker(t) PROVE HTypeOK'
  BY <1>7 DEF NextTicker
<1>8. ASSUME NEW w \in pending, Answered(w) PROVE HTypeOK'
  <2>1. ticker \in Tickers /\ w \in Windows
    BY <1>8 DEF Orderly
  <2>2. Merged(ticker, w) \subseteq Days
    BY <2>1 DEF Merged, Replied, Known
  <2>3. history' \in [Tickers -> SUBSET Days]
    BY <1>8, <2>2 DEF Answered
  <2>4. answered' \in [Tickers -> SUBSET Windows]
    BY <1>8, <2>1 DEF Answered
  <2>. QED BY <1>8, <2>3, <2>4 DEF Answered
<1>9. ASSUME NEW w \in pending, RefusedLong(w) PROVE HTypeOK'
  <2>1. Halves(w) \subseteq Windows
    BY <1>9, HalvesSplit DEF RefusedLong
  <2>. QED BY <1>9, <2>1 DEF RefusedLong
<1>10. ASSUME NEW w \in pending, RefusedShort(w) PROVE HTypeOK'
  <2>1. ticker \in Tickers /\ w \in Windows
    BY <1>10 DEF Orderly
  <2>. QED BY <1>10, <2>1 DEF RefusedShort, Abort
<1>11. ASSUME NEW w \in pending, Garbled(w) PROVE HTypeOK'
  BY <1>11 DEF Garbled, Abort
<1>12. CASE UNCHANGED hvars
  BY <1>12 DEF hvars
<1>. QED
  BY <1>1, <1>2, <1>3, <1>4, <1>5, <1>6, <1>7, <1>8, <1>9, <1>10, <1>11, <1>12 DEF HNext

-----------------------------------------------------------------------------
\* How the four ways of moving windows keep the cover.
LEMMA CoverTake ==
  ASSUME NEW A \in SUBSET Windows, NEW S \in SUBSET Windows, NEW c \in 0..LastDay,
         CoveredOnce({}, A, S, c)
  PROVE  CoveredOnce({<<c, ChunkEnd(c)>>}, A, S, ChunkEnd(c) + 1)
<1>1. ChunkEnd(c) \in Days /\ c <= ChunkEnd(c) /\ c \in Days /\ LastDay \in Nat
  BY ChunkEnds, HistoryAssumption DEF Days
<1>. DEFINE new == <<c, ChunkEnd(c)>>
<1>2. \A w \in A \cup S : w[1] \in Days /\ w[2] \in Days /\ w[1] <= w[2] /\ w[2] < c
  <2>. SUFFICES ASSUME NEW w \in A \cup S
                PROVE  w[1] \in Days /\ w[2] \in Days /\ w[1] <= w[2] /\ w[2] < c
    OBVIOUS
  <2>1. w[1] \in Days /\ w[2] \in Days /\ w[1] <= w[2]
    BY DEF Windows
  <2>2. In(w[2], w)
    BY <2>1 DEF In, Days
  <2>. QED BY <2>1, <2>2 DEF CoveredOnce
<1>3. new[1] = c /\ new[2] = ChunkEnd(c) /\ new \notin A /\ new \notin S
  BY <1>1, <1>2 DEF Days
<1>. HIDE DEF new
<1>4. \A d \in Days : d < ChunkEnd(c) + 1 <=> \E w \in {new} \cup A \cup S : In(d, w)
  BY <1>1, <1>2, <1>3 DEF CoveredOnce, In, Days
<1>5. \A v, w \in {new} \cup A \cup S : v # w => v[2] < w[1] \/ w[2] < v[1]
  BY <1>1, <1>2, <1>3 DEF CoveredOnce, Days
<1>6. CoveredOnce({new}, A, S, ChunkEnd(c) + 1)
  BY <1>3, <1>4, <1>5 DEF CoveredOnce
<1>. QED BY <1>6 DEF new

LEMMA CoverMove ==
  ASSUME NEW P \in SUBSET Windows, NEW A \in SUBSET Windows, NEW S \in SUBSET Windows,
         NEW c, NEW w \in P, CoveredOnce(P, A, S, c)
  PROVE  /\ CoveredOnce(P \ {w}, A \cup {w}, S, c)
         /\ CoveredOnce(P \ {w}, A, S \cup {w}, c)
<1>1. (P \ {w}) \cup (A \cup {w}) \cup S = P \cup A \cup S
  OBVIOUS
<1>2. (P \ {w}) \cup A \cup (S \cup {w}) = P \cup A \cup S
  OBVIOUS
<1>. QED BY <1>1, <1>2 DEF CoveredOnce

LEMMA CoverSplit ==
  ASSUME NEW P \in SUBSET Windows, NEW A \in SUBSET Windows, NEW S \in SUBSET Windows,
         NEW c, NEW w \in P, CoveredOnce(P, A, S, c), ~Short(w)
  PROVE  CoveredOnce((P \ {w}) \cup Halves(w), A, S, c)
<1>. DEFINE rest == (P \ {w}) \cup A \cup S
            old == P \cup A \cup S
            new == ((P \ {w}) \cup Halves(w)) \cup A \cup S
<1>1. w \in Windows /\ w[1] \in Days /\ w[2] \in Days
  BY DEF Windows
<1>2. /\ Middle(w) \in Days /\ Middle(w) + 1 \in Days /\ w[1] <= Middle(w) /\ Middle(w) < w[2]
      /\ Halves(w) \subseteq Windows
      /\ \A d \in Days : In(d, w) <=> \E v \in Halves(w) : In(d, v)
  BY <1>1, HalvesSplit
<1>. HIDE DEF Middle
<1>3. \A v \in Halves(w) : w[1] <= v[1] /\ v[2] <= w[2] /\ v[1] \in Days /\ v[2] \in Days
                        /\ v[1] <= v[2] /\ v # w
  BY <1>1, <1>2, HistoryAssumption DEF Halves, Days
<1>4. \A u, v \in Halves(w) : u # v => u[2] < v[1] \/ v[2] < u[1]
  BY <1>1, <1>2 DEF Halves, Days
<1>5. w \notin A /\ w \notin S /\ new = rest \cup Halves(w) /\ old = rest \cup {w}
      /\ w \notin rest /\ rest \subseteq Windows
  BY DEF CoveredOnce
<1>6. \A v \in rest : (v[2] < w[1] \/ w[2] < v[1]) /\ v[1] \in Days /\ v[2] \in Days /\ v[1] <= v[2]
  <2>1. \A v \in rest : v \in old /\ v # w
    BY <1>5
  <2>2. \A v \in rest : v[2] < w[1] \/ w[2] < v[1]
    BY <2>1, <1>5 DEF CoveredOnce
  <2>3. \A v \in rest : v[1] \in Days /\ v[2] \in Days /\ v[1] <= v[2]
    BY <1>5 DEF Windows
  <2>. QED BY <2>2, <2>3
<1>7. \A u, v \in rest : u # v => u[2] < v[1] \/ v[2] < u[1]
  BY DEF CoveredOnce
<1>8. \A d \in Days : d < c <=> \E v \in rest \cup {w} : In(d, v)
  BY <1>5 DEF CoveredOnce
<1>9. \A v \in rest : \A u \in Halves(w) : v # u /\ (v[2] < u[1] \/ u[2] < v[1])
  BY <1>1, <1>3, <1>6 DEF Days
<1>. HIDE DEF rest, old, new
<1>10. \A d \in Days : d < c <=> \E v \in new : In(d, v)
  BY <1>2, <1>5, <1>8
<1>11. \A u, v \in new : u # v => u[2] < v[1] \/ v[2] < u[1]
  BY <1>4, <1>5, <1>7, <1>9
<1>12. /\ ((P \ {w}) \cup Halves(w)) \cap A = {} /\ ((P \ {w}) \cup Halves(w)) \cap S = {}
       /\ A \cap S = {}
  BY <1>9 DEF CoveredOnce, rest
<1>. QED BY <1>10, <1>11, <1>12 DEF CoveredOnce, new

\* The windows of a ticker that no step touches.
LEMMA CoverStep == IndInv /\ [HNext]_hvars => EachDayOnce'
<1>. SUFFICES ASSUME IndInv, [HNext]_hvars PROVE EachDayOnce'
  OBVIOUS
<1>. USE HistoryAssumption DEF options, asked
<1>0. HTypeOK /\ EachDayOnce /\ Orderly
  BY DEF IndInv
<1>a. ASSUME UNCHANGED <<ticker, asked>> PROVE EachDayOnce'
  BY <1>0, <1>a DEF EachDayOnce, Pending
\* A step that changes only the windows of the ticker at hand.
<1>b. ASSUME ticker \in Tickers, ticker' = ticker,
             \A t \in Tickers \ {ticker} : /\ answered'[t] = answered[t] /\ skipped'[t] = skipped[t]
                                        /\ cursor'[t] = cursor[t],
             CoveredOnce(pending', answered'[ticker], skipped'[ticker], cursor'[ticker])
      PROVE  EachDayOnce'
  <2>. SUFFICES ASSUME NEW t \in Tickers
                PROVE  CoveredOnce(Pending(t)', answered'[t], skipped'[t], cursor'[t])
    BY DEF EachDayOnce
  <2>1. CASE t = ticker
    BY <1>b, <2>1 DEF Pending
  <2>2. CASE t # ticker
    BY <1>0, <1>b, <2>2 DEF Pending, EachDayOnce
  <2>. QED BY <2>1, <2>2
<1>c. ticker \in Tickers =>
        /\ CoveredOnce(pending, answered[ticker], skipped[ticker], cursor[ticker])
        /\ pending \subseteq Windows /\ answered[ticker] \subseteq Windows
        /\ skipped[ticker] \subseteq Windows
  BY <1>0 DEF EachDayOnce, Pending, HTypeOK
<1>1. CASE Token \/ TokenFails \/ WholeFails \/ Enrich \/ UNCHANGED hvars
  BY <1>1, <1>a DEF Token, TokenFails, WholeFails, Enrich, Abort, hvars
<1>2. CASE FetchWhole
  <2>1. ticker \in Tickers /\ pending = {} /\ skipped[ticker] = {}
    BY <1>2, <1>0 DEF FetchWhole, Orderly, HTypeOK
  <2>2. CoveredOnce({}, {<<0, LastDay>>}, {}, LastDay + 1)
    BY DEF CoveredOnce, In, Days
  <2>3. /\ pending' = {} /\ answered'[ticker] = {<<0, LastDay>>} /\ skipped'[ticker] = {}
        /\ cursor'[ticker] = LastDay + 1
    BY <1>2, <1>0, <2>1 DEF FetchWhole, HTypeOK
  <2>4. \A t \in Tickers \ {ticker} : /\ answered'[t] = answered[t] /\ skipped'[t] = skipped[t]
                                    /\ cursor'[t] = cursor[t]
    BY <1>2, <1>0 DEF FetchWhole, HTypeOK
  <2>5. ticker' = ticker
    BY <1>2 DEF FetchWhole
  <2>. QED BY <1>b, <2>1, <2>2, <2>3, <2>4, <2>5
<1>3. CASE TakeChunk
  <2>1. ticker \in Tickers /\ pending = {} /\ cursor[ticker] \in 0..LastDay
    BY <1>3, <1>0 DEF TakeChunk, HTypeOK, Fetched
  <2>2. /\ pending' = {<<cursor[ticker], ChunkEnd(cursor[ticker])>>}
        /\ answered' = answered /\ skipped' = skipped /\ ticker' = ticker
        /\ cursor'[ticker] = ChunkEnd(cursor[ticker]) + 1
        /\ \A t \in Tickers \ {ticker} : cursor'[t] = cursor[t]
    BY <1>3, <1>0, <2>1 DEF TakeChunk, HTypeOK
  <2>3. CoveredOnce(pending', answered'[ticker], skipped'[ticker], cursor'[ticker])
    BY <1>c, <2>1, <2>2, CoverTake
  <2>. QED BY <1>b, <2>1, <2>2, <2>3
<1>4. ASSUME NEW t \in Tickers, NextTicker(t) PROVE EachDayOnce'
  <2>1. pending = {} /\ pending' = {} /\ answered' = answered /\ skipped' = skipped
        /\ cursor' = cursor
    BY <1>4, <1>0 DEF NextTicker, Orderly
  <2>. QED BY <1>0, <2>1 DEF EachDayOnce, Pending
<1>5. ASSUME NEW w \in pending, Answered(w) PROVE EachDayOnce'
  <2>1. ticker \in Tickers /\ ticker' = ticker
    BY <1>5, <1>0 DEF Answered, Orderly
  <2>2. /\ pending' = pending \ {w} /\ skipped' = skipped /\ cursor' = cursor
        /\ answered'[ticker] = answered[ticker] \cup {w}
        /\ \A t \in Tickers \ {ticker} : answered'[t] = answered[t]
    BY <1>5, <1>0, <2>1 DEF Answered, HTypeOK
  <2>3. CoveredOnce(pending', answered'[ticker], skipped'[ticker], cursor'[ticker])
    <3>1. CoveredOnce(pending \ {w}, answered[ticker] \cup {w}, skipped[ticker], cursor[ticker])
      BY <1>c, <2>1, CoverMove
    <3>. QED BY <2>2, <3>1
  <2>. QED BY <1>b, <2>1, <2>2, <2>3
<1>6. ASSUME NEW w \in pending, RefusedLong(w) PROVE EachDayOnce'
  <2>1. ticker \in Tickers /\ ticker' = ticker
    BY <1>6, <1>0 DEF RefusedLong, Orderly
  <2>2. /\ pending' = (pending \ {w}) \cup Halves(w) /\ ~Short(w)
        /\ skipped' = skipped /\ cursor' = cursor /\ answered' = answered
    BY <1>6 DEF RefusedLong
  <2>3. CoveredOnce(pending', answered'[ticker], skipped'[ticker], cursor'[ticker])
    BY <1>c, <2>1, <2>2, CoverSplit
  <2>. QED BY <1>b, <2>1, <2>2, <2>3
<1>7. ASSUME NEW w \in pending, RefusedShort(w) PROVE EachDayOnce'
  <2>1. CASE lenient
    <3>1. ticker \in Tickers /\ ticker' = ticker
      BY <1>7, <1>0, <2>1 DEF RefusedShort, Orderly
    <3>2. /\ pending' = pending \ {w} /\ answered' = answered /\ cursor' = cursor
          /\ skipped'[ticker] = skipped[ticker] \cup {w}
          /\ \A t \in Tickers \ {ticker} : skipped'[t] = skipped[t]
      BY <1>7, <1>0, <2>1, <3>1 DEF RefusedShort, HTypeOK
    <3>3. CoveredOnce(pending', answered'[ticker], skipped'[ticker], cursor'[ticker])
      <4>1. CoveredOnce(pending \ {w}, answered[ticker], skipped[ticker] \cup {w}, cursor[ticker])
        BY <1>c, <3>1, CoverMove
      <4>. QED BY <3>2, <4>1
    <3>. QED BY <1>b, <3>1, <3>2, <3>3
  <2>2. CASE ~lenient
    BY <1>7, <2>2, <1>a DEF RefusedShort, Abort
  <2>. QED BY <2>1, <2>2
<1>8. ASSUME NEW w \in pending, Garbled(w) PROVE EachDayOnce'
  BY <1>8, <1>a DEF Garbled, Abort
<1>. QED BY <1>1, <1>2, <1>3, <1>4, <1>5, <1>6, <1>7, <1>8 DEF HNext
-----------------------------------------------------------------------------
LEMMA OrderlyStep == IndInv /\ [HNext]_hvars => Orderly'
<1>. SUFFICES ASSUME IndInv, [HNext]_hvars PROVE Orderly'
  OBVIOUS
<1>. USE HistoryAssumption DEF options, asked, Orderly
<1>0. HTypeOK /\ Orderly
  BY DEF IndInv
<1>1. CASE Token \/ TokenFails \/ WholeFails \/ Enrich \/ UNCHANGED hvars
  BY <1>0, <1>1 DEF Token, TokenFails, WholeFails, Enrich, Abort, hvars
<1>2. CASE FetchWhole
  BY <1>0, <1>2 DEF FetchWhole, HTypeOK
<1>3. CASE TakeChunk
  BY <1>0, <1>3 DEF TakeChunk, HTypeOK
<1>4. ASSUME NEW t \in Tickers, NextTicker(t) PROVE Orderly'
  BY <1>0, <1>4 DEF NextTicker
<1>5. ASSUME NEW w \in pending, Answered(w) \/ RefusedLong(w) \/ RefusedShort(w) \/ Garbled(w)
      PROVE  Orderly'
  <2>1. provider # "pykrx" /\ provider' = provider /\ ticker \in Tickers /\ ticker' = ticker
    BY <1>0, <1>5 DEF Answered, RefusedLong, RefusedShort, Garbled, Abort
  <2>. QED BY <2>1
<1>. QED BY <1>1, <1>2, <1>3, <1>4, <1>5 DEF HNext

\* Answered windows and histories only grow together.
LEMMA ExplainedStep == IndInv /\ [HNext]_hvars => Explained'
<1>. SUFFICES ASSUME IndInv, [HNext]_hvars PROVE Explained'
  OBVIOUS
<1>. USE DEF options, asked
<1>0. HTypeOK /\ Orderly /\ Explained
  BY DEF IndInv
<1>a. ASSUME UNCHANGED <<provider, lenient, market, answered, skipped, history>>,
             hstep' # "written"
      PROVE  Explained'
  BY <1>0, <1>a DEF Explained, CutOff, RowsAfter, Known
<1>b. hstep = "fetch" /\ hstep' = hstep => hstep' # "written"
  OBVIOUS
<1>1. CASE Token \/ TokenFails \/ WholeFails
  BY <1>1, <1>a DEF Token, TokenFails, WholeFails, Abort
<1>2. CASE UNCHANGED hvars
  BY <1>0, <1>2 DEF Explained, CutOff, RowsAfter, Known, hvars, Fresh, Fetched
<1>3. CASE Enrich
  BY <1>0, <1>3 DEF Enrich, Enriched, Explained, CutOff, RowsAfter, Known, Fresh, Fetched
<1>4. CASE TakeChunk
  BY <1>4, <1>a, <1>b DEF TakeChunk
<1>5. ASSUME NEW t \in Tickers, NextTicker(t) PROVE Explained'
  BY <1>5, <1>a, <1>b DEF NextTicker
<1>6. ASSUME NEW w \in pending, RefusedLong(w) PROVE Explained'
  BY <1>6, <1>a, <1>b DEF RefusedLong, Foremost
<1>7. ASSUME NEW w \in pending, RefusedShort(w) PROVE Explained'
  <2>1. CASE lenient
    BY <1>0, <1>7, <2>1 DEF RefusedShort, Foremost, Explained, CutOff, RowsAfter, Known
  <2>2. CASE ~lenient
    BY <1>7, <2>2, <1>a DEF RefusedShort, Abort
  <2>. QED BY <2>1, <2>2
<1>8. ASSUME NEW w \in pending, Garbled(w) PROVE Explained'
  BY <1>8, <1>a DEF Garbled, Abort
\* What remains lets one ticker answer one window more.
<1>c. ASSUME NEW w \in Windows, ticker \in Tickers, hstep' # "written",
             lenient' = lenient, provider' = provider, market' = market, skipped' = skipped,
             \A t \in Tickers \ {ticker} : answered'[t] = answered[t] /\ history'[t] = history[t],
             answered'[ticker] \subseteq answered[ticker] \cup {w},
             \A d \in history[ticker] \cap market[ticker] : d \in history'[ticker],
             \A d \in market[ticker] : In(d, w) => d \in history'[ticker] \/ CutOff(ticker, w, d)
      PROVE  Explained'
  <2>1. ASSUME NEW t \in Tickers, NEW v \in answered'[t], NEW d \in market[t], In(d, v)
        PROVE  d \in history'[t] \/ CutOff(t, v, d)
    <3>1. CASE t # ticker
      BY <1>0, <1>c, <2>1, <3>1 DEF Explained
    <3>2. CASE t = ticker /\ v = w
      BY <1>c, <2>1, <3>2
    <3>3. CASE t = ticker /\ v \in answered[t]
      BY <1>0, <1>c, <2>1, <3>3 DEF Explained
    <3>. QED BY <1>c, <3>1, <3>2, <3>3
  <2>2. \A t, v, d : CutOff(t, v, d)' = CutOff(t, v, d)
    BY <1>c DEF CutOff, RowsAfter, Known
  <2>. QED BY <1>0, <1>c, <2>1, <2>2 DEF Explained
<1>9. ASSUME NEW w \in pending, Answered(w) PROVE Explained'
  <2>1. ticker \in Tickers /\ w \in Windows /\ market[ticker] \subseteq Days
    BY <1>9, <1>0 DEF Orderly, HTypeOK
  <2>2. /\ answered'[ticker] = answered[ticker] \cup {w}
        /\ history'[ticker] = history[ticker] \cup Replied(ticker, w)
        /\ \A t \in Tickers \ {ticker} : answered'[t] = answered[t] /\ history'[t] = history[t]
        /\ lenient' = lenient /\ provider' = provider /\ market' = market /\ skipped' = skipped
        /\ hstep' = "fetch" /\ provider = "kis"
    BY <1>9, <1>0, <2>1 DEF Answered, Foremost, Merged, HTypeOK, Orderly
  <2>3. \A d \in market[ticker] : In(d, w) => d \in history'[ticker] \/ CutOff(ticker, w, d)
    BY <2>1, <2>2, LeftOut DEF CutOff
  <2>4. \A d \in history[ticker] \cap market[ticker] : d \in history'[ticker]
    BY <2>2
  <2>5. answered'[ticker] \subseteq answered[ticker] \cup {w} /\ hstep' # "written"
    BY <2>2
  <2>. QED BY <1>c, <2>1, <2>2, <2>3, <2>4, <2>5
<1>10. CASE FetchWhole
  <2>1. ticker \in Tickers /\ <<0, LastDay>> \in Windows
    BY <1>10, <1>0, HistoryAssumption DEF FetchWhole, HTypeOK, Windows, Days
  <2>2. /\ answered'[ticker] \subseteq answered[ticker] \cup {<<0, LastDay>>}
        /\ history'[ticker] = market[ticker]
        /\ \A t \in Tickers \ {ticker} : answered'[t] = answered[t] /\ history'[t] = history[t]
        /\ lenient' = lenient /\ provider' = provider /\ market' = market /\ skipped' = skipped
        /\ hstep' = "fetch"
    BY <1>10, <1>0, <2>1 DEF FetchWhole, HTypeOK
  <2>3. hstep' # "written"
    BY <2>2
  <2>4. \A d \in history[ticker] \cap market[ticker] : d \in history'[ticker]
    BY <2>2
  <2>5. \A d \in market[ticker] : In(d, <<0, LastDay>>) =>
          d \in history'[ticker] \/ CutOff(ticker, <<0, LastDay>>, d)
    BY <2>2
  <2>. QED BY <1>c, <2>1, <2>2, <2>3, <2>4, <2>5
<1>. QED BY <1>1, <1>2, <1>3, <1>4, <1>5, <1>6, <1>7, <1>8, <1>9, <1>10 DEF HNext
-----------------------------------------------------------------------------
\* The invariant in one step of the specification.
LEMMA NextInv == IndInv /\ [HNext]_hvars => IndInv'
BY TypeStep, CoverStep, OrderlyStep, ExplainedStep DEF IndInv

(* Every variable has values of its kind.                                  *)
THEOREM HistoryTyped == HSpec => []HTypeOK
<1>1. IndInv => HTypeOK
  BY DEF IndInv
<1>. QED BY <1>1, InitInv, NextInv, PTL DEF HSpec

(* However windows are refused and halved, every day before the cursor of  *)
(* its ticker is in exactly one window that is pending, answered or given  *)
(* up (_date_chunks, _fetch_daily_chart_resilient).                        *)
THEOREM CoverTheorem == HSpec => []EachDayOnce
<1>1. IndInv => EachDayOnce
  BY DEF IndInv
<1>. QED BY <1>1, InitInv, NextInv, PTL DEF HSpec

(* A volume missing from the fixture that is written is one nobody has,    *)
(* one of a window given up with a warning, or one with as many later rows *)
(* in its window as a reply of kis holds (_fetch_ticker_history,           *)
(* enrich_fixture), for any windows, markets and refusals.                 *)
THEOREM MissingTheorem == HSpec => []MissingIsAccountedFor
<1>1. IndInv => MissingIsAccountedFor
  <2>. SUFFICES ASSUME IndInv, hstep = "written", NEW d \in Dates, NEW t \in Tickers,
                       <<d, t>> \notin out.fresh, d \in market[t],
                       ~ (lenient /\ \E w \in skipped[t] : In(d, w))
                PROVE  \E w \in answered[t] : In(d, w) /\ CutOff(t, w, d)
    BY DEF MissingIsAccountedFor, CutOff
  <2>1. d \in Days /\ pending = {} /\ out.fresh = Fresh /\ cursor[t] = LastDay + 1
        /\ LastDay \in Nat
    BY HistoryAssumption DEF IndInv, Explained, Fetched
  <2>2. d \notin history[t]
    BY <2>1 DEF Fresh
  <2>3. Pending(t) = {} /\ d < cursor[t]
    BY <2>1 DEF Pending, Days
  <2>4. PICK w \in answered[t] \cup skipped[t] : In(d, w)
    BY <2>1, <2>3 DEF IndInv, EachDayOnce, CoveredOnce
  <2>5. w \in answered[t]
    BY <2>4 DEF IndInv, Explained
  <2>. QED BY <2>2, <2>4, <2>5 DEF IndInv, Explained
<1>. QED BY <1>1, InitInv, NextInv, PTL DEF HSpec

(***************************************************************************)
(* JudgeApi                                                                *)
(***************************************************************************)
\* A record is whole from the end of its writing on, which only a run that was
\* lost or that answered has left; 200 is answered from there.
RecordInv ==
  /\ phase \in [Runs -> {"idle", "sent", "open", "committee", "record", "writing",
                        "recorded", "answered", "lost"}]
  /\ status \in [Runs -> {0, 200, 400, 500}]
  /\ runFile \in [Runs -> {"none", "torn", "whole"}]
  /\ \A r \in Runs :
       /\ phase[r] = "recorded" => runFile[r] = "whole"
       /\ status[r] = 200 => runFile[r] = "whole" /\ phase[r] = "answered"
       /\ runFile[r] = "whole" => status[r] = 200 \/ phase[r] \in {"recorded", "lost"}

LEMMA RunStepKeepsRecords ==
  ASSUME RecordInv, NEW r \in Runs, RunStep(r)
  PROVE  RecordInv'
<1>. USE DEF RecordInv, Goes, Status, Answers
<1>1. CASE Invalid(r) BY <1>1 DEF Invalid
<1>2. CASE Valid(r) BY <1>2 DEF Valid
<1>3. CASE OpenFails(r) BY <1>3 DEF OpenFails
<1>4. CASE Open(r) BY <1>4 DEF Open
<1>5. CASE CommitteeFails(r) BY <1>5 DEF CommitteeFails
<1>6. CASE Decides(r) BY <1>6 DEF Decides
<1>7. CASE RecordFails(r)
  <2>1. runFile[r] # "whole" \/ phase[r] = "record"
    BY <1>7 DEF RecordFails
  <2>2. CASE phase[r] = "record" BY <2>2, <1>7 DEF RecordFails
  <2>3. CASE phase[r] = "writing" BY <2>3, <1>7 DEF RecordFails
  <2>. QED BY <2>2, <2>3, <1>7 DEF RecordFails
<1>8. CASE Record(r) BY <1>8 DEF Record
<1>9. CASE Recorded(r) BY <1>9 DEF Recorded
<1>10. CASE Reply(r) BY <1>10 DEF Reply
<1>. QED
  BY <1>1, <1>2, <1>3, <1>4, <1>5, <1>6, <1>7, <1>8, <1>9, <1>10 DEF RunStep

\* AnswerMatchesRecord: whoever is given a decision finds its record whole, and
\* a whole record is of an answered run, of one about to answer, or of one that
\* a death cut short (create_judge_run, save_run).
THEOREM RecordTheorem == ASpec => []AnswerMatchesRecord
<1>1. AInit => RecordInv
  BY DEF AInit, RecordInv
<1>2. RecordInv /\ [ANext]_avars => RecordInv'
  <2>. SUFFICES ASSUME RecordInv, [ANext]_avars PROVE RecordInv'
    OBVIOUS
  <2>1. CASE \E r \in Runs : RunStep(r)
    BY <2>1, RunStepKeepsRecords
  <2>2. CASE UNCHANGED runState
    BY <2>2 DEF RecordInv, runState
  <2>3. CASE Dies
    BY <2>3 DEF RecordInv, Dies
  <2>. QED BY <2>1, <2>2, <2>3 DEF ANext, avars, runState
<1>3. RecordInv => AnswerMatchesRecord
  BY DEF RecordInv, AnswerMatchesRecord
<1>. QED BY <1>1, <1>2, <1>3, PTL DEF ASpec

(***************************************************************************)
(* IssueState                                                              *)
(***************************************************************************)
Asked(i) == [issue |-> i, how |-> "asked"]
Suppressed(i) == [issue |-> i, how |-> "suppressed"]
SuppressedIn(s, i, m) == {k \in m..Len(s) : s[k] = Suppressed(i)}
Reports == [issue : Issues, how : {"asked", "suppressed"}]

\* As long as the count of an issue does not pass the cooldown, the user was
\* asked about it, and it was suppressed since less often than it was counted.
CountInv ==
  /\ told \in Seq(Reports) /\ count \in [Issues -> Nat]
  /\ \A i \in Issues : count[i] \in 1..(Cooldown + 1) =>
       \E m \in 1..Len(told) :
         /\ told[m] = Asked(i)
         /\ Cardinality(SuppressedIn(told, i, m)) <= count[i] - 1
  /\ SuppressedAfterAsked

LEMMA BeforeTyped ==
  ASSUME CountInv
  PROVE  Before \in [Issues -> Nat] /\ \A i \in Issues : Before[i] # 0 => Before = count
BY DEF CountInv, Before, NotSeen

\* What one more report adds to the suppressions since m.
LEMMA OneMore ==
  ASSUME NEW s \in Seq(Reports), NEW e \in Reports, NEW i \in Issues, NEW m \in 1..Len(s)
  PROVE  LET after == Cardinality(SuppressedIn(Append(s, e), i, m))
             earlier == Cardinality(SuppressedIn(s, i, m))
         IN  /\ IsFiniteSet(SuppressedIn(s, i, m)) /\ earlier \in Nat
             /\ after = IF e = Suppressed(i) THEN earlier + 1 ELSE earlier
<1>1. Len(s) \in Nat /\ m \in Int
  BY LenProperties
<1>2. IsFiniteSet(m..Len(s))
  BY <1>1, FS_Interval
<1>3. IsFiniteSet(SuppressedIn(s, i, m))
  <2>1. SuppressedIn(s, i, m) \in SUBSET (m..Len(s))
    BY DEF SuppressedIn
  <2>. QED BY <2>1, <1>2, FS_Subset, Zenon
<1>4. Cardinality(SuppressedIn(s, i, m)) \in Nat
  BY <1>3, FS_CardinalityType
<1>5. Len(s) + 1 \notin SuppressedIn(s, i, m)
  BY <1>1 DEF SuppressedIn
<1>6. SuppressedIn(Append(s, e), i, m)
        = IF e = Suppressed(i) THEN SuppressedIn(s, i, m) \cup {Len(s) + 1} ELSE SuppressedIn(s, i, m)
  <2>1. /\ Len(Append(s, e)) = Len(s) + 1
        /\ \A k \in 1..Len(s) : Append(s, e)[k] = s[k]
        /\ Append(s, e)[Len(s) + 1] = e
    BY AppendProperties
  <2>2. m..(Len(s) + 1) = (m..Len(s)) \cup {Len(s) + 1} /\ m..Len(s) \subseteq 1..Len(s)
    BY <1>1
  <2>. HIDE DEF Suppressed
  <2>. QED BY <2>1, <2>2, <1>1 DEF SuppressedIn
<1>7. Cardinality(SuppressedIn(s, i, m) \cup {Len(s) + 1}) = Cardinality(SuppressedIn(s, i, m)) + 1
  BY <1>3, <1>5, FS_AddElement
<1>. QED BY <1>3, <1>4, <1>6, <1>7, Zenon

LEMMA ObserveKeepsCounts ==
  ASSUME CountInv, NEW i \in Issues, Observe(i)
  PROVE  CountInv'
<1>. DEFINE n == Before[i] + 1
            how == Transition(n)
            e == [issue |-> i, how |-> how]
<1>1. /\ Before \in [Issues -> Nat] /\ Cooldown \in Nat \ {0} /\ n \in Nat \ {0}
      /\ \A j \in Issues : Before[j] # 0 => Before = count
  BY BeforeTyped, IssueAssumption
<1>2. /\ told \in Seq(Reports) /\ count' = [Before EXCEPT ![i] = n]
      /\ told' = Append(told, e)
  BY DEF CountInv, Observe
<1>. HIDE DEF n
<1>3. \/ how = "asked" /\ (n = 1 \/ n > Cooldown + 1)
      \/ how = "suppressed" /\ n # 1 /\ n <= Cooldown + 1
  BY <1>1 DEF Transition
<1>4. e \in Reports /\ \A j \in Issues : e = Suppressed(j) <=> j = i /\ how = "suppressed"
  BY <1>3 DEF Reports, Suppressed
<1>. HIDE DEF how
<1>5. /\ told' \in Seq(Reports) /\ Len(told') = Len(told) + 1 /\ Len(told) \in Nat
      /\ \A k \in 1..Len(told) : told'[k] = told[k]
      /\ told'[Len(told) + 1] = e
  BY <1>2, <1>4, AppendProperties, LenProperties
<1>6. count' \in [Issues -> Nat] /\ count'[i] = n /\ \A j \in Issues \ {i} : count'[j] = Before[j]
  BY <1>1, <1>2
<1>7. ASSUME NEW j \in Issues, NEW m \in 1..Len(told)
      PROVE  /\ Cardinality(SuppressedIn(told, j, m)) \in Nat
             /\ Cardinality(SuppressedIn(told', j, m))
                  = IF j = i /\ how = "suppressed" THEN Cardinality(SuppressedIn(told, j, m)) + 1
                    ELSE Cardinality(SuppressedIn(told, j, m))
  <2>1. /\ Cardinality(SuppressedIn(told, j, m)) \in Nat
        /\ Cardinality(SuppressedIn(Append(told, e), j, m))
             = IF e = Suppressed(j) THEN Cardinality(SuppressedIn(told, j, m)) + 1
               ELSE Cardinality(SuppressedIn(told, j, m))
    BY <1>2, <1>4, OneMore
  <2>. QED BY <2>1, <1>2, <1>4
\* The question since which an issue that goes on was suppressed.
<1>8. ASSUME NEW j \in Issues, Before[j] \in 1..(Cooldown + 1)
      PROVE  \E m \in 1..Len(told) :
               told[m] = Asked(j) /\ Cardinality(SuppressedIn(told, j, m)) <= Before[j] - 1
  BY <1>1, <1>8 DEF CountInv
<1>9. ASSUME NEW j \in Issues, count'[j] \in 1..(Cooldown + 1)
      PROVE  \E m \in 1..Len(told') :
               told'[m] = Asked(j) /\ Cardinality(SuppressedIn(told', j, m)) <= count'[j] - 1
  <2>1. CASE j # i
    <3>1. PICK m \in 1..Len(told) :
            told[m] = Asked(j) /\ Cardinality(SuppressedIn(told, j, m)) <= Before[j] - 1
      BY <2>1, <1>6, <1>8, <1>9
    <3>2. Cardinality(SuppressedIn(told', j, m)) = Cardinality(SuppressedIn(told, j, m))
      BY <1>7, <2>1
    <3>. QED BY <2>1, <3>1, <3>2, <1>5, <1>6
  <2>2. CASE j = i /\ how = "suppressed"
    <3>1. Before[j] \in 1..(Cooldown + 1) /\ Before[j] = n - 1
      BY <2>2, <1>1, <1>3 DEF n
    <3>2. PICK m \in 1..Len(told) :
            told[m] = Asked(j) /\ Cardinality(SuppressedIn(told, j, m)) <= Before[j] - 1
      BY <3>1, <1>8
    <3>3. /\ Cardinality(SuppressedIn(told, j, m)) \in Nat
          /\ Cardinality(SuppressedIn(told', j, m)) = Cardinality(SuppressedIn(told, j, m)) + 1
      BY <1>7, <2>2
    <3>. QED BY <2>2, <3>1, <3>2, <3>3, <1>1, <1>5, <1>6
  <2>3. CASE j = i /\ how = "asked"
    <3>1. told'[Len(told')] = Asked(j) /\ Len(told') \in 1..Len(told')
      BY <2>3, <1>5 DEF Asked
    <3>2. SuppressedIn(told', j, Len(told')) = {}
      <4>1. Asked(j) # Suppressed(j)
        BY DEF Asked, Suppressed
      <4>2. \A k \in Len(told')..Len(told') : k = Len(told')
        BY <1>5
      <4>. QED BY <3>1, <4>1, <4>2 DEF SuppressedIn
    <3>3. Cardinality(SuppressedIn(told', j, Len(told'))) = 0
      BY <3>2, FS_EmptySet, Zenon
    <3>4. count'[j] - 1 >= 0
      BY <1>9
    <3>. QED BY <3>1, <3>3, <3>4
  <2>. QED BY <2>1, <2>2, <2>3, <1>3
<1>10. SuppressedAfterAsked'
  <2>. SUFFICES ASSUME NEW k \in 1..Len(told'), told'[k].how = "suppressed"
                PROVE  \E m \in 1..(k - 1) :
                         /\ told'[m] = [issue |-> told'[k].issue, how |-> "asked"]
                         /\ Cardinality({l \in m..k : told'[l] = told'[k]}) <= Cooldown
    BY <1>5, LenProperties DEF SuppressedAfterAsked
  <2>1. CASE k \in 1..Len(told)
    <3>1. k \in DOMAIN told /\ told[k].how = "suppressed"
      BY <2>1, <1>2, <1>5, LenProperties
    <3>2. PICK m \in 1..(k - 1) :
            /\ told[m] = [issue |-> told[k].issue, how |-> "asked"]
            /\ Cardinality({l \in m..k : told[l] = told[k]}) <= Cooldown
      BY <3>1 DEF CountInv, SuppressedAfterAsked
    <3>3. m \in 1..Len(told) /\ m..k \subseteq 1..Len(told)
      BY <2>1, <1>5
    <3>4. told'[k] = told[k] /\ told'[m] = told[m] /\ \A l \in m..k : told'[l] = told[l]
      BY <2>1, <3>3, <1>5
    <3>5. {l \in m..k : told'[l] = told'[k]} = {l \in m..k : told[l] = told[k]}
      BY <3>4
    <3>. QED BY <3>2, <3>4, <3>5, Zenon
  <2>2. CASE k = Len(told')
    <3>1. how = "suppressed" /\ told'[k] = Suppressed(i)
      BY <2>2, <1>3, <1>5 DEF Suppressed
    <3>2. Before[i] \in 1..(Cooldown + 1) /\ Before[i] = n - 1 /\ n <= Cooldown + 1
      BY <3>1, <1>1, <1>3 DEF n
    <3>3. PICK m \in 1..Len(told) :
            told[m] = Asked(i) /\ Cardinality(SuppressedIn(told, i, m)) <= Before[i] - 1
      BY <3>2, <1>8
    <3>4. /\ Cardinality(SuppressedIn(told, i, m)) \in Nat
          /\ Cardinality(SuppressedIn(told', i, m)) = Cardinality(SuppressedIn(told, i, m)) + 1
      BY <1>7, <3>1
    <3>5. SuppressedIn(told', i, m) = {l \in m..k : told'[l] = told'[k]}
      BY <2>2, <3>1 DEF SuppressedIn
    <3>6. /\ m \in 1..(k - 1)
          /\ told'[m] = [issue |-> told'[k].issue, how |-> "asked"]
      BY <2>2, <3>1, <3>3, <1>5 DEF Asked, Suppressed
    <3>7. Cardinality({l \in m..k : told'[l] = told'[k]}) <= Cooldown
      BY <3>2, <3>3, <3>4, <3>5, <1>1
    <3>. QED BY <3>6, <3>7
  <2>3. k \in 1..Len(told) \/ k = Len(told')
    BY <1>5
  <2>. QED BY <2>1, <2>2, <2>3
<1>. QED BY <1>5, <1>6, <1>9, <1>10 DEF CountInv

\* SuppressedAfterAsked: an issue is suppressed only after the user was asked
\* about it, and at most as often as the cooldown says before the user is asked
\* again, for any sequence of runs and restarts (IssueStateManager.observe).
THEOREM SuppressionTheorem == ISpec => []SuppressedAfterAsked
<1>1. IInit => CountInv
  BY DEF IInit, CountInv, NotSeen, SuppressedAfterAsked
<1>2. CountInv /\ [INext]_ivars => CountInv'
  <2>. SUFFICES ASSUME CountInv, [INext]_ivars PROVE CountInv'
    OBVIOUS
  <2>1. CASE \E i \in Issues : Observe(i)
    BY <2>1, ObserveKeepsCounts
  <2>2. CASE Restart
    <3>1. told' = told /\ count' = [i \in Issues |-> 0]
      BY <2>2 DEF Restart, NotSeen
    <3>2. count' \in [Issues -> Nat] /\ \A i \in Issues : count'[i] \notin 1..(Cooldown + 1)
      BY <3>1, IssueAssumption
    <3>3. SuppressedAfterAsked'
      BY <3>1 DEF CountInv, SuppressedAfterAsked
    <3>. QED BY <3>1, <3>2, <3>3 DEF CountInv
  <2>3. CASE UNCHANGED ivars
    BY <2>3 DEF ivars, CountInv, SuppressedIn, SuppressedAfterAsked
  <2>. QED BY <2>1, <2>2, <2>3 DEF INext
<1>3. CountInv => SuppressedAfterAsked
  BY DEF CountInv
<1>. QED BY <1>1, <1>2, <1>3, PTL DEF ISpec

(***************************************************************************)
(* KisClient                                                               *)
(***************************************************************************)
IsPrefixOf(s, t) == Len(s) <= Len(t) /\ \A k \in 1..Len(s) : s[k] = t[k]
Trades == command \in {"buy", "reserve"}

\* Until the run ends it knows every order the broker has taken.
OrderInv ==
  /\ orders \in Seq(Orders) /\ placed \in Seq(Orders) /\ book \in Seq(Orders)
  /\ IsPrefixOf(book, orders) /\ IsPrefixOf(placed, book)
  /\ ~Trades => orders = <<>>
  /\ kstep # "ended" => report = "none" /\ Len(placed) = Len(book)
  /\ kstep = "token" /\ Trades => Len(placed) < Len(orders)
  /\ kstep \in {"hash", "post"} => Len(placed) < Len(orders)
  /\ kstep \in {"query", "page"} => ~Trades
  /\ Len(book) <= Len(placed) + 1
  /\ Len(book) = Len(placed) + 1 => report \in {"error", "crash"}
  /\ report = "ok" => Len(placed) = Len(orders)

LEMMA PrefixIsSubSeq ==
  ASSUME NEW S, NEW s \in Seq(S), NEW t \in Seq(S), IsPrefixOf(s, t)
  PROVE  s = SubSeq(t, 1, Len(s))
<1>1. Len(s) \in Nat /\ Len(t) \in Nat /\ \A k \in 1..Len(s) : t[k] \in S
  BY LenProperties, ElementOfSeq DEF IsPrefixOf
<1>2. /\ SubSeq(t, 1, Len(s)) \in Seq(S)
      /\ Len(SubSeq(t, 1, Len(s))) = IF 1 <= Len(s) THEN Len(s) - 1 + 1 ELSE 0
      /\ \A k \in 1..(Len(s) - 1 + 1) : SubSeq(t, 1, Len(s))[k] = t[1 + k - 1]
  BY <1>1, SubSeqProperties
<1>3. Len(s) = Len(SubSeq(t, 1, Len(s))) /\ \A k \in 1..Len(s) : s[k] = SubSeq(t, 1, Len(s))[k]
  BY <1>1, <1>2 DEF IsPrefixOf
<1>. QED BY <1>2, <1>3, SeqEqual

\* The order whose turn it is goes on with what was placed and taken.
LEMMA TurnExtends ==
  ASSUME OrderInv, Len(placed) = Len(book), Len(placed) < Len(orders)
  PROVE  /\ Append(book, Turn) \in Seq(Orders) /\ Append(placed, Turn) \in Seq(Orders)
         /\ Len(Append(book, Turn)) = Len(book) + 1
         /\ Len(Append(placed, Turn)) = Len(placed) + 1
         /\ IsPrefixOf(Append(book, Turn), orders) /\ IsPrefixOf(placed, Append(book, Turn))
         /\ IsPrefixOf(Append(placed, Turn), Append(book, Turn))
<1>1. Turn \in Orders /\ Turn = orders[Len(book) + 1]
  BY LenProperties, ElementOfSeq DEF OrderInv, Turn
<1>2. /\ Append(book, Turn) \in Seq(Orders) /\ Len(Append(book, Turn)) = Len(book) + 1
      /\ \A k \in 1..Len(book) : Append(book, Turn)[k] = book[k]
      /\ Append(book, Turn)[Len(book) + 1] = Turn
  BY <1>1, AppendProperties DEF OrderInv
<1>3. /\ Append(placed, Turn) \in Seq(Orders) /\ Len(Append(placed, Turn)) = Len(placed) + 1
      /\ \A k \in 1..Len(placed) : Append(placed, Turn)[k] = placed[k]
      /\ Append(placed, Turn)[Len(placed) + 1] = Turn
  BY <1>1, AppendProperties DEF OrderInv
<1>4. Len(book) \in Nat /\ Len(placed) \in Nat /\ Len(orders) \in Nat
  BY LenProperties DEF OrderInv
<1>5. /\ \A k \in 1..Len(book) : book[k] = orders[k]
      /\ \A k \in 1..Len(placed) : placed[k] = book[k]
  BY DEF OrderInv, IsPrefixOf
<1>. HIDE DEF Turn
<1>6. IsPrefixOf(Append(book, Turn), orders)
  BY <1>1, <1>2, <1>4, <1>5 DEF IsPrefixOf
<1>7. IsPrefixOf(placed, Append(book, Turn))
  BY <1>2, <1>4, <1>5 DEF IsPrefixOf
<1>8. IsPrefixOf(Append(placed, Turn), Append(book, Turn))
  BY <1>2, <1>3, <1>4, <1>5 DEF IsPrefixOf
<1>. QED BY <1>2, <1>3, <1>6, <1>7, <1>8

LEMMA KStepKeepsOrders ==
  ASSUME OrderInv, KNext
  PROVE  OrderInv'
<1>. USE DEF OrderInv, Trades, Step, Ends, End, IsPrefixOf
<1>0. /\ Len(book) \in Nat /\ Len(placed) \in Nat /\ Len(orders) \in Nat
      /\ orders = <<>> => Len(orders) = 0
  BY LenProperties
<1>1. CASE Configure BY <1>0, <1>1 DEF Configure
<1>2. CASE Validate BY <1>0, <1>2 DEF Validate
<1>3. CASE Token2 BY <1>0, <1>3 DEF Token2, AfterToken
<1>4. CASE Hash BY <1>0, <1>4 DEF Hash
<1>5. CASE Unanswered BY <1>0, <1>5 DEF Unanswered
<1>6. CASE Post
  <2>1. Len(placed) = Len(book) /\ Len(placed) < Len(orders)
    BY <1>6 DEF Post
  <2>2. /\ book' = Append(book, Turn) /\ placed' = Append(placed, Turn) /\ orders' = orders
        /\ kstep' = "order" /\ report' = report /\ command' = command /\ report = "none"
    BY <1>6 DEF Post, Taken, Placed
  <2>. HIDE DEF Turn, IsPrefixOf
  <2>3. /\ book' \in Seq(Orders) /\ placed' \in Seq(Orders)
        /\ Len(book') = Len(book) + 1 /\ Len(placed') = Len(placed) + 1
        /\ IsPrefixOf(book', orders) /\ IsPrefixOf(placed', book')
    BY <2>1, <2>2, TurnExtends
  <2>. QED BY <2>1, <2>2, <2>3, <1>0
<1>7. CASE \E how \in {"error", "crash"} : PostFails(how)
  <2>1. Len(placed) = Len(book) /\ Len(placed) < Len(orders) /\ report = "none"
    BY <1>7 DEF PostFails
  <2>2. /\ book' \in {book, Append(book, Turn)} /\ placed' = placed /\ orders' = orders
        /\ kstep' = "ended" /\ report' \in {"error", "crash"} /\ command' = command
    BY <1>7 DEF PostFails, Taken
  <2>. HIDE DEF Turn, IsPrefixOf
  <2>3. CASE book' = book BY <2>1, <2>2, <2>3, <1>0
  <2>4. CASE book' = Append(book, Turn)
    <3>1. /\ book' \in Seq(Orders) /\ Len(book') = Len(book) + 1
          /\ IsPrefixOf(book', orders) /\ IsPrefixOf(placed, book')
      BY <2>1, <2>4, TurnExtends
    <3>. QED BY <2>1, <2>2, <3>1, <1>0
  <2>. QED BY <2>2, <2>3, <2>4
<1>8. CASE AllPlaced BY <1>0, <1>8 DEF AllPlaced
<1>9. CASE Query BY <1>0, <1>9 DEF Query
<1>10. CASE Page BY <1>0, <1>10 DEF Page
<1>11. CASE \E h \in Holdings : Fill(h) BY <1>0, <1>11 DEF Fill
<1>. QED
  BY <1>1, <1>2, <1>3, <1>4, <1>5, <1>6, <1>7, <1>8, <1>9, <1>10, <1>11 DEF KNext

\* OrdersAccountedFor: wherever a run of orders stops, the broker has taken the
\* first of its list, each once, and at most the last of them is one the run
\* was not told of (place_cash_order, place_reservation_order, main).
THEOREM OrderTheorem == KSpec => []OrdersAccountedFor
<1>1. KInit => OrderInv
  <2>. SUFFICES ASSUME KInit PROVE OrderInv
    OBVIOUS
  <2>1. orders \in Seq(Orders)
    <3>1. PICK l \in OrderLists, fixture \in BOOLEAN :
            orders = IF command \in {"buy", "reserve"}
                     THEN IF fixture THEN l \o Fixture ELSE l ELSE <<>>
      BY DEF KInit
    <3>2. l \in Seq(Orders) /\ Fixture \in Seq(Orders \ Malformed)
      BY KisAssumption
    <3>3. Fixture \in Seq(Orders)
      BY <3>2, SeqMonotonic
    <3>. QED BY <3>1, <3>2, <3>3, ConcatProperties, EmptySeq
  <2>2. placed = <<>> /\ book = <<>> /\ report = "none" /\ kstep = "config"
    BY DEF KInit, KUntouched
  <2>3. Trades \/ orders = <<>>
    BY DEF KInit, Trades
  <2>4. placed \in Seq(Orders) /\ book \in Seq(Orders) /\ Len(placed) = 0 /\ Len(book) = 0
    BY <2>2, EmptySeq
  <2>5. Len(orders) \in Nat
    BY <2>1, LenProperties
  <2>. QED BY <2>1, <2>2, <2>3, <2>4, <2>5 DEF OrderInv, IsPrefixOf
<1>2. OrderInv /\ [KNext]_kvars => OrderInv'
  <2>. SUFFICES ASSUME OrderInv, [KNext]_kvars PROVE OrderInv'
    OBVIOUS
  <2>1. CASE KNext
    BY <2>1, KStepKeepsOrders
  <2>2. CASE UNCHANGED kvars
    BY <2>2 DEF kvars, paging, OrderInv, IsPrefixOf, Trades
  <2>. QED BY <2>1, <2>2
<1>3. OrderInv => OrdersAccountedFor
  <2>. SUFFICES ASSUME OrderInv PROVE OrdersAccountedFor
    OBVIOUS
  <2>1. /\ Len(book) \in Nat /\ Len(placed) \in Nat /\ Len(orders) \in Nat
    BY LenProperties DEF OrderInv
  <2>2. book = SubSeq(orders, 1, Len(book)) /\ placed = SubSeq(book, 1, Len(placed))
    BY PrefixIsSubSeq DEF OrderInv
  <2>3. ASSUME report = "ok" PROVE placed = orders /\ book = orders
    <3>1. Len(placed) = Len(orders) /\ Len(book) = Len(orders)
      BY <2>1, <2>3 DEF OrderInv, IsPrefixOf
    <3>2. \A k \in 1..Len(orders) : placed[k] = orders[k] /\ book[k] = orders[k]
      BY <3>1 DEF OrderInv, IsPrefixOf
    <3>3. book = orders
      BY <3>1, <3>2, SeqEqual DEF OrderInv
    <3>4. placed = orders
      BY <3>1, <3>2, SeqEqual DEF OrderInv
    <3>. QED BY <3>3, <3>4
  <2>. QED BY <2>1, <2>2, <2>3 DEF OrderInv, OrdersAccountedFor, IsPrefixOf
<1>. QED BY <1>1, <1>2, <1>3, PTL DEF KSpec

(****************************************************************************)
(* JudgeApi: the verdict of an evaluation                                   *)
(****************************************************************************)

\* An evaluation that was answered with a verdict has that of its outcome.
VerdictInv ==
  /\ outcome \in [Evaluations -> Outcomes]
  /\ answer \in [Evaluations -> [verdict : {NoAnswer.verdict} \cup {Verdict(o) : o \in Outcomes},
                                 reflection : {"none", "some", "failed"}]]
  /\ \A e \in Evaluations : answer[e] # NoAnswer => answer[e].verdict = Verdict(outcome[e])

LEMMA EvaluationKeepsVerdicts ==
  ASSUME VerdictInv, NEW e \in Evaluations, EvaluationStep(e)
  PROVE  VerdictInv'
<1> USE DEF VerdictInv
<1>1. CASE InvalidEvaluation(e) \/ Resolve(e) \/ OpenShared(e)
  BY <1>1 DEF InvalidEvaluation, Resolve, OpenShared
<1>2. CASE Evaluate(e)
  <2>1. PICK reflection \in {"none", "some", "failed"} :
          answer' = [answer EXCEPT ![e] = [verdict |-> Verdict(outcome[e]),
                                           reflection |-> reflection]]
    BY <1>2 DEF Evaluate
  <2>2. outcome' = outcome /\ outcome[e] \in Outcomes
    BY <1>2 DEF Evaluate
  <2> DEFINE told_ == [verdict |-> Verdict(outcome[e]), reflection |-> reflection]
  <2>3. told_ \in [verdict : {NoAnswer.verdict} \cup {Verdict(o) : o \in Outcomes},
                   reflection : {"none", "some", "failed"}]
        /\ told_.verdict = Verdict(outcome[e])
    BY <2>2
  <2> HIDE DEF told_
  <2>4. answer' = [answer EXCEPT ![e] = told_]
    BY <2>1 DEF told_
  <2> QED BY <2>2, <2>3, <2>4
<1> QED BY <1>1, <1>2 DEF EvaluationStep

\* Turned round, a return that is not zero is right where it was wrong.
LEMMA VerdictMirrored ==
  ASSUME NEW o \in Outcomes, NEW m \in Outcomes, m = [o EXCEPT !.return = -@],
         o.score # 0, o.return # 0
  PROVE  Verdict(m) = Opposite(Verdict(o))
<1>1. /\ o.score \in Int /\ o.return \in Int /\ m.score = o.score /\ m.return = -o.return
      /\ m.decision = o.decision /\ m.planned = o.planned /\ m.rejected = o.rejected
  BY ApiAssumption
<1>2. Right(m) <=> ~Right(o)
  BY <1>1 DEF Right
<1>3. Moved(m.return) = Moved(o.return)
  BY <1>1 DEF Moved
<1>4. Actionable(m) <=> Actionable(o)
  BY <1>1 DEF Actionable
<1> QED BY <1>1, <1>2, <1>3, <1>4 DEF Verdict, Opposite

\* MirroredVerdict: had the price moved the other way, what an evaluation says of
\* a recommendation, or of the user who rejected it, would be the opposite
\* (create_evaluation, evaluate_decision), for any outcomes and however the
\* requests overlap and the process dies.
THEOREM VerdictsAreMirrored == ASpec => []MirroredVerdict
<1>1. AInit => VerdictInv
  BY DEF AInit, VerdictInv, NoAnswer
<1>2. VerdictInv /\ [ANext]_avars => VerdictInv'
  <2> SUFFICES ASSUME VerdictInv, [ANext]_avars PROVE VerdictInv'
    OBVIOUS
  <2>1. CASE \E e \in Evaluations : EvaluationStep(e)
    BY <2>1, EvaluationKeepsVerdicts
  <2>2. CASE UNCHANGED <<outcome, answer>>
    BY <2>2 DEF VerdictInv
  <2> QED BY <2>1, <2>2 DEF ANext, Dies, avars, evalState
<1>3. VerdictInv => MirroredVerdict
  <2> SUFFICES ASSUME VerdictInv, NEW d \in Evaluations, NEW e \in Evaluations,
                      answer[d] # NoAnswer, answer[e] # NoAnswer,
                      outcome[e] = [outcome[d] EXCEPT !.return = -@],
                      outcome[d].score # 0, outcome[d].return # 0
               PROVE  answer[e].verdict = Opposite(answer[d].verdict)
    BY DEF MirroredVerdict
  <2>1. outcome[d] \in Outcomes /\ outcome[e] \in Outcomes
    BY DEF VerdictInv
  <2>2. answer[d].verdict = Verdict(outcome[d]) /\ answer[e].verdict = Verdict(outcome[e])
    BY DEF VerdictInv
  <2> QED BY <2>1, <2>2, VerdictMirrored
<1> QED BY <1>1, <1>2, <1>3, PTL DEF ASpec

(****************************************************************************)
(* DomainAgents                                                             *)
(****************************************************************************)

\* What a call has come to follows from what the agent measured.
JudgedInv ==
  /\ \/ agent = "risk" /\ context \in RiskContexts
     \/ agent = "tax" /\ context \in TaxContexts
     \/ agent = "execution" /\ context \in ExecutionContexts
     \/ agent = "esg" /\ context \in EsgContexts
     \/ agent = "liquidity" /\ context \in LiquidityContexts
     \/ agent = "technical" /\ context \in TechnicalContexts
     \/ agent \in {"macro", "sentiment"}
  /\ dstep \in {"judged", "voted"} =>
       /\ agent = "tax" =>
            verdict = [vote |-> TaxVote(context), direction |-> TaxDirection(context),
                       focus |-> TaxFocus(context)]
       /\ agent \in {"risk", "execution", "esg", "liquidity", "technical"} =>
            verdict.vote = VoteOf(agent, context)
  /\ dstep = "voted" =>
       votes = [subject : Subjects, direction : {Side(verdict.direction)},
                informational : {Informs}]

LEMMA JudgedInit == DInit => JudgedInv
BY DEF DInit, JudgedInv

LEMMA JudgedNext == JudgedInv /\ [DNext]_dvars => JudgedInv'
<1> SUFFICES ASSUME JudgedInv, [DNext]_dvars
             PROVE  JudgedInv'
  OBVIOUS
<1>1. CASE Answer \/ ModelFails \/ Analyse \/ ScoreIsNull
  BY <1>1 DEF Answer, ModelFails, Analyse, ScoreIsNull, JudgedInv
<1>2. CASE Judge
  <2>1. UNCHANGED <<agent, context>> /\ dstep' = "judged"
    BY <1>2 DEF Judge
  <2>2. CASE JudgeTax
    BY <2>1, <2>2 DEF JudgeTax, JudgedInv
  <2>3. CASE agent = "sentiment"
    BY <2>1, <2>3 DEF JudgedInv
  <2>4. CASE agent \notin {"tax", "sentiment"} /\ Plain(VoteOf(agent, context))
    <3>1. verdict'.vote = VoteOf(agent, context)
      BY <2>4 DEF Plain
    <3> QED BY <2>1, <2>4, <3>1 DEF JudgedInv
  <2> QED BY <1>2, <2>2, <2>3, <2>4 DEF Judge
<1>3. CASE Vote
  BY <1>3 DEF Vote, JudgedInv, Subjects, Informs
<1>4. CASE UNCHANGED dvars
  BY <1>4 DEF dvars, JudgedInv, Subjects, Informs
<1> QED BY <1>1, <1>2, <1>3, <1>4 DEF DNext

LEMMA JudgementsHold == DSpec => []JudgedInv
BY JudgedInit, JudgedNext, PTL DEF DSpec

\* A signal that names lots names one where there is one to name.
LEMMA FirstIsShown ==
  ASSUME NEW S \in SUBSET Lots
  PROVE  FirstOf(S) \subseteq S /\ (S # {} => FirstOf(S) # {})
<1>1. FirstOf(S) \subseteq S
  BY DEF FirstOf
<1>2. ASSUME S # {}
      PROVE  FirstOf(S) # {}
  <2>1. S \subseteq Nat /\ Shown \in Nat \ {0}
    BY DomainAssumption
  <2>2. PICK x \in S : \A y \in S : x <= y
    BY <1>2, <2>1, LeastNumber
  <2>3. {y \in S : y < x} = {}
    <3>1. \A y \in S : ~(y < x)
      BY <2>1, <2>2
    <3> QED BY <3>1
  <2>4. Cardinality({y \in S : y < x}) = 0
    BY <2>3, FS_EmptySet
  <2> QED BY <2>1, <2>2, <2>4 DEF FirstOf
<1> QED BY <1>1, <1>2

\* TaxCountsForLossSalesOnly: whatever a tax signal says, the committee counts
\* it only where losses are sold, only towards selling, and for nothing but
\* losses and what the draft sells at a gain (tax.py, _response_to_votes,
\* _is_informational).
THEOREM TaxVotesAreForLosses == DSpec => []TaxCountsForLossSalesOnly
<1>1. JudgedInv => TaxCountsForLossSalesOnly
  <2> DEFINE counted == {v \in votes : ~v.informational}
             covered == {v.subject : v \in counted}
  <2> SUFFICES ASSUME JudgedInv, dstep = "voted", agent = "tax"
               PROVE  /\ counted # {} => SoldLosers(context) # {}
                      /\ SoldLosers(context) # {} /\ "tax" \notin InfoAgents =>
                           FirstOf(SoldLosers(context)) \subseteq covered
                      /\ \A v \in counted : v.direction = "DECREASE"
                      /\ covered \subseteq Losers(context) \cup SoldGainers(context)
    BY DEF TaxCountsForLossSalesOnly
  <2>1. /\ verdict.direction = TaxDirection(context) /\ verdict.focus = TaxFocus(context)
        /\ votes = [subject : Subjects, direction : {Side(verdict.direction)},
                    informational : {Informs}]
    BY DEF JudgedInv
  <2>2. Losers(context) \in SUBSET Lots /\ SoldLosers(context) \in SUBSET Lots
        /\ SoldGainers(context) \in SUBSET Lots
        /\ SoldLosers(context) \subseteq Losers(context)
    BY DEF Losers, SoldLosers, SoldGainers
  <2>3. CASE SoldLosers(context) = {}
    <3>1. verdict.direction \in {35, 0}
      BY <2>1, <2>3 DEF TaxDirection
    <3>2. Informs
      BY <3>1 DEF Informs, Magnitude
    <3>3. counted = {}
      BY <2>1, <3>2
    <3> QED BY <2>3, <3>3
  <2>4. CASE SoldLosers(context) # {}
    <3>1. verdict.direction = -55 /\ Side(verdict.direction) = "DECREASE"
      BY <2>1, <2>4 DEF TaxDirection, Side
    <3>2. Informs <=> "tax" \in InfoAgents
      BY <3>1 DEF Informs, Magnitude
    <3>3. FirstOf(SoldLosers(context)) # {} /\ verdict.focus # {}
      BY <2>1, <2>2, <2>4, FirstIsShown DEF TaxFocus
    <3>4. Subjects = TaxFocus(context)
      BY <2>1, <3>3 DEF Subjects
    <3>5. TaxFocus(context) \subseteq Losers(context) \cup SoldGainers(context)
          /\ FirstOf(SoldLosers(context)) \subseteq TaxFocus(context)
      BY <2>2, FirstIsShown DEF TaxFocus
    <3>6. covered \subseteq Subjects /\ \A v \in counted : v.direction = "DECREASE"
      BY <2>1, <3>1
    <3>7. ASSUME "tax" \notin InfoAgents
          PROVE  Subjects \subseteq covered
      <4> SUFFICES ASSUME NEW x \in Subjects
                   PROVE  x \in covered
        OBVIOUS
      <4> DEFINE v == [subject |-> x, direction |-> "DECREASE", informational |-> FALSE]
      <4>1. Side(verdict.direction) = "DECREASE" /\ Informs = FALSE
        <5>1. Informs \in BOOLEAN
          BY DEF Informs
        <5> QED BY <3>1, <3>2, <3>7, <5>1
      <4>2. v \in votes
        BY <2>1, <4>1, Zenon
      <4>3. v \in counted /\ v.subject = x
        BY <4>2
      <4> QED BY <4>3
    <3> QED BY <2>4, <3>4, <3>5, <3>6, <3>7
  <2> QED BY <2>3, <2>4
<1> QED BY <1>1, JudgementsHold, PTL

----------------------------------------------------------------------------
LEMMA WorseForRisk ==
  ASSUME NEW c \in RiskContexts, NEW d \in RiskContexts, WorseRisk(c, d)
  PROVE  Rank(RiskVote(d)) <= Rank(RiskVote(c))
<1>1. c.tail \in Int \cup {Unseen} /\ d.tail \in Int \cup {Unseen}
  BY DomainAssumption
<1>2. DeltaTooLarge(c) => DeltaTooLarge(d)
  BY DEF DeltaTooLarge, WorseRisk
<1>3. TailTooLarge(c) => TailTooLarge(d)
  BY <1>1 DEF TailTooLarge, WorseRisk, Magnitude
<1>4. c.held = d.held /\ (c.deltas = {} <=> d.deltas = {})
  BY DEF WorseRisk
<1>5. DeltaTooLarge(d) => d.deltas # {}
  BY DEF DeltaTooLarge
<1> QED BY <1>2, <1>3, <1>4, <1>5 DEF RiskVote, Rank

LEMMA WorseForExecution ==
  ASSUME NEW c \in ExecutionContexts, NEW d \in ExecutionContexts, WorseExecution(c, d)
  PROVE  Rank(ExecutionVote(d)) <= Rank(ExecutionVote(c))
<1>1. /\ c.order \in [Lots -> Nat] /\ d.order \in [Lots -> Nat] /\ c.priced \subseteq d.priced
      /\ d.priced \subseteq Lots /\ IsFiniteSet(d.priced) /\ IsFiniteSet(c.priced)
      /\ IsFiniteSet(d.priced \ c.priced)
  BY DomainAssumption, FS_Subset DEF WorseExecution
<1>2. SumFunctionOnSet(c.order, c.priced) <= SumFunctionOnSet(d.order, c.priced)
  BY <1>1, SumIsMonotonic DEF WorseExecution
<1>3. SumFunctionOnSet(d.order, d.priced) =
        SumFunctionOnSet(d.order, c.priced) + SumFunctionOnSet(d.order, d.priced \ c.priced)
  BY <1>1, SumOfParts
<1>4. /\ SumFunctionOnSet(d.order, d.priced \ c.priced) \in Nat
      /\ SumFunctionOnSet(d.order, c.priced) \in Nat /\ SumFunctionOnSet(c.order, c.priced) \in Nat
  BY <1>1, SumIsNatural
<1>5. Impact(c) <= Impact(d) /\ Impact(c) \in Nat /\ Impact(d) \in Nat
  BY <1>2, <1>3, <1>4 DEF Impact
<1>6. Ordered(c) = Ordered(d)
  BY DEF WorseExecution
<1> QED BY <1>5, <1>6 DEF ExecutionVote, Rank

LEMMA WorseForEsg ==
  ASSUME NEW c \in EsgContexts, NEW d \in EsgContexts, WorseEsg(c, d)
  PROVE  Rank(EsgVote(d)) <= Rank(EsgVote(c))
<1> DEFINE f == [x \in Lots |-> c.weight[x] * ScoreOf(c, x)]
           g == [x \in Lots |-> d.weight[x] * ScoreOf(d, x)]
<1>1. /\ c.weight \in [Lots -> 0..100] /\ c.target \in 0..100
      /\ d.weight \in [Lots -> 0..100] /\ d.target \in 0..100
      /\ IsFiniteSet(Lots)
  BY DomainAssumption
<1>s. \A x \in Lots : ScoreOf(c, x) \in 0..100 /\ ScoreOf(d, x) \in 0..100
  BY DomainAssumption DEF ScoreOf
<1>2. \A x \in Lots : f[x] \in Int /\ g[x] \in Int /\ g[x] <= f[x]
  <2> SUFFICES ASSUME NEW x \in Lots
               PROVE  f[x] \in Int /\ g[x] \in Int /\ g[x] <= f[x]
    OBVIOUS
  <2> DEFINE w == c.weight[x]  m == ScoreOf(c, x)  n == ScoreOf(d, x)
  <2>1. w \in Nat /\ m \in Int /\ n \in Int /\ n <= m /\ d.weight[x] = w
    BY <1>1, <1>s DEF WorseEsg
  <2>2. f[x] = w * m /\ g[x] = w * n
    BY <2>1
  <2> HIDE DEF w, m, n, f, g
  <2>3. n * w \in Int /\ m * w \in Int /\ n * w <= m * w
    BY <2>1, ProductIsMonotonic
  <2>4. w * m = m * w /\ w * n = n * w
    BY <2>1
  <2> QED BY <2>2, <2>3, <2>4
<1>3. DOMAIN f = Lots /\ DOMAIN g = Lots
  OBVIOUS
<1>4. EsgScore(c) = SumFunctionOnSet(f, Lots) /\ EsgScore(d) = SumFunctionOnSet(g, Lots)
  BY <1>3 DEF EsgScore, SumFunction
<1> HIDE DEF f, g
<1>5. EsgScore(d) <= EsgScore(c) /\ EsgScore(d) \in Int /\ EsgScore(c) \in Int
  BY <1>1, <1>2, <1>4, SumIsMonotonic, SumIsInteger
<1>6. ASSUME BelowTarget(c)
      PROVE  BelowTarget(d)
  <2>1. PICK x \in Lots : ScoreOf(c, x) < c.target /\ c.target > 40
    BY <1>6 DEF BelowTarget
  <2>2. /\ ScoreOf(d, x) <= ScoreOf(c, x) /\ c.target <= d.target
        /\ ScoreOf(c, x) \in Int /\ ScoreOf(d, x) \in Int /\ c.target \in Int /\ d.target \in Int
    BY <1>1, <1>s DEF WorseEsg
  <2>3. ScoreOf(d, x) < d.target /\ d.target > 40
    BY <2>1, <2>2
  <2> QED BY <2>3 DEF BelowTarget
<1>7. /\ EsgScore(c) < 4000 => EsgScore(d) < 4000
      /\ EsgScore(c) < 100 * c.target => EsgScore(d) < 100 * d.target
  BY <1>1, <1>5 DEF WorseEsg
<1>8. c.excluded => d.excluded
  BY DEF WorseEsg
<1> QED BY <1>6, <1>7, <1>8 DEF EsgVote, Rank

LEMMA WorseForLiquidity ==
  ASSUME NEW c \in LiquidityContexts, NEW d \in LiquidityContexts, WorseLiquidity(c, d)
  PROVE  Rank(LiquidityVote(d)) <= Rank(LiquidityVote(c))
<1>1. /\ c.usage \in [Lots -> Nat \cup {Unseen}] /\ c.spread \in [Lots -> Nat \cup {Unseen}]
      /\ c.float \in [Lots -> Nat \cup {Unseen}] /\ d.usage \in [Lots -> Nat \cup {Unseen}]
      /\ d.spread \in [Lots -> Nat \cup {Unseen}] /\ d.float \in [Lots -> Nat \cup {Unseen}]
  BY DomainAssumption
<1>2. Illiquid(c) => Illiquid(d)
  BY <1>1 DEF Illiquid, WorseLiquidity, NoBetter, Measured, Given, Over, Under
<1>3. Observed(d) = Observed(c)
  BY <1>1 DEF Observed, WorseLiquidity, NoBetter, Measured, Given
<1> QED BY <1>2, <1>3 DEF LiquidityVote, Rank

LEMMA MomentumIsInteger ==
  ASSUME NEW c \in TechnicalContexts, NEW x \in Charted(c)
  PROVE  Momentum(c[x]) \in Int
<1>1. c[x] \in [kind : {"returns"}, return : Int]
                 \cup [kind : {"chart"}, ma20 : Int, ma60 : Int, rsi : Int, surge : BOOLEAN]
  BY DomainAssumption DEF Charted
<1>2. \A n \in Int, b \in Nat : Bounded(n, b) \in Int
  BY DEF Bounded
<1>3. CASE c[x] \in [kind : {"returns"}, return : Int]
  BY <1>2, <1>3 DEF Momentum
<1>4. CASE c[x] \in [kind : {"chart"}, ma20 : Int, ma60 : Int, rsi : Int, surge : BOOLEAN]
  <2>1. c[x].kind = "chart" /\ c[x].ma20 \in Int /\ c[x].ma60 \in Int /\ c[x].rsi \in Int
    BY <1>4
  <2>2. Bounded(c[x].ma20, 15) \in Int /\ Bounded(c[x].ma60, 15) \in Int
        /\ Bounded(c[x].rsi, 20) \in Int
    BY <1>2, <2>1
  <2> QED BY <2>1, <2>2 DEF Momentum
<1> QED BY <1>1, <1>3, <1>4

LEMMA WorseForTechnical ==
  ASSUME NEW c \in TechnicalContexts, NEW d \in TechnicalContexts, WorseTechnical(c, d)
  PROVE  Rank(TechnicalVote(d)) <= Rank(TechnicalVote(c))
<1> DEFINE S == Charted(c)
           f == [x \in Charted(c) |-> Momentum(c[x])]
           g == [x \in Charted(d) |-> Momentum(d[x])]
<1>1. Charted(d) = S /\ IsFiniteSet(S) /\ Cardinality(S) \in Nat
  BY DomainAssumption, FS_Subset, FS_CardinalityType DEF WorseTechnical, Charted
<1>2. \A x \in S : f[x] \in Int /\ g[x] \in Int /\ g[x] <= f[x]
  BY <1>1, MomentumIsInteger DEF WorseTechnical
<1>3. DOMAIN f = S /\ DOMAIN g = S
  BY <1>1
<1>4. Momenta(c) = SumFunctionOnSet(f, S) /\ Momenta(d) = SumFunctionOnSet(g, S)
  BY <1>1, <1>3 DEF Momenta, SumFunction
<1> HIDE DEF f, g, S
<1>5. Momenta(d) <= Momenta(c) /\ Momenta(c) \in Int /\ Momenta(d) \in Int
  BY <1>1, <1>2, <1>4, SumIsMonotonic, SumIsInteger
<1>6. Charted(c) = S
  BY DEF S
<1> QED BY <1>1, <1>5, <1>6 DEF TechnicalVote, Rank

\* WorseIsNeverBetter: when what a domain agent counts as measured gets worse,
\* its vote never moves towards approval (risk.py, execution_agent.py,
\* esg_agent.py, liquidity_agent.py, technical_agent.py), for any holdings and
\* any contexts, a score of zero read as the baseline of the sector and a spread
\* or a float of zero as missing.
THEOREM VotesAreMonotonic == DSpec => []WorseIsNeverBetter
<1>1. JudgedInv => WorseIsNeverBetter
  <2> SUFFICES ASSUME JudgedInv, dstep \in {"judged", "voted"}
               PROVE  WorseIsNeverBetter
    BY DEF WorseIsNeverBetter
  <2>1. CASE agent = "risk"
    <3>1. context \in RiskContexts /\ verdict.vote = RiskVote(context)
      BY <2>1 DEF JudgedInv, VoteOf
    <3> QED BY <2>1, <3>1, WorseForRisk DEF WorseIsNeverBetter
  <2>2. CASE agent = "execution"
    <3>1. context \in ExecutionContexts /\ verdict.vote = ExecutionVote(context)
      BY <2>2 DEF JudgedInv, VoteOf
    <3> QED BY <2>2, <3>1, WorseForExecution DEF WorseIsNeverBetter
  <2>3. CASE agent = "esg"
    <3>1. context \in EsgContexts /\ verdict.vote = EsgVote(context)
      BY <2>3 DEF JudgedInv, VoteOf
    <3> QED BY <2>3, <3>1, WorseForEsg DEF WorseIsNeverBetter
  <2>4. CASE agent = "liquidity"
    <3>1. context \in LiquidityContexts /\ verdict.vote = LiquidityVote(context)
      BY <2>4 DEF JudgedInv, VoteOf
    <3> QED BY <2>4, <3>1, WorseForLiquidity DEF WorseIsNeverBetter
  <2>5. CASE agent = "technical"
    <3>1. context \in TechnicalContexts /\ verdict.vote = TechnicalVote(context)
      BY <2>5 DEF JudgedInv, VoteOf
    <3> QED BY <2>5, <3>1, WorseForTechnical DEF WorseIsNeverBetter
  <2>6. CASE agent \notin {"risk", "execution", "esg", "liquidity", "technical"}
    BY <2>6 DEF WorseIsNeverBetter
  <2> QED BY <2>1, <2>2, <2>3, <2>4, <2>5, <2>6
<1> QED BY <1>1, JudgementsHold, PTL

(****************************************************************************)
(* KisClient: the account as it is read, page by page                       *)
(****************************************************************************)

PagesUpTo(n) == UNION {pages[i] : i \in 1..n}
\* What a holding amounts to, and the cash: as first read, or as it is where it
\* was not read yet.
AsShown == [h \in Holdings |-> IF h \in DOMAIN seen THEN seen[h] ELSE account.held[h]]
CashShown == IF summary.form = "none" THEN account.cash ELSE summary.cash
Gap == SumFunctionOnSet(AsShown, Holdings) + CashShown - Total

\* A fill moves a unit between cash and a holding, of which either may have been
\* read already, so each puts what is shown at most one off the value of the
\* account; a page changes nothing, for it reads things as they are.
BalanceInv ==
  /\ account \in [cash : Nat, held : [Holdings -> Nat], fills : Nat]
  /\ pages \in Pages /\ pageAt \in 0..Len(pages)
  /\ kstep # "ended" => report = "none" /\ pageAt < Len(pages)
  /\ kstep \in {"order", "hash", "post"} => command \in {"buy", "reserve"}
  /\ kstep = "query" => command = "list"
  /\ report = "ok" /\ command = "snapshot" =>
       pageAt > 0 /\ (pageAt = Len(pages) \/ pageAt = MaxPages)
  /\ seen \in [PagesUpTo(pageAt) -> Nat] /\ PagesUpTo(pageAt) \subseteq Holdings
  /\ again \in Nat /\ summary.cash \in Nat /\ summary.stocks \in Nat
  /\ summary.form = "none" => summary = NotGiven
  /\ summary.total \in {0, Total}
  /\ summary.stocks = 0 \/ summary.stocks + summary.cash = Total
  /\ -account.fills <= Gap /\ Gap <= account.fills

\* A page is one of the account, and the next one adds its holdings.
LEMMA PagesGrow ==
  ASSUME BalanceInv, pageAt < Len(pages)
  PROVE  /\ pages[pageAt + 1] \subseteq Holdings
         /\ PagesUpTo(pageAt + 1) = PagesUpTo(pageAt) \cup pages[pageAt + 1]
<1>1. pages \in Seq(SUBSET Holdings) /\ Len(pages) \in Nat /\ pageAt \in Nat
  BY KisAssumption DEF BalanceInv
<1>2. pages[pageAt + 1] \in SUBSET Holdings
  BY <1>1
<1>3. 1..(pageAt + 1) = (1..pageAt) \cup {pageAt + 1}
  BY <1>1
<1>4. PagesUpTo(pageAt + 1) = PagesUpTo(pageAt) \cup pages[pageAt + 1]
  <2>1. \A x : (\E i \in 1..(pageAt + 1) : x \in pages[i]) <=>
               (\E i \in 1..pageAt : x \in pages[i]) \/ x \in pages[pageAt + 1]
    BY <1>3
  <2> QED BY <2>1 DEF PagesUpTo
<1> QED BY <1>2, <1>4

\* What is shown is a natural number for every holding.
LEMMA ShownIsNatural ==
  ASSUME BalanceInv
  PROVE  /\ IsFiniteSet(Holdings)
         /\ \A x \in Holdings : AsShown[x] \in Nat /\ account.held[x] \in Nat
         /\ SumFunctionOnSet(AsShown, Holdings) \in Nat
         /\ Total = account.cash + SumFunctionOnSet(account.held, Holdings) /\ Total \in Nat
<1>1. IsFiniteSet(Holdings) /\ account.held \in [Holdings -> Nat] /\ account.cash \in Nat
  BY KisAssumption DEF BalanceInv
<1>2. \A x \in Holdings : AsShown[x] \in Nat /\ account.held[x] \in Nat
  BY <1>1 DEF AsShown, BalanceInv
<1>3. /\ SumFunctionOnSet(AsShown, Holdings) \in Nat
      /\ SumFunctionOnSet(account.held, Holdings) \in Nat
  BY <1>1, <1>2, SumIsNatural
<1>4. Total = account.cash + SumFunctionOnSet(account.held, Holdings)
  BY <1>1 DEF Total, SumFunction
<1> QED BY <1>1, <1>2, <1>3, <1>4

\* A fill moves what the account holds and leaves its value.
LEMMA FillKeepsTotal ==
  ASSUME BalanceInv, NEW h \in Holdings, NEW n \in {-1, 1}, account.cash >= n,
         account.held[h] >= -n,
         account' = [cash |-> account.cash - n,
                     held |-> [account.held EXCEPT ![h] = @ + n],
                     fills |-> account.fills + 1]
  PROVE  /\ account' \in [cash : Nat, held : [Holdings -> Nat], fills : Nat]
         /\ Total' = Total
<1> DEFINE f == account.held
           g == account'.held
<1>1. /\ account.cash \in Nat /\ f \in [Holdings -> Nat] /\ account.fills \in Nat
      /\ IsFiniteSet(Holdings)
  BY KisAssumption DEF BalanceInv
<1>2. /\ account'.cash = account.cash - n /\ account.cash - n \in Nat
      /\ g = [f EXCEPT ![h] = @ + n] /\ f[h] + n \in Nat
      /\ account'.fills = account.fills + 1
  BY <1>1
<1>3. g \in [Holdings -> Nat] /\ g[h] = f[h] + n /\ \A x \in Holdings \ {h} : g[x] = f[x]
  BY <1>1, <1>2
<1>4. \A x \in Holdings : f[x] \in Int /\ g[x] \in Int
  BY <1>1, <1>3
<1>5. DOMAIN f = Holdings /\ DOMAIN g = Holdings
  BY <1>1, <1>3
<1>6. account' \in [cash : Nat, held : [Holdings -> Nat], fills : Nat]
  BY <1>1, <1>2, <1>3
<1> HIDE DEF f, g
<1>7. /\ SumFunctionOnSet(f, Holdings) \in Int
      /\ SumFunctionOnSet(g, Holdings) = SumFunctionOnSet(f, Holdings) + g[h] - f[h]
  BY <1>1, <1>3, <1>4, SumWithOneChange
<1>8. SumFunctionOnSet(g, Holdings) = SumFunctionOnSet(f, Holdings) + n
  BY <1>3, <1>4, <1>7
<1>9. /\ Total = account.cash + SumFunctionOnSet(f, Holdings)
      /\ Total' = account'.cash + SumFunctionOnSet(g, Holdings)
  BY <1>5 DEF Total, SumFunction, f, g
<1> QED BY <1>1, <1>2, <1>6, <1>7, <1>8, <1>9

LEMMA FillKeepsBalance ==
  ASSUME BalanceInv, NEW h \in Holdings, Fill(h)
  PROVE  BalanceInv'
<1>1. PICK n \in {-1, 1} :
        /\ account.cash >= n /\ account.held[h] >= -n
        /\ account' = [cash |-> account.cash - n,
                       held |-> [account.held EXCEPT ![h] = @ + n],
                       fills |-> account.fills + 1]
  BY DEF Fill
<1>2. UNCHANGED <<command, kstep, report, pages, pageAt, seen, again, summary>>
  BY DEF Fill, paging
<1>3. /\ account' \in [cash : Nat, held : [Holdings -> Nat], fills : Nat] /\ Total' = Total
      /\ account'.cash = account.cash - n /\ account'.fills = account.fills + 1
      /\ account'.held = [account.held EXCEPT ![h] = @ + n]
  BY <1>1, FillKeepsTotal
<1>4. /\ account.cash \in Nat /\ account.fills \in Nat /\ account.held \in [Holdings -> Nat]
      /\ summary.cash \in Nat /\ -account.fills <= Gap /\ Gap <= account.fills
  BY DEF BalanceInv
<1>5. IsFiniteSet(Holdings) /\ Total \in Nat /\ SumFunctionOnSet(AsShown, Holdings) \in Nat
      /\ \A x \in Holdings : AsShown[x] \in Nat
  BY ShownIsNatural
<1>6. \A x \in Holdings : AsShown'[x] = IF x \in DOMAIN seen \/ x # h THEN AsShown[x] ELSE AsShown[x] + n
  BY <1>2, <1>3, <1>4 DEF AsShown
<1>7. \E m \in {0, n} : SumFunctionOnSet(AsShown', Holdings) = SumFunctionOnSet(AsShown, Holdings) + m
  <2> DEFINE m == IF h \in DOMAIN seen THEN 0 ELSE n
  <2>1. /\ \A x \in Holdings : AsShown[x] \in Int /\ AsShown'[x] \in Int
        /\ \A x \in Holdings \ {h} : AsShown'[x] = AsShown[x]
        /\ AsShown'[h] = AsShown[h] + m
    BY <1>5, <1>6
  <2>2. SumFunctionOnSet(AsShown', Holdings) =
          SumFunctionOnSet(AsShown, Holdings) + AsShown'[h] - AsShown[h]
    BY <1>5, <2>1, SumWithOneChange
  <2>3. SumFunctionOnSet(AsShown', Holdings) = SumFunctionOnSet(AsShown, Holdings) + m
    BY <1>5, <2>1, <2>2
  <2> QED BY <2>3
<1>8. \E k \in {0, n} : CashShown' = CashShown - k
  BY <1>2, <1>3, <1>4 DEF CashShown
<1>9. -account'.fills <= Gap' /\ Gap' <= account'.fills
  <2>1. PICK m \in {0, n}, k \in {0, n} :
          /\ SumFunctionOnSet(AsShown', Holdings) = SumFunctionOnSet(AsShown, Holdings) + m
          /\ CashShown' = CashShown - k
    BY <1>7, <1>8
  <2>2. CashShown \in Nat
    BY <1>4 DEF CashShown
  <2>3. Gap' = Gap + m - k /\ Gap \in Int
    BY <1>3, <1>5, <2>1, <2>2 DEF Gap
  <2> HIDE DEF Gap
  <2>4. m - k \in -1..1
    BY <2>1
  <2> QED BY <1>3, <1>4, <2>3, <2>4
<1>10. PagesUpTo(pageAt)' = PagesUpTo(pageAt)
  BY <1>2 DEF PagesUpTo
<1> HIDE DEF Gap
<1> QED BY <1>2, <1>3, <1>9, <1>10 DEF BalanceInv

LEMMA PageKeepsBalance ==
  ASSUME BalanceInv, Page
  PROVE  BalanceInv'
<1>1. /\ kstep = "page" /\ pageAt' = pageAt + 1 /\ UNCHANGED <<command, account, pages>>
      /\ seen' = [x \in DOMAIN seen \cup Rows |->
                    IF x \in DOMAIN seen THEN seen[x] ELSE account.held[x]]
      /\ again' = again + SumFunctionOnSet(account.held, Rows \cap DOMAIN seen)
      /\ report = "none" /\ pageAt < Len(pages)
  BY DEF Page, BalanceInv
<1>2. /\ account.cash \in Nat /\ account.fills \in Nat /\ account.held \in [Holdings -> Nat]
      /\ pageAt \in Nat /\ Len(pages) \in Nat /\ pages \in Pages
      /\ DOMAIN seen = PagesUpTo(pageAt) /\ PagesUpTo(pageAt) \subseteq Holdings
      /\ \A x \in DOMAIN seen : seen[x] \in Nat
      /\ again \in Nat /\ -account.fills <= Gap /\ Gap <= account.fills
  BY KisAssumption DEF BalanceInv
<1>3. Rows \subseteq Holdings /\ PagesUpTo(pageAt + 1) = PagesUpTo(pageAt) \cup Rows
  BY <1>1, PagesGrow DEF Rows
<1>4. PagesUpTo(pageAt)' = PagesUpTo(pageAt + 1)
  BY <1>1 DEF PagesUpTo
<1> HIDE DEF Rows
<1>5. seen' \in [PagesUpTo(pageAt + 1) -> Nat]
  BY <1>1, <1>2, <1>3
<1>6. IsFiniteSet(Holdings) /\ Total \in Nat
      /\ Total = account.cash + SumFunctionOnSet(account.held, Holdings)
      /\ \A x \in Holdings : account.held[x] \in Nat
  BY ShownIsNatural
<1>7. again' \in Nat
  <2>1. IsFiniteSet(Rows \cap DOMAIN seen)
    BY <1>3, <1>6, FS_Subset
  <2>2. SumFunctionOnSet(account.held, Rows \cap DOMAIN seen) \in Nat
    BY <1>3, <1>6, <2>1, SumIsNatural
  <2> QED BY <1>1, <1>2, <2>2
<1>8. AsShown' = AsShown
  BY <1>1, <1>2, <1>3 DEF AsShown
<1>9. Total' = Total /\ Output2("none") = NotGiven
  BY <1>1 DEF Total, Output2, NotGiven
<1>10. PICK form \in Forms : summary' = Summary(form)
  BY DEF Page
<1>11. SumFunction(account.held) = SumFunctionOnSet(account.held, Holdings)
       /\ SumFunctionOnSet(account.held, Holdings) \in Nat
  BY <1>2, <1>6, SumIsNatural DEF SumFunction
<1>12. /\ summary'.cash \in Nat /\ summary'.stocks \in Nat
       /\ summary'.form = "none" => summary' = NotGiven
       /\ summary'.total \in {0, Total}
       /\ summary'.stocks = 0 \/ summary'.stocks + summary'.cash = Total
  <2>1. CASE summary.form = "none"
    <3>1. summary' = Output2(form)
      BY <1>10, <2>1 DEF Summary
    <3>2. /\ summary'.form = form
          /\ summary'.total = IF form = "total" THEN Total ELSE 0
          /\ summary'.stocks = IF form = "stocks" THEN SumFunction(account.held) ELSE 0
          /\ summary'.cash = IF form = "none" THEN 0 ELSE account.cash
      BY <3>1 DEF Output2
    <3>3. form = "none" => summary' = NotGiven
      BY <1>9, <3>1
    <3> HIDE DEF Total
    <3> QED BY <1>2, <1>6, <1>11, <3>2, <3>3
  <2>2. CASE summary.form # "none"
    <3>1. summary' = summary
      BY <1>10, <2>2 DEF Summary
    <3> QED BY <3>1, <2>2 DEF BalanceInv
  <2> QED BY <2>1, <2>2
<1>13. CashShown' = CashShown
  <2>1. CASE summary.form = "none"
    BY <1>1, <1>10, <2>1 DEF Summary, Output2, CashShown
  <2>2. CASE summary.form # "none"
    BY <1>1, <1>10, <2>2 DEF Summary, CashShown
  <2> QED BY <2>1, <2>2
<1>14. Gap' = Gap
  BY <1>8, <1>9, <1>13 DEF Gap
<1>15. \/ kstep' = "page" /\ report' = "none" /\ pageAt + 1 < Len(pages)
       \/ kstep' = "ended" /\ (pageAt + 1 = Len(pages) \/ pageAt + 1 = MaxPages)
  BY <1>1, <1>2 DEF Page, More, Stops, End
<1> HIDE DEF Gap, Total, CashShown
<1> QED BY <1>1, <1>2, <1>3, <1>4, <1>5, <1>7, <1>9, <1>12, <1>14, <1>15 DEF BalanceInv

LEMMA BalanceInit == KInit => BalanceInv
<1> SUFFICES ASSUME KInit
             PROVE  BalanceInv
  OBVIOUS
<1>1. /\ account = [cash |-> Cash, held |-> [h \in Holdings |-> 1], fills |-> 0]
      /\ pages \in Pages /\ pageAt = 0 /\ seen = <<>> /\ again = 0 /\ summary = NotGiven
      /\ report = "none" /\ kstep = "config"
  BY DEF KInit, KUntouched, Start
<1>2. pages \in Seq(SUBSET Holdings) /\ Len(pages) \in Nat /\ Cash \in Nat /\ IsFiniteSet(Holdings)
  BY <1>1, KisAssumption
<1>3. Len(pages) > 0 /\ PagesUpTo(0) = {}
  BY <1>1, <1>2, KisAssumption DEF PagesUpTo
<1>4. seen \in [{} -> Nat] /\ DOMAIN seen = {}
  BY <1>1
<1>5. AsShown = account.held /\ CashShown = account.cash
  BY <1>1, <1>4 DEF AsShown, CashShown, NotGiven
<1>6. /\ Total = account.cash + SumFunctionOnSet(account.held, Holdings)
      /\ account.cash \in Nat /\ SumFunctionOnSet(account.held, Holdings) \in Nat
  <2>1. DOMAIN account.held = Holdings /\ \A h \in Holdings : account.held[h] \in Nat
    BY <1>1
  <2> QED BY <1>1, <1>2, <2>1, SumIsNatural DEF Total, SumFunction
<1>7. Gap = 0
  BY <1>5, <1>6 DEF Gap
<1> HIDE DEF Gap, Total
<1> QED BY <1>1, <1>2, <1>3, <1>4, <1>7 DEF BalanceInv, NotGiven

LEMMA BalanceNext == BalanceInv /\ [KNext]_kvars => BalanceInv'
<1> SUFFICES ASSUME BalanceInv, [KNext]_kvars
             PROVE  BalanceInv'
  OBVIOUS
<1>1. CASE /\ UNCHANGED <<command, account, paging>>
           /\ kstep # "ended" \/ UNCHANGED <<kstep, report>>
           /\ \/ kstep' = "ended" /\ (report' = "ok" => command # "snapshot")
              \/ UNCHANGED <<kstep, report>>
              \/ /\ report' = report /\ kstep # "ended"
                 /\ kstep' \in {"order", "hash", "post"} => command \in {"buy", "reserve"}
                 /\ kstep' = "query" => command = "list"
  BY <1>1 DEF BalanceInv, paging, PagesUpTo, AsShown, CashShown, Gap, Total
<1>2. CASE Configure
  BY <1>1, <1>2 DEF Configure, Step, Ends, End
<1>3. CASE Validate \/ Token2 \/ Hash \/ Unanswered \/ AllPlaced \/ Query
  BY <1>1, <1>3 DEF Validate, Token2, AfterToken, Hash, Unanswered, AllPlaced, Query, Step,
                    Ends, End, BalanceInv
<1>4. CASE Post \/ \E how \in {"error", "crash"} : PostFails(how)
  BY <1>1, <1>4 DEF Post, PostFails, End, BalanceInv
<1>5. CASE Page
  BY <1>5, PageKeepsBalance
<1>6. CASE \E h \in Holdings : Fill(h)
  BY <1>6, FillKeepsBalance
<1>7. CASE UNCHANGED kvars
  BY <1>1, <1>7 DEF kvars, paging
<1> QED BY <1>2, <1>3, <1>4, <1>5, <1>6, <1>7 DEF KNext

\* SnapshotAddsUp: what a snapshot shows of an account that trades while it is
\* read page by page exceeds the value its weights are shares of by no more than
\* was filled meanwhile and the broker repeated, falls short of it by no more
\* than was filled, and leaves no holding out unless the account has more pages
\* than are read (_fetch_domestic_balance, _to_snapshot), for any account, pages,
\* summaries and fills.
THEOREM SnapshotsAddUp == KSpec => []SnapshotAddsUp
<1>1. BalanceInv => SnapshotAddsUp
  <2> SUFFICES ASSUME BalanceInv, report = "ok", command = "snapshot"
               PROVE  SnapshotAddsUp
    BY DEF SnapshotAddsUp
  <2> DEFINE S == DOMAIN seen
             sum == SumFunctionOnSet(seen, S)
             shown == RowSum + summary.cash
  <2>1. /\ account.cash \in Nat /\ account.fills \in Nat /\ account.held \in [Holdings -> Nat]
        /\ pageAt \in Nat /\ pageAt > 0 /\ (pageAt = Len(pages) \/ pageAt = MaxPages)
        /\ S = PagesUpTo(pageAt) /\ S \in SUBSET Holdings /\ pages \in Pages
        /\ \A h \in S : seen[h] \in Nat
        /\ again \in Nat /\ summary.cash \in Nat /\ summary.stocks \in Nat
        /\ summary.form = "none" => summary = NotGiven
        /\ summary.total \in {0, Total}
        /\ summary.stocks = 0 \/ summary.stocks + summary.cash = Total
        /\ -account.fills <= Gap /\ Gap <= account.fills
        /\ pageAt <= Len(pages) /\ Len(pages) \in Nat
    BY KisAssumption DEF BalanceInv
  <2>2. IsFiniteSet(Holdings) /\ IsFiniteSet(S) /\ IsFiniteSet(Holdings \ S)
        /\ \A h \in Holdings : AsShown[h] \in Nat /\ AsShown[h] \in Int
    BY <2>1, ShownIsNatural, FS_Subset
  <2>3. SumFunctionOnSet(AsShown, S) = sum /\ sum \in Nat
    <3>1. \A h \in S : seen[h] \in Int /\ seen[h] = AsShown[h]
      BY <2>1 DEF AsShown
    <3> QED BY <2>1, <2>2, <3>1, SumOfEqualTerms, SumIsNatural
  <2>4. /\ SumFunctionOnSet(AsShown, Holdings) = sum + SumFunctionOnSet(AsShown, Holdings \ S)
        /\ SumFunctionOnSet(AsShown, Holdings \ S) \in Nat
    <3> HIDE DEF sum, S
    <3>1. SumFunctionOnSet(AsShown, Holdings) =
            SumFunctionOnSet(AsShown, S) + SumFunctionOnSet(AsShown, Holdings \ S)
      BY <2>1, <2>2, SumOfParts
    <3>2. SumFunctionOnSet(AsShown, Holdings \ S) \in Nat
      <4>1. \A h \in Holdings \ S : AsShown[h] \in Nat
        BY <2>2
      <4> QED BY <2>2, <4>1, SumIsNatural
    <3> QED BY <2>3, <3>1, <3>2
  <2>5. shown = sum + again + summary.cash
    BY DEF RowSum, SumFunction
  <2>6. Total \in Nat /\ Gap = SumFunctionOnSet(AsShown, Holdings) + CashShown - Total
        /\ (summary.form # "none" => CashShown = summary.cash)
    BY ShownIsNatural DEF Gap, CashShown
  <2>7. /\ summary.form = "none" => TotalValue = shown
        /\ summary.form # "none" => TotalValue = Total \/ TotalValue = shown
    <3> HIDE DEF Total, S, sum
    <3>1. summary.total > 0 => TotalValue = Total
      BY <2>1, <2>6 DEF TotalValue
    <3>2. ~(summary.total > 0) /\ summary.stocks # 0 => TotalValue = Total
      BY <2>1 DEF TotalValue
    <3>3. ~(summary.total > 0) /\ summary.stocks = 0 => TotalValue = shown
      BY DEF TotalValue
    <3>4. summary.form = "none" => ~(summary.total > 0) /\ summary.stocks = 0
      <4>1. NotGiven.total = 0 /\ NotGiven.stocks = 0
        BY DEF NotGiven
      <4>2. summary.form = "none" => summary.total = 0 /\ summary.stocks = 0
        BY <2>1, <4>1
      <4> QED BY <4>2
    <3> QED BY <3>1, <3>2, <3>3, <3>4
  <2> HIDE DEF sum, shown, S, Gap, Total, CashShown
  <2>8. ASSUME summary.form # "none"
        PROVE  shown <= Total + account.fills + again
    <3> DEFINE all == SumFunctionOnSet(AsShown, Holdings)
               rest == SumFunctionOnSet(AsShown, Holdings \ S)
    <3>1. all = sum + rest /\ rest \in Nat /\ sum \in Nat
      BY <2>3, <2>4
    <3>2. all + summary.cash - Total <= account.fills
      BY <2>1, <2>6, <2>8
    <3>3. /\ again \in Nat /\ summary.cash \in Nat /\ account.fills \in Nat /\ Total \in Nat
      BY <2>1, <2>6
    <3> HIDE DEF all, rest
    <3> QED BY <2>5, <3>1, <3>2, <3>3
  <2>9. shown \in Nat
    BY <2>1, <2>3, <2>5
  <2>10. shown <= TotalValue + account.fills + again
    BY <2>1, <2>6, <2>7, <2>8, <2>9
  <2>11. ASSUME Len(pages) <= MaxPages
         PROVE  /\ S = Holdings /\ TotalValue <= shown + account.fills
                /\ summary.form # "none" =>
                     /\ TotalValue <= Total + account.fills + again
                     /\ Total <= TotalValue + account.fills
    <3>1. pageAt = Len(pages)
      BY <2>1, <2>11, KisAssumption
    <3>2. S = Holdings
      BY <2>1, <3>1, KisAssumption DEF PagesUpTo
    <3>3. SumFunctionOnSet(AsShown, Holdings) = sum
      BY <2>3, <3>2
    <3>4. ASSUME summary.form # "none"
          PROVE  Total <= shown + account.fills
      BY <2>1, <2>3, <2>5, <2>6, <3>3, <3>4
    <3> QED BY <2>1, <2>6, <2>7, <2>8, <2>9, <3>2, <3>4
  <2> QED BY <2>10, <2>11 DEF SnapshotAddsUp, shown, S
<1> QED BY <1>1, BalanceInit, BalanceNext, PTL DEF KSpec
==============================================================================
