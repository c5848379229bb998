----------------------------- MODULE KisClient -----------------------------
(***************************************************************************)
(* libra/portfolio_sources/kis.py, driven by scripts/kis_paper_buy.py and  *)
(* by the portfolio bootstrap of the command line: orders placed one after *)
(* the other, each with a token, a hash key and a post of its own, and the *)
(* balance of the account read page by page.  No exchange is retried.      *)
(*                                                                         *)
(* The broker is modelled from how it is used: an exchange is answered,    *)
(* refused (an HTTP error, a return code, an empty token: all become a     *)
(* KISPortfolioBootstrapError) or lost (no reply, or a body that is not    *)
(* JSON: raised as it is).  Whatever the reply to a posted order, the      *)
(* broker may have taken the order.                                        *)
(***************************************************************************)
EXTENDS Integers, Sequences, FiniteSets, Functions

CONSTANTS
  Orders,      \* orders a command line may name
  Malformed,   \* those whose ticker is not six digits
  Fixture,     \* what --fixture adds, in order
  OrderLists,  \* --order lists
  Holdings,    \* what the account may hold
  Pages,       \* pages the broker may cut the balance into: sequences of sets
  MaxPages,    \* pages that are read at most
  Cash,        \* bound: cash of the account
  MaxFills     \* bound: units filled while the balance is read

ASSUME KisAssumption ==
  /\ Malformed \subseteq Orders
  /\ Fixture \in Seq(Orders \ Malformed) /\ OrderLists \subseteq Seq(Orders)
  /\ IsFiniteSet(Holdings)
  \* Pages may repeat a holding.
  /\ \A p \in Pages : p \in Seq(SUBSET Holdings) /\ p # <<>>
                     /\ UNION {p[i] : i \in DOMAIN p} = Holdings
  /\ MaxPages \in Nat \ {0} /\ Cash \in Nat /\ MaxFills \in Nat

VARIABLES
  command,   \* snapshot, buy, reserve, list
  orders,    \* orders to place
  kstep,     \* idle, config, order, token, hash, post, query, page, ended
  placed,    \* results so far, in order
  book,      \* orders the broker has taken from this process, in order
  report,    \* ok, error (exit status 2), crash, none
  account,   \* [cash, held: amount of each holding, fills]
  pages,     \* how the balance is cut
  pageAt,    \* pages read
  seen,      \* what each holding amounted to in its first row
  again,     \* what its further rows add up to
  summary    \* [form, total, stocks, cash] that was kept
kvars == <<command, orders, kstep, placed, book, report, account, pages, pageAt,
           seen, again, summary>>
paging == <<pages, pageAt, seen, again, summary>>

NotGiven == [form |-> "none", total |-> 0, stocks |-> 0, cash |-> 0]
Start(held) == [cash |-> Cash, held |-> held, fills |-> 0]
KUntouched ==
  /\ placed = <<>> /\ book = <<>> /\ report = "none"
  /\ pageAt = 0 /\ seen = <<>> /\ again = 0 /\ summary = NotGiven

\* kis_paper_buy refuses a command line with nothing to do.
KInit ==
  /\ command \in {"snapshot", "buy", "reserve", "list"}
  /\ \E l \in OrderLists, fixture \in BOOLEAN :
       /\ orders = IF command \in {"buy", "reserve"}
                   THEN IF fixture THEN l \o Fixture ELSE l
                   ELSE <<>>
       /\ command \in {"buy", "reserve"} => orders # <<>>
  /\ kstep = "config"
  /\ pages \in Pages
  /\ account = Start([h \in Holdings |-> 1])
  /\ KUntouched
-----------------------------------------------------------------------------
Total == account.cash + SumFunction(account.held)

End(how) == kstep' = "ended" /\ report' = how
Ends(how) == End(how) /\ UNCHANGED <<command, orders, placed, book, account, paging>>
Step(from, to) ==
  /\ kstep = from /\ kstep' = to
  /\ UNCHANGED <<command, orders, placed, book, report, account, paging>>

\* _config_from_args: a value is missing or has too few digits.  Only the
\* environment decides which server is used; the order client takes no other.
Configure ==
  \/ Step("config", IF command \in {"buy", "reserve"} THEN "order" ELSE "token")
  \/ kstep = "config" /\ Ends("error")

\* An order is validated when its turn comes, before its first exchange.
Turn == orders[Len(placed) + 1]
Validate ==
  /\ kstep = "order" /\ Len(placed) < Len(orders)
  /\ IF Turn \in Malformed
     THEN Ends("error")
     ELSE Step("order", "token")

AfterToken ==
  IF command \in {"buy", "reserve"} THEN "hash"
  ELSE IF command = "list" THEN "query" ELSE "page"
Token2 == Step("token", AfterToken)
Hash == Step("hash", "post")
Unanswered ==
  /\ kstep \in {"token", "hash", "query", "page"}
  /\ Ends("error") \/ Ends("crash")

Taken == book' = Append(book, Turn)
PlacedUnrecorded == placed
Placed == Append(placed, Turn)
Post ==
  /\ kstep = "post" /\ Taken
  /\ placed' = Placed /\ kstep' = "order"
  /\ UNCHANGED <<command, orders, report, account, paging>>
PostFails(how) ==
  /\ kstep = "post"
  /\ Taken \/ UNCHANGED book
  /\ End(how) /\ UNCHANGED <<command, orders, placed, account, paging>>
AllPlaced == kstep = "order" /\ Len(placed) = Len(orders) /\ Ends("ok")

\* The reservations of the first reply are all that is listed.
Query == kstep = "query" /\ Ends("ok")
-----------------------------------------------------------------------------
\* A unit of another order of the account is bought or sold meanwhile, at the
\* one price the pages show.
Fill(h) ==
  /\ kstep = "page" /\ account.fills < MaxFills
  /\ \E n \in {-1, 1} :
       /\ account.cash >= n /\ account.held[h] >= -n
       /\ account' = [cash |-> account.cash - n,
                      held |-> [account.held EXCEPT ![h] = @ + n],
                      fills |-> account.fills + 1]
  /\ UNCHANGED <<command, orders, kstep, placed, book, report, paging>>

\* What a page's output2 gives: nothing, or the cash with the total, with the
\* value of the stocks, or with neither.
Forms == {"none", "total", "stocks", "cash"}
Output2(form) ==
  [form |-> form,
   total |-> IF form = "total" THEN Total ELSE 0,
   stocks |-> IF form = "stocks" THEN SumFunction(account.held) ELSE 0,
   cash |-> IF form = "none" THEN 0 ELSE account.cash]

\* The first that gives anything is kept.
SummaryAdded(form) ==
  IF form = "none" THEN summary ELSE [Output2(form) EXCEPT !.cash = summary.cash + @]
Summary(form) == IF summary.form = "none" THEN Output2(form) ELSE summary

Rows == pages[pageAt + 1]
More == pageAt + 1 < Len(pages)
Stops == pageAt + 1 = MaxPages
Page ==
  /\ kstep = "page"
  /\ pageAt' = pageAt + 1
  /\ seen' = [h \in DOMAIN seen \cup Rows |->
                IF h \in DOMAIN seen THEN seen[h] ELSE account.held[h]]
  /\ again' = again + SumFunctionOnSet(account.held, Rows \cap DOMAIN seen)
  /\ \E form \in Forms : summary' = Summary(form)
  /\ IF More /\ ~Stops THEN UNCHANGED <<kstep, report>> ELSE End("ok")
  /\ UNCHANGED <<command, orders, placed, book, account, pages>>

\* _to_snapshot: the rows are a list, and the value is what every weight is a
\* share of.
RowSum == SumFunction(seen) + again
TotalValue ==
  IF summary.total > 0 THEN summary.total
  ELSE (IF summary.stocks # 0 THEN summary.stocks ELSE RowSum) + summary.cash

KNext ==
  \/ Configure \/ Validate \/ Token2 \/ Hash \/ Unanswered \/ Post \/ AllPlaced
  \/ Query \/ Page
  \/ \E how \in {"error", "crash"} : PostFails(how)
  \/ \E h \in Holdings : Fill(h)
KSpec == KInit /\ [][KNext]_kvars
-----------------------------------------------------------------------------
(* Wherever a run stops, the broker has taken the first orders of the list *)
(* and no other, none of them twice; it has at most one more than the run  *)
(* was told of, and then the run has failed; a run that reports success    *)
(* has placed them all (place_cash_order, place_reservation_order, main).  *)
OrdersAccountedFor ==
  /\ Len(book) <= Len(orders) /\ book = SubSeq(orders, 1, Len(book))
  /\ placed = SubSeq(book, 1, Len(placed))
  /\ Len(book) <= Len(placed) + 1
  /\ Len(book) = Len(placed) + 1 => report \in {"error", "crash"}
  /\ report = "ok" => placed = orders /\ book = orders

(* The parts of a snapshot come from different moments: rows from each     *)
(* page, the summary from the first page that gives one.  Still what is    *)
(* shown exceeds the value its weights are shares of by no more than was   *)
(* filled while the pages were read and than the rows the broker repeats   *)
(* add up to.  Unless the account has more pages than are read, every      *)
(* holding is in it, it falls short by no more than was filled, and with a *)
(* summary the value is, up to the same, that of the account               *)
(* (_fetch_domestic_balance, _to_snapshot).                                *)
SnapshotAddsUp ==
  report = "ok" /\ command = "snapshot" =>
    LET shown == RowSum + summary.cash
    IN /\ shown <= TotalValue + account.fills + again
       /\ Len(pages) <= MaxPages =>
            /\ DOMAIN seen = Holdings /\ TotalValue <= shown + account.fills
            /\ summary.form # "none" =>
                 /\ TotalValue <= Total + account.fills + again
                 /\ Total <= TotalValue + account.fills
=============================================================================
