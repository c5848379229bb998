------------------------------ MODULE MCAgents -------------------------------
(***************************************************************************)
(* The news agents of two runs and the disclosure agent and a domain agent *)
(* of the first one.  The first run begins with an old event only the      *)
(* macro question admits, the second with nothing.  The two news jobs may   *)
(* start in the same second and share a directory.                         *)
(***************************************************************************)
EXTENDS AgentCall, TLC

CONSTANTS r1, r2, n1, n2, d1, m1

Item(id, form, type, age, matched) ==
  [id |-> id, form |-> form, type |-> type, age |-> age, matched |-> matched,
   reportLike |-> FALSE]

Old == Item(1, "event", "NEWS", 3, FALSE)
Headline == Item(2, "event", "NEWS", 2, TRUE)
Article == Item(3, "document", "NEWS", 1, TRUE)
Filing == Item(4, "event", "DISCLOSURE", 2, TRUE)

MCItems == {Old, Headline, Article, Filing}
News == [s \in Sources |-> IF s = "rss" THEN {Headline, Article}
                           ELSE IF s = "dart" THEN {Filing} ELSE {}]
Quiet == [s \in Sources |-> {}]
MCFeeds == {News, Quiet}
MCInitialItems == [r \in Runs |-> IF r = r1 THEN {Old} ELSE {}]
MCLimit == [d \in Depths |-> IF d = "deep" THEN 2 ELSE 1]

MCAgentOf == n1 :> "news" @@ n2 :> "news" @@ d1 :> "disclosure" @@ m1 :> "domain"
MCRunOf == n2 :> r2 @@ n1 :> r1 @@ d1 :> r1 @@ m1 :> r1
MCDepthOf == [c \in Calls |-> "shallow"]
\* A live refresh with summaries for a model that fails, one of a sample without
\* news, and the macro question without a refresh, with and without summaries.
MCSettings ==
  {[strict |-> FALSE, refresh |-> TRUE, live |-> TRUE, macro |-> FALSE,
    feed |-> News],
   [strict |-> FALSE, refresh |-> TRUE, live |-> FALSE, macro |-> FALSE, feed |-> Quiet]}
  \cup {[strict |-> s, refresh |-> FALSE, live |-> FALSE, macro |-> TRUE, feed |-> News] : s \in BOOLEAN}

\* A domain agent reads and changes nothing the others do, so that its one step may
\* as well come last.
DomainLast == at'[m1] # at[m1] => \A c \in Calls \ {m1} : Ended(c)
MCSpec == Init /\ [][Next /\ DomainLast]_vars
=============================================================================
