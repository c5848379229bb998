----------------------------- MODULE LlamaServer -----------------------------
(***************************************************************************)
(* llama_cpp_client.py: chat clients that start a llama.cpp server when    *)
(* none answers on their port.  Every run of the agent core opens a client *)
(* of its own (runtime/graph.py), all of them for the same host and port,  *)
(* and the threads of the committee's pool share the client of their run   *)
(* without a lock.                                                         *)
(*                                                                         *)
(* A starter is a client that is being entered or a thread of its pool.    *)
(* Each step of start_server that asks the server or reads _process is a   *)
(* step of the model.                                                      *)
(***************************************************************************)
EXTENDS Naturals, FiniteSets

CONSTANTS
  Clients,    \* one per run of the agent core
  Callers,    \* threads of the pools
  ClientOf,   \* the client a thread calls
  Servers,    \* server processes; their number bounds the launches
  MaxDeaths,  \* bound: servers that die by themselves
  None        \* no process

ASSUME ServerAssumption ==
  /\ Clients \cap Callers = {}
  /\ ClientOf \in [Callers -> Clients]
  /\ None \notin Servers
  /\ MaxDeaths \in Nat

Starters == Clients \cup Callers
Owner(s) == IF s \in Clients THEN s ELSE ClientOf[s]

VARIABLES
  life,     \* new, entering, checking, open, failed, closed
  start,    \* where a starter is in ensure_available and start_server
  process,  \* _process of a client
  server,   \* unborn, launched, loading, serving, dead
  lost,     \* servers that a client launched and no longer knows
  deaths

serverVars == <<life, start, process, server, lost, deaths>>

ServerInit ==
  /\ life = [c \in Clients |-> "new"]
  /\ start = [s \in Starters |-> "idle"]
  /\ process = [c \in Clients |-> None]
  /\ server = [p \in Servers |-> "unborn"]
  /\ lost = {} /\ deaths = 0

Running(p) == server[p] \in {"launched", "loading", "serving"}
IsHealthy == \E p \in Servers : server[p] = "serving"
PortTaken == \E p \in Servers : server[p] \in {"loading", "serving"}
Polled(c) == process[c] # None /\ Running(process[c])

Goes(s, to) == start' = [start EXCEPT ![s] = to]

(***************************************************************************)
(* ensure_available, start_server, _wait_until_ready                       *)
(***************************************************************************)
EnsureAvailable(s) ==
  /\ start[s] = "ensure"
  /\ Goes(s, IF IsHealthy THEN "ready" ELSE "start")
  /\ UNCHANGED <<life, process, server, lost, deaths>>

StartServer(s) ==
  /\ start[s] = "start"
  /\ Goes(s, IF IsHealthy THEN "ready" ELSE "poll")
  /\ UNCHANGED <<life, process, server, lost, deaths>>

Poll(s) ==
  /\ start[s] = "poll"
  /\ Goes(s, IF Polled(Owner(s)) THEN "wait" ELSE "launch")
  /\ UNCHANGED <<life, process, server, lost, deaths>>

\* Popen: whatever _process was is forgotten.
Launch(s) ==
  LET unborn == {p \in Servers : server[p] = "unborn"}
      p == CHOOSE p \in unborn : TRUE
  IN
  /\ start[s] = "launch" /\ unborn # {}
  /\ server' = [server EXCEPT ![p] = "launched"]
  /\ lost' = IF Polled(Owner(s)) THEN lost \cup {process[Owner(s)]} ELSE lost
  /\ process' = [process EXCEPT ![Owner(s)] = p]
  /\ Goes(s, "wait")
  /\ UNCHANGED <<life, deaths>>

\* A path is missing or Popen raises OSError.
LaunchFails(s) ==
  /\ start[s] = "launch"
  /\ Goes(s, "failed")
  /\ UNCHANGED <<life, process, server, lost, deaths>>

WaitUntilReady(s) ==
  /\ start[s] = "wait"
  /\ \/ IsHealthy /\ Goes(s, "ready")
     \/ ~IsHealthy /\ process[Owner(s)] # None /\ ~Polled(Owner(s)) /\ Goes(s, "failed")
  /\ UNCHANGED <<life, process, server, lost, deaths>>

WaitTimesOutIfDead(s) ==
  /\ start[s] = "wait" /\ ~Polled(Owner(s)) /\ Goes(s, "failed")
  /\ UNCHANGED <<life, process, server, lost, deaths>>

\* The startup timeout, over any number of polls.
WaitTimesOut(s) ==
  /\ start[s] = "wait" /\ Goes(s, "failed")
  /\ UNCHANGED <<life, process, server, lost, deaths>>

(***************************************************************************)
(* open_chat_client, the with statement of _run_agent_core                 *)
(***************************************************************************)
Enter(c) ==
  /\ life[c] = "new"
  /\ life' = [life EXCEPT ![c] = "entering"]
  /\ Goes(c, "start")
  /\ UNCHANGED <<process, server, lost, deaths>>

\* __enter__ returned; the core calls ensure_available once more.
Entered(c) ==
  /\ life[c] = "entering" /\ start[c] = "ready"
  /\ life' = [life EXCEPT ![c] = "checking"]
  /\ Goes(c, "ensure")
  /\ UNCHANGED <<process, server, lost, deaths>>

\* __enter__ raised: there is no __exit__ for it.
EnterFails(c) ==
  /\ life[c] = "entering" /\ start[c] = "failed"
  /\ life' = [life EXCEPT ![c] = "failed"]
  /\ lost' = IF Polled(c) THEN lost \cup {process[c]} ELSE lost
  /\ Goes(c, "idle")
  /\ UNCHANGED <<process, server, deaths>>

Checked(c) ==
  /\ life[c] = "checking" /\ start[c] = "ready"
  /\ life' = [life EXCEPT ![c] = "open"]
  /\ Goes(c, "idle")
  /\ UNCHANGED <<process, server, lost, deaths>>

StopIfServing(c) ==
  /\ server' = IF process[c] # None /\ server[process[c]] = "serving"
               THEN [server EXCEPT ![process[c]] = "dead"] ELSE server
  /\ process' = [process EXCEPT ![c] = None]

StopServer(c) ==
  /\ server' = IF Polled(c) THEN [server EXCEPT ![process[c]] = "dead"] ELSE server
  /\ process' = [process EXCEPT ![c] = None]

\* The pool is joined before the with statement is left, also by an exception.
Exit(c) ==
  /\ \/ life[c] = "open" /\ \A s \in Callers : ClientOf[s] = c => start[s] = "idle"
     \/ life[c] = "checking" /\ start[c] = "failed"
  /\ life' = [life EXCEPT ![c] = "closed"]
  /\ StopServer(c)
  /\ Goes(c, "idle")
  /\ UNCHANGED <<lost, deaths>>

(***************************************************************************)
(* llama-server itself                                                     *)
(***************************************************************************)
\* It binds the port or exits, and is healthy once the model is loaded.
Serve(p) ==
  /\ \/ server[p] = "launched"
          /\ server' = [server EXCEPT ![p] = IF PortTaken THEN "dead" ELSE "loading"]
     \/ server[p] = "loading" /\ server' = [server EXCEPT ![p] = "serving"]
  /\ UNCHANGED <<life, start, process, lost, deaths>>

Die(p) ==
  /\ Running(p) /\ deaths < MaxDeaths
  /\ server' = [server EXCEPT ![p] = "dead"]
  /\ deaths' = deaths + 1
  /\ UNCHANGED <<life, start, process, lost>>

Start(s) ==
  \/ EnsureAvailable(s) \/ StartServer(s) \/ Poll(s) \/ Launch(s) \/ LaunchFails(s)
  \/ WaitUntilReady(s) \/ WaitTimesOut(s)

Client(c) == Enter(c) \/ Entered(c) \/ EnterFails(c) \/ Checked(c) \/ Exit(c)
Server == \E p \in Servers : Serve(p) \/ Die(p)

(***************************************************************************)
(* Properties                                                              *)
(***************************************************************************)
\* A server that runs is the _process of a client that will stop it when it
\* is left.  The two ways to lose one are two threads of a client that launch
\* at once, and an __enter__ that raises while its server is still loading.
NothingElseLeaks ==
  \A p \in Servers :
    Running(p) => \/ p \in lost
                  \/ \E c \in Clients :
                       process[c] = p /\ life[c] \in {"entering", "checking", "open"}
=============================================================================
