---------------------------- MODULE ClientProofs ----------------------------
(***************************************************************************)
(* Proofs about ChatClient and the LlamaServer in it, for any number of    *)
(* clients, threads, server processes, attempts and calls: no server is    *)
(* left running but those the two known ways lose, and the throttle keeps  *)
(* the rate of the free tier.                                              *)
(***************************************************************************)
EXTENDS ChatClient, FiniteSums

Lives == {"new", "entering", "checking", "open", "failed", "closed"}
Starts == {"idle", "ensure", "start", "poll", "launch", "wait", "ready", "failed"}
Posts == {"idle", "ensure", "throttle", "sleep", "post", "wait", "done"}

Errors == {"ValueError", "ChatClientError", "AttributeError", "OSError"}
CallsMade == [pc : Posts, attempt : Nat,
              end : {"none", "answer"} \cup Errors]

\* What the rest rests on: the types, and that the threads of a client start a
\* server only while the client is open, and itself only while it is entered.
ClientsInv ==
  /\ config \in Configs
  /\ life \in [Clients -> Lives]
  /\ start \in [Starters -> Starts]
  /\ process \in [Clients -> Servers \cup {None}]
  /\ server \in [Servers -> {"unborn", "launched", "loading", "serving", "dead"}]
  /\ chat \in [Callers -> CallsMade]
  /\ \A c \in Clients : start[c] # "idle" => life[c] \in {"entering", "checking"}
  /\ \A s \in Callers : start[s] # "idle" => life[ClientOf[s]] = "open"
  /\ \A s \in Callers : chat[s].pc = "ensure" => config.kind = "llama_cpp"

LEMMA ClientsInit == Init => ClientsInv
<1> SUFFICES ASSUME Init
             PROVE  ClientsInv
  OBVIOUS
<1>1. Clients \subseteq Starters /\ Callers \subseteq Starters
  BY DEF Starters
<1> QED
  BY <1>1 DEF Init, ServerInit, ClientsInv, Lives, Starts, Posts, CallsMade, NoCall, Errors, Replies

\* What a step of the calls leaves as it is.
LEMMA StepKinds ==
  ASSUME [Next]_vars
  PROVE  \/ \E s \in Callers : Thread(s)
         \/ UNCHANGED <<config, chat>> /\ UNCHANGED serverVars
         \/ UNCHANGED chatVars /\ \E s \in Starters : Start(s)
         \/ UNCHANGED chatVars /\ \E c \in Clients : Client(c)
         \/ UNCHANGED chatVars /\ Server
BY DEF Next, Tick, Finished, vars, chatVars, serverVars

LEMMA OwnersAreClients ==
  ASSUME NEW s \in Starters
  PROVE  Owner(s) \in Clients
BY ServerAssumption DEF Owner, Starters

\* A start goes on: only start, and with a launch server, process and lost.
LEMMA StartSteps ==
  ASSUME ClientsInv, NEW s \in Starters, Start(s)
  PROVE  /\ life' = life
         /\ start[s] # "idle"
         /\ \E to \in Starts \ {"idle"} : start' = [start EXCEPT ![s] = to]
         /\ server' \in [Servers -> {"unborn", "launched", "loading", "serving", "dead"}]
         /\ process' \in [Clients -> Servers \cup {None}]
<1> USE DEF ClientsInv, Starts, Goes
<1>1. CASE EnsureAvailable(s)
  BY <1>1 DEF EnsureAvailable
<1>2. CASE StartServer(s)
  BY <1>2 DEF StartServer
<1>3. CASE Poll(s)
  BY <1>3 DEF Poll
<1>4. CASE Launch(s)
  <2> DEFINE unborn == {p \in Servers : server[p] = "unborn"}
             p == CHOOSE p \in unborn : TRUE
  <2>1. p \in Servers
    BY <1>4 DEF Launch
  <2>2. /\ life' = life /\ start[s] = "launch" /\ start' = [start EXCEPT ![s] = "wait"]
        /\ server' = [server EXCEPT ![p] = "launched"]
        /\ process' = [process EXCEPT ![Owner(s)] = p]
    BY <1>4 DEF Launch
  <2> HIDE DEF p
  <2>3. Owner(s) \in Clients
    BY OwnersAreClients
  <2> QED BY <2>1, <2>2, <2>3
<1>5. CASE LaunchFails(s)
  BY <1>5 DEF LaunchFails
<1>6. CASE WaitUntilReady(s)
  BY <1>6 DEF WaitUntilReady
<1>7. CASE WaitTimesOut(s)
  BY <1>7 DEF WaitTimesOut
<1> QED BY <1>1, <1>2, <1>3, <1>4, <1>5, <1>6, <1>7 DEF Start


\* What the updates of one call leave of all.
LEMMA CallsUpdated ==
  ASSUME ClientsInv, NEW s \in Callers, NEW pc \in {"post", "done"},
         NEW end \in {"none", "ChatClientError"},
         chat' = [chat EXCEPT ![s].pc = pc, ![s].end = end]
  PROVE  /\ chat' \in [Callers -> CallsMade] /\ chat'[s].pc = pc
         /\ \A r \in Callers : r # s => chat'[r] = chat[r]
<1> USE DEF ClientsInv
<1> DEFINE call == [chat[s] EXCEPT !.pc = pc, !.end = end]
<1>1. chat[s] \in CallsMade
  OBVIOUS
<1>2. call \in CallsMade /\ call.pc = pc
  BY <1>1 DEF CallsMade, Errors, Posts
<1>3. /\ DOMAIN chat' = Callers
      /\ \A r \in Callers : chat'[r] = IF r = s THEN call ELSE chat[r]
  OBVIOUS
<1>4. chat' = [r \in Callers |-> chat'[r]]
  BY <1>3
<1> HIDE DEF call
<1> QED BY <1>2, <1>3, <1>4

\* The same of an attempt that is made again.
LEMMA CallsRetried ==
  ASSUME ClientsInv, NEW s \in Callers, NEW pc \in {"throttle", "post"},
         chat' = [chat EXCEPT ![s].pc = pc, ![s].attempt = @ + 1]
  PROVE  /\ chat' \in [Callers -> CallsMade] /\ chat'[s].pc = pc
         /\ \A r \in Callers : r # s => chat'[r] = chat[r]
<1> USE DEF ClientsInv
<1> DEFINE next == chat[s].attempt + 1
           call == [chat[s] EXCEPT !.pc = pc, !.attempt = next]
<1>1. chat[s] \in CallsMade
  OBVIOUS
<1>2. next \in Nat
  BY <1>1 DEF CallsMade
<1>3. /\ DOMAIN chat' = Callers
      /\ \A r \in Callers : chat'[r] = IF r = s THEN call ELSE chat[r]
  OBVIOUS
<1> HIDE DEF next
<1>4. call \in CallsMade /\ call.pc = pc
  BY <1>1, <1>2 DEF CallsMade, Posts
<1>5. chat' = [r \in Callers |-> chat'[r]]
  BY <1>3
<1> HIDE DEF call
<1> QED BY <1>3, <1>4, <1>5

\* The steps of a call, and what they leave alone.
LEMMA ThreadSteps ==
  ASSUME ClientsInv, NEW s \in Callers, Thread(s)
  PROVE  /\ UNCHANGED <<life, process, server, lost, deaths, config>>
         /\ \A c \in Starters : c # s => start'[c] = start[c]
         /\ start' \in [Starters -> Starts]
         /\ chat' \in [Callers -> CallsMade]
         /\ \A r \in Callers : r # s => chat'[r] = chat[r]
         /\ start'[s] # "idle" => start[s] # "idle" \/ life[ClientOf[s]] = "open"
         /\ chat'[s].pc = "ensure" => config.kind = "llama_cpp"
<1> USE DEF ClientsInv, CallsMade, Errors, Posts
<1>1. s \in Starters /\ chat[s] \in CallsMade /\ start[s] \in Starts
  BY DEF Starters
<1>2. CASE ChatJson(s)
  <2>1. FirstStep \in {"throttle", "ensure", "post"}
        /\ (FirstStep = "ensure" => config.kind = "llama_cpp")
    BY DEF FirstStep
  <2>2. chat' = [chat EXCEPT ![s] = [pc |-> FirstStep, attempt |-> 1, end |-> "none"]]
        /\ UNCHANGED <<life, process, server, lost, deaths, config>>
        /\ InRun(s)
    BY <1>2 DEF ChatJson
  <2>3. [pc |-> FirstStep, attempt |-> 1, end |-> "none"] \in CallsMade
    BY <2>1
  <2>4. CASE FirstStep = "ensure"
    <3>1. start' = [start EXCEPT ![s] = "ensure"]
      BY <1>2, <2>4 DEF ChatJson, Goes
    <3>2. life[ClientOf[s]] = "open"
      BY <2>1, <2>2, <2>4 DEF InRun
    <3> QED BY <1>1, <2>1, <2>2, <2>3, <3>1, <3>2 DEF Starts
  <2>5. CASE FirstStep # "ensure"
    <3>1. start' = start
      BY <1>2, <2>5 DEF ChatJson
    <3> QED BY <1>1, <2>1, <2>2, <2>3, <2>5, <3>1
  <2> QED BY <2>4, <2>5
<1>3. CASE Ensured(s)
  <2>1. /\ start' = [start EXCEPT ![s] = "idle"]
        /\ UNCHANGED <<life, process, server, lost, deaths, config>>
        /\ \E pc \in {"post", "done"}, end \in {"none", "ChatClientError"} :
             chat' = [chat EXCEPT ![s].pc = pc, ![s].end = end]
    BY <1>3, Zenon DEF Ensured, Goes
  <2>2. PICK pc \in {"post", "done"}, end \in {"none", "ChatClientError"} :
          chat' = [chat EXCEPT ![s].pc = pc, ![s].end = end]
    BY <2>1
  <2>3. /\ chat' \in [Callers -> CallsMade] /\ chat'[s].pc = pc
        /\ \A r \in Callers : r # s => chat'[r] = chat[r]
    BY <2>2, CallsUpdated
  <2> QED BY <1>1, <2>1, <2>3 DEF Starts
<1>4. ASSUME UNCHANGED <<serverVars, config>>,
             NEW pc \in Posts \ {"ensure"}, chat' = [chat EXCEPT ![s].pc = pc]
      PROVE  /\ UNCHANGED <<life, process, server, lost, deaths, config, start>>
             /\ chat' \in [Callers -> CallsMade]
             /\ \A r \in Callers : r # s => chat'[r] = chat[r]
             /\ chat'[s].pc # "ensure"
  <2>1. chat' = [chat EXCEPT ![s] = [chat[s] EXCEPT !.pc = pc]]
    BY <1>4
  <2>2. [chat[s] EXCEPT !.pc = pc] \in CallsMade /\ [chat[s] EXCEPT !.pc = pc].pc = pc
    BY <1>1
  <2> QED BY <1>4, <2>1, <2>2 DEF serverVars
<1>5. CASE AcquireThrottle(s) \/ ReleaseThrottle(s) \/ Post(s)
  <2>1. PICK pc \in {"sleep", "post", "wait"} :
          chat' = [chat EXCEPT ![s].pc = pc] /\ UNCHANGED <<serverVars, config>>
    BY <1>5 DEF AcquireThrottle, ReleaseThrottle, Post, To
  <2> QED BY <1>4, <2>1
<1>6. ASSUME NEW reply \in Replies, Reply(s, reply)
      PROVE  /\ UNCHANGED <<life, process, server, lost, deaths, config, start>>
             /\ chat' \in [Callers -> CallsMade]
             /\ \A r \in Callers : r # s => chat'[r] = chat[r]
             /\ chat'[s].pc # "ensure"
  <2>1. UNCHANGED <<serverVars, config>> /\ (Again(s, reply) \/ Ends(s, reply))
    BY <1>6 DEF Reply
  <2>2. CASE Again(s, reply)
    <3>1. PICK pc \in {"throttle", "post"} :
            chat' = [chat EXCEPT ![s].pc = pc, ![s].attempt = @ + 1]
      BY <2>2, Zenon DEF Again
    <3>2. /\ chat' \in [Callers -> CallsMade] /\ chat'[s].pc = pc
          /\ \A r \in Callers : r # s => chat'[r] = chat[r]
      BY <3>1, CallsRetried
    <3> QED BY <2>1, <3>2 DEF serverVars
  <2>3. CASE Ends(s, reply)
    <3>1. EndsOf(reply) \subseteq {"answer"} \cup Errors
      BY DEF EndsOf, EndOf, LogFails, Errors
    <3>2. PICK end \in {"answer"} \cup Errors :
            chat' = [chat EXCEPT ![s].pc = "done", ![s].end = end]
      BY <2>3, <3>1 DEF Ends
    <3>3. chat' = [chat EXCEPT ![s] = [chat[s] EXCEPT !.pc = "done", !.end = end]]
      BY <3>2
    <3>4. /\ [chat[s] EXCEPT !.pc = "done", !.end = end] \in CallsMade
          /\ [chat[s] EXCEPT !.pc = "done", !.end = end].pc = "done"
      BY <1>1
    <3> QED BY <2>1, <3>3, <3>4 DEF serverVars
  <2> QED BY <2>1, <2>2, <2>3
<1>7. CASE \E reply \in Replies : Reply(s, reply)
  BY <1>6, <1>7
<1> QED BY <1>2, <1>3, <1>5, <1>7, <1>4 DEF Thread

\* Entering and leaving a client: its life goes on, and a client that is left
\* or given up starts nothing any more, nor do its threads.
LEMMA ClientSteps ==
  ASSUME ClientsInv, NEW c \in Clients, Client(c)
  PROVE  /\ \E to \in Lives : life' = [life EXCEPT ![c] = to]
         /\ \E to \in Starts : start' = [start EXCEPT ![c] = to]
         /\ process' \in [Clients -> Servers \cup {None}]
         /\ server' \in [Servers -> {"unborn", "launched", "loading", "serving", "dead"}]
         /\ start'[c] # "idle" => life'[c] \in {"entering", "checking"}
         /\ life[c] = "open" => \A s \in Callers : ClientOf[s] = c => start[s] = "idle"
<1> USE DEF ClientsInv, Starts, Lives, Goes
<1>1. c \in Starters
  BY DEF Starters
<1>2. CASE Enter(c)
  BY <1>1, <1>2 DEF Enter
<1>3. CASE Entered(c)
  BY <1>1, <1>3 DEF Entered
<1>4. CASE EnterFails(c)
  BY <1>1, <1>4 DEF EnterFails
<1>5. CASE Checked(c)
  BY <1>1, <1>5 DEF Checked
<1>6. CASE Exit(c)
  <2>1. /\ life' = [life EXCEPT ![c] = "closed"] /\ start' = [start EXCEPT ![c] = "idle"]
        /\ process' = [process EXCEPT ![c] = None]
        /\ server' = IF Polled(c) THEN [server EXCEPT ![process[c]] = "dead"] ELSE server
    BY <1>6 DEF Exit, StopServer
  <2>2. life[c] = "open" => \A s \in Callers : ClientOf[s] = c => start[s] = "idle"
    BY <1>6 DEF Exit
  <2> QED BY <1>1, <2>1, <2>2
<1> QED BY <1>2, <1>3, <1>4, <1>5, <1>6 DEF Client

\* A server's steps are on one that was launched.
LEMMA ServerSteps ==
  ASSUME ClientsInv, Server
  PROVE  /\ UNCHANGED <<life, start, process, lost>>
         /\ \E p \in Servers, to \in {"loading", "serving", "dead"} :
              Running(p) /\ server' = [server EXCEPT ![p] = to]
<1>1. PICK p \in Servers : Serve(p) \/ Die(p)
  BY DEF Server
<1>2. CASE Serve(p)
  BY <1>2 DEF Serve, Running
<1>3. CASE Die(p)
  BY <1>3 DEF Die
<1> QED BY <1>1, <1>2, <1>3

LEMMA ClientsNext == ClientsInv /\ [Next]_vars => ClientsInv'
<1> SUFFICES ASSUME ClientsInv, [Next]_vars
             PROVE  ClientsInv'
  OBVIOUS
<1> USE DEF ClientsInv
<1>1. /\ ClientOf \in [Callers -> Clients] /\ Clients \cap Callers = {}
      /\ Clients \subseteq Starters /\ Callers \subseteq Starters
  BY ServerAssumption DEF Starters
<1>2. CASE UNCHANGED <<config, chat>> /\ UNCHANGED serverVars
  BY <1>2 DEF serverVars
<1>3. ASSUME NEW s \in Callers, Thread(s)
      PROVE  ClientsInv'
  BY <1>1, <1>3, ThreadSteps
<1>4. ASSUME UNCHANGED chatVars, NEW s \in Starters, Start(s)
      PROVE  ClientsInv'
  <2>1. PICK to \in Starts : start' = [start EXCEPT ![s] = to]
    BY <1>4, StartSteps
  <2>2. /\ life' = life /\ start[s] # "idle"
        /\ server' \in [Servers -> {"unborn", "launched", "loading", "serving", "dead"}]
        /\ process' \in [Clients -> Servers \cup {None}]
    BY <1>4, StartSteps
  <2> QED BY <1>1, <1>4, <2>1, <2>2 DEF chatVars
<1>5. ASSUME UNCHANGED chatVars, NEW c \in Clients, Client(c)
      PROVE  ClientsInv'
  <2>1. PICK to \in Lives, at \in Starts :
          life' = [life EXCEPT ![c] = to] /\ start' = [start EXCEPT ![c] = at]
    BY <1>5, ClientSteps
  <2>2. /\ process' \in [Clients -> Servers \cup {None}]
        /\ server' \in [Servers -> {"unborn", "launched", "loading", "serving", "dead"}]
        /\ start'[c] # "idle" => life'[c] \in {"entering", "checking"}
        /\ life[c] = "open" => \A s \in Callers : ClientOf[s] = c => start[s] = "idle"
    BY <1>5, ClientSteps
  <2>3. \A d \in Clients : start'[d] # "idle" => life'[d] \in {"entering", "checking"}
    BY <1>1, <2>1, <2>2
  <2>4. ASSUME NEW s \in Callers, start'[s] # "idle"
        PROVE  life'[ClientOf[s]] = "open"
    <3>1. start'[s] = start[s] /\ ClientOf[s] \in Clients
      BY <1>1, <2>1
    <3>2. life[ClientOf[s]] = "open" /\ ClientOf[s] # c
      BY <2>2, <2>4, <3>1
    <3> QED BY <2>1, <3>1, <3>2
  <2> QED BY <1>1, <1>5, <2>1, <2>2, <2>3, <2>4 DEF chatVars
<1>6. ASSUME UNCHANGED chatVars, Server
      PROVE  ClientsInv'
  <2>1. UNCHANGED <<life, start, process, lost>>
    BY <1>6, ServerSteps
  <2>2. PICK p \in Servers, to \in {"loading", "serving", "dead"} :
          server' = [server EXCEPT ![p] = to]
    BY <1>6, ServerSteps
  <2> QED BY <1>6, <2>1, <2>2 DEF chatVars
<1> QED BY <1>2, <1>3, <1>4, <1>5, <1>6, StepKinds

LEMMA ClientsHold == Spec => []ClientsInv
BY ClientsInit, ClientsNext, PTL DEF Spec

----------------------------------------------------------------------------
LEMMA LeaksInit == Init => NothingElseLeaks
BY DEF Init, ServerInit, NothingElseLeaks, Running

LEMMA LeaksNext == ClientsInv /\ NothingElseLeaks /\ [Next]_vars => NothingElseLeaks'
<1> SUFFICES ASSUME ClientsInv, NothingElseLeaks, [Next]_vars
             PROVE  NothingElseLeaks'
  OBVIOUS
<1> USE DEF ClientsInv, NothingElseLeaks, Running
<1>1. CASE UNCHANGED serverVars
  BY <1>1 DEF serverVars
<1>2. ASSUME NEW s \in Callers, Thread(s)
      PROVE  NothingElseLeaks'
  BY <1>2, ThreadSteps
<1>3. ASSUME NEW s \in Starters, Start(s)
      PROVE  NothingElseLeaks'
  <2>1. CASE Launch(s)
    <3> DEFINE unborn == {p \in Servers : server[p] = "unborn"}
               p == CHOOSE p \in unborn : TRUE
               owner == Owner(s)
    <3>1. p \in Servers
      BY <2>1 DEF Launch
    <3>2. /\ life' = life /\ start[s] = "launch"
          /\ server' = [server EXCEPT ![p] = "launched"]
          /\ process' = [process EXCEPT ![owner] = p]
          /\ lost' = IF Polled(owner) THEN lost \cup {process[owner]} ELSE lost
      BY <2>1 DEF Launch
    <3>3. owner \in Clients
      BY OwnersAreClients
    <3>4. life[owner] \in {"entering", "checking", "open"}
      BY <3>2, ServerAssumption DEF Owner, Starters
    <3> HIDE DEF p, owner
    <3>5. ASSUME NEW q \in Servers, q # p, Running(q)'
          PROVE  \/ q \in lost'
                 \/ \E c \in Clients :
                      process'[c] = q /\ life'[c] \in {"entering", "checking", "open"}
      <4>1. Running(q)
        BY <3>1, <3>2, <3>5
      <4>2. CASE q \in lost
        BY <3>2, <4>2
      <4>3. ASSUME NEW c \in Clients, process[c] = q,
                   life[c] \in {"entering", "checking", "open"}
            PROVE  \/ q \in lost'
                   \/ process'[c] = q /\ life'[c] \in {"entering", "checking", "open"}
        <5>1. CASE c = owner
          <6>1. Polled(owner)
            BY <4>1, <4>3, <5>1, ServerAssumption DEF Polled
          <6> QED BY <3>2, <4>3, <5>1, <6>1
        <5>2. CASE c # owner
          BY <3>2, <3>3, <4>3, <5>2
        <5> QED BY <5>1, <5>2
      <4> QED BY <4>1, <4>2, <4>3
    <3>6. process'[owner] = p /\ life'[owner] \in {"entering", "checking", "open"}
      BY <3>2, <3>3, <3>4
    <3> QED BY <3>3, <3>5, <3>6
  <2>2. CASE ~Launch(s)
    <3>1. UNCHANGED <<life, process, server, lost>>
      BY <1>3, <2>2 DEF Start, EnsureAvailable, StartServer, Poll, LaunchFails,
                        WaitUntilReady, WaitTimesOut
    <3> QED BY <3>1
  <2> QED BY <2>1, <2>2
<1>4. ASSUME NEW c \in Clients, Client(c)
      PROVE  NothingElseLeaks'
  <2>1. CASE Enter(c) \/ Entered(c) \/ Checked(c)
    <3>1. /\ UNCHANGED <<process, server, lost>>
          /\ \E to \in {"entering", "checking", "open"} : life' = [life EXCEPT ![c] = to]
      BY <2>1 DEF Enter, Entered, Checked
    <3> QED BY <3>1
  <2>2. CASE EnterFails(c)
    <3>1. /\ UNCHANGED <<process, server>>
          /\ life' = [life EXCEPT ![c] = "failed"]
          /\ lost' = IF Polled(c) THEN lost \cup {process[c]} ELSE lost
      BY <2>2 DEF EnterFails
    <3>2. \A q \in Servers : Running(q) /\ process[c] = q => Polled(c)
      BY ServerAssumption DEF Polled
    <3> QED BY <3>1, <3>2
  <2>3. CASE Exit(c)
    <3>1. /\ life' = [life EXCEPT ![c] = "closed"] /\ lost' = lost
          /\ process' = [process EXCEPT ![c] = None]
          /\ server' = IF Polled(c) THEN [server EXCEPT ![process[c]] = "dead"] ELSE server
      BY <2>3 DEF Exit, StopServer
    <3>2. \A q \in Servers : Running(q) /\ process[c] = q => Polled(c)
      BY ServerAssumption DEF Polled
    <3>3. \A q \in Servers : Running(q)' => Running(q) /\ process[c] # q
      BY <3>1, <3>2
    <3> QED BY <3>1, <3>3
  <2> QED BY <1>4, <2>1, <2>2, <2>3 DEF Client
<1>5. CASE Server
  <2>1. UNCHANGED <<life, start, process, lost>>
    BY <1>5, ServerSteps
  <2>2. PICK p \in Servers, to \in {"loading", "serving", "dead"} :
          Running(p) /\ server' = [server EXCEPT ![p] = to]
    BY <1>5, ServerSteps
  <2>3. \A q \in Servers : Running(q)' => Running(q)
    BY <2>2
  <2> QED BY <2>1, <2>3
<1> QED BY <1>1, <1>2, <1>3, <1>4, <1>5, StepKinds

\* The server of a llama.cpp client is stopped when the client is left: but for
\* two threads that launch at once and an entry given up while the server
\* loads, no server outlives the client that launched it (LlamaCppClient's
\* start_server, __enter__ and stop_server), however many threads, clients,
\* deaths and launches there are.
THEOREM ServersAreStopped == Spec => []NothingElseLeaks
<1>1. Init => NothingElseLeaks
  BY LeaksInit
<1>2. ClientsInv /\ NothingElseLeaks /\ [Next]_vars => NothingElseLeaks'
  BY LeaksNext
<1> QED BY <1>1, <1>2, ClientsHold, PTL DEF Spec

----------------------------------------------------------------------------
\* Threads that left the throttle and have not sent their request.
Released == {s \in Callers : chat[s].pc = "post"}

\* The requests sent, with those about to be, took a delay each up to the last
\* time the throttle was left.
RateInv ==
  /\ sent \in Nat /\ clock \in Nat /\ lastAt \in Int
  /\ config.kind = "gemini" /\ config.delay > 0 =>
       /\ lastAt <= clock
       /\ IsFiniteSet(Released)
       /\ (sent + Cardinality(Released)) * config.delay <= lastAt + config.delay

LEMMA RateInit == Init => RateInv
<1> SUFFICES ASSUME Init
             PROVE  RateInv
  OBVIOUS
<1>1. config.delay \in Nat /\ sent = 0 /\ clock = 0 /\ lastAt = -config.delay
  BY ClientAssumption DEF Init
<1>2. Released = {}
  BY DEF Init, Released, NoCall
<1>3. IsFiniteSet(Released) /\ Cardinality(Released) = 0
  BY <1>2, FS_EmptySet
<1> QED BY <1>1, <1>3 DEF RateInv

\* With a throttle every attempt of a call goes through it.
LEMMA EntersByThrottle ==
  ASSUME ClientsInv, config.kind = "gemini", config.delay > 0, NEW s \in Callers,
         ChatJson(s) \/ Ensured(s) \/ AcquireThrottle(s)
           \/ \E reply \in Replies : Reply(s, reply)
  PROVE  UNCHANGED <<config, clock, lastAt, sent>> /\ Released' = Released
<1> USE DEF ClientsInv
<1>1. FirstStep = "throttle" /\ chat[s].pc # "ensure"
  BY DEF FirstStep
<1>2. ASSUME NEW pc \in Posts \ {"post"}, chat[s].pc # "post",
             UNCHANGED <<config, clock, lastAt, sent>>, chat'[s].pc = pc,
             \A r \in Callers : r # s => chat'[r] = chat[r]
      PROVE  UNCHANGED <<config, clock, lastAt, sent>> /\ Released' = Released
  BY <1>2 DEF Released
<1>3. \A r \in Callers : r # s => chat'[r] = chat[r]
  BY ThreadSteps DEF Thread
<1>4. CASE ChatJson(s)
  <2>1. chat[s].pc # "post" /\ chat'[s].pc = "throttle"
        /\ UNCHANGED <<config, clock, lastAt, sent>>
    BY <1>1, <1>4 DEF ChatJson
  <2> QED BY <1>2, <1>3, <2>1 DEF Posts
<1>5. CASE Ensured(s)
  BY <1>1, <1>5 DEF Ensured
<1>6. CASE AcquireThrottle(s)
  <2>1. chat[s].pc # "post" /\ chat' = [chat EXCEPT ![s].pc = "sleep"]
        /\ UNCHANGED <<config, clock, lastAt, sent>>
    BY <1>6 DEF AcquireThrottle, To
  <2>2. chat'[s].pc = "sleep"
    BY <2>1 DEF CallsMade
  <2> QED BY <1>2, <1>3, <2>1, <2>2 DEF Posts
<1>7. ASSUME NEW reply \in Replies, Reply(s, reply)
      PROVE  UNCHANGED <<config, clock, lastAt, sent>> /\ Released' = Released
  <2>1. chat[s].pc # "post" /\ UNCHANGED <<config, clock, lastAt, sent>>
        /\ (Again(s, reply) \/ Ends(s, reply))
    BY <1>7 DEF Reply
  <2>2. chat'[s].pc \in {"throttle", "done"}
    <3>1. CASE Again(s, reply)
      BY <1>1, <3>1 DEF Again, CallsMade
    <3>2. CASE Ends(s, reply)
      BY <3>2 DEF Ends, CallsMade
    <3> QED BY <2>1, <3>1, <3>2
  <2> QED BY <1>2, <1>3, <2>1, <2>2 DEF Posts
<1> QED BY <1>4, <1>5, <1>6, <1>7

LEMMA RateNext == ClientsInv /\ RateInv /\ [Next]_vars => RateInv'
<1> SUFFICES ASSUME ClientsInv, RateInv, [Next]_vars
             PROVE  RateInv'
  OBVIOUS
<1> DEFINE d == config.delay
           n == Cardinality(Released)
<1>1. config' = config /\ d \in Nat
  BY ClientAssumption, StepKinds, ThreadSteps DEF ClientsInv, chatVars
<1>2. CASE UNCHANGED <<chat, sent, lastAt, clock>>
  BY <1>1, <1>2 DEF RateInv, Released
<1>3. CASE Tick
  BY <1>1, <1>3 DEF Tick, RateInv, Released
<1>4. ASSUME NEW s \in Callers, Thread(s)
      PROVE  RateInv'
  <2>1. sent' \in Nat /\ clock' \in Nat /\ lastAt' \in Int
    BY <1>4 DEF Thread, ChatJson, Ensured, AcquireThrottle, ReleaseThrottle, Post, Reply,
                RateInv
  <2>2. CASE ~(config.kind = "gemini" /\ d > 0)
    BY <1>1, <2>1, <2>2 DEF RateInv
  <2> SUFFICES ASSUME config.kind = "gemini", d > 0
               PROVE  RateInv'
    BY <2>2
  <2>3. /\ sent \in Nat /\ clock \in Nat /\ lastAt \in Int
        /\ lastAt <= clock /\ IsFiniteSet(Released) /\ (sent + n) * d <= lastAt + d
        /\ n \in Nat
    BY FS_CardinalityType DEF RateInv
  <2>4. CASE ChatJson(s) \/ Ensured(s) \/ AcquireThrottle(s)
               \/ \E reply \in Replies : Reply(s, reply)
    <3>1. UNCHANGED <<config, clock, lastAt, sent>> /\ Released' = Released
      BY <2>4, EntersByThrottle
    <3> QED BY <2>3, <3>1 DEF RateInv
  <2>5. CASE ReleaseThrottle(s)
    <3>1. /\ chat[s].pc = "sleep" /\ clock >= lastAt + d
          /\ lastAt' = clock /\ UNCHANGED <<sent, clock>>
          /\ chat' = [chat EXCEPT ![s].pc = "post"]
      BY <2>5 DEF ReleaseThrottle, To
    <3>2. Released' = Released \cup {s} /\ s \notin Released
      BY <3>1 DEF Released, ClientsInv, CallsMade
    <3>3. IsFiniteSet(Released') /\ Cardinality(Released') = n + 1
      BY <2>3, <3>2, FS_AddElement
    <3>4. (sent + (n + 1)) * d = (sent + n) * d + d
      BY <1>1, <2>3
    <3> QED BY <1>1, <2>1, <2>3, <3>1, <3>3, <3>4 DEF RateInv
  <2>6. CASE Post(s)
    <3>1. /\ chat[s].pc = "post" /\ sent' = sent + 1 /\ UNCHANGED <<lastAt, clock>>
          /\ chat' = [chat EXCEPT ![s].pc = "wait"]
      BY <2>6 DEF Post, To
    <3>2. Released' = Released \ {s} /\ s \in Released
      BY <3>1 DEF Released, ClientsInv, CallsMade
    <3>3. IsFiniteSet(Released') /\ Cardinality(Released') = n - 1
      BY <2>3, <3>2, FS_RemoveElement
    <3>4. sent' + (n - 1) = sent + n
      BY <2>3, <3>1
    <3> QED BY <1>1, <2>1, <2>3, <3>1, <3>3, <3>4 DEF RateInv
  <2> QED BY <1>4, <2>4, <2>5, <2>6 DEF Thread
<1> QED BY <1>2, <1>3, <1>4 DEF Next, Finished, vars, chatVars

\* The clients of gemini keep the rate of the free tier over the life of the
\* process (gemini_client.py's _throttle and its lock), for any number of
\* threads, attempts and calls and any delay.
THEOREM RateIsKept == Spec => []RateKept
<1>1. Init => RateInv
  BY RateInit
<1>2. ClientsInv /\ RateInv /\ [Next]_vars => RateInv'
  BY RateNext
<1>3. ClientsInv /\ RateInv => RateKept
  <2> SUFFICES ASSUME ClientsInv, RateInv, config.kind = "gemini"
               PROVE  (sent - 1) * config.delay <= clock
    BY DEF RateKept
  <2> DEFINE d == config.delay
             n == Cardinality(Released)
  <2>1. d \in Nat /\ sent \in Nat /\ clock \in Nat /\ lastAt \in Int
    BY ClientAssumption DEF ClientsInv, RateInv
  <2>2. CASE d = 0
    BY <2>1, <2>2
  <2>3. CASE d > 0
    <3>1. /\ lastAt <= clock /\ n \in Nat /\ (sent + n) * d <= lastAt + d
      BY <2>3, FS_CardinalityType DEF RateInv
    <3> HIDE DEF n, d
    <3>2. (sent - 1) * d = sent * d - d /\ (sent + n) * d = sent * d + n * d
      BY <2>1, <3>1
    <3>3. n * d >= 0 /\ n * d \in Int /\ sent * d \in Int
      BY <2>1, <3>1
    <3>4. (sent - 1) * d <= clock
      BY <2>1, <3>1, <3>2, <3>3
    <3> QED BY <3>4 DEF d
  <2> QED BY <2>1, <2>2, <2>3
<1> QED BY <1>1, <1>2, <1>3, ClientsHold, PTL DEF Spec
=============================================================================
