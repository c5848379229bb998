------------------------------ MODULE ChatClient ------------------------------
(***************************************************************************)
(* chat_json of the four chat clients (anthropic_client.py,                *)
(* gemini_client.py, ollama_client.py, llama_cpp_client.py), called by the *)
(* threads of the committees' pools: attempts, what is tried again, the    *)
(* throttle that all Gemini clients of the process share, and the server   *)
(* of llama.cpp.                                                           *)
(*                                                                         *)
(* A reply is a class: "good" (a JSON object in the text), "text" (no text *)
(* in the reply, or no JSON object in the text), "odd" (JSON, but no       *)
(* object, or a null where the client reads on without a look), "garbled"  *)
(* (the body is not JSON), "busy" (429, 5xx), "conflict" (408, 409),       *)
(* "refused" (another error status), "lost" (no reply).  The sleeps        *)
(* between attempts take any time; only the throttle's needs a clock.      *)
(***************************************************************************)
EXTENDS LlamaServer, Integers

CONSTANTS
  Configs,   \* [kind, attempts, delay, log]: the backend of the process, the
             \* attempts of a call, the throttle in ticks, LIBRA_LLM_USAGE_LOG
  MaxCalls,  \* bound: calls of a thread
  MaxTime    \* bound: ticks before those of a sleep

Kinds == {"anthropic", "gemini", "ollama", "llama_cpp"}
Replies == {"good", "text", "odd", "garbled", "busy", "conflict", "refused", "lost"}

ASSUME ClientAssumption ==
  /\ Configs \subseteq [kind : Kinds, attempts : Nat \ {0}, delay : Nat,
                       log : BOOLEAN]
  /\ \A g \in Configs : g.kind \in {"ollama", "llama_cpp"} => g.attempts = 1
  /\ MaxCalls \in Nat /\ MaxTime \in Nat

VARIABLES
  config,   \* what the process was configured with
  chat,     \* call of a thread: where it is, its attempt, its end
  calls,    \* calls a thread made
  lock,     \* who holds _throttle_lock
  lastAt,   \* _last_generate_at
  clock,
  sent      \* requests sent

chatVars == <<config, chat, calls, lock, lastAt, clock, sent>>
vars == <<serverVars, chatVars>>

NoCall == [pc |-> "idle", attempt |-> 0, end |-> "none"]

Init ==
  /\ ServerInit
  /\ config \in Configs
  /\ chat = [s \in Callers |-> NoCall]
  /\ calls = [s \in Callers |-> 0]
  /\ lock = None /\ lastAt = -config.delay /\ clock = 0 /\ sent = 0

To(s, pc) == chat' = [chat EXCEPT ![s].pc = pc]

\* A client without a server of its own is open from the start to the end.
InRun(s) == config.kind = "llama_cpp" => life[ClientOf[s]] = "open"

(***************************************************************************)
(* A call                                                                  *)
(***************************************************************************)
FirstStep ==
  CASE config.kind = "gemini" /\ config.delay > 0 -> "throttle"
    [] config.kind = "llama_cpp" -> "ensure"
    [] OTHER -> "post"

ChatJson(s) ==
  /\ chat[s].pc \in {"idle", "done"} /\ InRun(s) /\ calls[s] < MaxCalls
  /\ calls' = [calls EXCEPT ![s] = @ + 1]
  /\ chat' = [chat EXCEPT ![s] = [pc |-> FirstStep, attempt |-> 1, end |-> "none"]]
  /\ IF FirstStep = "ensure" THEN Goes(s, "ensure") ELSE UNCHANGED start
  /\ UNCHANGED <<life, process, server, lost, deaths, config, lock, lastAt, clock, sent>>

Ensured(s) ==
  /\ chat[s].pc = "ensure" /\ start[s] \in {"ready", "failed"}
  /\ chat' = [chat EXCEPT ![s].pc = IF start[s] = "ready" THEN "post" ELSE "done",
                          ![s].end = IF start[s] = "ready" THEN "none"
                                     ELSE "ChatClientError"]
  /\ Goes(s, "idle")
  /\ UNCHANGED <<life, process, server, lost, deaths, config, calls, lock, lastAt, clock,
                 sent>>

\* The lock is held while sleeping.
AcquireThrottle(s) ==
  /\ chat[s].pc = "throttle" /\ lock = None
  /\ lock' = s /\ To(s, "sleep")
  /\ UNCHANGED <<serverVars, config, calls, lastAt, clock, sent>>

\* time.monotonic() is read again behind the sleep.
ReleaseThrottle(s) ==
  /\ chat[s].pc = "sleep" /\ clock >= lastAt + config.delay
  /\ lastAt' = clock /\ lock' = None
  /\ To(s, "post")
  /\ UNCHANGED <<serverVars, config, calls, clock, sent>>

Post(s) ==
  /\ chat[s].pc = "post"
  /\ sent' = sent + 1
  /\ To(s, "wait")
  /\ UNCHANGED <<serverVars, config, calls, lock, lastAt, clock>>

Retried ==
  CASE config.kind = "anthropic" -> {"text", "garbled", "busy", "conflict", "lost"}
    [] config.kind = "gemini" -> {"busy", "lost"}
    [] OTHER -> {}

\* httpx and the client's own errors are wrapped; a body that is not JSON
\* leaves all clients but Anthropic's as the decoder's ValueError.  Only Gemini's
\* client looks at the shape of the whole body; the others fail on an odd one as
\* Python does, and do not try again.
EndOf(reply) ==
  CASE reply = "good" -> "answer"
    [] reply = "garbled" /\ config.kind # "anthropic" -> "ValueError"
    [] reply = "odd" /\ config.kind # "gemini" -> "AttributeError"
    [] OTHER -> "ChatClientError"

\* Gemini's log of a body that is an object is written without a try, Anthropic's
\* with one; the other clients have none.
LogFails(reply) ==
  IF config.kind = "gemini" /\ config.log /\ reply \in {"good", "text", "odd"}
  THEN {"OSError"} ELSE {}

EndsOf(reply) == {EndOf(reply)} \cup LogFails(reply)

Sendable == IF config.kind = "llama_cpp" /\ ~IsHealthy THEN {"lost"} ELSE Replies

AttemptsLeft(s) == chat[s].attempt < config.attempts

AgainUnthrottled(s, reply) ==
  /\ reply \in Retried /\ AttemptsLeft(s)
  /\ chat' = [chat EXCEPT ![s].pc = "post", ![s].attempt = @ + 1]

Again(s, reply) ==
  /\ reply \in Retried /\ AttemptsLeft(s)
  /\ chat' = [chat EXCEPT ![s].pc = IF FirstStep = "throttle" THEN "throttle" ELSE "post",
                          ![s].attempt = @ + 1]

Ends(s, reply) ==
  /\ reply \in Retried => ~AttemptsLeft(s)
  /\ \E end \in EndsOf(reply) :
       chat' = [chat EXCEPT ![s].pc = "done", ![s].end = end]

Reply(s, reply) ==
  /\ chat[s].pc = "wait" /\ reply \in Sendable
  /\ Again(s, reply) \/ Ends(s, reply)
  /\ UNCHANGED <<serverVars, config, calls, lock, lastAt, clock, sent>>

\* Idle time is bounded, the time of a sleep is not.
Tick ==
  /\ clock < MaxTime \/ (lock # None /\ clock < lastAt + config.delay)
  /\ clock' = clock + 1
  /\ UNCHANGED <<serverVars, config, chat, calls, lock, lastAt, sent>>

(***************************************************************************)
(* The process                                                             *)
(***************************************************************************)
Uses == config.kind = "llama_cpp"
Thread(s) == ChatJson(s) \/ Ensured(s) \/ AcquireThrottle(s) \/ ReleaseThrottle(s)
             \/ Post(s) \/ \E reply \in Replies : Reply(s, reply)

Finished ==
  /\ \A s \in Callers : chat[s].pc \in {"idle", "done"}
  /\ UNCHANGED vars

\* A client is left only when no thread of its pool is in a call.
Leaves(c) == life'[c] = "closed" /\ life[c] = "open" =>
               \A s \in Callers : ClientOf[s] = c => chat[s].pc \in {"idle", "done"}

Next ==
  \/ \E s \in Callers : Thread(s)
  \/ Tick
  \/ /\ Uses
     /\ \/ \E s \in Starters : Start(s)
        \/ \E c \in Clients : Client(c) /\ Leaves(c)
        \/ Server
     /\ UNCHANGED chatVars
  \/ Finished

Spec == Init /\ [][Next]_vars

\* A thread in a call goes on, also through the sleeps and timeouts of its
\* call; time passes.
CallStep(s) == Thread(s) /\ chat[s].pc \notin {"idle", "done"}
Fairness ==
  /\ \A s \in Callers : WF_vars(CallStep(s))
  /\ \A s \in Starters : WF_vars(Uses /\ Start(s) /\ UNCHANGED chatVars)
  /\ WF_vars(Tick)
FairSpec == Spec /\ Fairness

(***************************************************************************)
(* Properties                                                              *)
(***************************************************************************)
\* The free tier's rate is kept over the life of the process: retries and the
\* calls of all threads together send no more than one request per delay, and
\* one at once, however long a thread that has left the throttle waits.
RateKept == config.kind = "gemini" => (sent - 1) * config.delay <= clock

\* Every call returns or raises.
EveryCallEnds ==
  \A s \in Callers : chat[s].pc \notin {"idle", "done"} ~> chat[s].pc = "done"
=============================================================================
