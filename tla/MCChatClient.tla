----------------------------- MODULE MCChatClient -----------------------------
(* Instance of ChatClient for TLC.                                             *)
EXTENDS ChatClient, TLC
CONSTANTS c1, c2, a1, a2, p1, p2, p3

\* Two threads share a client; the other client is entered and left meanwhile.
MCClientOf == (a1 :> c1) @@ (a2 :> c1)

MCConfigs ==
  {[kind |-> "anthropic", attempts |-> 3, delay |-> 0, log |-> FALSE],
   [kind |-> "gemini", attempts |-> 2, delay |-> 2, log |-> TRUE],
   [kind |-> "ollama", attempts |-> 1, delay |-> 0, log |-> FALSE],
   [kind |-> "llama_cpp", attempts |-> 1, delay |-> 0, log |-> FALSE]}
=============================================================================
