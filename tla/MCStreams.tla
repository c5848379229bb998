------------------------------ MODULE MCStreams ------------------------------
(***************************************************************************)
(* Instance of RunService and EventStream for TLC. They share nothing: a   *)
(* behaviour is that of the service or of the events of one execution, and *)
(* the other has not begun or was left at once by its client.              *)
(***************************************************************************)
EXTENDS MCRunService, EventStream

VARIABLE part
streamsVars == <<part, vars, streamVars>>

Left ==
  /\ graph = "over" /\ core = "idle" /\ agent = [a \in Agents |-> "idle"]
  /\ ready = <<>> /\ stream = <<>> /\ collector = "done"
  /\ queue = <<Sentinel>> /\ generator = "gone"
  /\ sent = <<>> /\ published = <<>>

StreamsInit ==
  \/ part = "service" /\ Init /\ Left
  \/ part = "events" /\ Init /\ StreamInit

StreamsNext ==
  \/ part = "service" /\ Next /\ UNCHANGED <<part, streamVars>>
  \/ part = "events" /\ StreamNext /\ UNCHANGED <<part, vars>>

StreamsSpec ==
  StreamsInit /\ [][StreamsNext]_streamsVars /\ Fairness /\ StreamFairness
=============================================================================
