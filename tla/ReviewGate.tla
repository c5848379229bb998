----------------------------- MODULE ReviewGate -----------------------------
(***************************************************************************)
(* What human review promises, seen from one thread: a run works until it  *)
(* decides; a decision that needs approval is put to the user, and only    *)
(* the user's answer ends that run; a new run may replace what there is.   *)
(***************************************************************************)
CONSTANT Threads

VARIABLE phase

Phases == {"fresh", "working", "decided", "asked", "answered", "finished"}

TypeOK == phase \in [Threads -> Phases]

Init == phase = [t \in Threads |-> "fresh"]

Move(t, from, to) ==
  /\ phase[t] \in from
  /\ phase' = [phase EXCEPT ![t] = to]

Begin(t)  == Move(t, Phases, "working")
Decide(t) == Move(t, {"working"}, "decided")
Ask(t)    == Move(t, {"decided"}, "asked")
Answer(t) == Move(t, {"asked"}, "answered")
Finish(t) == Move(t, {"working"}, "finished")

Next == \E t \in Threads :
          Begin(t) \/ Decide(t) \/ Ask(t) \/ Answer(t) \/ Finish(t)

Spec == Init /\ [][Next]_phase
=============================================================================
