------------------------------ MODULE TaskPool ------------------------------
(***************************************************************************)
(* What a caller of utils.GoPool relies on, and all that the hub's model   *)
(* assumes of it: tasks wait in a pool of bounded size, a bounded number   *)
(* of them run at a time, and each is run once.                            *)
(***************************************************************************)
EXTENDS Naturals, FiniteSets

CONSTANTS Tasks, Workers, Queue

VARIABLE at    \* per task: "new", "pooled", "running", "done" or "refused"

In(stages) == {t \in Tasks : at[t] \in stages}
Move(t, from, next) == at[t] = from /\ at' = [at EXCEPT ![t] = next]

Init == at = [t \in Tasks |-> "new"]

Schedule(t) ==
  /\ Cardinality(In({"pooled", "running"})) < Workers + Queue
  /\ Move(t, "new", "pooled")

Start(t) ==
  /\ Cardinality(In({"running"})) < Workers
  /\ Move(t, "pooled", "running")

Finish(t) == Move(t, "running", "done")

Refuse(t) == Move(t, "new", "refused")

Next == \E t \in Tasks : Schedule(t) \/ Start(t) \/ Finish(t) \/ Refuse(t)

Spec == Init /\ [][Next]_at
=============================================================================
