--------------------------- MODULE SerializedOps ----------------------------
(***************************************************************************)
(* What Submit promises its callers, with no queue, waiter list or worker  *)
(* in sight: an op that was accepted runs at most once, alone among the    *)
(* ops of its key, and only after everything it depends on has landed.     *)
(***************************************************************************)
CONSTANTS
  Ops,      \* the ops: records with fields entity and deps at least
  Key,      \* [Ops -> serialization keys]
  Premapped \* entities that had landed before the start

VARIABLES accepted, running, done, landed

vars == <<accepted, running, done, landed>>

Init == accepted = {} /\ running = {} /\ done = {} /\ landed = Premapped

Accept(op) ==
  /\ op \notin accepted
  /\ accepted' = accepted \cup {op}
  /\ UNCHANGED <<running, done, landed>>

Start(op) ==
  /\ op \in accepted \ (running \cup done)
  /\ \A other \in running : Key[other] # Key[op]
  /\ op.deps \subseteq landed
  /\ running' = running \cup {op}
  /\ UNCHANGED <<accepted, done, landed>>

(* A create or an update confirmed its entity.                              *)
Land(op) ==
  /\ op \in running
  /\ landed' = landed \cup {op.entity}
  /\ UNCHANGED <<accepted, running, done>>

Finish(op) ==
  /\ op \in running
  /\ running' = running \ {op}
  /\ done' = done \cup {op}
  /\ UNCHANGED <<accepted, landed>>

Next == \E op \in Ops : Accept(op) \/ Start(op) \/ Land(op) \/ Finish(op)

Spec == Init /\ [][Next]_vars
=============================================================================
