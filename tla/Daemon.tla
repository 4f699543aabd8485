------------------------------- MODULE Daemon -------------------------------
(***************************************************************************)
(* The program from its launch to its end (cmd/stoatcord/main.go): the     *)
(* lock and the database (Migrations), then the mirror (Access), whose end *)
(* frees the lock for the next process.  What other processes try          *)
(* meanwhile, the lock turns away.                                         *)
(***************************************************************************)
EXTENDS Access, Migrations

vars == <<avars, dvars>>

Init == AInit /\ MInit

(* One process comes to mirror; those before it died or were refused.       *)
Deploying == At("down") /\ holder = Nobody /\ Deploy /\ UNCHANGED avars

OpenStore(p) == At("down") /\ Opening(p) /\ UNCHANGED avars

(* A process that was refused the database ends.                            *)
Refusal(p) == stage[p] = "refused" /\ Exit(p) /\ UNCHANGED avars

HasStore == \E p \in Procs : stage[p] = "open"

(* main goes on with the store it has opened ...                            *)
RunMain == HasStore /\ Main /\ UNCHANGED dvars

RunOp(e) == (Work(e) \/ OpFails(e)) /\ UNCHANGED dvars

DiscordOrUser == HasStore /\ Happens /\ UNCHANGED dvars

(* ... and ends, with its ops wherever they are.                            *)
Leave(p) == At("ended") /\ stage[p] = "open" /\ Exit(p) /\ UNCHANGED avars

Next ==
  \/ Deploying \/ RunMain \/ DiscordOrUser
  \/ \E p \in Procs : OpenStore(p) \/ Refusal(p) \/ Leave(p)
  \/ \E e \in Entity : RunOp(e)

(* Main's goroutine and the engine's are scheduled, and requests answered.  *)
Fairness ==
  /\ WF_vars(RunMain \/ \E p \in Procs : Leave(p))
  /\ WF_vars(\E e \in Entity : RunOp(e))

Spec == Init /\ [][Next]_vars /\ Fairness
-----------------------------------------------------------------------------
(* Once somebody asks the program to end, it gives its lock back, so that   *)
(* the next one can start: whatever op waits for a role that never comes.   *)
SignalFreesLock == signalled ~> holder = Nobody
=============================================================================
