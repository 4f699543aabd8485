-------------------------- MODULE EngineProperties --------------------------
(***************************************************************************)
(* What the engine of module Engine should guarantee.                      *)
(***************************************************************************)
EXTENDS Engine

RangeOf(s) == {s[i] : i \in DOMAIN s}

(* Every variable but wg holds a value of the kind the code stores there.   *)
StateTypeOK ==
  /\ submitted \subseteq Ops /\ calling \subseteq Ops /\ finished \subseteq Ops
  /\ sent \in Seq(Ops)
  /\ queue \in [Keys -> Seq(Ops)]
  /\ waiters \in [Entities -> Seq(Ops)]
  /\ worker \in [Keys -> WorkerType]
  /\ rows \in [Entities -> RowType] /\ landed \subseteq Entities
  /\ stoat \subseteq StoatType /\ nextId \in Nat \ {0}
  /\ discordReady \in BOOLEAN /\ stoatReady \in BOOLEAN
  /\ opQueue \subseteq Ops /\ faults \in Nat /\ outages \in Nat

(* All of it, the WaitGroup counter included, which Go panics on when it    *)
(* drops below zero.                                                        *)
TypeOK == StateTypeOK /\ wg \in Nat

-----------------------------------------------------------------------------
(* Where an op is: on its way into a channel, in a channel, in a worker's   *)
(* hands, set aside, being pushed back by another worker, or finished.      *)
QueuedAt(op) == {k \in Keys : op \in RangeOf(queue[k])}
HeldBy(op)   == {k \in Keys : worker[k].op = op}
PushedBy(op) == {k \in Keys : op \in RangeOf(worker[k].pushing)}
WaitsFor(op) == {e \in Entities : op \in RangeOf(waiters[e])}

PlaceSet(calls, queued, held, pushed, waiting, over) ==
  UNION { IF calls THEN {<<"calling", Null>>} ELSE {},
          {"queued"} \X queued, {"held"} \X held, {"pushed"} \X pushed,
          {"waiting"} \X waiting,
          IF over THEN {<<"finished", Null>>} ELSE {} }

Places(op) == PlaceSet(op \in calling, QueuedAt(op), HeldBy(op), PushedBy(op),
                       WaitsFor(op), op \in finished)

NoDuplicates(s) == \A i, j \in DOMAIN s : s[i] = s[j] => i = j

(* Deferring, notifying and re-queueing neither lose an op nor run it       *)
(* twice: a submitted op is in exactly one place, once, and any other is    *)
(* nowhere.                                                                 *)
NoOpLostOrDuplicated ==
  /\ \A op \in submitted : \E place \in Places(op) : Places(op) = {place}
  /\ \A op \in Ops \ submitted : Places(op) = {}
  /\ \A k \in Keys : NoDuplicates(queue[k]) /\ NoDuplicates(worker[k].pushing)
  /\ \A e \in Entities : NoDuplicates(waiters[e])

(* The WaitGroup counts exactly the ops Submit took and tryRun has not      *)
(* finished, deferred ones included, so Wait returns when all are done.     *)
WaitCountsUnfinished == wg = Cardinality(submitted \ finished) /\ finished \subseteq submitted

(* The ops whose dependency check is over: what SerializedOps calls running. *)
Running == {worker[k].op : k \in {k \in Keys :
              worker[k].pc \notin {"idle", "defer"} /\ ~(At(k, "deps") /\ worker[k].todo # {})}}

Serialized == INSTANCE SerializedOps WITH
  Key <- [op \in Ops |-> IF op.channel = Null THEN <<"entity", op.entity>>
                                               ELSE <<"channel", op.channel>>],
  Premapped <- {Mirrored[i] : i \in DOMAIN Mirrored},
  accepted <- submitted, running <- Running, done <- finished

(* Queues, waiters and workers together keep what Submit promises.          *)
ImplementsSerializedOps == Serialized!Spec

-----------------------------------------------------------------------------
(* No Stoat id is the mapping of two Discord entities.                      *)
MappedIdsDistinct ==
  \A d, e \in Entities : rows[d].id = rows[e].id /\ rows[d].id # NoId => d = e

(* A mapping keeps its Stoat id through pending windows, failures and       *)
(* retries, until a delete removes the row.                                 *)
IdentityKept ==
  [][\A e \in Entities :
       rows[e].id # NoId => rows'[e].id = rows[e].id \/ rows'[e] = Absent]_rows

(* Without failures, an entity has at most one object on Stoat, whatever    *)
(* creates, updates and deletes of it are queued or set aside.              *)
OneLiveCopy ==
  \A o, p \in stoat : o.entity = p.entity => o.id = p.id

(* Objects on Stoat that no mapping row and no worker knows of any more.    *)
Orphans ==
  {o \in stoat : /\ \A e \in Entities : rows[e].id # o.id
                 /\ \A k \in Keys : ~(At(k, "confirm") /\ worker[k].call.id = o.id)}

(* Every such object goes back to a failure of its own: the engine's order  *)
(* of writes never loses track of more than one object per failed step.     *)
OrphansBlamed == Cardinality(Orphans) <= faults

(* Active rows of roles and channels that name nothing on Stoat, although   *)
(* no worker is about to remove them.                                       *)
StaleRows ==
  {e \in Roles \cup Channels :
     /\ Active(rows[e]) /\ ~Live(rows[e].id)
     /\ \A k \in Keys : ~(At(k, "remove") /\ worker[k].op.entity = e)}

(* A mapping outlives the object it names only through a failed step: every *)
(* other delete takes the row along.                                        *)
StaleRowsBlamed == Cardinality(StaleRows) <= faults

(* Every mapped message belongs to a mapped channel, whatever is deleted    *)
(* while its create is on the way.                                          *)
MessageRowsHaveChannel ==
  \A m \in Messages : Found(rows[m]) => Found(rows[rows[m].channel])

-----------------------------------------------------------------------------
InFlight(e) == \E op \in submitted \ finished : op.entity = e

(* The i-th op sent is the last one sent for its entity.                    *)
IsLast(i) == \A j \in DOMAIN sent : sent[j].entity = sent[i].entity => j <= i

(* Once nothing is in flight for an entity, Stoat shows what the op sent    *)
(* last asked for.  (A message goes with its channel.)                      *)
MirrorsLastOp ==
  \A i \in DOMAIN sent :
    LET last == sent[i] IN
    IsLast(i) /\ ~InFlight(last.entity) =>
      IF last.kind = "delete"
      THEN \A o \in stoat : o.entity # last.entity
      ELSE \/ \E o \in stoat : o.entity = last.entity /\ o.state = last.state
           \/ last.channel # Null /\ ~Live(rows[last.channel].id)

(* The i-th op sent is the one that brings its message to Stoat: the first  *)
(* for a message that nothing sent so far deletes.                          *)
Introduces(i) ==
  /\ sent[i].channel # Null
  /\ \A x \in DOMAIN sent : sent[x].entity = sent[i].entity =>
       x >= i /\ sent[x].kind # "delete"

(* Messages of a channel appear on Stoat, whose ids grow, in the order      *)
(* they were sent to the engine.                                            *)
SendOrderIsDisplayOrder ==
  \A i, j \in DOMAIN sent :
    i < j /\ Introduces(i) /\ Introduces(j) /\ sent[i].channel = sent[j].channel =>
      \A o, p \in stoat : o.entity = sent[i].entity /\ p.entity = sent[j].entity => o.id < p.id

(* An op that finishes because Diff found nothing to do is one whose state  *)
(* Stoat does show.                                                         *)
SkippedOnlyWhenMirrored ==
  [][\A k \in Keys : SkipEqual(k) =>
       \E o \in stoat : /\ o.id = rows[worker[k].op.entity].id
                        /\ o.state = worker[k].op.state]_vars

(* A dry run reads the mapping tables and writes to neither side.           *)
DryRunWritesNothing == [][dryRun => UNCHANGED world]_vars

(* What no other op can come before, as it waits for nothing.               *)
Unheld(e) == \A op \in Ops : op.entity = e => op.deps = {}

Shows(op) ==
  IF op.kind = "delete" THEN \A o \in stoat : o.entity # op.entity
  ELSE \E o \in stoat : o.entity = op.entity /\ o.state = op.state

(* Entities whose last op is over, and neither on Stoat nor in op_queue.    *)
Missed ==
  {e \in Roles \cup Channels : Unheld(e) /\ ~InFlight(e) /\ ~dryRun /\
     \E i \in DOMAIN sent :
       sent[i].entity = e /\ IsLast(i) /\ sent[i] \notin opQueue /\ ~Shows(sent[i])}

(* Whenever a gateway goes down, before an op's health check, after it or   *)
(* with older ops of the entity in op_queue, an entity comes out otherwise  *)
(* than its last op says only by a failure of its own.                      *)
MissedBlamed == Cardinality(Missed) <= faults

-----------------------------------------------------------------------------
Deferred(op) == \E e \in Entities : op \in RangeOf(waiters[e])

(* Every submitted op is finished or set aside in the end: no worker is     *)
(* stuck on a full channel.                                                 *)
EveryOpSettles ==
  \A op \in Ops : op \in submitted ~> op \in finished \/ Deferred(op)

(* An op set aside runs once the dependency it waits for is confirmed.      *)
DeferredRunsAfterConfirm ==
  \A op \in Ops, e \in Entities :
    op \in RangeOf(waiters[e]) /\ Active(rows[e]) ~> op \notin RangeOf(waiters[e])

-----------------------------------------------------------------------------
(* Where the properties of a calm engine hold.  No channel is deleted that  *)
(* messages are mirrored into: there alone SQLite may refuse to remove a    *)
(* row, and a delete takes other objects along.                             *)
Homes     == {op.channel : op \in Ops} \ {Null}
HomesStay == \A op \in Ops : op.kind = "delete" => op.entity \notin Homes

(* Message ops that put wait for their channel, as BuildMessageOp has it.   *)
ChannelsFirst ==
  \A op \in Ops : op.channel # Null /\ op.kind # "delete" => op.channel \in op.deps

(* Everything an op depends on is mapped at the start, and no op touches it. *)
Deps    == {d \in Entities : \E op \in Ops : d \in op.deps \/ d = op.channel}
Settled == /\ \A op \in Ops : op.entity \notin Deps
           /\ \A d \in Deps : \E i \in DOMAIN Mirrored : Mirrored[i] = d
=============================================================================
