------------------------------- MODULE Engine -------------------------------
(***************************************************************************)
(* internal/engine: every op goes to the worker goroutine of its key, is   *)
(* set aside while a dependency is not mapped yet, and otherwise runs      *)
(* health check -> diff -> write pending -> remote -> confirm -> notify.   *)
(* Each action is what one goroutine does between two points where another *)
(* may run: a database statement, a channel operation, a lock, a request.  *)
(* Op.Apply is the create-or-edit / delete closure of internal/discord.    *)
(***************************************************************************)
EXTENDS MappingStore, Sequences, FiniteSets

CONSTANTS
  Ops,              \* the ops that may be submitted, told apart by their field n
  Mirrored,         \* entities mapped and live on Stoat at the start, in id order
  OldState,         \* the canonical state of those
  QueueCap,         \* channelWorkerBuffer
  MaxRemoteRetries, \* maxRemoteRetries
  DryRuns,          \* the values Engine.DryRun may be given before any op
  StoatUp,          \* whether the Stoat gateway is Ready at the start
  MaxFaults,        \* bound on failed, lost and rate-limited calls
  MaxOutages        \* bound on Discord disconnections

OpType == [n : Nat, kind : {"create", "update", "delete"}, entity : Entities,
           channel : Channels \cup {Null}, deps : SUBSET Entities, state : States]

(* Message ops carry their channel, no other op has one, and a Discord      *)
(* message never moves to another channel.                                  *)
ASSUME OpsAssumption ==
  /\ Ops \subseteq OpType /\ IsFiniteSet(Ops) /\ Null \notin Ops
  /\ \A op \in Ops : op.entity \in Messages <=> op.channel # Null
  /\ \A a, b \in Ops : a.entity = b.entity => a.channel = b.channel

ASSUME BoundsAssumption ==
  /\ Mirrored \in Seq(Roles \cup Channels) /\ OldState \in States
  /\ \A i, j \in DOMAIN Mirrored : Mirrored[i] = Mirrored[j] => i = j
  /\ QueueCap \in Nat \ {0} /\ MaxRemoteRetries \in Nat
  /\ DryRuns \subseteq BOOLEAN /\ StoatUp \in BOOLEAN /\ MaxFaults \in Nat /\ MaxOutages \in Nat

(* Mutant: message ops are routed like any other.                           *)
WorkerKeyByEntity(op) == <<EntityType(op.entity), op.entity>>

WorkerKey(op) ==
  IF op.entity \in Messages /\ op.channel # Null
  THEN <<"message", op.channel>>
  ELSE <<EntityType(op.entity), op.entity>>

Keys == {WorkerKey(op) : op \in Ops}

VARIABLES
  submitted,    \* ops Submit was called with (wg.Add done)
  calling,      \* those whose Submit has not yet placed them on the channel
  sent,         \* history: ops in the order Submit placed them on their channel
  queue,        \* workers: the buffered channel of each key
  waiters,      \* ops set aside, by the dependency they wait for
  finished,     \* ops tryRun called wg.Done for
  wg,           \* the WaitGroup counter
  worker,       \* the goroutine of each key
  rows,         \* the mapping tables
  landed,       \* history: entities some Confirm made active
  stoat,        \* what exists on Stoat
  nextId,       \* ids below it have been handed out by Stoat
  discordReady, stoatReady, \* the two health flags
  dryRun,       \* Engine.DryRun
  opQueue,      \* ops in the op_queue table
  faults, outages           \* how much of MaxFaults and MaxOutages is used

sched == <<submitted, calling, sent, queue, waiters, finished, wg>>
world == <<rows, landed, stoat, nextId>>
env   == <<discordReady, stoatReady, dryRun, opQueue, faults, outages>>
vars  == <<sched, worker, world, env>>

(* A remote call as Apply prepares it: chan is the Stoat channel of a       *)
(* message, id the entity to edit or delete, and afterwards the id to       *)
(* confirm.                                                                 *)
CallType == [verb : {"none", "create", "edit", "delete"}, id : Nat, chan : Nat]
NoCall   == [verb |-> "none", id |-> NoId, chan |-> NoId]

WorkerType ==
  [pc : {"idle", "deps", "defer", "diff", "pending", "apply", "remote",
         "confirm", "remove", "notify", "push"},
   op : Ops \cup {Null}, todo : SUBSET Entities, missing : Entities \cup {Null},
   call : CallType, pushing : Seq(Ops), tries : Nat]

Idle == [pc |-> "idle", op |-> Null, todo |-> {}, missing |-> Null,
         call |-> NoCall, pushing |-> <<>>, tries |-> 0]

StoatType == [id : Nat, entity : Entities, state : States, chan : Nat]

At(k, label) == worker[k].pc = label
Live(id)     == \E o \in stoat : o.id = id

Init ==
  /\ submitted = {} /\ calling = {} /\ sent = <<>> /\ finished = {} /\ wg = 0
  /\ queue = [k \in Keys |-> <<>>]
  /\ waiters = [e \in Entities |-> <<>>]
  /\ worker = [k \in Keys |-> Idle]
  /\ rows = [e \in Entities |->
               IF \E i \in DOMAIN Mirrored : Mirrored[i] = e
               THEN [status |-> "active", state |-> OldState, channel |-> Null,
                     id |-> CHOOSE i \in DOMAIN Mirrored : Mirrored[i] = e]
               ELSE Absent]
  /\ landed = {Mirrored[i] : i \in DOMAIN Mirrored}
  /\ stoat = {[id |-> i, entity |-> Mirrored[i], state |-> OldState, chan |-> NoId] :
                 i \in DOMAIN Mirrored}
  /\ nextId = Len(Mirrored) + 1
  /\ discordReady = TRUE /\ stoatReady = StoatUp /\ dryRun \in DryRuns
  /\ opQueue = {} /\ faults = 0 /\ outages = 0

-----------------------------------------------------------------------------
(* Submit: wg.Add, then a send that blocks while the key's channel is full. *)

Submit(op) ==
  /\ op \notin submitted
  /\ submitted' = submitted \cup {op}
  /\ calling' = calling \cup {op}
  /\ wg' = wg + 1
  /\ UNCHANGED <<sent, queue, waiters, finished, worker, world, env>>

HasRoom(k) == Len(queue[k]) < QueueCap

Send(op) ==
  /\ op \in calling /\ HasRoom(WorkerKey(op))
  /\ calling' = calling \ {op}
  /\ queue' = [queue EXCEPT ![WorkerKey(op)] = Append(@, op)]
  /\ sent' = Append(sent, op)
  /\ UNCHANGED <<submitted, waiters, finished, wg, worker, world, env>>

-----------------------------------------------------------------------------
(* tryRun: the worker's next op, its dependency check, and deferOp.         *)

Take(k) ==
  /\ At(k, "idle") /\ queue[k] # <<>>
  /\ queue' = [queue EXCEPT ![k] = Tail(@)]
  /\ worker' = [worker EXCEPT ![k] =
                  [Idle EXCEPT !.pc = "deps", !.op = Head(queue[k]),
                               !.todo = Head(queue[k]).deps]]
  /\ UNCHANGED <<submitted, calling, sent, waiters, finished, wg, world, env>>

(* One failed database statement or remote call, out of MaxFaults.          *)
Fault ==
  /\ faults < MaxFaults
  /\ faults' = faults + 1
  /\ UNCHANGED <<discordReady, stoatReady, dryRun, opQueue, outages>>

(* Move worker k on to label, or have tryRun return and call wg.Done.       *)
Goto(k, label) == worker' = [worker EXCEPT ![k].pc = label]

Return(k) ==
  /\ worker' = [worker EXCEPT ![k] = Idle]
  /\ finished' = finished \cup {worker[k].op}
  /\ wg' = wg - 1
  /\ UNCHANGED <<submitted, calling, sent, queue, waiters>>

(* Mutant: a pending row is good enough.                                    *)
MetByAnyRow(d) == Found(rows[d])

(* firstUnmetDependency accepts an active row only.                         *)
Met(d) == Active(rows[d])

CheckDependency(k) ==
  /\ At(k, "deps")
  /\ \E d \in worker[k].todo :
       /\ Met(d)
       /\ worker' = [worker EXCEPT ![k].todo = @ \ {d}]
  /\ UNCHANGED <<sched, world, env>>

(* A row that is missing or pending is unmet, and so is one whose read      *)
(* fails.                                                                   *)
MissDependency(k) ==
  /\ At(k, "deps")
  /\ \E d \in worker[k].todo :
       /\ (~Met(d) /\ UNCHANGED env) \/ Fault
       /\ worker' = [worker EXCEPT ![k].pc = "defer", ![k].missing = d]
  /\ UNCHANGED <<sched, world>>

(* Mutant: tryRun calls wg.Done after deferOp too.                          *)
DeferAndDone(k) ==
  /\ At(k, "defer")
  /\ waiters' = [waiters EXCEPT ![worker[k].missing] = Append(@, worker[k].op)]
  /\ worker' = [worker EXCEPT ![k] = Idle]
  /\ wg' = wg - 1
  /\ UNCHANGED <<submitted, calling, sent, queue, finished, world, env>>

Defer(k) ==
  /\ At(k, "defer")
  /\ waiters' = [waiters EXCEPT ![worker[k].missing] = Append(@, worker[k].op)]
  /\ worker' = [worker EXCEPT ![k] = Idle]
  /\ UNCHANGED <<submitted, calling, sent, queue, finished, wg, world, env>>

-----------------------------------------------------------------------------
(* process.                                                                 *)

(* Mutant: only one gateway is asked.                                       *)
HealthyStoatOnly == stoatReady

Healthy == discordReady /\ stoatReady

Ready(k) == At(k, "deps") /\ worker[k].todo = {}

(* Mutant: the op is dropped.                                               *)
EnqueueForgotten(k) ==
  /\ Ready(k) /\ ~Healthy
  /\ Return(k)
  /\ UNCHANGED <<world, env>>

(* The op is over: in op_queue, or nowhere if that write fails, which is    *)
(* only logged.                                                             *)
Enqueue(k) ==
  /\ Ready(k) /\ ~Healthy
  /\ \/ /\ opQueue' = opQueue \cup {worker[k].op}
        /\ UNCHANGED <<discordReady, stoatReady, dryRun, faults, outages>>
     \/ Fault
  /\ Return(k)
  /\ UNCHANGED world

LogDryRun(k) ==
  /\ Ready(k) /\ Healthy /\ dryRun
  /\ Return(k)
  /\ UNCHANGED <<world, env>>

(* Mutant: the dry-run test comes after the delete branch.                  *)
BeginDeleteFirst(k) ==
  /\ Ready(k) /\ Healthy /\ (dryRun => worker[k].op.kind = "delete")
  /\ Goto(k, IF worker[k].op.kind = "delete" THEN "apply" ELSE "diff")
  /\ UNCHANGED <<sched, world, env>>

Begin(k) ==
  /\ Ready(k) /\ Healthy /\ ~dryRun
  /\ Goto(k, IF worker[k].op.kind = "delete" THEN "apply" ELSE "diff")
  /\ UNCHANGED <<sched, world, env>>

(* Mutant: any stored row counts as equal.                                  *)
UnchangedIfFound(op) == Found(rows[op.entity])

(* Op.Diff against the stored canonical state: equal skips the op.          *)
Unchanged(op) == Found(rows[op.entity]) /\ rows[op.entity].state = op.state

SkipEqual(k) ==
  /\ At(k, "diff") /\ Unchanged(worker[k].op)
  /\ Return(k)
  /\ UNCHANGED <<world, env>>

Differs(k) ==
  /\ At(k, "diff") /\ ~Unchanged(worker[k].op)
  /\ Goto(k, "pending")
  /\ UNCHANGED <<sched, world, env>>

WritePending(k) ==
  LET op == worker[k].op IN
  /\ At(k, "pending") /\ MayWritePending(rows, op.entity, op.channel)
  /\ rows' = [rows EXCEPT ![op.entity] = PendingRow(op.entity, @, op.state, op.channel)]
  /\ Goto(k, "apply")
  /\ UNCHANGED <<sched, landed, stoat, nextId, env>>

WritePendingRefused(k) ==
  /\ At(k, "pending") /\ ~MayWritePending(rows, worker[k].op.entity, worker[k].op.channel)
  /\ Return(k)
  /\ UNCHANGED <<world, env>>

(* A read or a write of the store fails: logged, and the op is over.        *)
StoreFails(k) ==
  /\ worker[k].pc \in {"diff", "pending", "apply", "confirm", "remove"}
  /\ Fault /\ Return(k)
  /\ UNCHANGED world

-----------------------------------------------------------------------------
(* runRemote: Apply reads the mapping and decides, then makes the call.     *)

StoatChannel(op) == IF op.channel = Null THEN NoId ELSE rows[op.channel].id

(* Mutant: decides by the row's status, pending at this point of an update. *)
ApplyVerbByStatus(row) == IF Active(row) THEN "edit" ELSE "create"

(* applyCreateOrEdit.                                                       *)
ApplyVerb(row) == IF HasStoatEntity(row) THEN "edit" ELSE "create"

Apply(k) ==
  LET op == worker[k].op
      row == rows[op.entity] IN
  /\ At(k, "apply")
  /\ IF op.kind = "delete" /\ ~Active(row)  \* applyDelete: never mapped, no call
     THEN Goto(k, "remove")
     ELSE worker' = [worker EXCEPT ![k].pc = "remote", ![k].call =
            [verb |-> IF op.kind = "delete" THEN "delete" ELSE ApplyVerb(row),
             id |-> row.id, chan |-> StoatChannel(op)]]
  /\ UNCHANGED <<sched, world, env>>

(* Stoat accepts a call on what exists; a message needs its channel.        *)
Accepted(op, call) ==
  IF call.verb = "create" THEN op.channel = Null \/ Live(call.chan) ELSE Live(call.id)

(* The effect of the call: deleting a channel takes its messages along.     *)
Effect(op, call) ==
  CASE call.verb = "create" ->
         /\ stoat' = stoat \cup {[id |-> nextId, entity |-> op.entity,
                                  state |-> op.state, chan |-> call.chan]}
         /\ nextId' = nextId + 1
    [] call.verb = "edit" ->
         /\ stoat' = {IF o.id = call.id THEN [o EXCEPT !.state = op.state] ELSE o : o \in stoat}
         /\ UNCHANGED nextId
    [] OTHER ->
         /\ stoat' = {o \in stoat : o.id # call.id /\ o.chan # call.id}
         /\ UNCHANGED nextId

RemoteOk(k) ==
  LET op == worker[k].op
      call == worker[k].call IN
  /\ At(k, "remote") /\ Accepted(op, call) /\ Effect(op, call)
  /\ worker' = [worker EXCEPT
                  ![k].pc = IF op.kind = "delete" THEN "remove" ELSE "confirm",
                  ![k].call.id = IF call.verb = "create" THEN nextId ELSE call.id]
  /\ UNCHANGED <<sched, rows, landed, env>>

(* The error is logged; the row keeps what WritePending wrote.              *)
RemoteError(k) ==
  /\ At(k, "remote")
  /\ (~Accepted(worker[k].op, worker[k].call) /\ UNCHANGED env) \/ Fault
  /\ Return(k)
  /\ UNCHANGED world

(* The call took effect and yet Apply returns an error: a lost response, or *)
(* a later request of the same Apply that failed.                           *)
RemoteLost(k) ==
  LET op == worker[k].op IN
  /\ At(k, "remote") /\ Accepted(op, worker[k].call) /\ Effect(op, worker[k].call)
  /\ Fault /\ Return(k)
  /\ UNCHANGED <<rows, landed>>

(* A RateLimitedError runs Apply again, maxRemoteRetries times at most.     *)
RemoteLimited(k) ==
  /\ At(k, "remote") /\ Fault
  /\ IF worker[k].tries < MaxRemoteRetries
     THEN /\ worker' = [worker EXCEPT ![k].pc = "apply", ![k].tries = @ + 1, ![k].call = NoCall]
          /\ UNCHANGED sched
     ELSE Return(k)
  /\ UNCHANGED world

(* Mutant: the row stays after the remote delete.                           *)
RemoveForgotten(k) ==
  /\ At(k, "remove")
  /\ Return(k)
  /\ UNCHANGED <<world, env>>

Remove(k) ==
  LET e == worker[k].op.entity IN
  /\ At(k, "remove")
  /\ rows' = IF MayRemove(rows, e) THEN [rows EXCEPT ![e] = Absent] ELSE rows
  /\ Return(k)
  /\ UNCHANGED <<landed, stoat, nextId, env>>

(* Mutant: the UPDATE lost its WHERE clause.                                *)
ConfirmEverywhere(k) ==
  /\ At(k, "confirm")
  /\ rows' = [e \in Entities |-> ConfirmedRow(rows[e], worker[k].call.id)]
  /\ landed' = landed \cup {worker[k].op.entity}
  /\ Goto(k, "notify")
  /\ UNCHANGED <<sched, stoat, nextId, env>>

Confirm(k) ==
  LET e == worker[k].op.entity IN
  /\ At(k, "confirm")
  /\ rows' = [rows EXCEPT ![e] = ConfirmedRow(@, worker[k].call.id)]
  /\ landed' = landed \cup {e}
  /\ Goto(k, "notify")
  /\ UNCHANGED <<sched, stoat, nextId, env>>

(* Mutant: the list is read and not deleted.                                *)
TakeWaitersKeep(k) ==
  /\ At(k, "notify")
  /\ worker' = [worker EXCEPT ![k].pc = "push",
                              ![k].pushing = waiters[worker[k].op.entity]]
  /\ UNCHANGED <<sched, world, env>>

(* Mutant: the list is deleted before it is read.                           *)
TakeWaitersDropped(k) ==
  /\ At(k, "notify")
  /\ worker' = [worker EXCEPT ![k].pc = "push"]
  /\ waiters' = [waiters EXCEPT ![worker[k].op.entity] = <<>>]
  /\ UNCHANGED <<submitted, calling, sent, queue, finished, wg, world, env>>

(* notifyWaiters: take the list under the lock, then send op by op.         *)
TakeWaiters(k) ==
  LET e == worker[k].op.entity IN
  /\ At(k, "notify")
  /\ worker' = [worker EXCEPT ![k].pc = "push", ![k].pushing = waiters[e]]
  /\ waiters' = [waiters EXCEPT ![e] = <<>>]
  /\ UNCHANGED <<submitted, calling, sent, queue, finished, wg, world, env>>

(* Mutant: the waiting op goes through Submit, which adds to wg again.      *)
PushWaiterSubmits(k) ==
  LET op == Head(worker[k].pushing) IN
  /\ At(k, "push") /\ worker[k].pushing # <<>> /\ HasRoom(WorkerKey(op))
  /\ queue' = [queue EXCEPT ![WorkerKey(op)] = Append(@, op)]
  /\ worker' = [worker EXCEPT ![k].pushing = Tail(@)]
  /\ wg' = wg + 1
  /\ UNCHANGED <<submitted, calling, sent, waiters, finished, world, env>>

PushWaiter(k) ==
  LET op == Head(worker[k].pushing) IN
  /\ At(k, "push") /\ worker[k].pushing # <<>> /\ HasRoom(WorkerKey(op))
  /\ queue' = [queue EXCEPT ![WorkerKey(op)] = Append(@, op)]
  /\ worker' = [worker EXCEPT ![k].pushing = Tail(@)]
  /\ UNCHANGED <<submitted, calling, sent, waiters, finished, wg, world, env>>

Notified(k) ==
  /\ At(k, "push") /\ worker[k].pushing = <<>>
  /\ Return(k)
  /\ UNCHANGED <<world, env>>

-----------------------------------------------------------------------------
(* The gateways.  MarkDisconnected has no caller: Stoat's flag only rises.  *)

StoatReady ==
  /\ ~stoatReady /\ stoatReady' = TRUE
  /\ UNCHANGED <<sched, worker, world, discordReady, dryRun, opQueue, faults, outages>>

DiscordLost ==
  /\ discordReady /\ outages < MaxOutages
  /\ discordReady' = FALSE /\ outages' = outages + 1
  /\ UNCHANGED <<sched, worker, world, stoatReady, dryRun, opQueue, faults>>

DiscordBack ==
  /\ ~discordReady /\ discordReady' = TRUE
  /\ UNCHANGED <<sched, worker, world, stoatReady, dryRun, opQueue, faults, outages>>

-----------------------------------------------------------------------------
Process(k) ==
  \/ Enqueue(k) \/ LogDryRun(k) \/ Begin(k)
  \/ SkipEqual(k) \/ Differs(k) \/ WritePending(k) \/ WritePendingRefused(k) \/ StoreFails(k)
  \/ Apply(k) \/ RemoteOk(k) \/ RemoteError(k) \/ RemoteLost(k) \/ RemoteLimited(k)
  \/ Remove(k) \/ Confirm(k) \/ TakeWaiters(k) \/ PushWaiter(k) \/ Notified(k)

Step(k) == Take(k) \/ CheckDependency(k) \/ MissDependency(k) \/ Defer(k) \/ Process(k)

Gateways == StoatReady \/ DiscordLost \/ DiscordBack

(* Every op was submitted and every goroutine waits for work: the daemon    *)
(* rests here, so that TLC's deadlock check finds goroutines stuck on each  *)
(* other and nothing else.                                                  *)
Rest ==
  /\ submitted = Ops /\ calling = {}
  /\ \A k \in Keys : worker[k] = Idle /\ queue[k] = <<>>
  /\ UNCHANGED vars

Next ==
  \/ \E op \in Ops : Submit(op) \/ Send(op)
  \/ \E k \in Keys : Step(k)
  \/ Gateways
  \/ Rest

Spec == Init /\ [][Next]_vars

(* The Go scheduler runs every goroutine that can run, and a blocked send   *)
(* goes through when the channel has room.  Nothing makes Discord submit.   *)
Fairness ==
  /\ \A op \in Ops : WF_vars(Send(op))
  /\ \A k \in Keys : WF_vars(Step(k))

FairSpec == Spec /\ Fairness
=============================================================================
