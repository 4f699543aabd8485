------------------------- MODULE EngineStoreProofs --------------------------
(***************************************************************************)
(* What the engine does to the mapping tables and to Stoat: foreign keys,  *)
(* stable ids, no Stoat id shared by two rows, nothing written in a dry    *)
(* run or begun while a gateway is down, objects and rows that lose each   *)
(* other through failed steps only, one by one; and, where no step fails,  *)
(* that an op is skipped only when Stoat shows its state already, that the *)
(* last op sent for an entity is what Stoat shows when it is done, and     *)
(* that messages appear in the order of their ops.                         *)
(***************************************************************************)
EXTENDS EngineProofs

(* The ops of one entity all run on one worker, since a message never       *)
(* changes its channel.                                                     *)
LEMMA OneWorkerPerEntity ==
  ASSUME NEW a \in Ops, NEW b \in Ops, a.entity = b.entity
  PROVE  WorkerKey(a) = WorkerKey(b)
BY OpsAssumption DEF WorkerKey

LEMMA OwnEntity ==
  ASSUME Shape, NEW j \in Keys, NEW k \in Keys, j # k,
         worker[j].pc # "idle", worker[k].pc # "idle"
  PROVE  worker[j].op.entity # worker[k].op.entity
BY Busy, OneWorkerPerEntity

(* An entity's claims on Stoat ids: its row's, and the one that a worker    *)
(* brings back from a call and is about to confirm.                         *)
Confirming(k) == worker[k].pc = "confirm"
Claims(e) ==
  {rows[e].id} \cup {worker[k].call.id : k \in {j \in Keys : Confirming(j) /\ worker[j].op.entity = e}}

(* Ids handed out are below nextId; no two entities claim one; what a       *)
(* worker edits or confirms is what its entity's row says, if anything.     *)
LocalStore(w, row) ==
  /\ w.pc = "remote" /\ w.call.verb = "edit" => w.call.id = row.id /\ row.id # NoId
  /\ w.pc = "remote" /\ w.call.verb = "create" => row.id = NoId
  /\ w.pc = "remote" => (w.op.kind = "delete" <=> w.call.verb \notin {"create", "edit"})
  /\ w.pc = "confirm" => w.call.id # NoId /\ row.id \in {NoId, w.call.id}
  /\ w.pc \in {"diff", "pending", "confirm"} => w.op.kind # "delete"

StoreShape ==
  /\ \A e \in Entities : ~Found(rows[e]) => rows[e].id = NoId
  /\ \A e \in Entities : \A id \in Claims(e) : id < nextId
  /\ \A d, e \in Entities : \A id \in Claims(d) \cap Claims(e) : id # NoId => d = e
  /\ \A k \in Keys : LocalStore(worker[k], rows[worker[k].op.entity])

LEMMA InitStore == Init => StoreShape
<1> SUFFICES ASSUME Init PROVE StoreShape
  OBVIOUS
<1> DEFINE at(e) == CHOOSE i \in DOMAIN Mirrored : Mirrored[i] = e
           mapped(e) == \E i \in DOMAIN Mirrored : Mirrored[i] = e
<1>1. /\ DOMAIN Mirrored = 1 .. Len(Mirrored) /\ Len(Mirrored) \in Nat
      /\ nextId = Len(Mirrored) + 1
  BY BoundsAssumption DEF Init
<1>2. ASSUME NEW e \in Entities, mapped(e)
      PROVE  rows[e].id = at(e) /\ at(e) \in DOMAIN Mirrored /\ Mirrored[at(e)] = e
             /\ Found(rows[e])
  BY <1>2 DEF Init, Found
<1>3. ASSUME NEW e \in Entities, ~mapped(e) PROVE rows[e].id = NoId /\ ~Found(rows[e])
  BY <1>3 DEF Init, Absent, Found
<1>4. \A k \in Keys : worker[k].pc = "idle" /\ ~Confirming(k)
  BY IdleTyped DEF Init, Confirming
<1>5. \A e \in Entities : Claims(e) = {rows[e].id}
  BY <1>4 DEF Claims
<1> HIDE DEF at, mapped
<1>6. \A e \in Entities : rows[e].id < nextId
  BY <1>1, <1>2, <1>3 DEF NoId
<1>7. \A d, e \in Entities : rows[d].id = rows[e].id /\ rows[d].id # NoId => d = e
  BY <1>2, <1>3
<1> QED
  BY <1>2, <1>3, <1>4, <1>5, <1>6, <1>7 DEF StoreShape, LocalStore

(* The claims and the workers after a step of worker k that hands out no    *)
(* id: at most its own entity's row has changed.                            *)
LEMMA StoreKept ==
  ASSUME Shape, StoreShape, NEW k \in Keys, NEW w \in WorkerType,
         worker' = [worker EXCEPT ![k] = w],
         \A e \in Entities : rows'[e] = rows[e] \/ (worker[k].pc # "idle" /\ e = worker[k].op.entity),
         \A e \in Entities : rows'[e].id \in Claims(e) \cup {NoId},
         \A e \in Entities : ~Found(rows'[e]) => rows'[e].id = NoId,
         w.pc # "confirm", w.pc # "idle" => w.op \in Ops,
         w.pc # "idle" => LocalStore(w, rows'[w.op.entity]),
         nextId' \in Nat, nextId <= nextId'
  PROVE  StoreShape'
<1>1. \A j \in Keys : worker'[j] = IF j = k THEN w ELSE worker[j]
  BY DEF Shape, StateTypeOK
<1>2. ASSUME NEW e \in Entities PROVE Claims(e)' \subseteq Claims(e) \cup {NoId}
  <2>1. {worker'[j].call.id : j \in {i \in Keys : worker'[i].pc = "confirm" /\ worker'[i].op.entity = e}}
          \subseteq {worker[j].call.id : j \in {i \in Keys : worker[i].pc = "confirm" /\ worker[i].op.entity = e}}
    BY <1>1
  <2> QED
    BY <2>1 DEF Claims, Confirming
<1>3. nextId \in Nat \ {0}
  BY DEF Shape, StateTypeOK
<1>4. \A e \in Entities : \A id \in Claims(e) : id \in Nat
  <2>1. \A e \in Entities : rows[e].id \in Nat
    BY DEF Shape, StateTypeOK, RowType
  <2>2. \A j \in Keys : worker[j].call.id \in Nat
    BY DEF Shape, StateTypeOK, WorkerType, CallType
  <2> QED
    BY <2>1, <2>2 DEF Claims
<1>5. ASSUME NEW e \in Entities, NEW id \in Claims(e)' PROVE id < nextId'
  BY <1>2, <1>3, <1>4 DEF StoreShape, NoId
<1>6. ASSUME NEW d \in Entities, NEW e \in Entities, NEW id \in Claims(d)' \cap Claims(e)', id # NoId
      PROVE  d = e
  BY <1>2, <1>6 DEF StoreShape
<1>7. ASSUME NEW j \in Keys PROVE LocalStore(worker'[j], rows'[worker'[j].op.entity])
  <2>1. CASE worker'[j].pc = "idle"
    BY <2>1 DEF LocalStore
  <2>2. CASE j = k /\ w.pc # "idle"
    BY <1>1, <2>2
  <2>3. CASE j # k /\ worker'[j].pc # "idle"
    <3>1. worker'[j] = worker[j] /\ worker[j].pc # "idle" /\ worker[j].op.entity \in Entities
      BY <1>1, <2>3, Busy
    <3>2. rows'[worker[j].op.entity] = rows[worker[j].op.entity]
      BY <2>3, <3>1, OwnEntity
    <3> QED
      BY <3>1, <3>2 DEF StoreShape
  <2> QED
    BY <1>1, <2>1, <2>2, <2>3
<1> QED
  BY <1>5, <1>6, <1>7 DEF StoreShape

(* The end of an op, whatever became of its row.                            *)
LEMMA StoreReturn ==
  ASSUME Shape, StoreShape, NEW k \in Keys, worker[k].pc # "idle",
         worker' = [worker EXCEPT ![k] = Idle], nextId' \in Nat, nextId <= nextId',
         \A e \in Entities : \/ rows'[e] = rows[e]
                             \/ e = worker[k].op.entity /\ rows'[e] = Absent
  PROVE  StoreShape'
<1>1. \A e \in Entities : rows'[e].id \in Claims(e) \cup {NoId}
  BY DEF Claims, Absent
<1>2. \A e \in Entities : ~Found(rows'[e]) => rows'[e].id = NoId
  BY DEF StoreShape, Absent
<1> QED
  BY <1>1, <1>2, StoreKept, IdleTyped

LEMMA EndStore ==
  ASSUME Shape, StoreShape, NEW k \in Keys,
         Enqueue(k) \/ LogDryRun(k) \/ SkipEqual(k) \/ WritePendingRefused(k)
           \/ StoreFails(k) \/ RemoteError(k) \/ RemoteLost(k) \/ Remove(k) \/ Notified(k)
  PROVE  StoreShape'
<1>1. worker[k].pc # "idle" /\ worker' = [worker EXCEPT ![k] = Idle]
  BY DEF Enqueue, LogDryRun, SkipEqual, WritePendingRefused, StoreFails, RemoteError,
         RemoteLost, Remove, Notified, Ready, At, Return
<1>2. nextId' \in Nat /\ nextId <= nextId'
  <2>1. nextId \in Nat
    BY DEF Shape, StateTypeOK
  <2>2. nextId' = nextId \/ nextId' = nextId + 1
    BY DEF Enqueue, LogDryRun, SkipEqual, WritePendingRefused, StoreFails, RemoteError,
           RemoteLost, Remove, Notified, Effect, world
  <2> QED
    BY <2>1, <2>2
<1>3. CASE Remove(k)
  BY <1>1, <1>2, <1>3, StoreReturn, Busy DEF Remove, Shape, StateTypeOK
<1>4. CASE ~Remove(k)
  <2>1. rows' = rows
    BY <1>4 DEF Enqueue, LogDryRun, SkipEqual, WritePendingRefused, StoreFails, RemoteError,
           RemoteLost, Notified, world
  <2> QED
    BY <1>1, <1>2, <2>1, StoreReturn
<1> QED
  BY <1>3, <1>4

(* A worker moves on and the tables and Stoat stay as they were.            *)
LEMMA StoreStep ==
  ASSUME Shape, StoreShape, NEW k \in Keys, NEW w \in WorkerType, w.op \in Ops,
         worker' = [worker EXCEPT ![k] = w], UNCHANGED world,
         w.pc # "confirm", LocalStore(w, rows[w.op.entity])
  PROVE  StoreShape'
<1>1. rows' = rows /\ nextId' = nextId /\ nextId \in Nat
  BY DEF world, Shape, StateTypeOK
<1>2. \A e \in Entities : rows'[e].id \in Claims(e)
  BY <1>1 DEF Claims
<1>3. \A e \in Entities : ~Found(rows'[e]) => rows'[e].id = NoId
  BY <1>1 DEF StoreShape
<1>4. nextId' \in Nat /\ nextId <= nextId'
  BY <1>1
<1>5. /\ \A e \in Entities : rows'[e] = rows[e]
      /\ LocalStore(w, rows'[w.op.entity])
      /\ \A e \in Entities : rows'[e].id \in Claims(e) \cup {NoId}
  BY <1>1, <1>2
<1> QED
  BY <1>3, <1>4, <1>5, StoreKept

LEMMA ScheduleStore ==
  ASSUME Shape, StoreShape, NEW k \in Keys,
         Take(k) \/ CheckDependency(k) \/ MissDependency(k) \/ Defer(k)
           \/ TakeWaiters(k) \/ PushWaiter(k)
  PROVE  StoreShape'
<1>1. UNCHANGED world /\ worker[k] \in WorkerType /\ worker \in [Keys -> WorkerType]
  BY DEF Take, CheckDependency, MissDependency, Defer, TakeWaiters, PushWaiter, Shape, StateTypeOK
<1>2. ASSUME NEW w \in WorkerType, worker' = [worker EXCEPT ![k] = w], w.op \in Ops,
             w.pc \in {"deps", "defer", "push"}
      PROVE  StoreShape'
  <2>1. LocalStore(w, rows[w.op.entity])
    BY <1>2 DEF LocalStore
  <2> QED
    BY <1>1, <1>2, <2>1, StoreStep
<1>3. CASE Take(k)
  <2> DEFINE w == [Idle EXCEPT !.pc = "deps", !.op = Head(queue[k]), !.todo = Head(queue[k]).deps]
  <2>1. Head(queue[k]) \in Ops
    BY <1>3, TailElements DEF Take, Shape, StateTypeOK
  <2>2. w \in WorkerType /\ w.op \in Ops /\ w.pc = "deps"
    BY <2>1, FreshTyped DEF Idle
  <2>3. worker' = [worker EXCEPT ![k] = w]
    BY <1>3 DEF Take
  <2> HIDE DEF w
  <2> QED
    BY <1>2, <2>2, <2>3
<1>4. CASE CheckDependency(k)
  <2>1. PICK d \in worker[k].todo :
          worker' = [worker EXCEPT ![k] = [worker[k] EXCEPT !.todo = worker[k].todo \ {d}]]
    BY <1>4 DEF CheckDependency
  <2> DEFINE w == [worker[k] EXCEPT !.todo = worker[k].todo \ {d}]
  <2>2. w \in WorkerType
    <3>1. worker[k].todo \ {d} \in SUBSET Entities
      BY <1>1 DEF WorkerType
    <3> QED
      BY <1>1, <3>1, UpdateTyped DEF Labels
  <2>3. w.op \in Ops /\ w.pc = "deps"
    BY <1>1, <1>4, Busy DEF CheckDependency, At, WorkerType
  <2> HIDE DEF w
  <2> QED
    BY <1>2, <2>1, <2>2, <2>3 DEF w
<1>5. CASE MissDependency(k)
  <2>1. PICK d \in worker[k].todo :
          worker' = [worker EXCEPT ![k] = [worker[k] EXCEPT !.pc = "defer", !.missing = d]]
    BY <1>1, <1>5 DEF MissDependency
  <2> DEFINE w == [worker[k] EXCEPT !.pc = "defer", !.missing = d]
  <2>2. d \in Entities
    BY <1>1, <2>1 DEF WorkerType
  <2>3. w \in WorkerType
    BY <1>1, <2>2, UpdateTyped DEF Labels
  <2>4. w.op \in Ops /\ w.pc = "defer"
    BY <1>1, <1>5, Busy DEF MissDependency, At, WorkerType
  <2> HIDE DEF w
  <2> QED
    BY <1>2, <2>1, <2>3, <2>4 DEF w
<1>6. CASE Defer(k)
  <2>1. rows' = rows /\ nextId' = nextId /\ nextId \in Nat /\ worker[k].pc # "idle"
        /\ worker' = [worker EXCEPT ![k] = Idle]
    BY <1>1, <1>6 DEF world, Defer, At, Shape, StateTypeOK
  <2>2. nextId' \in Nat /\ nextId <= nextId' /\ \A e \in Entities : rows'[e] = rows[e]
    BY <2>1
  <2> QED
    BY <2>1, <2>2, StoreReturn
<1>7. CASE TakeWaiters(k)
  <2> DEFINE s == waiters[worker[k].op.entity]
             w == [worker[k] EXCEPT !.pc = "push", !.pushing = s]
  <2>1. worker[k].op \in Ops /\ s \in Seq(Ops)
    BY <1>7, Busy DEF TakeWaiters, At, Shape, StateTypeOK
  <2>2. w \in WorkerType
    BY <1>1, <2>1, UpdateTyped DEF Labels
  <2>3. w.op \in Ops /\ w.pc = "push" /\ worker' = [worker EXCEPT ![k] = w]
    BY <1>1, <1>7, <2>1 DEF TakeWaiters, WorkerType
  <2> HIDE DEF w
  <2> QED
    BY <1>2, <2>2, <2>3
<1>8. CASE PushWaiter(k)
  <2> DEFINE s == Tail(worker[k].pushing)
             w == [worker[k] EXCEPT !.pushing = s]
  <2>1. worker[k].op \in Ops /\ worker[k].pushing \in Seq(Ops) /\ worker[k].pushing # <<>>
    BY <1>1, <1>8, Busy DEF PushWaiter, At, WorkerType
  <2>2. s \in Seq(Ops)
    BY <2>1
  <2>3. w \in WorkerType
    BY <1>1, <2>2, UpdateTyped DEF Labels
  <2>4. w.op \in Ops /\ w.pc = "push" /\ worker' = [worker EXCEPT ![k] = w]
    BY <1>1, <1>8, <2>1 DEF PushWaiter, At, WorkerType
  <2> HIDE DEF w
  <2> QED
    BY <1>2, <2>3, <2>4
<1> QED
  BY <1>3, <1>4, <1>5, <1>6, <1>7, <1>8

(* The steps of process and runRemote between its ends.                     *)
LEMMA ProcessStore ==
  ASSUME Shape, StoreShape, NEW k \in Keys,
         Begin(k) \/ Differs(k) \/ WritePending(k) \/ Apply(k) \/ RemoteLimited(k) \/ Confirm(k)
  PROVE  StoreShape'
<1> DEFINE op == worker[k].op
           e == op.entity
           row == rows[e]
<1>1. /\ worker[k].pc # "idle" /\ worker[k] \in WorkerType /\ op \in Ops /\ op \in OpType
      /\ e \in Entities /\ worker \in [Keys -> WorkerType] /\ rows \in [Entities -> RowType]
      /\ row \in RowType /\ LocalStore(worker[k], row) /\ nextId \in Nat
      /\ ~Found(row) => row.id = NoId
  <2>1. worker[k].pc # "idle"
    BY DEF Begin, Differs, WritePending, Apply, RemoteLimited, Confirm, Ready, At
  <2> QED
    BY <2>1, Busy DEF Shape, StateTypeOK, StoreShape
<1>2. ASSUME NEW label \in Labels, Goto(k, label), label \notin {"confirm", "remote"},
             label \in {"diff", "pending"} => op.kind # "delete", UNCHANGED world
      PROVE  StoreShape'
  <2> DEFINE w == [worker[k] EXCEPT !.pc = label]
  <2>1. w \in WorkerType /\ worker' = [worker EXCEPT ![k] = w] /\ w.op = op /\ w.pc = label
    BY ZenonT(60), <1>1, <1>2, UpdateTyped DEF Goto, WorkerType
  <2> HIDE DEF w, op, e, row
  <2>2. LocalStore(w, rows[w.op.entity])
    BY <1>2, <2>1 DEF LocalStore
  <2> QED
    BY <1>1, <1>2, <2>1, <2>2, StoreStep
<1>3. CASE Begin(k)
  <2>1. \E label \in Labels : /\ Goto(k, label) /\ label \notin {"confirm", "remote"}
                              /\ label \in {"diff", "pending"} => op.kind # "delete"
    BY <1>3 DEF Begin, Labels
  <2> QED
    BY <1>2, <1>3, <2>1 DEF Begin
<1>4. CASE Differs(k)
  <2>1. op.kind # "delete" /\ Goto(k, "pending") /\ "pending" \in Labels /\ UNCHANGED world
    BY <1>1, <1>4 DEF Differs, At, LocalStore, Labels
  <2> QED
    BY <1>2, <2>1
<1>5. CASE Apply(k)
  <2>1. UNCHANGED world /\ At(k, "apply")
    BY <1>5 DEF Apply
  <2>2. CASE Goto(k, "remove")
    BY <1>2, <2>1, <2>2 DEF Labels
  <2>3. CASE ~Goto(k, "remove")
    <3> DEFINE verb == IF op.kind = "delete" THEN "delete" ELSE ApplyVerb(row)
               call == [verb |-> verb, id |-> row.id, chan |-> StoatChannel(op)]
               w == [worker[k] EXCEPT !.pc = "remote", !.call = call]
    <3>1. worker' = [worker EXCEPT ![k] = w]
      BY <1>1, <1>5, <2>3 DEF Apply
    <3>2. call \in CallType
      BY <1>1 DEF CallType, ApplyVerb, StoatChannel, RowType, OpType, NoId, Entities
    <3>3. w \in WorkerType
      BY <1>1, <3>2, UpdateTyped DEF Labels
    <3>4. w.pc = "remote" /\ w.op = op /\ w.call.verb = verb /\ w.call.id = row.id
      BY <1>1 DEF WorkerType
    <3>5. /\ verb = "edit" => row.id # NoId
          /\ verb = "create" => row.id = NoId
          /\ op.kind = "delete" <=> verb \notin {"create", "edit"}
      BY <1>1 DEF ApplyVerb, HasStoatEntity
    <3> HIDE DEF w, verb
    <3>6. LocalStore(w, rows[w.op.entity])
      BY <3>4, <3>5 DEF LocalStore
    <3> QED
      BY <1>1, <2>1, <3>1, <3>3, <3>4, <3>6, StoreStep
  <2> QED
    BY <2>2, <2>3
<1>6. CASE RemoteLimited(k)
  <2>1. UNCHANGED world
    BY <1>6 DEF RemoteLimited
  <2>2. CASE Return(k)
    <3>1. nextId' \in Nat /\ nextId <= nextId' /\ \A d \in Entities : rows'[d] = rows[d]
      BY <1>1, <2>1 DEF world
    <3>2. worker' = [worker EXCEPT ![k] = Idle]
      BY <2>2 DEF Return
    <3> QED
      BY <1>1, <3>1, <3>2, StoreReturn
  <2>3. CASE ~Return(k)
    <3> DEFINE w == [worker[k] EXCEPT !.pc = "apply", !.tries = worker[k].tries + 1, !.call = NoCall]
    <3>1. NoCall \in CallType /\ worker[k].tries + 1 \in Nat
      BY <1>1 DEF NoCall, CallType, NoId, WorkerType
    <3>2. w \in WorkerType
      BY <1>1, <3>1, UpdateTyped DEF Labels
    <3>3. w.pc = "apply" /\ w.op = op
      BY <1>1 DEF WorkerType
    <3>4. worker' = [worker EXCEPT ![k] = w]
      BY <1>1, <1>6, <2>3 DEF RemoteLimited
    <3> HIDE DEF w
    <3>5. LocalStore(w, rows[w.op.entity])
      BY <3>3 DEF LocalStore
    <3> QED
      BY <1>1, <2>1, <3>2, <3>3, <3>4, <3>5, StoreStep
  <2> QED
    BY <2>2, <2>3
<1>7. ASSUME NEW label \in {"apply", "notify"}, Goto(k, label), nextId' = nextId,
             NEW new, rows' = [rows EXCEPT ![e] = new],
             new.id \in Claims(e), ~Found(new) => new.id = NoId
      PROVE  StoreShape'
  <2> DEFINE w == [worker[k] EXCEPT !.pc = label]
  <2>1. w \in WorkerType /\ worker' = [worker EXCEPT ![k] = w] /\ w.op = op /\ w.pc = label
    <3>1. label \in Labels
      BY <1>7 DEF Labels
    <3> QED
      BY ZenonT(60), <1>1, <1>7, <3>1, UpdateTyped DEF Goto, WorkerType
  <2>2. \A d \in Entities : rows'[d] = IF d = e THEN new ELSE rows[d]
    BY <1>1, <1>7
  <2>3. \A d \in Entities : rows'[d].id \in Claims(d) \cup {NoId}
    BY <1>7, <2>2 DEF Claims
  <2>4. \A d \in Entities : ~Found(rows'[d]) => rows'[d].id = NoId
    BY <1>7, <2>2 DEF StoreShape
  <2> HIDE DEF w
  <2>5. LocalStore(w, rows'[w.op.entity])
    BY <1>7, <2>1 DEF LocalStore
  <2>6. nextId' \in Nat /\ nextId <= nextId' /\ w.pc # "confirm"
    BY <1>1, <1>7, <2>1
  <2>7. \A d \in Entities : rows'[d] = rows[d] \/ (worker[k].pc # "idle" /\ d = worker[k].op.entity)
    BY <1>1, <2>2
  <2>8. w.op \in Ops /\ worker' = [worker EXCEPT ![k] = w] /\ w \in WorkerType
    BY <1>1, <2>1
  <2> QED
    BY <2>3, <2>4, <2>5, <2>6, <2>7, <2>8, StoreKept
<1>8. CASE WritePending(k)
  <2> DEFINE new == PendingRow(e, row, op.state, op.channel)
  <2>1. new.id = row.id /\ (~Found(new) => new.id = NoId) /\ row.id \in Claims(e)
    BY DEF PendingRow, PendingMessageRow, PendingStructureRow, Found, Claims
  <2>2. rows' = [rows EXCEPT ![e] = new] /\ nextId' = nextId /\ Goto(k, "apply")
    BY <1>8 DEF WritePending
  <2> HIDE DEF new
  <2> QED
    BY <1>7, <2>1, <2>2
<1>9. CASE Confirm(k)
  <2> DEFINE new == ConfirmedRow(row, worker[k].call.id)
  <2>1. worker[k].call.id \in Claims(e) /\ row.id \in Claims(e)
    BY <1>9 DEF Claims, Confirming, Confirm, At
  <2>2. new.id \in Claims(e) /\ (~Found(new) => new.id = NoId)
    BY <1>1, <2>1 DEF ConfirmedRow, Found, RowType
  <2>3. rows' = [rows EXCEPT ![e] = new] /\ nextId' = nextId /\ Goto(k, "notify")
    BY <1>9 DEF Confirm
  <2> HIDE DEF new
  <2> QED
    BY <1>7, <2>2, <2>3
<1> QED
  BY <1>3, <1>4, <1>5, <1>6, <1>8, <1>9

(* An accepted call: a create brings an id that nobody has claimed, an edit *)
(* the one its row already has.                                             *)
LEMMA RemoteOkStore == ASSUME Shape, StoreShape, NEW k \in Keys, RemoteOk(k) PROVE StoreShape'
<1> DEFINE op == worker[k].op
           call == worker[k].call
           e == op.entity
           row == rows[e]
           id == IF call.verb = "create" THEN nextId ELSE call.id
           label == IF op.kind = "delete" THEN "remove" ELSE "confirm"
           v == [worker[k] EXCEPT !.pc = label, !.call.id = id]
<1>1. /\ worker[k].pc = "remote" /\ worker[k] \in WorkerType /\ op \in Ops /\ e \in Entities
      /\ call \in CallType /\ worker \in [Keys -> WorkerType] /\ LocalStore(worker[k], row)
      /\ nextId \in Nat \ {0} /\ rows' = rows /\ Effect(op, call)
  BY Busy DEF RemoteOk, At, Shape, StateTypeOK, StoreShape, WorkerType
<1>2. /\ v \in WorkerType /\ worker' = [worker EXCEPT ![k] = v] /\ v.op = op /\ v.pc = label
      /\ v.call.id = id
  <2>1. label \in Labels /\ id \in Nat
    BY <1>1 DEF Labels, CallType
  <2>2. v \in WorkerType
    BY <1>1, <2>1, UpdateTyped
  <2>3. worker' = [worker EXCEPT ![k] = v]
    BY <1>1 DEF RemoteOk
  <2>4. v.op = op /\ v.pc = label
    BY <1>1 DEF WorkerType
  <2>5. v.call = [call EXCEPT !.id = id]
    BY <1>1 DEF WorkerType
  <2>6. v.call.id = id
    BY <1>1, <2>1, <2>5 DEF CallType
  <2> QED
    BY <2>2, <2>3, <2>4, <2>6
<1> PICK w \in WorkerType : w = v
  BY <1>2
<1>3. w \in WorkerType /\ worker' = [worker EXCEPT ![k] = w] /\ w.op = op /\ w.pc = label
      /\ w.call.id = id
  BY <1>2
<1>4. nextId' = IF call.verb = "create" THEN nextId + 1 ELSE nextId
  BY <1>1 DEF Effect
<1>5. /\ call.verb = "edit" => call.id = row.id /\ row.id # NoId
      /\ call.verb = "create" => row.id = NoId
      /\ op.kind = "delete" <=> call.verb \notin {"create", "edit"}
  BY <1>1 DEF LocalStore
<1>6. \A j \in Keys : worker'[j] = IF j = k THEN w ELSE worker[j]
  BY <1>1, <1>3
<1> HIDE DEF v, id, op, e, call, row, label
<1>7. CASE op.kind = "delete"
  <2>1. /\ nextId' \in Nat /\ nextId <= nextId' /\ w.pc = "remove"
        /\ \A d \in Entities : rows'[d] = rows[d]
    BY <1>1, <1>3, <1>4, <1>7 DEF label
  <2>2. /\ \A d \in Entities : rows'[d].id \in Claims(d) \cup {NoId}
        /\ \A d \in Entities : ~Found(rows'[d]) => rows'[d].id = NoId
    BY <2>1 DEF Claims, StoreShape
  <2>3. LocalStore(w, rows'[w.op.entity])
    BY <2>1 DEF LocalStore
  <2> QED
    BY <1>1, <1>3, <2>1, <2>2, <2>3, StoreKept
<1>8. CASE op.kind # "delete"
  <2>1. w.pc = "confirm"
    BY <1>3, <1>8 DEF label
  <2>2. ASSUME NEW d \in Entities
        PROVE  Claims(d)' \subseteq Claims(d) \cup (IF d = e THEN {id} ELSE {})
    <3>1. rows'[d].id \in Claims(d)
      BY <1>1 DEF Claims
    <3>2. ASSUME NEW j \in Keys, worker'[j].pc = "confirm", worker'[j].op.entity = d
          PROVE  worker'[j].call.id \in Claims(d) \cup (IF d = e THEN {id} ELSE {})
      <4>1. CASE j = k
        BY <1>3, <1>6, <3>2, <4>1 DEF e
      <4>2. CASE j # k
        BY <1>6, <3>2, <4>2 DEF Claims, Confirming
      <4> QED
        BY <4>1, <4>2
    <3> QED
      BY <3>1, <3>2 DEF Claims, Confirming
  <2>3. \A d \in Entities : \A i \in Claims(d) : i < nextId /\ i \in Nat
    <3>1. \A d \in Entities : rows[d].id \in Nat
      BY DEF Shape, StateTypeOK, RowType
    <3>2. \A j \in Keys : worker[j].call.id \in Nat
      BY DEF Shape, StateTypeOK, WorkerType, CallType
    <3>3. \A d \in Entities : \A i \in Claims(d) : i \in Nat
      BY <3>1, <3>2 DEF Claims
    <3> QED
      BY <3>3 DEF StoreShape
  <2>4. CASE call.verb = "create"
    <3>1. id = nextId /\ nextId' = nextId + 1 /\ row.id = NoId
      BY <1>4, <1>5, <2>4 DEF id
    <3>2. ASSUME NEW d \in Entities, NEW i \in Claims(d)' PROVE i < nextId'
      <4>1. i \in Claims(d) \/ i = id
        BY <2>2
      <4> QED
        BY <1>1, <2>3, <3>1, <4>1
    <3>3. ASSUME NEW c \in Entities, NEW d \in Entities, NEW i \in Claims(c)' \cap Claims(d)', i # NoId
          PROVE  c = d
      <4>1. \/ i \in Claims(c) /\ i \in Claims(d)
            \/ i \in Claims(c) /\ i = id
            \/ i \in Claims(d) /\ i = id
            \/ c = e /\ d = e
        BY <2>2
      <4>2. \A a \in Entities : id \notin Claims(a)
        BY <1>1, <2>3, <3>1
      <4> QED
        BY <3>3, <4>1, <4>2 DEF StoreShape
    <3>4. LocalStore(w, rows'[w.op.entity])
      BY <1>1, <1>3, <1>8, <2>1, <3>1 DEF LocalStore, e, row, NoId
    <3>5. ASSUME NEW j \in Keys PROVE LocalStore(worker'[j], rows'[worker'[j].op.entity])
      BY <1>1, <1>6, <3>4 DEF StoreShape
    <3> QED
      BY <1>1, <3>2, <3>3, <3>5 DEF StoreShape
  <2>5. CASE call.verb # "create"
    <3>1. id = row.id /\ nextId' = nextId /\ row.id # NoId /\ id \in Claims(e)
      BY <1>4, <1>5, <1>8, <2>5 DEF id, Claims, row
    <3>2. \A d \in Entities : Claims(d)' \subseteq Claims(d)
      BY <2>2, <3>1
    <3>3. LocalStore(w, rows'[w.op.entity])
      BY <1>1, <1>3, <1>8, <2>1, <3>1 DEF LocalStore, e, row
    <3>4. ASSUME NEW j \in Keys PROVE LocalStore(worker'[j], rows'[worker'[j].op.entity])
      BY <1>1, <1>6, <3>3 DEF StoreShape
    <3> QED
      BY <1>1, <3>1, <3>2, <3>4 DEF StoreShape
  <2> QED
    BY <2>4, <2>5
<1> QED
  BY <1>7, <1>8

LEMMA NextStore == ASSUME Shape, StoreShape, [Next]_vars PROVE StoreShape'
<1>1. ASSUME NEW k \in Keys, Step(k) PROVE StoreShape'
  BY <1>1, ScheduleStore, ProcessStore, EndStore, RemoteOkStore DEF Step, Process
<1>2. CASE ~\E k \in Keys : Step(k)
  <2>1. UNCHANGED <<worker, world>>
    BY <1>2 DEF Next, Submit, Send, Gateways, StoatReady, DiscordLost, DiscordBack, Rest, vars
  <2>2. UNCHANGED <<worker, rows, nextId>>
    BY <2>1 DEF world
  <2>3. \A e : Claims(e)' = Claims(e)
    BY <2>2 DEF Claims, Confirming
  <2> QED
    BY <2>2, <2>3 DEF StoreShape
<1> QED
  BY <1>1, <1>2

LEMMA StoreAlways == Spec => [](Shape /\ StoreShape)
<1>1. Init => Shape /\ StoreShape
  BY InitShape, InitStore
<1>2. Shape /\ StoreShape /\ [Next]_vars => Shape' /\ StoreShape'
  BY NextShape, NextStore
<1> QED
  BY <1>1, <1>2, PTL DEF Spec

(* Whatever fails, is retried or is lost, no Stoat id becomes the mapping   *)
(* of two Discord entities.                                                 *)
THEOREM IdsDistinct == Spec => []MappedIdsDistinct
<1>1. StoreShape => MappedIdsDistinct
  BY DEF StoreShape, MappedIdsDistinct, Claims
<1> QED
  BY <1>1, StoreAlways, PTL

(* A row's Stoat id survives pending windows, retries and confirms, and     *)
(* goes only with the row.                                                  *)
THEOREM IdentityIsKept == Spec => IdentityKept
<1> DEFINE Kept == \A e \in Entities :
                     rows[e].id # NoId => rows'[e].id = rows[e].id \/ rows'[e] = Absent
<1>1. ASSUME Shape, StoreShape, [Next]_vars PROVE [Kept]_rows
  <2>1. CASE rows' = rows
    BY <2>1
  <2>2. CASE rows' # rows
    <3>1. PICK k \in Keys : WritePending(k) \/ Remove(k) \/ Confirm(k)
      BY ZenonT(60), <1>1, <2>2 DEF Next, Step, Process, Take, CheckDependency, MissDependency, Defer, Enqueue,
         LogDryRun, Begin, SkipEqual, Differs, WritePendingRefused, StoreFails, Apply, RemoteOk,
         RemoteError, RemoteLost, RemoteLimited, TakeWaiters, PushWaiter, Notified, Submit, Send,
         Gateways, StoatReady, DiscordLost, DiscordBack, Rest, vars, world
    <3> DEFINE e == worker[k].op.entity
    <3>2. e \in Entities /\ rows \in [Entities -> RowType] /\ LocalStore(worker[k], rows[e])
      BY <1>1, <3>1, Busy DEF WritePending, Remove, Confirm, At, Shape, StateTypeOK, StoreShape
    <3> HIDE DEF e
    <3>3. CASE WritePending(k)
      BY <3>2, <3>3 DEF WritePending, PendingRow, PendingMessageRow, PendingStructureRow, e
    <3>4. CASE Remove(k)
      BY <3>2, <3>4 DEF Remove, e
    <3>5. CASE Confirm(k)
      <4>1. rows[e].id # NoId => worker[k].call.id = rows[e].id
        BY <3>2, <3>5 DEF Confirm, At, LocalStore
      <4>2. ConfirmedRow(rows[e], worker[k].call.id).id \in {rows[e].id, worker[k].call.id}
        BY <3>2 DEF ConfirmedRow, RowType
      <4>3. rows' = [rows EXCEPT ![e] = ConfirmedRow(rows[e], worker[k].call.id)]
        BY <3>5 DEF Confirm, e
      <4> QED
        BY <3>2, <4>1, <4>2, <4>3
    <3> QED
      BY <3>1, <3>3, <3>4, <3>5
  <2> QED
    BY <2>1, <2>2
<1> QED
  BY <1>1, StoreAlways, PTL DEF Spec, IdentityKept

-----------------------------------------------------------------------------
(* The foreign key, statement by statement.                                 *)
ForeignKey ==
  \A m \in Messages : Found(rows[m]) => rows[m].channel \in Channels /\ Found(rows[rows[m].channel])

LEMMA NextForeignKey == ASSUME Shape, ForeignKey, [Next]_vars PROVE ForeignKey'
<1>1. CASE rows' = rows
  BY <1>1 DEF ForeignKey
<1>2. CASE rows' # rows
  <2>1. PICK k \in Keys : WritePending(k) \/ Remove(k) \/ Confirm(k)
    BY ZenonT(60), <1>2 DEF Next, Step, Process, Take, CheckDependency, MissDependency, Defer, Enqueue,
       LogDryRun, Begin, SkipEqual, Differs, WritePendingRefused, StoreFails, Apply, RemoteOk,
       RemoteError, RemoteLost, RemoteLimited, TakeWaiters, PushWaiter, Notified, Submit, Send,
       Gateways, StoatReady, DiscordLost, DiscordBack, Rest, vars, world
  <2> DEFINE op == worker[k].op
             e == op.entity
  <2>2. /\ e \in Entities /\ rows \in [Entities -> RowType] /\ op.state \in States
        /\ rows[e] \in RowType
    BY <2>1, Busy DEF WritePending, Remove, Confirm, At, Shape, StateTypeOK, OpType
  <2>3. Channels \subseteq Entities /\ Messages \subseteq Entities /\ Channels \cap Messages = {}
    BY EntitiesAssumption DEF Entities
  <2> HIDE DEF op, e
  <2>4. ASSUME NEW new, rows' = [rows EXCEPT ![e] = new], Found(new),
               e \in Messages /\ ~Found(rows[e]) => new.channel \in Channels /\ Found(rows[new.channel]),
               e \in Messages /\ Found(rows[e]) => new.channel = rows[e].channel
        PROVE  ForeignKey'
    <3>1. \A d \in Entities : rows'[d] = IF d = e THEN new ELSE rows[d]
      BY <2>2, <2>4
    <3>2. \A d \in Entities : Found(rows[d]) => Found(rows'[d])
      BY <2>4, <3>1
    <3>3. ASSUME NEW m \in Messages, Found(rows'[m])
          PROVE  rows'[m].channel \in Channels /\ Found(rows'[rows'[m].channel])
      <4>1. rows'[m].channel \in Channels /\ Found(rows[rows'[m].channel])
        BY <2>3, <2>4, <3>1, <3>3 DEF ForeignKey
      <4> QED
        BY <2>3, <3>2, <4>1
    <3> QED
      BY <3>3 DEF ForeignKey
  <2>5. CASE WritePending(k)
    <3> DEFINE new == PendingRow(e, rows[e], op.state, op.channel)
    <3>1. rows' = [rows EXCEPT ![e] = new] /\ MayWritePending(rows, e, op.channel)
      BY <2>5 DEF WritePending, op, e
    <3>2. Found(new)
      BY DEF PendingRow, PendingMessageRow, PendingStructureRow, Found
    <3>3. e \in Messages => new.channel = IF Found(rows[e]) THEN rows[e].channel ELSE op.channel
      BY DEF PendingRow, PendingMessageRow
    <3> HIDE DEF new
    <3> QED
      BY <2>4, <3>1, <3>2, <3>3 DEF MayWritePending
  <2>6. CASE Confirm(k)
    <3> DEFINE new == ConfirmedRow(rows[e], worker[k].call.id)
    <3>1. rows' = [rows EXCEPT ![e] = new]
      BY <2>6 DEF Confirm, op, e
    <3>2. CASE Found(rows[e])
      <4>1. Found(new) /\ new.channel = rows[e].channel
        BY <2>2, <3>2 DEF ConfirmedRow, Found, RowType
      <4> HIDE DEF new
      <4> QED
        BY <2>4, <3>1, <3>2, <4>1
    <3>3. CASE ~Found(rows[e])
      BY <1>2, <2>2, <3>1, <3>3 DEF ConfirmedRow
    <3> QED
      BY <3>2, <3>3
  <2>7. CASE Remove(k)
    <3>1. rows' = [rows EXCEPT ![e] = Absent] /\ MayRemove(rows, e)
      BY <1>2, <2>7 DEF Remove, op, e
    <3>2. \A d \in Entities : rows'[d] = IF d = e THEN Absent ELSE rows[d]
      BY <2>2, <3>1
    <3>3. ~Found(Absent)
      BY DEF Absent, Found
    <3>4. ASSUME NEW m \in Messages, Found(rows'[m])
          PROVE  rows'[m].channel \in Channels /\ Found(rows'[rows'[m].channel])
      <4>1. rows'[m] = rows[m] /\ rows[m].channel # e /\ Found(rows[m])
        BY <2>3, <3>1, <3>2, <3>3, <3>4 DEF MayRemove
      <4> QED
        BY <2>3, <3>2, <4>1 DEF ForeignKey
    <3> QED
      BY <3>4 DEF ForeignKey
  <2> QED
    BY <2>1, <2>5, <2>6, <2>7
<1> QED
  BY <1>1, <1>2

(* A message row never outlives the row of its channel, in whatever order   *)
(* deletes of the channel and creates in it reach the tables.               *)
THEOREM ForeignKeyHolds == Spec => []MessageRowsHaveChannel
<1>1. Init => Shape /\ ForeignKey
  <2>1. ASSUME Init, NEW m \in Messages PROVE ~Found(rows[m])
    <3>1. m \in Entities /\ ~\E i \in DOMAIN Mirrored : Mirrored[i] = m
      BY BoundsAssumption, EntitiesAssumption DEF Entities
    <3> QED
      BY <2>1, <3>1 DEF Init, Absent, Found
  <2> QED
    BY <2>1, InitShape DEF ForeignKey
<1>2. Shape /\ ForeignKey /\ [Next]_vars => Shape' /\ ForeignKey'
  BY NextShape, NextForeignKey
<1>3. ForeignKey => MessageRowsHaveChannel
  BY DEF ForeignKey, MessageRowsHaveChannel
<1> QED
  BY <1>1, <1>2, <1>3, PTL DEF Spec

-----------------------------------------------------------------------------
-----------------------------------------------------------------------------
(* What a step may do at all: one worker moves, and goes on with its op or  *)
(* is done with it; only remote calls touch Stoat.                          *)
LEMMA OneWorkerMoves ==
  ASSUME Shape, NEW k \in Keys, Step(k)
  PROVE  /\ \A j \in Keys \ {k} : worker'[j] = worker[j]
         /\ worker[k].pc = "idle" => Take(k)
         /\ worker[k].pc # "idle" => worker'[k] = Idle \/ worker'[k].op = worker[k].op
<1>1. worker \in [Keys -> WorkerType]
  BY DEF Shape, StateTypeOK
<1>2. ASSUME NEW w, worker' = [worker EXCEPT ![k] = w]
      PROVE  worker'[k] = w /\ \A j \in Keys \ {k} : worker'[j] = worker[j]
  BY <1>1, <1>2
<1>3. worker[k] \in WorkerType
  BY <1>1
<1>4. CASE Take(k)
  BY <1>2, <1>4 DEF Take, At
<1>5. CASE worker' = [worker EXCEPT ![k] = Idle] /\ worker[k].pc # "idle"
  BY <1>2, <1>5
<1>6. ASSUME NEW label, Goto(k, label), worker[k].pc # "idle"
      PROVE  worker'[k].op = worker[k].op /\ \A j \in Keys \ {k} : worker'[j] = worker[j]
  <2>1. [worker[k] EXCEPT !.pc = label].op = worker[k].op
    BY <1>3 DEF WorkerType
  <2> QED
    BY <1>2, <1>6, <2>1 DEF Goto
<1>7. CASE CheckDependency(k)
  <2>1. PICK d : worker' = [worker EXCEPT ![k] = [worker[k] EXCEPT !.todo = worker[k].todo \ {d}]]
    BY <1>7 DEF CheckDependency
  <2>2. [worker[k] EXCEPT !.todo = worker[k].todo \ {d}].op = worker[k].op
    BY <1>3 DEF WorkerType
  <2> QED
    BY <1>2, <1>7, <2>1, <2>2 DEF CheckDependency, At
<1>8. CASE MissDependency(k)
  <2>1. PICK d : worker' = [worker EXCEPT ![k] = [worker[k] EXCEPT !.pc = "defer", !.missing = d]]
    BY <1>1, <1>8 DEF MissDependency
  <2>2. [worker[k] EXCEPT !.pc = "defer", !.missing = d].op = worker[k].op
    BY <1>3 DEF WorkerType
  <2> QED
    BY <1>2, <1>8, <2>1, <2>2 DEF MissDependency, At
<1>9. CASE Apply(k)
  <2>1. CASE Goto(k, "remove")
    BY <1>6, <1>9, <2>1 DEF Apply, At
  <2>2. CASE ~Goto(k, "remove")
    <3>1. PICK c : worker' = [worker EXCEPT ![k] = [worker[k] EXCEPT !.pc = "remote", !.call = c]]
      BY <1>1, <1>9, <2>2 DEF Apply
    <3>2. [worker[k] EXCEPT !.pc = "remote", !.call = c].op = worker[k].op
      BY <1>3 DEF WorkerType
    <3> QED
      BY <1>2, <1>9, <3>1, <3>2 DEF Apply, At
  <2> QED
    BY <2>1, <2>2
<1>10. CASE RemoteOk(k)
  <2> DEFINE label == IF worker[k].op.kind = "delete" THEN "remove" ELSE "confirm"
             i == IF worker[k].call.verb = "create" THEN nextId ELSE worker[k].call.id
  <2>1. worker' = [worker EXCEPT ![k] = [worker[k] EXCEPT !.pc = label, !.call.id = i]]
    BY <1>1, <1>10 DEF RemoteOk
  <2> HIDE DEF label, i
  <2>2. [worker[k] EXCEPT !.pc = label, !.call.id = i].op = worker[k].op
    BY <1>3 DEF WorkerType
  <2> QED
    BY <1>2, <1>10, <2>1, <2>2 DEF RemoteOk, At
<1>11. CASE RemoteLimited(k)
  <2>1. CASE Return(k)
    BY <1>5, <1>11, <2>1 DEF Return, RemoteLimited, At
  <2>2. CASE ~Return(k)
    <3>1. PICK n : worker' = [worker EXCEPT ![k] =
                     [worker[k] EXCEPT !.pc = "apply", !.tries = n, !.call = NoCall]]
      BY <1>1, <1>11, <2>2 DEF RemoteLimited
    <3>2. [worker[k] EXCEPT !.pc = "apply", !.tries = n, !.call = NoCall].op = worker[k].op
      BY <1>3 DEF WorkerType
    <3> QED
      BY <1>2, <1>11, <3>1, <3>2 DEF RemoteLimited, At
  <2> QED
    BY <2>1, <2>2
<1>12. CASE TakeWaiters(k)
  <2>1. PICK s : worker' = [worker EXCEPT ![k] = [worker[k] EXCEPT !.pc = "push", !.pushing = s]]
    BY <1>1, <1>12 DEF TakeWaiters
  <2>2. [worker[k] EXCEPT !.pc = "push", !.pushing = s].op = worker[k].op
    BY <1>3 DEF WorkerType
  <2> QED
    BY <1>2, <1>12, <2>1, <2>2 DEF TakeWaiters, At
<1>13. CASE PushWaiter(k)
  <2>1. PICK s : worker' = [worker EXCEPT ![k] = [worker[k] EXCEPT !.pushing = s]]
    BY <1>1, <1>13 DEF PushWaiter
  <2>2. [worker[k] EXCEPT !.pushing = s].op = worker[k].op
    BY <1>3 DEF WorkerType
  <2> QED
    BY <1>2, <1>13, <2>1, <2>2 DEF PushWaiter, At
<1>14. CASE Begin(k) \/ Differs(k) \/ WritePending(k) \/ Confirm(k)
  <2>1. worker[k].pc # "idle" /\ \E label : Goto(k, label)
    BY <1>14 DEF Begin, Differs, WritePending, Confirm, Ready, At
  <2> QED
    BY <1>6, <2>1
<1>15. CASE Defer(k) \/ Enqueue(k) \/ LogDryRun(k) \/ SkipEqual(k) \/ WritePendingRefused(k)
            \/ StoreFails(k) \/ RemoteError(k) \/ RemoteLost(k) \/ Remove(k) \/ Notified(k)
  BY <1>5, <1>15 DEF Defer, Enqueue, LogDryRun, SkipEqual, WritePendingRefused, StoreFails,
     RemoteError, RemoteLost, Remove, Notified, Ready, At, Return
<1> QED
  BY <1>4, <1>7, <1>8, <1>9, <1>10, <1>11, <1>12, <1>13, <1>14, <1>15 DEF Step, Process

(* Workers, tables and Stoat stand still in any other step.                 *)
LEMMA OtherSteps ==
  ASSUME [Next]_vars, ~\E k \in Keys : Step(k)
  PROVE  UNCHANGED <<worker, world, faults, dryRun>>
BY DEF Next, Submit, Send, Gateways, StoatReady, DiscordLost, DiscordBack, Rest, vars, env

-----------------------------------------------------------------------------
(* In a dry run no worker gets past the dependency check.                   *)
DryShape == dryRun => \A k \in Keys : worker[k].pc \in {"idle", "deps", "defer"}

LEMMA NextDry == ASSUME Shape, DryShape, [Next]_vars PROVE DryShape' /\ (dryRun => UNCHANGED world)
<1>1. CASE ~\E k \in Keys : Step(k)
  BY <1>1, OtherSteps DEF DryShape
<1>2. ASSUME NEW k \in Keys, Step(k) PROVE DryShape' /\ (dryRun => UNCHANGED world)
  <2>1. dryRun' = dryRun
    BY <1>2 DEF Step, Process, Take, CheckDependency, MissDependency, Defer, Enqueue, LogDryRun,
       Begin, SkipEqual, Differs, WritePending, WritePendingRefused, StoreFails, Apply, RemoteOk,
       RemoteError, RemoteLost, RemoteLimited, Remove, Confirm, TakeWaiters, PushWaiter,
       Notified, env, Fault
  <2>2. CASE ~dryRun
    BY <2>1, <2>2 DEF DryShape
  <2>3. CASE dryRun
    <3>1. worker[k].pc \in {"idle", "deps", "defer"}
      BY <2>3 DEF DryShape
    <3>2. \/ Take(k) \/ CheckDependency(k) \/ MissDependency(k)
          \/ Defer(k) \/ Enqueue(k) \/ LogDryRun(k)
      BY <1>2, <2>3, <3>1 DEF Step, Process, Begin, SkipEqual, Differs, WritePending,
         WritePendingRefused, StoreFails, Apply, RemoteOk, RemoteError, RemoteLost, RemoteLimited,
         Remove, Confirm, TakeWaiters, PushWaiter, Notified, At
    <3>3. UNCHANGED world
      BY <3>2 DEF Take, CheckDependency, MissDependency, Defer, Enqueue, LogDryRun
    <3>4. worker'[k].pc \in {"idle", "deps", "defer"}
      <4>1. worker \in [Keys -> WorkerType]
        BY DEF Shape, StateTypeOK
      <4>2. worker[k] \in WorkerType
        BY <4>1
      <4>3. CASE Take(k)
        BY <4>1, <4>3 DEF Take, Idle
      <4>4. CASE CheckDependency(k)
        <5>1. PICK t : worker' = [worker EXCEPT ![k] = [worker[k] EXCEPT !.todo = t]]
          BY <4>4 DEF CheckDependency
        <5>2. [worker[k] EXCEPT !.todo = t].pc = worker[k].pc
          BY <4>2 DEF WorkerType
        <5> QED
          BY <3>1, <4>1, <5>1, <5>2
      <4>5. CASE MissDependency(k)
        BY <4>1, <4>2, <4>5 DEF MissDependency, WorkerType
      <4>6. CASE Defer(k) \/ Enqueue(k) \/ LogDryRun(k)
        BY <4>1, <4>6, IdleTyped DEF Defer, Enqueue, LogDryRun, Return
      <4> QED
        BY <3>2, <4>3, <4>4, <4>5, <4>6
    <3> QED
      BY <1>2, <2>1, <3>3, <3>4, OneWorkerMoves DEF DryShape
  <2> QED
    BY <2>2, <2>3
<1> QED
  BY <1>1, <1>2

(* A dry run changes neither the mapping tables nor Stoat, whatever ops are *)
(* submitted, set aside and taken up again.                                 *)
THEOREM DryRunIsDry == Spec => DryRunWritesNothing
<1>1. Init => DryShape
  BY IdleTyped DEF Init, DryShape
<1>2. Shape /\ DryShape /\ [Next]_vars => DryShape'
  BY NextDry
<1>3. Shape /\ DryShape /\ [Next]_vars => [dryRun => UNCHANGED world]_vars
  BY NextDry
<1> QED
  BY <1>1, <1>2, <1>3, ShapeAlways, PTL DEF Spec, DryRunWritesNothing

-----------------------------------------------------------------------------
(* Objects on Stoat, and who knows of them.                                 *)
StoatIds == {o.id : o \in stoat}

ObjectsShape ==
  /\ \A o \in stoat : o.id # NoId /\ o.id < nextId
  /\ \A o, p \in stoat : o.id = p.id => o = p

(* A worker between the pending row and the confirm of a create or update.  *)
Putting(w) == w.pc \in {"apply", "remote", "confirm"} /\ w.op.kind # "delete"

(* An entity's object is in hand when its active row names it, or when its  *)
(* worker is about to edit or to confirm it.                                *)
HeldIn(w, row, id) ==
  \/ Active(row) /\ row.id = id
  \/ Putting(w) /\ (row.id = id \/ (w.pc = "confirm" /\ w.call.id = id))

Held(o) ==
  \/ Active(rows[o.entity]) /\ rows[o.entity].id = o.id
  \/ \E k \in Keys : /\ Putting(worker[k]) /\ worker[k].op.entity = o.entity
                     /\ HeldIn(worker[k], rows[o.entity], o.id)

(* The others are orphans, or will be when the entity is deleted.           *)
LostIds == {o.id : o \in {p \in stoat : ~Held(p)}}

(* What a worker knows of its entity's row and object at its labels.        *)
LocalPut(w, row, ids) ==
  /\ Putting(w) => Found(row)
  /\ w.pc = "remote" => w.call.id = row.id
  /\ w.pc = "remove" /\ Active(row) => row.id \notin ids

PutShape == \A k \in Keys : LocalPut(worker[k], rows[worker[k].op.entity], StoatIds)

(* The effect of a call on the ids: a create adds nextId for the op's       *)
(* entity, an edit keeps them all, a delete takes away its target at least. *)
LEMMA EffectObjects ==
  ASSUME Shape, ObjectsShape, NEW k \in Keys, worker[k].pc # "idle",
         Effect(worker[k].op, worker[k].call)
  PROVE  /\ ObjectsShape'
         /\ \A p \in stoat' : \/ \E o \in stoat : o.id = p.id /\ o.entity = p.entity
                              \/ /\ worker[k].call.verb = "create"
                                 /\ p.id = nextId /\ p.entity = worker[k].op.entity
         /\ worker[k].call.verb \notin {"create", "edit"} => worker[k].call.id \notin StoatIds'
<1> DEFINE op == worker[k].op
           call == worker[k].call
<1>1. stoat \subseteq StoatType /\ nextId \in Nat \ {0}
  BY DEF Shape, StateTypeOK
<1> HIDE DEF op, call
<1>2. CASE call.verb = "create"
  <2> DEFINE new == [id |-> nextId, entity |-> op.entity, state |-> op.state, chan |-> call.chan]
  <2>1. stoat' = stoat \cup {new} /\ nextId' = nextId + 1
    BY <1>2 DEF Effect, op, call
  <2>2. new.id = nextId /\ new.entity = op.entity
    OBVIOUS
  <2> HIDE DEF new
  <2>3. \A o \in stoat : o.id \in Nat /\ o.id # new.id
    BY <1>1, <2>2 DEF ObjectsShape, StoatType
  <2>4. \A o \in stoat' : o.id # NoId /\ o.id < nextId'
    BY <1>1, <2>1, <2>2, <2>3 DEF ObjectsShape, NoId
  <2>5. \A o, p \in stoat' : o.id = p.id => o = p
    BY <2>1, <2>3 DEF ObjectsShape
  <2> QED
    BY <1>2, <2>1, <2>2, <2>4, <2>5 DEF ObjectsShape, op, call
<1>3. CASE call.verb = "edit"
  <2> DEFINE Edited(o) == IF o.id = call.id THEN [o EXCEPT !.state = op.state] ELSE o
  <2>1. stoat' = {Edited(o) : o \in stoat} /\ nextId' = nextId
    BY <1>3 DEF Effect, op, call
  <2>2. \A o \in stoat : Edited(o).id = o.id /\ Edited(o).entity = o.entity
    BY <1>1 DEF StoatType
  <2> HIDE DEF Edited
  <2>3. \A p \in stoat' : \E o \in stoat : p = Edited(o)
    BY <2>1
  <2>4. \A o, p \in stoat' : o.id = p.id => o = p
    BY <2>2, <2>3 DEF ObjectsShape
  <2>5. \A o \in stoat' : o.id # NoId /\ o.id < nextId'
    BY <2>1, <2>2, <2>3 DEF ObjectsShape
  <2>6. \A p \in stoat' : \E o \in stoat : o.id = p.id /\ o.entity = p.entity
    BY <2>2, <2>3
  <2> QED
    BY <1>3, <2>4, <2>5, <2>6 DEF ObjectsShape, call
<1>4. CASE call.verb \notin {"create", "edit"}
  <2>1. stoat' = {o \in stoat : o.id # call.id /\ o.chan # call.id} /\ nextId' = nextId
    BY <1>4 DEF Effect, op, call
  <2>2. call.id \notin StoatIds'
    BY <2>1 DEF StoatIds
  <2> QED
    BY <2>1, <2>2 DEF ObjectsShape, call
<1> QED
  BY <1>2, <1>3, <1>4

(* A step leaves Stoat alone or is a remote call.                           *)
LEMMA StepObjects ==
  ASSUME Shape, ObjectsShape, NEW k \in Keys, Step(k)
  PROVE  /\ ObjectsShape' /\ StoatIds' \subseteq StoatIds \cup {nextId}
         /\ ~(RemoteOk(k) \/ RemoteLost(k)) => UNCHANGED <<stoat, nextId>>
<1>1. CASE RemoteOk(k) \/ RemoteLost(k)
  <2>1. worker[k].pc # "idle" /\ Effect(worker[k].op, worker[k].call)
    BY <1>1 DEF RemoteOk, RemoteLost, At
  <2> QED
    BY <1>1, <2>1, EffectObjects DEF StoatIds
<1>2. CASE ~(RemoteOk(k) \/ RemoteLost(k))
  <2>1. UNCHANGED <<stoat, nextId>>
    BY <1>2 DEF Step, Process, Take, CheckDependency, MissDependency, Defer, Enqueue, LogDryRun,
       Begin, SkipEqual, Differs, WritePending, WritePendingRefused, StoreFails, Apply,
       RemoteError, RemoteLimited, Remove, Confirm, TakeWaiters, PushWaiter, Notified, world
  <2> QED
    BY <2>1 DEF ObjectsShape, StoatIds
<1> QED
  BY <1>1, <1>2

(* The step of worker k changes no row but its op's, and which steps do.    *)
LEMMA StepRows ==
  ASSUME Shape, NEW k \in Keys, Step(k)
  PROVE  /\ ~(WritePending(k) \/ Remove(k) \/ Confirm(k)) => rows' = rows
         /\ \A d \in Entities : \/ rows'[d] = rows[d]
                                \/ worker[k].pc # "idle" /\ d = worker[k].op.entity
<1>1. ~(WritePending(k) \/ Remove(k) \/ Confirm(k)) => rows' = rows
  BY DEF Step, Process, Take, CheckDependency, MissDependency, Defer, Enqueue, LogDryRun, Begin,
     SkipEqual, Differs, WritePendingRefused, StoreFails, Apply, RemoteOk, RemoteError, RemoteLost,
     RemoteLimited, TakeWaiters, PushWaiter, Notified, world
<1>2. rows \in [Entities -> RowType]
  BY DEF Shape, StateTypeOK
<1>3. CASE WritePending(k) \/ Confirm(k)
  <2>1. worker[k].pc # "idle" /\ \E new : rows' = [rows EXCEPT ![worker[k].op.entity] = new]
    BY <1>3 DEF WritePending, Confirm, At
  <2> QED
    BY <1>1, <1>2, <2>1
<1>4. CASE Remove(k)
  BY <1>2, <1>4 DEF Remove, At
<1> QED
  BY <1>1, <1>3, <1>4

LEMMA PutKept ==
  ASSUME Shape, StoreShape, ObjectsShape, PutShape, NEW k \in Keys, Step(k),
         LocalPut(worker'[k], rows'[worker'[k].op.entity], StoatIds')
  PROVE  PutShape'
<1> SUFFICES ASSUME NEW j \in Keys
             PROVE  LocalPut(worker'[j], rows'[worker'[j].op.entity], StoatIds')
  BY DEF PutShape
<1>1. CASE j = k
  BY <1>1
<1>2. CASE j # k /\ worker[j].pc = "idle"
  BY <1>2, OneWorkerMoves DEF LocalPut, Putting
<1>3. CASE j # k /\ worker[j].pc # "idle"
  <2> DEFINE row == rows[worker[j].op.entity]
  <2>1. worker'[j] = worker[j] /\ worker[j].op.entity \in Entities
    BY <1>3, OneWorkerMoves, Busy
  <2>2. rows'[worker[j].op.entity] = row
    BY <1>3, <2>1, StepRows, OwnEntity
  <2>3. row.id \in Nat /\ row.id < nextId /\ nextId \in Nat
    BY <2>1 DEF StoreShape, Claims, Shape, StateTypeOK, RowType
  <2>4. row.id \notin StoatIds => row.id \notin StoatIds'
    BY <2>3, StepObjects
  <2> QED
    BY <2>1, <2>2, <2>4 DEF PutShape, LocalPut
<1> QED
  BY <1>1, <1>2, <1>3

LEMMA StepPut ==
  ASSUME Shape, StoreShape, ObjectsShape, PutShape, NEW k \in Keys, Step(k)
  PROVE  LocalPut(worker'[k], rows'[worker'[k].op.entity], StoatIds')
<1> DEFINE v == worker'[k]
           op == worker[k].op
           row == rows[op.entity]
<1>1. /\ worker \in [Keys -> WorkerType] /\ worker[k] \in WorkerType
      /\ rows \in [Entities -> RowType]
  BY DEF Shape, StateTypeOK
<1>2. LocalPut(worker[k], row, StoatIds) /\ LocalStore(worker[k], row)
  BY DEF PutShape, StoreShape
<1>3. ASSUME v.pc \notin {"apply", "remote", "confirm", "remove"}
      PROVE  LocalPut(v, rows'[v.op.entity], StoatIds')
  BY <1>3 DEF LocalPut, Putting
<1>4. ASSUME NEW label, Goto(k, label)
      PROVE  v.pc = label /\ v.op = op
  BY <1>1, <1>4 DEF Goto, WorkerType
<1>5. CASE v = Idle
  BY <1>3, <1>5, IdleTyped
<1>6. CASE WritePending(k)
  <2>1. op.entity \in Entities /\ v.pc = "apply" /\ v.op = op
    BY <1>4, <1>6, Busy DEF WritePending, At
  <2>2. rows'[op.entity] = PendingRow(op.entity, row, op.state, op.channel)
    BY <1>1, <1>6, <2>1 DEF WritePending
  <2>3. Found(rows'[op.entity])
    BY <2>2 DEF PendingRow, PendingMessageRow, PendingStructureRow, Found
  <2> QED
    BY <2>1, <2>3 DEF LocalPut
<1>7. CASE Begin(k)
  <2>1. CASE op.kind = "delete"
    BY <1>4, <1>7, <2>1 DEF Begin, LocalPut, Putting
  <2>2. CASE op.kind # "delete"
    BY <1>3, <1>4, <1>7, <2>2 DEF Begin
  <2> QED
    BY <2>1, <2>2
<1>8. CASE Apply(k)
  <2>1. worker[k].pc = "apply" /\ rows' = rows
    BY <1>8 DEF Apply, At, world
  <2>2. CASE op.kind = "delete" /\ ~Active(row)
    BY <1>4, <1>8, <2>1, <2>2 DEF Apply, LocalPut, Putting
  <2>3. CASE ~(op.kind = "delete" /\ ~Active(row))
    <3> DEFINE c == [verb |-> IF op.kind = "delete" THEN "delete" ELSE ApplyVerb(row),
                     id |-> row.id, chan |-> StoatChannel(op)]
    <3>1. v = [worker[k] EXCEPT !.pc = "remote", !.call = c]
      BY <1>1, <1>8, <2>3 DEF Apply
    <3>2. v.pc = "remote" /\ v.call = c /\ v.op = op /\ c.id = row.id
      BY <1>1, <3>1 DEF WorkerType
    <3> QED
      BY <1>2, <2>1, <3>2 DEF LocalPut, Putting
  <2> QED
    BY <2>2, <2>3
<1>9. CASE RemoteOk(k)
  <2> DEFINE label == IF op.kind = "delete" THEN "remove" ELSE "confirm"
             i == IF worker[k].call.verb = "create" THEN nextId ELSE worker[k].call.id
  <2>1. worker' = [worker EXCEPT ![k] = [worker[k] EXCEPT !.pc = label, !.call.id = i]]
    BY <1>1, <1>9 DEF RemoteOk
  <2>2. worker[k].pc = "remote" /\ rows' = rows /\ Effect(op, worker[k].call)
    BY <1>9 DEF RemoteOk, At
  <2>3. v.pc = label /\ v.op = op
    BY <1>1, <2>1 DEF WorkerType
  <2>4. CASE op.kind # "delete"
    BY <1>2, <2>2, <2>3, <2>4 DEF LocalPut, Putting
  <2>5. CASE op.kind = "delete"
    <3>1. worker[k].call.id \notin StoatIds' /\ worker[k].call.id = row.id
      BY <1>2, <2>2, <2>5, EffectObjects DEF LocalStore, LocalPut
    <3> QED
      BY <2>2, <2>3, <2>5, <3>1 DEF LocalPut, Putting
  <2> QED
    BY <2>4, <2>5
<1>10. CASE RemoteLimited(k)
  <2>1. CASE Return(k)
    BY <1>1, <1>5, <2>1 DEF Return
  <2>2. CASE ~Return(k)
    <3>1. PICK n : worker' = [worker EXCEPT ![k] =
                     [worker[k] EXCEPT !.pc = "apply", !.tries = n, !.call = NoCall]]
      BY <1>1, <1>10, <2>2 DEF RemoteLimited
    <3>2. v.pc = "apply" /\ v.op = op /\ worker[k].pc = "remote" /\ rows' = rows
      BY <1>1, <1>10, <3>1 DEF WorkerType, RemoteLimited, At, world
    <3> QED
      BY <1>2, <3>2 DEF LocalPut, Putting
  <2> QED
    BY <2>1, <2>2
<1>11. CASE Take(k)
  BY <1>1, <1>3, <1>11 DEF Take, Idle
<1>12. CASE CheckDependency(k)
  <2>1. PICK t : worker' = [worker EXCEPT ![k] = [worker[k] EXCEPT !.todo = t]]
    BY <1>12 DEF CheckDependency
  <2>2. v.pc = "deps"
    BY <1>1, <1>12, <2>1 DEF WorkerType, CheckDependency, At
  <2> QED
    BY <1>3, <2>2
<1>13. CASE MissDependency(k)
  <2>1. PICK d : worker' = [worker EXCEPT ![k] = [worker[k] EXCEPT !.pc = "defer", !.missing = d]]
    BY <1>1, <1>13 DEF MissDependency
  <2>2. v.pc = "defer"
    BY <1>1, <2>1 DEF WorkerType
  <2> QED
    BY <1>3, <2>2
<1>14. CASE Differs(k) \/ Confirm(k)
  BY <1>3, <1>4, <1>14 DEF Differs, Confirm
<1>15. CASE TakeWaiters(k)
  <2>1. PICK s : worker' = [worker EXCEPT ![k] = [worker[k] EXCEPT !.pc = "push", !.pushing = s]]
    BY <1>1, <1>15 DEF TakeWaiters
  <2>2. v.pc = "push"
    BY <1>1, <2>1 DEF WorkerType
  <2> QED
    BY <1>3, <2>2
<1>16. CASE PushWaiter(k)
  <2>1. PICK s : worker' = [worker EXCEPT ![k] = [worker[k] EXCEPT !.pushing = s]]
    BY <1>1, <1>16 DEF PushWaiter
  <2>2. v.pc = "push"
    BY <1>1, <1>16, <2>1 DEF WorkerType, PushWaiter, At
  <2> QED
    BY <1>3, <2>2
<1>17. CASE Defer(k) \/ Enqueue(k) \/ LogDryRun(k) \/ SkipEqual(k) \/ WritePendingRefused(k)
            \/ StoreFails(k) \/ RemoteError(k) \/ RemoteLost(k) \/ Remove(k) \/ Notified(k)
  BY <1>1, <1>5, <1>17 DEF Defer, Enqueue, LogDryRun, SkipEqual, WritePendingRefused, StoreFails,
     RemoteError, RemoteLost, Remove, Notified, Return
<1> QED
  BY <1>6, <1>7, <1>8, <1>9, <1>10, <1>11, <1>12, <1>13, <1>14, <1>15, <1>16, <1>17
     DEF Step, Process

-----------------------------------------------------------------------------
(* Every lost object goes back to a failed step of its own.                 *)

(* Who holds the objects of worker k's entity: its row or k itself.         *)
LEMMA OwnHeld ==
  ASSUME Shape, NEW k \in Keys, worker[k].pc # "idle", NEW o, o.entity = worker[k].op.entity
  PROVE  Held(o) <=> HeldIn(worker[k], rows[o.entity], o.id)
BY OwnEntity DEF Held, HeldIn, Putting

(* A step that leaves the tables and Stoat alone and in which no put begins *)
(* or ends loses nothing.                                                   *)
LEMMA LostSame ==
  ASSUME Shape, NEW k \in Keys, Step(k), UNCHANGED <<rows, stoat>>,
         ~Putting(worker[k]), ~Putting(worker'[k])
  PROVE  LostIds' = LostIds
<1>1. \A j \in Keys : worker'[j] = worker[j] \/ (~Putting(worker[j]) /\ ~Putting(worker'[j]))
  BY OneWorkerMoves
<1>2. ASSUME NEW o PROVE Held(o)' <=> Held(o)
  BY <1>1 DEF Held
<1> QED
  BY <1>2 DEF LostIds

(* A step loses at most the ids in S if it keeps the rest of what its       *)
(* entity has, and brings nothing to Stoat that is not in hand.             *)
LEMMA LostAtMost ==
  ASSUME Shape, NEW k \in Keys, Step(k), worker[k].pc # "idle", NEW S,
         \A p \in stoat' : \/ \E o \in stoat : o.id = p.id /\ o.entity = p.entity
                           \/ /\ p.entity = worker[k].op.entity
                              /\ p.id \in S \/ HeldIn(worker'[k], rows'[p.entity], p.id),
         \A p \in stoat' :
           p.entity = worker[k].op.entity /\ HeldIn(worker[k], rows[p.entity], p.id) =>
             p.id \in S \/ HeldIn(worker'[k], rows'[p.entity], p.id)
  PROVE  LostIds' \subseteq LostIds \cup S
<1> SUFFICES ASSUME NEW p \in stoat', ~Held(p)', p.id \notin S
             PROVE  p.id \in LostIds
  BY DEF LostIds
<1> DEFINE e == worker[k].op.entity
<1>1. p.entity # e \/ ~HeldIn(worker'[k], rows'[p.entity], p.id)
  <2>1. CASE Putting(worker'[k])
    <3>1. worker'[k].op = worker[k].op
      BY <2>1, OneWorkerMoves, IdleTyped DEF Putting
    <3> QED
      BY <2>1, <3>1 DEF Held
  <2>2. CASE ~Putting(worker'[k])
    BY <2>2 DEF Held, HeldIn
  <2> QED
    BY <2>1, <2>2
<1>2. PICK o \in stoat : o.id = p.id /\ o.entity = p.entity
  BY <1>1
<1>3. ~Held(o)
  <2>1. CASE p.entity = e
    BY <1>1, <1>2, <2>1, OwnHeld
  <2>2. CASE p.entity # e
    <3>1. \A j \in Keys : j = k \/ worker'[j] = worker[j]
      BY OneWorkerMoves
    <3>2. stoat \subseteq StoatType
      BY DEF Shape, StateTypeOK
    <3>3. rows'[p.entity] = rows[p.entity]
      BY <1>2, <2>2, <3>2, StepRows DEF StoatType
    <3> QED
      BY <1>2, <2>2, <3>1, <3>3 DEF Held, HeldIn
  <2> QED
    BY <2>1, <2>2
<1> QED
  BY <1>2, <1>3 DEF LostIds

(* How a put begins and goes on.                                            *)
LEMMA PutBegins ==
  ASSUME Shape, NEW k \in Keys, Step(k), Putting(worker'[k])
  PROVE  /\ worker'[k].op = worker[k].op /\ worker[k].pc # "idle"
         /\ \/ WritePending(k) /\ worker'[k].pc = "apply"
            \/ Apply(k) /\ worker'[k].pc = "remote" /\ Putting(worker[k])
            \/ RemoteLimited(k) /\ worker'[k].pc = "apply" /\ Putting(worker[k])
            \/ /\ RemoteOk(k) /\ worker'[k].pc = "confirm" /\ Putting(worker[k])
               /\ worker'[k].call.id = IF worker[k].call.verb = "create" THEN nextId
                                                                         ELSE worker[k].call.id
<1>1. worker \in [Keys -> WorkerType] /\ worker[k] \in WorkerType /\ nextId \in Nat
  BY DEF Shape, StateTypeOK
<1>2. worker'[k] # Idle /\ ~Take(k)
  <2>1. Take(k) => worker'[k].pc = "deps"
    BY <1>1 DEF Take, Idle
  <2> QED
    BY <2>1, IdleTyped DEF Putting
<1>3. worker'[k].op = worker[k].op /\ worker[k].pc # "idle"
  BY <1>2, OneWorkerMoves
<1>4. ASSUME NEW label, Goto(k, label) PROVE worker'[k].pc = label
  BY <1>1, <1>4 DEF Goto, WorkerType
<1>5. CASE WritePending(k)
  BY <1>3, <1>4, <1>5 DEF WritePending
<1>6. CASE Begin(k) \/ Differs(k) \/ Confirm(k)
  BY <1>3, <1>4, <1>6 DEF Begin, Differs, Confirm, Putting
<1>7. CASE Apply(k)
  <2>1. CASE Goto(k, "remove")
    BY <1>4, <2>1 DEF Putting
  <2>2. CASE ~Goto(k, "remove")
    <3>1. PICK c : worker' = [worker EXCEPT ![k] = [worker[k] EXCEPT !.pc = "remote", !.call = c]]
      BY <1>1, <1>7, <2>2 DEF Apply
    <3>2. worker'[k].pc = "remote"
      BY <1>1, <3>1 DEF WorkerType
    <3> QED
      BY <1>3, <1>7, <3>2 DEF Apply, At, Putting
  <2> QED
    BY <2>1, <2>2
<1>8. CASE RemoteOk(k)
  <2> DEFINE label == IF worker[k].op.kind = "delete" THEN "remove" ELSE "confirm"
             i == IF worker[k].call.verb = "create" THEN nextId ELSE worker[k].call.id
  <2>1. worker' = [worker EXCEPT ![k] = [worker[k] EXCEPT !.pc = label, !.call.id = i]]
    BY <1>1, <1>8 DEF RemoteOk
  <2>2. worker'[k].pc = label
    BY <1>1, <2>1 DEF WorkerType
  <2>3. i \in Nat
    BY <1>1 DEF WorkerType, CallType
  <2> HIDE DEF i, label
  <2>4. [worker[k] EXCEPT !.pc = label, !.call.id = i].call = [worker[k].call EXCEPT !.id = i]
    BY <1>1 DEF WorkerType
  <2>5. [worker[k].call EXCEPT !.id = i].id = i
    BY <1>1 DEF WorkerType, CallType
  <2>6. worker'[k].call.id = i
    BY <1>1, <2>1, <2>4, <2>5
  <2> QED
    BY <1>3, <1>8, <2>2, <2>6 DEF RemoteOk, At, Putting, i, label
<1>9. CASE RemoteLimited(k)
  <2>1. ~Return(k)
    BY <1>1, <1>2 DEF Return
  <2>2. PICK n : worker' = [worker EXCEPT ![k] =
                   [worker[k] EXCEPT !.pc = "apply", !.tries = n, !.call = NoCall]]
    BY <1>1, <1>9, <2>1 DEF RemoteLimited
  <2>3. worker'[k].pc = "apply"
    BY <1>1, <2>2 DEF WorkerType
  <2> QED
    BY <1>3, <1>9, <2>3 DEF RemoteLimited, At, Putting
<1>10. CASE CheckDependency(k)
  <2>1. PICK t : worker' = [worker EXCEPT ![k] = [worker[k] EXCEPT !.todo = t]]
    BY <1>10 DEF CheckDependency
  <2>2. worker'[k].pc = "deps"
    BY <1>1, <1>10, <2>1 DEF WorkerType, CheckDependency, At
  <2> QED
    BY <2>2 DEF Putting
<1>11. CASE MissDependency(k)
  <2>1. PICK d : worker' = [worker EXCEPT ![k] = [worker[k] EXCEPT !.pc = "defer", !.missing = d]]
    BY <1>1, <1>11 DEF MissDependency
  <2>2. worker'[k].pc = "defer"
    BY <1>1, <2>1 DEF WorkerType
  <2> QED
    BY <2>2 DEF Putting
<1>12. CASE TakeWaiters(k)
  <2>1. PICK s : worker' = [worker EXCEPT ![k] = [worker[k] EXCEPT !.pc = "push", !.pushing = s]]
    BY <1>1, <1>12 DEF TakeWaiters
  <2>2. worker'[k].pc = "push"
    BY <1>1, <2>1 DEF WorkerType
  <2> QED
    BY <2>2 DEF Putting
<1>13. CASE PushWaiter(k)
  <2>1. PICK s : worker' = [worker EXCEPT ![k] = [worker[k] EXCEPT !.pushing = s]]
    BY <1>1, <1>13 DEF PushWaiter
  <2>2. worker'[k].pc = "push"
    BY <1>1, <1>13, <2>1 DEF WorkerType, PushWaiter, At
  <2> QED
    BY <2>2 DEF Putting
<1>14. CASE Defer(k) \/ Enqueue(k) \/ LogDryRun(k) \/ SkipEqual(k) \/ WritePendingRefused(k)
            \/ StoreFails(k) \/ RemoteError(k) \/ RemoteLost(k) \/ Remove(k) \/ Notified(k)
  BY <1>1, <1>2, <1>14 DEF Defer, Enqueue, LogDryRun, SkipEqual, WritePendingRefused, StoreFails,
     RemoteError, RemoteLost, Remove, Notified, Return
<1> QED
  BY <1>2, <1>5, <1>6, <1>7, <1>8, <1>9, <1>10, <1>11, <1>12, <1>13, <1>14 DEF Step, Process

(* The steps that spend a fault, and the others.                            *)
LEMMA StepFaults ==
  ASSUME Shape, NEW k \in Keys, Step(k)
  PROVE  /\ faults \in Nat /\ faults' \in {faults, faults + 1}
         /\ StoreFails(k) \/ RemoteLost(k) \/ RemoteLimited(k) => faults' = faults + 1
         /\ RemoteError(k) => \/ faults' = faults + 1
                              \/ ~Accepted(worker[k].op, worker[k].call)
<1>1. faults \in Nat
  BY DEF Shape, StateTypeOK
<1>2. faults' = faults \/ faults' = faults + 1
  BY DEF Step, Process, Take, CheckDependency, MissDependency, Defer, Enqueue, LogDryRun,
     Begin, SkipEqual, Differs, WritePending, WritePendingRefused, StoreFails, Apply, RemoteOk,
     RemoteError, RemoteLost, RemoteLimited, Remove, Confirm, TakeWaiters, PushWaiter,
     Notified, env, Fault
<1>3. StoreFails(k) \/ RemoteLost(k) \/ RemoteLimited(k) => faults' = faults + 1
  BY DEF StoreFails, RemoteLost, RemoteLimited, Fault
<1>4. RemoteError(k) => faults' = faults + 1 \/ ~Accepted(worker[k].op, worker[k].call)
  BY DEF RemoteError, Fault
<1> QED
  BY <1>1, <1>2, <1>3, <1>4

(* The put of an entity comes to nothing: at most its one object is lost.   *)
LEMMA PutFailsLoses ==
  ASSUME Shape, StoreShape, ObjectsShape, NEW k \in Keys, Putting(worker[k]), Step(k),
         UNCHANGED <<rows, stoat>>
  PROVE  \E x : LostIds' \subseteq LostIds \cup {x}
<1> DEFINE row == rows[worker[k].op.entity]
           x == IF worker[k].pc = "confirm" THEN worker[k].call.id ELSE row.id
<1>1. LocalStore(worker[k], row) /\ worker[k].pc # "idle"
  BY DEF StoreShape, Putting
<1>2. ASSUME NEW p \in stoat, p.entity = worker[k].op.entity, HeldIn(worker[k], row, p.id)
      PROVE  p.id = x
  BY <1>1, <1>2 DEF HeldIn, LocalStore, ObjectsShape
<1> HIDE DEF x
<1>3. \A p \in stoat' : p.entity = worker[k].op.entity /\ HeldIn(worker[k], rows[p.entity], p.id) =>
                          p.id \in {x}
  BY <1>2
<1>4. LostIds' \subseteq LostIds \cup {x}
  BY <1>1, <1>3, LostAtMost
<1> QED
  BY <1>4

LEMMA RemoteLoses ==
  ASSUME Shape, StoreShape, ObjectsShape, PutShape, NEW k \in Keys, RemoteOk(k) \/ RemoteLost(k)
  PROVE  /\ RemoteOk(k) => LostIds' \subseteq LostIds
         /\ \E x : LostIds' \subseteq LostIds \cup {x}
<1> DEFINE op == worker[k].op
           call == worker[k].call
           row == rows[op.entity]
           S == IF RemoteOk(k) THEN {} ELSE {IF call.verb = "create" THEN nextId ELSE row.id}
<1>0. Step(k)
  BY DEF Step, Process
<1>1. /\ worker[k].pc = "remote" /\ rows' = rows /\ Effect(op, call)
      /\ LocalStore(worker[k], row) /\ LocalPut(worker[k], row, StoatIds) /\ op.entity \in Entities
  BY Busy DEF RemoteOk, RemoteLost, At, StoreShape, PutShape
<1>2. \A p \in stoat' : \/ \E o \in stoat : o.id = p.id /\ o.entity = p.entity
                        \/ call.verb = "create" /\ p.id = nextId /\ p.entity = op.entity
  BY <1>1, EffectObjects
<1>3. \A p \in stoat' : p.id # NoId
  BY <1>0, StepObjects DEF ObjectsShape
<1>4. RemoteOk(k) /\ op.kind # "delete" =>
        /\ worker'[k].pc = "confirm" /\ worker'[k].op = op
        /\ worker'[k].call.id = IF call.verb = "create" THEN nextId ELSE call.id
  <2>1. ASSUME RemoteOk(k), op.kind # "delete" PROVE Putting(worker'[k]) /\ worker'[k].pc = "confirm"
    <3>1. worker'[k] = [worker[k] EXCEPT !.pc = "confirm",
                          !.call.id = IF call.verb = "create" THEN nextId ELSE call.id]
      BY <2>1 DEF RemoteOk, Shape, StateTypeOK
    <3>2. worker[k] \in WorkerType
      BY DEF Shape, StateTypeOK
    <3>3. worker'[k].pc = "confirm" /\ worker'[k].op = op
      BY <3>1, <3>2 DEF WorkerType
    <3> QED
      BY <2>1, <3>3 DEF Putting
  <2> QED
    BY <1>0, <1>1, <2>1, PutBegins
<1> HIDE DEF op, call, row
<1>5. ASSUME NEW p \in stoat', p.entity = op.entity, HeldIn(worker[k], row, p.id)
      PROVE  p.id \in S \/ HeldIn(worker'[k], row, p.id)
  <2>1. row.id = p.id
    BY <1>1, <1>5 DEF HeldIn
  <2>2. CASE op.kind = "delete"
    BY <1>5, <2>2 DEF HeldIn, Putting, op
  <2>3. CASE op.kind # "delete"
    <3>1. call.verb # "create"
      BY <1>1, <1>3, <2>1 DEF LocalStore, call
    <3> QED
      BY <1>4, <2>1, <2>3, <3>1 DEF HeldIn, Putting
  <2> QED
    BY <2>2, <2>3
<1>6. ASSUME NEW p \in stoat', call.verb = "create", p.id = nextId
      PROVE  p.id \in S \/ HeldIn(worker'[k], row, p.id)
  <2>1. op.kind # "delete"
    BY <1>1, <1>6 DEF LocalStore, op, call
  <2> QED
    BY <1>4, <1>6, <2>1 DEF HeldIn, Putting
<1>7. LostIds' \subseteq LostIds \cup S
  <2> HIDE DEF S
  <2>1. /\ \A p \in stoat' : \/ \E o \in stoat : o.id = p.id /\ o.entity = p.entity
                             \/ /\ p.entity = worker[k].op.entity
                                /\ p.id \in S \/ HeldIn(worker'[k], rows'[p.entity], p.id)
        /\ \A p \in stoat' :
             p.entity = worker[k].op.entity /\ HeldIn(worker[k], rows[p.entity], p.id) =>
               p.id \in S \/ HeldIn(worker'[k], rows'[p.entity], p.id)
    BY <1>1, <1>2, <1>5, <1>6 DEF op, row
  <2> QED
    BY <1>0, <1>1, <2>1, LostAtMost
<1> QED
  BY <1>7 DEF S

(* WritePending, Confirm and Remove keep what their entity has.             *)
LEMMA RowLoses ==
  ASSUME Shape, StoreShape, ObjectsShape, PutShape, NEW k \in Keys,
         WritePending(k) \/ Confirm(k) \/ Remove(k)
  PROVE  LostIds' \subseteq LostIds
<1> DEFINE op == worker[k].op
           e == op.entity
           row == rows[e]
<1>0. Step(k)
  BY DEF Step, Process
<1>1. /\ worker[k].pc # "idle" /\ stoat' = stoat /\ e \in Entities /\ row \in RowType
      /\ rows \in [Entities -> RowType] /\ worker \in [Keys -> WorkerType]
      /\ LocalStore(worker[k], row) /\ LocalPut(worker[k], row, StoatIds)
  BY Busy DEF WritePending, Confirm, Remove, At, Shape, StateTypeOK, StoreShape, PutShape
<1>2. ASSUME \A p \in stoat : p.entity = e /\ HeldIn(worker[k], row, p.id) =>
                                HeldIn(worker'[k], rows'[e], p.id)
      PROVE  LostIds' \subseteq LostIds
  <2>1. LostIds' \subseteq LostIds \cup {}
    BY <1>0, <1>1, <1>2, LostAtMost
  <2> QED
    BY <2>1
<1>3. CASE WritePending(k)
  <2>1. worker'[k] = [worker[k] EXCEPT !.pc = "apply"]
    BY <1>1, <1>3 DEF WritePending, Goto
  <2>2. worker'[k].pc = "apply" /\ worker'[k].op = op
    BY <1>1, <2>1 DEF WorkerType
  <2>3. rows'[e] = PendingRow(e, row, op.state, op.channel) /\ worker[k].pc = "pending"
    BY <1>1, <1>3 DEF WritePending, At
  <2>4. rows'[e].id = row.id
    BY <2>3 DEF PendingRow, PendingMessageRow, PendingStructureRow
  <2>5. op.kind # "delete"
    BY <1>1, <2>3 DEF LocalStore
  <2> QED
    BY <1>2, <2>2, <2>3, <2>4, <2>5 DEF HeldIn, Putting
<1>4. CASE Confirm(k)
  <2>1. worker[k].pc = "confirm" /\ op.kind # "delete"
    BY <1>1, <1>4 DEF Confirm, At, LocalStore
  <2>2. Found(row) /\ row.id \in {NoId, worker[k].call.id}
    BY <1>1, <2>1 DEF LocalPut, Putting, LocalStore
  <2>3. rows'[e] = [row EXCEPT !.status = "active", !.id = worker[k].call.id]
    BY <1>1, <1>4, <2>2 DEF Confirm, ConfirmedRow
  <2>4. Active(rows'[e]) /\ rows'[e].id = worker[k].call.id
    BY <1>1, <2>3 DEF RowType, Active
  <2>5. ASSUME NEW p \in stoat, HeldIn(worker[k], row, p.id)
        PROVE  p.id = worker[k].call.id
    BY <2>2, <2>5 DEF HeldIn, ObjectsShape
  <2> QED
    BY <1>2, <2>4, <2>5 DEF HeldIn
<1>5. CASE Remove(k)
  <2>1. worker[k].pc = "remove"
    BY <1>5 DEF Remove, At
  <2>2. ASSUME NEW p \in stoat PROVE ~HeldIn(worker[k], row, p.id)
    BY <1>1, <2>1 DEF HeldIn, Putting, LocalPut, StoatIds
  <2> QED
    BY <1>2, <2>2
<1> QED
  BY <1>3, <1>4, <1>5

(* A step that is no failure loses nothing, a failed one a single object.   *)
LEMMA StepLoses ==
  ASSUME Shape, StoreShape, ObjectsShape, PutShape, NEW k \in Keys, Step(k)
  PROVE  \/ LostIds' \subseteq LostIds
         \/ faults' = faults + 1 /\ \E x : LostIds' \subseteq LostIds \cup {x}
<1>1. CASE WritePending(k) \/ Confirm(k) \/ Remove(k)
  BY <1>1, RowLoses
<1>2. CASE RemoteOk(k) \/ RemoteLost(k)
  BY <1>2, RemoteLoses, StepFaults
<1>3. CASE ~(WritePending(k) \/ Confirm(k) \/ Remove(k)) /\ ~(RemoteOk(k) \/ RemoteLost(k))
  <2>1. UNCHANGED <<rows, stoat>>
    BY <1>3, StepRows, StepObjects
  <2>2. CASE ~Putting(worker[k]) /\ ~Putting(worker'[k])
    BY <2>1, <2>2, LostSame
  <2>3. CASE Putting(worker[k]) /\ (StoreFails(k) \/ RemoteLimited(k))
    BY <2>1, <2>3, PutFailsLoses, StepFaults
  <2>4. CASE Putting(worker[k]) /\ RemoteError(k)
    <3>1. CASE faults' = faults + 1
      BY <2>1, <2>4, <3>1, PutFailsLoses
    <3>2. CASE ~Accepted(worker[k].op, worker[k].call)
      <4> DEFINE row == rows[worker[k].op.entity]
      <4>1. /\ worker[k].pc = "remote" /\ LocalStore(worker[k], row)
            /\ LocalPut(worker[k], row, StoatIds)
        BY <2>4 DEF RemoteError, At, StoreShape, PutShape
      <4>2. ASSUME NEW p \in stoat PROVE ~HeldIn(worker[k], row, p.id)
        <5>1. HeldIn(worker[k], row, p.id) => row.id = p.id
          BY <4>1 DEF HeldIn
        <5>2. p.id # NoId
          BY DEF ObjectsShape
        <5>3. worker[k].call.verb # "create" => row.id # p.id
          BY <3>2, <4>1 DEF Accepted, Live, LocalPut
        <5> QED
          BY <4>1, <5>1, <5>2, <5>3 DEF LocalStore
      <4>3. worker[k].pc # "idle" /\ \A p \in stoat : p.entity = worker[k].op.entity =>
                                        ~HeldIn(worker[k], rows[p.entity], p.id)
        BY <4>1, <4>2
      <4> HIDE DEF row
      <4>4. LostIds' \subseteq LostIds \cup {}
        BY <2>1, <4>3, LostAtMost
      <4> QED
        BY <4>4
    <3> QED
      BY <2>4, <3>1, <3>2, StepFaults
  <2>5. CASE Apply(k) /\ Putting(worker'[k])
    <3>1. worker'[k].pc = "remote" /\ worker[k].pc = "apply" /\ worker[k].pc # "idle"
      BY <2>5, PutBegins DEF Apply, WritePending, RemoteLimited, RemoteOk, At
    <3>2. \A row, id : HeldIn(worker[k], row, id) => HeldIn(worker'[k], row, id)
      BY <2>5, <3>1 DEF HeldIn
    <3>3. LostIds' \subseteq LostIds \cup {}
      BY <2>1, <3>1, <3>2, LostAtMost
    <3> QED
      BY <3>3
  <2>6. Putting(worker[k]) \/ Putting(worker'[k]) =>
          \/ Putting(worker[k]) /\ (StoreFails(k) \/ RemoteLimited(k) \/ RemoteError(k))
          \/ Apply(k) /\ Putting(worker'[k])
    <3>1. ASSUME Putting(worker'[k])
          PROVE  Apply(k) \/ (Putting(worker[k]) /\ RemoteLimited(k))
      BY <1>3, <3>1, PutBegins
    <3>2. ASSUME Putting(worker[k])
          PROVE  StoreFails(k) \/ RemoteLimited(k) \/ RemoteError(k) \/ (Apply(k) /\ Putting(worker'[k]))
      <4>1. StoreFails(k) \/ RemoteLimited(k) \/ RemoteError(k) \/ Apply(k)
        BY <1>3, <3>2 DEF Step, Process, Take, CheckDependency, MissDependency, Defer, Enqueue,
           LogDryRun, Begin, SkipEqual, Differs, WritePendingRefused, TakeWaiters, PushWaiter,
           Notified, Ready, At, Putting
      <4>2. ASSUME Apply(k) PROVE Putting(worker'[k])
        <5>1. worker[k].op.kind # "delete" /\ worker[k] \in WorkerType
          BY <3>2 DEF Putting, Shape, StateTypeOK
        <5>2. PICK c : worker' = [worker EXCEPT ![k] = [worker[k] EXCEPT !.pc = "remote", !.call = c]]
          BY <4>2, <5>1 DEF Apply, Shape, StateTypeOK
        <5>3. worker'[k].pc = "remote" /\ worker'[k].op = worker[k].op
          BY <5>1, <5>2 DEF Shape, StateTypeOK, WorkerType
        <5> QED
          BY <5>1, <5>3 DEF Putting
      <4> QED
        BY <4>1, <4>2
    <3> QED
      BY <3>1, <3>2
  <2> QED
    BY <2>2, <2>3, <2>4, <2>5, <2>6
<1> QED
  BY <1>1, <1>2, <1>3

LEMMA OneMore ==
  ASSUME NEW S, IsFiniteSet(S), NEW T, NEW n \in Nat, NEW m \in {n, n + 1}, Cardinality(S) <= n,
         T \subseteq S \/ (m = n + 1 /\ \E x : T \subseteq S \cup {x})
  PROVE  IsFiniteSet(T) /\ Cardinality(T) <= m
<1>1. Cardinality(S) \in Nat
  BY FS_CardinalityType
<1>2. CASE T \subseteq S
  <2>1. IsFiniteSet(T) /\ Cardinality(T) <= Cardinality(S) /\ Cardinality(T) \in Nat
    BY <1>2, FS_Subset, FS_CardinalityType
  <2> QED
    BY <1>1, <2>1
<1>3. ASSUME NEW x, T \subseteq S \cup {x}, m = n + 1
      PROVE  IsFiniteSet(T) /\ Cardinality(T) <= m
  <2>1. /\ IsFiniteSet(S \cup {x})
        /\ Cardinality(S \cup {x}) = IF x \in S THEN Cardinality(S) ELSE Cardinality(S) + 1
    BY FS_AddElement
  <2>2. IsFiniteSet(T) /\ Cardinality(T) <= Cardinality(S \cup {x}) /\ Cardinality(T) \in Nat
    BY <1>3, <2>1, FS_Subset, FS_CardinalityType
  <2>3. Cardinality(S \cup {x}) \in Nat /\ Cardinality(S \cup {x}) <= Cardinality(S) + 1
    BY <1>1, <2>1
  <2> QED
    BY <1>1, <1>3, <2>2, <2>3
<1> QED
  BY <1>2, <1>3

BlameShape ==
  /\ ObjectsShape /\ PutShape
  /\ IsFiniteSet(LostIds) /\ Cardinality(LostIds) <= faults

LEMMA InitBlame == Init => BlameShape
<1> SUFFICES ASSUME Init PROVE BlameShape
  OBVIOUS
<1>1. DOMAIN Mirrored = 1 .. Len(Mirrored) /\ Len(Mirrored) \in Nat /\ nextId = Len(Mirrored) + 1
  BY BoundsAssumption DEF Init
<1>2. stoat = {[id |-> i, entity |-> Mirrored[i], state |-> OldState, chan |-> NoId] : i \in DOMAIN Mirrored}
  BY DEF Init
<1>3. ASSUME NEW o \in stoat PROVE o.id \in DOMAIN Mirrored /\ o.entity = Mirrored[o.id]
  BY <1>2
<1>4. ObjectsShape
  <2>1. ASSUME NEW o \in stoat, NEW p \in stoat, o.id = p.id PROVE o = p
    BY <1>2, <2>1
  <2> QED
    BY <1>1, <1>3, <2>1 DEF ObjectsShape, NoId
<1>5. PutShape
  BY IdleTyped DEF Init, PutShape, LocalPut, Putting
<1>6. ASSUME NEW o \in stoat PROVE Held(o)
  <2>1. o.entity \in Entities /\ Mirrored[o.id] = o.entity /\ o.id \in DOMAIN Mirrored
    BY <1>1, <1>3, BoundsAssumption DEF Entities
  <2>2. rows[o.entity].status = "active"
        /\ rows[o.entity].id = CHOOSE i \in DOMAIN Mirrored : Mirrored[i] = o.entity
    BY <2>1 DEF Init
  <2>3. (CHOOSE i \in DOMAIN Mirrored : Mirrored[i] = o.entity) = o.id
    BY <2>1, BoundsAssumption
  <2> QED
    BY <2>2, <2>3 DEF Held, Active
<1>7. LostIds = {} /\ faults = 0
  BY <1>6 DEF LostIds, Init
<1> QED
  BY <1>4, <1>5, <1>7, FS_EmptySet DEF BlameShape

LEMMA NextBlame == ASSUME Shape, StoreShape, BlameShape, [Next]_vars PROVE BlameShape'
<1>1. ASSUME NEW k \in Keys, Step(k) PROVE BlameShape'
  <2>1. ObjectsShape' /\ PutShape'
    BY <1>1, StepObjects, StepPut, PutKept DEF BlameShape
  <2>2. \/ LostIds' \subseteq LostIds
        \/ faults' = faults + 1 /\ \E x : LostIds' \subseteq LostIds \cup {x}
    BY <1>1, StepLoses DEF BlameShape
  <2>3. faults \in Nat /\ faults' \in {faults, faults + 1}
    BY <1>1, StepFaults
  <2>4. IsFiniteSet(LostIds') /\ Cardinality(LostIds') <= faults'
    BY <2>2, <2>3, OneMore DEF BlameShape
  <2> QED
    BY <2>1, <2>4 DEF BlameShape
<1>2. CASE ~\E k \in Keys : Step(k)
  <2>1. UNCHANGED <<worker, rows, stoat, nextId, faults>>
    BY <1>2, OtherSteps DEF world
  <2>2. LostIds' = LostIds
    BY <2>1 DEF LostIds, Held
  <2> QED
    BY <2>1, <2>2 DEF BlameShape, ObjectsShape, PutShape, StoatIds
<1> QED
  BY <1>1, <1>2

LEMMA BlameAlways == Spec => [](Shape /\ StoreShape /\ BlameShape)
<1>1. Shape /\ StoreShape /\ BlameShape /\ [Next]_vars => BlameShape'
  BY NextBlame
<1> QED
  BY <1>1, InitBlame, StoreAlways, PTL DEF Spec

(* Objects that neither a row nor a worker knows of: one for each failed    *)
(* statement, request or retry at most, whatever the ops, the retries and   *)
(* the interleaving.                                                        *)
THEOREM OrphansAreBlamed == Spec => []OrphansBlamed
<1>1. ASSUME Shape, BlameShape PROVE OrphansBlamed
  <2>1. ASSUME NEW o \in Orphans PROVE o \in stoat /\ o.id \in LostIds
    <3>1. o \in stoat /\ o.entity \in Entities
      BY <1>1, <2>1 DEF Orphans, Shape, StateTypeOK, StoatType
    <3>2. ~Held(o)
      BY <2>1, <3>1 DEF Orphans, Held, HeldIn, At
    <3> QED
      BY <3>1, <3>2 DEF LostIds
  <2> DEFINE f == [o \in Orphans |-> o.id]
  <2>2. f \in Injection(Orphans, LostIds)
    <3>1. f \in [Orphans -> LostIds]
      BY <2>1
    <3>2. \A o, p \in Orphans : f[o] = f[p] => o = p
      BY <1>1, <2>1 DEF BlameShape, ObjectsShape
    <3> QED
      BY <3>1, <3>2 DEF Injection, IsInjective
  <2>3. IsFiniteSet(Orphans) /\ Cardinality(Orphans) <= Cardinality(LostIds)
    BY <1>1, <2>2, FS_Injection DEF BlameShape
  <2>4. Cardinality(Orphans) \in Nat /\ Cardinality(LostIds) \in Nat /\ faults \in Nat
    BY <1>1, <2>3, FS_CardinalityType DEF BlameShape, Shape, StateTypeOK
  <2> QED
    BY <1>1, <2>3, <2>4 DEF BlameShape, OrphansBlamed
<1> QED
  BY <1>1, BlameAlways, PTL

(* Until the first failure an entity has one object on Stoat at most:       *)
(* neither a deferred create taken up late, nor an update or a delete in    *)
(* flight, makes a second one.                                              *)
THEOREM OneCopyUntilFault == Spec => [](faults = 0 => OneLiveCopy)
<1>1. ASSUME Shape, StoreShape, BlameShape, faults = 0 PROVE OneLiveCopy
  <2>1. LostIds = {}
    <3>1. Cardinality(LostIds) \in Nat /\ Cardinality(LostIds) <= 0
      BY <1>1, FS_CardinalityType DEF BlameShape
    <3> QED
      BY <1>1, <3>1, FS_EmptySet DEF BlameShape
  <2>2. \A o \in stoat : Held(o) /\ o.id # NoId
    BY <1>1, <2>1 DEF LostIds, BlameShape, ObjectsShape
  <2>3. ASSUME NEW o \in stoat, NEW p \in stoat, o.entity = p.entity PROVE o.id = p.id
    <3>1. CASE \E k \in Keys : Putting(worker[k]) /\ worker[k].op.entity = o.entity
      <4>1. PICK k \in Keys : Putting(worker[k]) /\ worker[k].op.entity = o.entity
        BY <3>1
      <4>2. worker[k].pc # "idle" /\ LocalStore(worker[k], rows[o.entity])
        BY <1>1, <4>1 DEF Putting, StoreShape
      <4>3. HeldIn(worker[k], rows[o.entity], o.id) /\ HeldIn(worker[k], rows[o.entity], p.id)
        BY <1>1, <2>2, <2>3, <4>1, <4>2, OwnHeld
      <4> QED
        BY <2>2, <4>2, <4>3 DEF HeldIn, LocalStore
    <3>2. CASE ~\E k \in Keys : Putting(worker[k]) /\ worker[k].op.entity = o.entity
      BY <2>2, <2>3, <3>2 DEF Held
    <3> QED
      BY <3>1, <3>2
  <2> QED
    BY <2>3 DEF OneLiveCopy
<1> QED
  BY <1>1, BlameAlways, PTL

-----------------------------------------------------------------------------
(* Mappings that outlive their objects, while no op deletes a channel that  *)
(* messages live in (HomesStay).                                            *)
HomeIds   == {NoId} \cup {rows[c].id : c \in Homes}

LocalStale(w, row, homes, ids) ==
  /\ w.pc = "remote" => w.call.chan \in homes
  /\ w.pc = "remote" /\ w.op.kind = "delete" => Active(row)
  /\ w.pc = "remove" => w.op.kind = "delete"
  /\ w.pc = "confirm" => w.call.id \in ids

RowStale(row) ==
  /\ Active(row) => row.id # NoId
  /\ row.channel \in Homes \cup {Null}

StaleShape ==
  /\ \A e \in Entities : RowStale(rows[e])
  /\ \A o \in stoat : o.chan \in HomeIds
  /\ \A k \in Keys : LocalStale(worker[k], rows[worker[k].op.entity], HomeIds, StoatIds)

(* No id leaves Stoat but the target of a delete.                           *)
LEMMA IdsStay ==
  ASSUME HomesStay, Shape, StoreShape, BlameShape, StaleShape, NEW k \in Keys, Step(k),
         NEW id \in StoatIds, id \notin StoatIds'
  PROVE  /\ RemoteOk(k) \/ RemoteLost(k)
         /\ worker[k].op.kind = "delete" /\ id = rows[worker[k].op.entity].id
<1> DEFINE call == worker[k].call
           row == rows[worker[k].op.entity]
<1>1. RemoteOk(k) \/ RemoteLost(k)
  BY StepObjects DEF StoatIds, BlameShape
<1>2. /\ worker[k].pc = "remote" /\ Effect(worker[k].op, call) /\ LocalStore(worker[k], row)
      /\ LocalPut(worker[k], row, StoatIds) /\ LocalStale(worker[k], row, HomeIds, StoatIds)
  BY <1>1 DEF RemoteOk, RemoteLost, At, StoreShape, BlameShape, PutShape, StaleShape
<1>3. worker[k].op \in Ops /\ worker[k].op.entity \in Entities /\ stoat \subseteq StoatType
  BY <1>2, Busy DEF Shape, StateTypeOK
<1>4. PICK o \in stoat : o.id = id
  BY DEF StoatIds
<1> HIDE DEF call
<1>5. CASE call.verb = "create"
  BY <1>2, <1>4, <1>5 DEF Effect, StoatIds, call
<1>6. CASE call.verb = "edit"
  <2>1. stoat' = {IF p.id = call.id THEN [p EXCEPT !.state = worker[k].op.state] ELSE p : p \in stoat}
    BY <1>2, <1>6 DEF Effect, call
  <2>2. [o EXCEPT !.state = worker[k].op.state].id = o.id
    BY <1>3 DEF StoatType
  <2> QED
    BY <1>4, <2>1, <2>2 DEF StoatIds
<1>7. CASE call.verb \notin {"create", "edit"}
  <2>1. stoat' = {p \in stoat : p.id # call.id /\ p.chan # call.id}
    BY <1>2, <1>7 DEF Effect, call
  <2>2. worker[k].op.kind = "delete" /\ call.id = row.id /\ Active(row)
    BY <1>2, <1>7 DEF LocalStore, LocalPut, LocalStale, call
  <2>3. row.id # NoId /\ o.chan \in HomeIds /\ worker[k].op.entity \notin Homes
    BY <1>3, <2>2 DEF StaleShape, RowStale, HomesStay
  <2>4. \A c \in Homes : c \in Entities
    BY OpsAssumption DEF Homes, OpType, Entities
  <2>5. o.chan # row.id
    <3>1. ASSUME NEW c \in Homes, rows[c].id = row.id PROVE FALSE
      <4>1. c \in Entities /\ c # worker[k].op.entity
        BY <2>3, <2>4
      <4>2. row.id \in Claims(c) \cap Claims(worker[k].op.entity)
        BY <3>1 DEF Claims
      <4> QED
        BY <1>3, <2>3, <4>1, <4>2 DEF StoreShape
    <3> QED
      BY <2>3, <3>1 DEF HomeIds
  <2> QED
    BY <1>1, <1>4, <2>1, <2>2, <2>5 DEF StoatIds
<1> QED
  BY <1>5, <1>6, <1>7

(* What the step of worker k leaves of another entity's ids on Stoat.       *)
LEMMA OthersStay ==
  ASSUME HomesStay, Shape, StoreShape, BlameShape, StaleShape, NEW k \in Keys, Step(k),
         NEW e \in Entities, worker[k].pc # "idle" => e # worker[k].op.entity,
         NEW id \in Claims(e), id \in StoatIds
  PROVE  id \in StoatIds'
<1> SUFFICES ASSUME id \notin StoatIds' PROVE FALSE
  OBVIOUS
<1>1. /\ RemoteOk(k) \/ RemoteLost(k)
      /\ id = rows[worker[k].op.entity].id
  BY IdsStay
<1>2. worker[k].pc # "idle" /\ worker[k].op.entity \in Entities
  BY <1>1, Busy DEF RemoteOk, RemoteLost, At
<1>3. id # NoId
  BY DEF BlameShape, ObjectsShape, StoatIds
<1> QED
  BY <1>1, <1>2, <1>3 DEF StoreShape, Claims

(* The row of a channel with messages never goes, nor does its id.          *)

(* A row keeps its id until it is removed.                                  *)
LEMMA RowKeepsId ==
  ASSUME Shape, StoreShape, NEW k \in Keys, Step(k), NEW c \in Entities, rows[c].id # NoId
  PROVE  \/ rows'[c].id = rows[c].id
         \/ worker[k].pc # "idle" /\ c = worker[k].op.entity /\ Remove(k)
<1> DEFINE op == worker[k].op
           row == rows[op.entity]
<1>1. /\ rows \in [Entities -> RowType] /\ worker[k] \in WorkerType
      /\ LocalStore(worker[k], row)
  BY DEF Shape, StateTypeOK, StoreShape
<1>2. CASE rows'[c] = rows[c]
  BY <1>2
<1>3. CASE worker[k].pc # "idle" /\ c = op.entity /\ WritePending(k)
  <2>1. rows'[c] = PendingRow(c, row, op.state, op.channel)
    BY <1>1, <1>3 DEF WritePending
  <2> QED
    BY <1>3, <2>1 DEF PendingRow, PendingMessageRow, PendingStructureRow
<1>4. CASE worker[k].pc # "idle" /\ c = op.entity /\ Confirm(k)
  <2>1. rows'[c] = ConfirmedRow(row, worker[k].call.id) /\ row.id = worker[k].call.id
    BY <1>1, <1>4 DEF Confirm, At, LocalStore
  <2>2. row \in RowType /\ worker[k].call.id \in Nat
    BY <1>1, <1>4 DEF WorkerType, CallType
  <2> QED
    BY <1>4, <2>1, <2>2 DEF ConfirmedRow, RowType
<1> QED
  BY <1>2, <1>3, <1>4, StepRows

LEMMA HomeKept ==
  ASSUME HomesStay, Shape, StoreShape, StaleShape, NEW k \in Keys, Step(k),
         NEW c \in Homes, rows[c].id # NoId
  PROVE  rows'[c].id = rows[c].id
<1> DEFINE op == worker[k].op
<1>1. c \in Entities
  BY OpsAssumption DEF Homes, OpType, Entities
<1>2. CASE worker[k].pc # "idle" /\ c = op.entity /\ Remove(k)
  <2>1. op.kind = "delete" /\ op \in Ops
    BY <1>2, Busy DEF Remove, At, Shape, StaleShape, LocalStale
  <2> QED
    BY <1>2, <2>1 DEF HomesStay
<1> QED
  BY <1>1, <1>2, RowKeepsId

LEMMA HomesKept ==
  ASSUME HomesStay, Shape, StoreShape, StaleShape, NEW k \in Keys, Step(k)
  PROVE  HomeIds \subseteq HomeIds'
BY HomeKept DEF HomeIds

LEMMA StepStaleLocal ==
  ASSUME HomesStay, Shape, StoreShape, BlameShape, StaleShape, NEW k \in Keys, Step(k)
  PROVE  LocalStale(worker'[k], rows'[worker'[k].op.entity], HomeIds', StoatIds')
<1> DEFINE v == worker'[k]
           op == worker[k].op
           row == rows[op.entity]
<1>1. /\ worker \in [Keys -> WorkerType] /\ worker[k] \in WorkerType
      /\ rows \in [Entities -> RowType] /\ nextId \in Nat
  BY DEF Shape, StateTypeOK
<1>2. CASE Apply(k) /\ ~Goto(k, "remove")
  <2> DEFINE c == [verb |-> IF op.kind = "delete" THEN "delete" ELSE ApplyVerb(row),
                   id |-> row.id, chan |-> StoatChannel(op)]
  <2>1. v = [worker[k] EXCEPT !.pc = "remote", !.call = c] /\ rows' = rows
        /\ (op.kind = "delete" => Active(row))
    BY <1>1, <1>2 DEF Apply, world
  <2>2. v.pc = "remote" /\ v.call = c /\ v.op = op /\ c.chan = StoatChannel(op)
    BY <1>1, <2>1 DEF WorkerType
  <2>3. op \in Ops /\ op.entity \in Entities
    BY <1>2, Busy DEF Apply, At
  <2>4. c.chan \in HomeIds'
    <3>1. StoatChannel(op) \in HomeIds
      BY <2>3 DEF StoatChannel, HomeIds, Homes
    <3> QED
      BY <2>2, <3>1, HomesKept
  <2> HIDE DEF c
  <2> QED
    BY <2>1, <2>2, <2>4 DEF LocalStale
<1>3. CASE RemoteOk(k) /\ op.kind # "delete"
  <2>1. worker[k].pc = "remote" /\ Effect(op, worker[k].call) /\ Accepted(op, worker[k].call)
    BY <1>3 DEF RemoteOk, At
  <2>2. v = [worker[k] EXCEPT !.pc = "confirm",
                !.call.id = IF worker[k].call.verb = "create" THEN nextId ELSE worker[k].call.id]
    BY <1>1, <1>3 DEF RemoteOk
  <2>3. v.pc = "confirm" /\ v.op = op
    BY <1>1, <2>2 DEF WorkerType
  <2>4. Putting(v)
    BY <1>3, <2>3 DEF Putting
  <2>5. v.call.id = IF worker[k].call.verb = "create" THEN nextId ELSE worker[k].call.id
    BY <2>3, <2>4, PutBegins
  <2>6. CASE worker[k].call.verb = "create"
    <3> DEFINE new == [id |-> nextId, entity |-> op.entity, state |-> op.state,
                       chan |-> worker[k].call.chan]
    <3>1. new \in stoat'
      BY <2>1, <2>6 DEF Effect
    <3>2. new.id = nextId
      OBVIOUS
    <3> HIDE DEF new
    <3>3. nextId \in StoatIds'
      BY <3>1, <3>2 DEF StoatIds
    <3> QED
      BY <2>3, <2>5, <2>6, <3>3 DEF LocalStale
  <2>7. CASE worker[k].call.verb # "create"
    <3>1. worker[k].call.id \in StoatIds
      BY <2>1, <2>7 DEF Accepted, Live, StoatIds
    <3>2. worker[k].call.id \in StoatIds'
      BY <1>3, <3>1, IdsStay
    <3> QED
      BY <2>3, <2>5, <2>7, <3>2 DEF LocalStale
  <2> QED
    BY <2>6, <2>7
<1>4. CASE v.pc \notin {"remote", "confirm", "remove"}
  BY <1>4 DEF LocalStale
<1>5. CASE v.pc = "remove" /\ v.op.kind = "delete"
  BY <1>5 DEF LocalStale
<1>6. v.pc \in {"remote", "confirm", "remove"} =>
        \/ Apply(k) /\ ~Goto(k, "remove")
        \/ RemoteOk(k) /\ op.kind # "delete"
        \/ v.pc = "remove" /\ v.op.kind = "delete"
  <2>1. CASE Putting(v)
    <3>1. v.op = op /\ v.op.kind # "delete"
      BY <2>1, PutBegins DEF Putting
    <3>2. Goto(k, "remove") => v.pc = "remove"
      BY <1>1 DEF Goto, WorkerType
    <3> QED
      BY <2>1, <3>1, <3>2, PutBegins
  <2>2. CASE ~Putting(v)
    <3>1. ASSUME NEW label, Goto(k, label) PROVE v.pc = label /\ v.op = op
      BY <1>1, <3>1 DEF Goto, WorkerType
    <3>2. CASE Apply(k)
      <4>1. CASE op.kind = "delete"
        BY <3>1, <3>2, <4>1
      <4>2. CASE op.kind # "delete"
        <5>1. \E c : v = [worker[k] EXCEPT !.pc = "remote", !.call = c]
          BY <1>1, <3>2, <4>2 DEF Apply
        <5>2. v.pc = "remote"
          BY <1>1, <5>1 DEF WorkerType
        <5> QED
          BY <3>1, <3>2, <5>2
      <4> QED
        BY <4>1, <4>2
    <3>3. CASE RemoteOk(k)
      <4>1. v = [worker[k] EXCEPT !.pc = IF op.kind = "delete" THEN "remove" ELSE "confirm",
                  !.call.id = IF worker[k].call.verb = "create" THEN nextId ELSE worker[k].call.id]
        BY <1>1, <3>3 DEF RemoteOk
      <4>2. v.pc = (IF op.kind = "delete" THEN "remove" ELSE "confirm") /\ v.op = op
        BY <1>1, <4>1 DEF WorkerType
      <4> QED
        BY <3>3, <4>2
    <3>4. CASE RemoteLimited(k)
      <4>1. v = Idle \/ \E n : v = [worker[k] EXCEPT !.pc = "apply", !.tries = n, !.call = NoCall]
        BY <1>1, <3>4 DEF RemoteLimited, Return
      <4> QED
        BY <1>1, <4>1, IdleTyped DEF WorkerType
    <3>5. CASE Begin(k) \/ Differs(k) \/ WritePending(k) \/ Confirm(k)
      BY <3>1, <3>5 DEF Begin, Differs, WritePending, Confirm
    <3>6. CASE Take(k)
      BY <1>1, <3>6 DEF Take, Idle
    <3>7. CASE CheckDependency(k) \/ PushWaiter(k)
      <4>1. \/ \E t : v = [worker[k] EXCEPT !.todo = t]
            \/ \E s : v = [worker[k] EXCEPT !.pushing = s]
        BY <1>1, <3>7 DEF CheckDependency, PushWaiter
      <4>2. v.pc = worker[k].pc
        BY <1>1, <4>1 DEF WorkerType
      <4> QED
        BY <3>7, <4>2 DEF CheckDependency, PushWaiter, At
    <3>8. CASE MissDependency(k) \/ TakeWaiters(k)
      <4>1. \/ \E d : v = [worker[k] EXCEPT !.pc = "defer", !.missing = d]
            \/ \E s : v = [worker[k] EXCEPT !.pc = "push", !.pushing = s]
        BY <1>1, <3>8 DEF MissDependency, TakeWaiters
      <4>2. v.pc \in {"defer", "push"}
        BY <1>1, <4>1 DEF WorkerType
      <4> QED
        BY <4>2
    <3>9. CASE Defer(k) \/ Enqueue(k) \/ LogDryRun(k) \/ SkipEqual(k) \/ WritePendingRefused(k)
                \/ StoreFails(k) \/ RemoteError(k) \/ RemoteLost(k) \/ Remove(k) \/ Notified(k)
      BY <1>1, <3>9, IdleTyped DEF Defer, Enqueue, LogDryRun, SkipEqual, WritePendingRefused,
         StoreFails, RemoteError, RemoteLost, Remove, Notified, Return
    <3> QED
      BY <3>2, <3>3, <3>4, <3>5, <3>6, <3>7, <3>8, <3>9 DEF Step, Process
  <2> QED
    BY <2>1, <2>2
<1> QED
  BY <1>2, <1>3, <1>4, <1>5, <1>6

LEMMA StepStale ==
  ASSUME HomesStay, Shape, StoreShape, BlameShape, StaleShape, NEW k \in Keys, Step(k)
  PROVE  StaleShape'
<1> DEFINE op == worker[k].op
           row == rows[op.entity]
<1>1. /\ rows \in [Entities -> RowType] /\ worker[k] \in WorkerType /\ stoat \subseteq StoatType
      /\ LocalStore(worker[k], row) /\ LocalStale(worker[k], row, HomeIds, StoatIds)
  BY DEF Shape, StateTypeOK, StoreShape, StaleShape
<1>2. ASSUME NEW e \in Entities PROVE RowStale(rows'[e])
  <2>1. RowStale(rows[e]) /\ rows[e] \in RowType
    BY <1>1 DEF StaleShape
  <2>2. CASE rows'[e] = rows[e]
    BY <2>1, <2>2
  <2>3. CASE worker[k].pc # "idle" /\ e = op.entity /\ WritePending(k)
    <3>1. rows'[e] = PendingRow(e, row, op.state, op.channel) /\ op \in Ops
      BY <1>1, <2>3, Busy DEF WritePending
    <3>2. op.channel \in Homes \cup {Null}
      BY <3>1 DEF Homes
    <3> QED
      BY <2>1, <2>3, <3>1, <3>2
         DEF RowStale, PendingRow, PendingMessageRow, PendingStructureRow, Active
  <2>4. CASE worker[k].pc # "idle" /\ e = op.entity /\ Confirm(k)
    <3>1. rows'[e] = ConfirmedRow(rows[e], worker[k].call.id) /\ worker[k].call.id # NoId
      BY <1>1, <2>4 DEF Confirm, At, LocalStore
    <3> QED
      BY <2>1, <3>1 DEF ConfirmedRow, RowStale, RowType, Active
  <2>5. CASE worker[k].pc # "idle" /\ e = op.entity /\ Remove(k)
    <3>1. rows'[e] = rows[e] \/ rows'[e] = Absent
      BY <1>1, <2>5 DEF Remove
    <3> QED
      BY <2>1, <3>1 DEF RowStale, Absent, Active
  <2> QED
    BY <2>2, <2>3, <2>4, <2>5, StepRows
<1>3. \A o \in stoat' : o.chan \in HomeIds'
  <2>1. \A o \in stoat : o.chan \in HomeIds'
    BY HomesKept DEF StaleShape
  <2>2. CASE RemoteOk(k) \/ RemoteLost(k)
    <3> DEFINE call == worker[k].call
    <3>1. Effect(op, call) /\ call.chan \in HomeIds'
      BY <1>1, <2>2, HomesKept DEF RemoteOk, RemoteLost, At, LocalStale
    <3> HIDE DEF call
    <3>2. CASE call.verb = "create"
      <4> DEFINE new == [id |-> nextId, entity |-> op.entity, state |-> op.state, chan |-> call.chan]
      <4>1. stoat' = stoat \cup {new} /\ new.chan = call.chan
        BY <3>1, <3>2 DEF Effect
      <4> QED
        BY <2>1, <3>1, <4>1
    <3>3. CASE call.verb = "edit"
      <4>1. stoat' = {IF p.id = call.id THEN [p EXCEPT !.state = op.state] ELSE p : p \in stoat}
        BY <3>1, <3>3 DEF Effect
      <4>2. \A p \in stoat : [p EXCEPT !.state = op.state].chan = p.chan
        BY <1>1 DEF StoatType
      <4> QED
        BY <2>1, <4>1, <4>2
    <3>4. CASE call.verb \notin {"create", "edit"}
      BY <2>1, <3>1, <3>4 DEF Effect
    <3> QED
      BY <3>2, <3>3, <3>4
  <2>3. CASE ~(RemoteOk(k) \/ RemoteLost(k))
    BY <2>1, <2>3, StepObjects DEF BlameShape
  <2> QED
    BY <2>2, <2>3
<1>4. ASSUME NEW j \in Keys
      PROVE  LocalStale(worker'[j], rows'[worker'[j].op.entity], HomeIds', StoatIds')
  <2>1. CASE j = k
    BY <2>1, StepStaleLocal
  <2>2. CASE j # k /\ worker[j].pc = "idle"
    BY <2>2, OneWorkerMoves DEF LocalStale
  <2>3. CASE j # k /\ worker[j].pc # "idle"
    <3>1. worker'[j] = worker[j] /\ worker[j].op.entity \in Entities
      BY <2>3, OneWorkerMoves, Busy
    <3>2. worker[k].pc # "idle" => worker[j].op.entity # op.entity
      BY <2>3, OwnEntity
    <3>3. rows'[worker[j].op.entity] = rows[worker[j].op.entity]
      BY <3>1, <3>2, StepRows
    <3>4. LocalStale(worker[j], rows[worker[j].op.entity], HomeIds, StoatIds)
      BY DEF StaleShape
    <3>5. worker[j].pc = "confirm" => worker[j].call.id \in StoatIds'
      <4>1. ASSUME worker[j].pc = "confirm" PROVE worker[j].call.id \in Claims(worker[j].op.entity)
        BY <4>1 DEF Claims, Confirming
      <4> QED
        BY <3>1, <3>2, <3>4, <4>1, OthersStay DEF LocalStale
    <3> QED
      BY <3>1, <3>3, <3>4, <3>5, HomesKept DEF LocalStale
  <2> QED
    BY <2>1, <2>2, <2>3
<1> QED
  BY <1>2, <1>3, <1>4 DEF StaleShape

(* A step that is no failure makes no row stale, a failed one a single row. *)
LEMMA StepGoesStale ==
  ASSUME HomesStay, Shape, StoreShape, BlameShape, StaleShape, NEW k \in Keys, Step(k)
  PROVE  \/ StaleRows' \subseteq StaleRows
         \/ faults' = faults + 1 /\ \E x : StaleRows' \subseteq StaleRows \cup {x}
<1> DEFINE op == worker[k].op
           e == op.entity
           row == rows[e]
<1>1. /\ rows \in [Entities -> RowType] /\ worker[k] \in WorkerType
      /\ LocalStore(worker[k], row) /\ LocalStale(worker[k], row, HomeIds, StoatIds)
  BY DEF Shape, StateTypeOK, StoreShape, StaleShape
<1>2. StaleRows = {d \in Roles \cup Channels :
                     /\ Active(rows[d]) /\ rows[d].id \notin StoatIds
                     /\ \A j \in Keys : ~(At(j, "remove") /\ worker[j].op.entity = d)}
  BY DEF StaleRows, Live, StoatIds
<1>3. StaleRows' = {d \in Roles \cup Channels :
                     /\ Active(rows'[d]) /\ rows'[d].id \notin StoatIds'
                     /\ \A j \in Keys : ~(worker'[j].pc = "remove" /\ worker'[j].op.entity = d)}
  BY DEF StaleRows, Live, StoatIds, At
<1>4. ASSUME NEW d \in StaleRows', worker[k].pc # "idle" => d # e
      PROVE  d \in StaleRows
  <2>1. d \in Roles \cup Channels /\ d \in Entities
    BY <1>3 DEF Entities
  <2>2. rows'[d] = rows[d]
    BY <1>4, <2>1, StepRows
  <2>3. rows[d].id \notin StoatIds
    BY <1>3, <1>4, <2>1, <2>2, OthersStay DEF Claims
  <2>4. ASSUME NEW j \in Keys, At(j, "remove"), worker[j].op.entity = d PROVE FALSE
    <3>1. j # k
      BY <1>4, <2>4 DEF At
    <3>2. worker'[j] = worker[j]
      BY <3>1, OneWorkerMoves
    <3> QED
      BY <1>3, <2>4, <3>2 DEF At
  <2> QED
    BY <1>2, <1>3, <2>1, <2>2, <2>3, <2>4
<1>5. ASSUME worker[k].pc # "idle", e \in StaleRows', e \notin StaleRows
      PROVE  faults' = faults + 1
  <2>1. e \in Roles \cup Channels /\ e \in Entities /\ op \in Ops
        /\ Active(rows'[e]) /\ rows'[e].id \notin StoatIds'
        /\ ~(worker'[k].pc = "remove" /\ worker'[k].op.entity = e)
    BY <1>3, <1>5, Busy
  <2>2. ~WritePending(k)
    <3>1. ASSUME WritePending(k) PROVE FALSE
      <4>1. rows'[e] = PendingRow(e, row, op.state, op.channel)
        BY <1>1, <2>1, <3>1 DEF WritePending
      <4>2. e \notin Messages
        BY <2>1, EntitiesAssumption
      <4> QED
        BY <2>1, <4>1, <4>2 DEF PendingRow, PendingStructureRow, Active
    <3> QED
      BY <3>1
  <2>3. ~Confirm(k)
    <3>1. ASSUME Confirm(k) PROVE FALSE
      <4>1. /\ rows'[e] = ConfirmedRow(row, worker[k].call.id) /\ stoat' = stoat
            /\ worker[k].call.id \in StoatIds
        BY <1>1, <2>1, <3>1 DEF Confirm, At, LocalStale
      <4>2. row \in RowType
        BY <1>1, <2>1
      <4>3. rows'[e].id = worker[k].call.id
        BY <2>1, <4>1, <4>2 DEF ConfirmedRow, RowType, Active, Found
      <4> QED
        BY <2>1, <4>1, <4>3 DEF StoatIds
    <3> QED
      BY <3>1
  <2>4. ~Remove(k)
    <3>1. ASSUME Remove(k) PROVE FALSE
      <4>1. op.kind = "delete"
        BY <1>1, <3>1 DEF Remove, At, LocalStale
      <4>2. e \notin Homes \cup {Null}
        BY <2>1, <4>1, EntitiesAssumption DEF HomesStay
      <4>3. MayRemove(rows, e)
        BY <4>2 DEF MayRemove, StaleShape, RowStale, Entities
      <4>4. rows'[e] = Absent
        BY <1>1, <2>1, <3>1, <4>3 DEF Remove
      <4> QED
        BY <2>1, <4>4 DEF Active, Absent
    <3> QED
      BY <3>1
  <2>5. rows' = rows
    BY <2>2, <2>3, <2>4, StepRows
  <2>6. CASE row.id \in StoatIds
    <3>1. (RemoteOk(k) \/ RemoteLost(k)) /\ op.kind = "delete"
      BY <2>1, <2>5, <2>6, IdsStay
    <3>2. ~RemoteOk(k)
      <4>1. ASSUME RemoteOk(k) PROVE FALSE
        <5>1. \E i : worker'[k] = [worker[k] EXCEPT !.pc = "remove", !.call.id = i]
          BY <3>1, <4>1 DEF RemoteOk, Shape, StateTypeOK
        <5>2. worker'[k].pc = "remove" /\ worker'[k].op = op
          BY <1>1, <5>1 DEF WorkerType
        <5> QED
          BY <2>1, <5>2
      <4> QED
        BY <4>1
    <3> QED
      BY <3>1, <3>2, StepFaults
  <2>7. CASE row.id \notin StoatIds
    <3>1. \E j \in Keys : At(j, "remove") /\ worker[j].op.entity = e
      BY <1>2, <1>5, <2>1, <2>5, <2>7
    <3>2. worker[k].pc = "remove"
      BY <1>5, <3>1, OwnEntity DEF At
    <3>3. StoreFails(k)
      BY <2>4, <3>2 DEF Step, Process, Take, CheckDependency, MissDependency, Defer, Enqueue,
         LogDryRun, Begin, SkipEqual, Differs, WritePending, WritePendingRefused, Apply, RemoteOk,
         RemoteError, RemoteLost, RemoteLimited, Confirm, TakeWaiters, PushWaiter,
         Notified, Ready, At
    <3> QED
      BY <3>3, StepFaults
  <2> QED
    BY <2>6, <2>7
<1>6. StaleRows' \subseteq StaleRows \cup {e}
  BY <1>4
<1>7. CASE worker[k].pc # "idle" /\ e \in StaleRows' /\ e \notin StaleRows
  BY <1>5, <1>6, <1>7
<1>8. CASE ~(worker[k].pc # "idle" /\ e \in StaleRows' /\ e \notin StaleRows)
  BY <1>4, <1>8
<1> QED
  BY <1>7, <1>8

StaleCount == IsFiniteSet(StaleRows) /\ Cardinality(StaleRows) <= faults

LEMMA InitStale == Init => StaleShape /\ StaleCount
<1> SUFFICES ASSUME Init PROVE StaleShape /\ StaleCount
  OBVIOUS
<1>1. DOMAIN Mirrored = 1 .. Len(Mirrored) /\ Len(Mirrored) \in Nat
  BY BoundsAssumption
<1>2. stoat = {[id |-> i, entity |-> Mirrored[i], state |-> OldState, chan |-> NoId] : i \in DOMAIN Mirrored}
  BY DEF Init
<1>3. ASSUME NEW e \in Entities
      PROVE  \/ rows[e] = Absent
             \/ /\ rows[e].id \in DOMAIN Mirrored /\ rows[e].channel = Null
  <2>1. CASE \E i \in DOMAIN Mirrored : Mirrored[i] = e
    BY <2>1 DEF Init
  <2>2. CASE ~\E i \in DOMAIN Mirrored : Mirrored[i] = e
    BY <2>2 DEF Init
  <2> QED
    BY <2>1, <2>2
<1>4. StaleShape
  <2>1. \A e \in Entities : RowStale(rows[e])
    BY <1>1, <1>3 DEF RowStale, Absent, Active, NoId
  <2>2. \A o \in stoat : o.chan \in HomeIds
    BY <1>2 DEF HomeIds
  <2> QED
    BY <2>1, <2>2, IdleTyped DEF Init, StaleShape, LocalStale
<1>5. ASSUME NEW e \in Entities, Active(rows[e]) PROVE Live(rows[e].id)
  <2>1. rows[e].id \in DOMAIN Mirrored
    BY <1>3, <1>5 DEF Absent, Active
  <2> DEFINE o == [id |-> rows[e].id, entity |-> Mirrored[rows[e].id], state |-> OldState, chan |-> NoId]
  <2>2. o \in stoat /\ o.id = rows[e].id
    BY <1>2, <2>1
  <2> QED
    BY <2>2 DEF Live
<1>6. StaleRows = {} /\ faults = 0
  BY <1>5 DEF StaleRows, Init, Entities
<1> QED
  BY <1>4, <1>6, FS_EmptySet DEF StaleCount

LEMMA NextStale ==
  ASSUME HomesStay, Shape, StoreShape, BlameShape, StaleShape, StaleCount, [Next]_vars
  PROVE  StaleShape' /\ StaleCount'
<1>1. ASSUME NEW k \in Keys, Step(k) PROVE StaleShape' /\ StaleCount'
  <2>1. \/ StaleRows' \subseteq StaleRows
        \/ faults' = faults + 1 /\ \E x : StaleRows' \subseteq StaleRows \cup {x}
    BY <1>1, StepGoesStale
  <2>2. faults \in Nat /\ faults' \in {faults, faults + 1}
    BY <1>1, StepFaults
  <2>3. IsFiniteSet(StaleRows') /\ Cardinality(StaleRows') <= faults'
    BY <2>1, <2>2, OneMore DEF StaleCount
  <2> QED
    BY <1>1, <2>3, StepStale DEF StaleCount
<1>2. CASE ~\E k \in Keys : Step(k)
  <2>1. UNCHANGED <<worker, rows, stoat, nextId, faults>>
    BY <1>2, OtherSteps DEF world
  <2>2. StaleRows' = StaleRows /\ HomeIds' = HomeIds /\ StoatIds' = StoatIds
    BY <2>1 DEF StaleRows, HomeIds, StoatIds, Live, At
  <2> QED
    BY <2>1, <2>2 DEF StaleShape, StaleCount
<1> QED
  BY <1>1, <1>2

(* Rows that name nothing on Stoat any more: one for each failed statement  *)
(* or request at most, as long as no channel with messages is deleted.      *)
THEOREM StaleRowsAreBlamed == ASSUME HomesStay PROVE Spec => []StaleRowsBlamed
<1>1. Shape /\ StoreShape /\ BlameShape /\ StaleShape /\ StaleCount /\ [Next]_vars =>
        StaleShape' /\ StaleCount'
  BY NextStale
<1>2. StaleCount => StaleRowsBlamed
  BY DEF StaleCount, StaleRowsBlamed
<1> QED
  BY <1>1, <1>2, InitStale, BlameAlways, PTL DEF Spec

-----------------------------------------------------------------------------
(* An op that Diff finds nothing to do for is one whose state Stoat shows,  *)
(* as long as nothing fails: then a row at rest says what its object says.  *)

(* What a worker can do from a label, and where that takes it.              *)
LEMMA WorkerGoes ==
  ASSUME Shape, NEW k \in Keys, Step(k), worker[k].pc # "idle"
  PROVE  \/ /\ worker'[k] = Idle
            /\ \/ /\ Defer(k) \/ Enqueue(k) \/ LogDryRun(k) \/ SkipEqual(k)
                     \/ WritePendingRefused(k) \/ Notified(k)
                  /\ worker[k].pc \notin {"apply", "remote", "confirm", "remove"}
                  /\ UNCHANGED world
               \/ faults' = faults + 1
               \/ RemoteError(k) /\ ~Accepted(worker[k].op, worker[k].call) /\ UNCHANGED world
               \/ Remove(k)
         \/ /\ worker'[k].op = worker[k].op
            /\ \/ CheckDependency(k) /\ worker'[k].pc = "deps"
               \/ MissDependency(k) /\ worker'[k].pc = "defer"
               \/ Begin(k) /\ worker'[k].pc = IF worker[k].op.kind = "delete" THEN "apply" ELSE "diff"
               \/ Differs(k) /\ worker'[k].pc = "pending"
               \/ WritePending(k) /\ worker'[k].pc = "apply"
               \/ Apply(k) /\ worker'[k].pc = "remove" /\ worker[k].op.kind = "delete"
               \/ Apply(k) /\ worker'[k].pc = "remote"
                           /\ worker'[k].call.chan = StoatChannel(worker[k].op)
               \/ RemoteLimited(k) /\ worker'[k].pc = "apply" /\ faults' = faults + 1
               \/ RemoteOk(k) /\ worker[k].op.kind = "delete" /\ worker'[k].pc = "remove"
               \/ RemoteOk(k) /\ worker[k].op.kind # "delete" /\ worker'[k].pc = "confirm"
               \/ Confirm(k) /\ worker'[k].pc = "notify"
               \/ (TakeWaiters(k) \/ PushWaiter(k)) /\ worker'[k].pc = "push"
<1> DEFINE v == worker'[k]
           op == worker[k].op
<1>1. worker \in [Keys -> WorkerType] /\ worker[k] \in WorkerType
  BY DEF Shape, StateTypeOK
<1>2. ASSUME NEW label, Goto(k, label) PROVE v.pc = label
  BY <1>1, <1>2 DEF Goto, WorkerType
<1>3. v.pc # "idle" => v.op = op
  BY OneWorkerMoves, IdleTyped
<1>4. CASE Apply(k)
  <2>1. CASE Goto(k, "remove") /\ op.kind = "delete"
    BY <1>2, <1>3, <1>4, <2>1
  <2>2. CASE ~(Goto(k, "remove") /\ op.kind = "delete")
    <3> DEFINE c == [verb |-> IF op.kind = "delete" THEN "delete" ELSE ApplyVerb(rows[op.entity]),
                     id |-> rows[op.entity].id, chan |-> StoatChannel(op)]
    <3>1. v = [worker[k] EXCEPT !.pc = "remote", !.call = c] /\ c.chan = StoatChannel(op)
      BY <1>1, <1>4, <2>2 DEF Apply
    <3> HIDE DEF c
    <3>2. v.pc = "remote" /\ v.call = c
      BY <1>1, <3>1 DEF WorkerType
    <3> QED
      BY <1>3, <1>4, <3>1, <3>2
  <2> QED
    BY <2>1, <2>2
<1>5. CASE RemoteOk(k)
  <2>1. v = [worker[k] EXCEPT !.pc = IF op.kind = "delete" THEN "remove" ELSE "confirm",
              !.call.id = IF worker[k].call.verb = "create" THEN nextId ELSE worker[k].call.id]
    BY <1>1, <1>5 DEF RemoteOk
  <2>2. v.pc = (IF op.kind = "delete" THEN "remove" ELSE "confirm")
    BY <1>1, <2>1 DEF WorkerType
  <2> QED
    BY <1>3, <1>5, <2>2
<1>6. CASE RemoteLimited(k)
  <2>1. v = Idle \/ \E n : v = [worker[k] EXCEPT !.pc = "apply", !.tries = n, !.call = NoCall]
    BY <1>1, <1>6 DEF RemoteLimited, Return
  <2>2. v = Idle \/ v.pc = "apply"
    BY <1>1, <2>1 DEF WorkerType
  <2> QED
    BY <1>3, <1>6, <2>2, StepFaults
<1>7. CASE Begin(k) \/ Differs(k) \/ WritePending(k) \/ Confirm(k)
  BY <1>2, <1>3, <1>7 DEF Begin, Differs, WritePending, Confirm
<1>8. CASE CheckDependency(k) \/ PushWaiter(k)
  <2>1. \/ \E t : v = [worker[k] EXCEPT !.todo = t]
        \/ \E s : v = [worker[k] EXCEPT !.pushing = s]
    BY <1>1, <1>8 DEF CheckDependency, PushWaiter
  <2>2. v.pc = worker[k].pc
    BY <1>1, <2>1 DEF WorkerType
  <2> QED
    BY <1>3, <1>8, <2>2 DEF CheckDependency, PushWaiter, At
<1>9. CASE MissDependency(k)
  <2>1. \E d : v = [worker[k] EXCEPT !.pc = "defer", !.missing = d]
    BY <1>1, <1>9 DEF MissDependency
  <2>2. v.pc = "defer"
    BY <1>1, <2>1 DEF WorkerType
  <2> QED
    BY <1>3, <1>9, <2>2
<1>10. CASE TakeWaiters(k)
  <2>1. \E s : v = [worker[k] EXCEPT !.pc = "push", !.pushing = s]
    BY <1>1, <1>10 DEF TakeWaiters
  <2>2. v.pc = "push"
    BY <1>1, <2>1 DEF WorkerType
  <2> QED
    BY <1>3, <1>10, <2>2
<1>11. CASE Defer(k) \/ Enqueue(k) \/ LogDryRun(k) \/ SkipEqual(k) \/ WritePendingRefused(k) \/ Notified(k)
  <2>1. /\ v = Idle /\ UNCHANGED world
        /\ worker[k].pc \notin {"apply", "remote", "confirm", "remove"}
    BY <1>1, <1>11 DEF Defer, Enqueue, LogDryRun, SkipEqual, WritePendingRefused, Notified, Ready,
       At, Return, world
  <2> QED
    BY <1>11, <2>1
<1>12. CASE StoreFails(k) \/ RemoteLost(k) \/ RemoteError(k) \/ Remove(k)
  <2>1. v = Idle
    BY <1>1, <1>12 DEF StoreFails, RemoteError, RemoteLost, Remove, Return
  <2>2. RemoteError(k) => UNCHANGED world
    BY DEF RemoteError
  <2> QED
    BY <1>12, <2>1, <2>2, StepFaults
<1>13. ~Take(k)
  BY DEF Take, At
<1> QED
  BY <1>4, <1>5, <1>6, <1>7, <1>8, <1>9, <1>10, <1>11, <1>12, <1>13 DEF Step, Process

(* What a message's put relies on: the channels with messages exist on      *)
(* Stoat once they are mapped, and a put has got its channel's id.          *)
ForMessage(w) == w.pc # "idle" /\ w.op.kind # "delete" /\ w.op.channel # Null

LocalHome(w) ==
  ForMessage(w) =>
    /\ w.pc \in {"diff", "pending", "apply", "remote"} \/ (w.pc = "deps" /\ w.op.channel \notin w.todo) =>
         rows[w.op.channel].id # NoId
    /\ w.pc = "remote" => w.call.chan # NoId

HomeShape ==
  /\ \A c \in Homes : rows[c].id # NoId => rows[c].id \in StoatIds
  /\ \A k \in Keys : LocalHome(worker[k])

LEMMA HomesLive ==
  ASSUME HomesStay, Shape, StoreShape, BlameShape, StaleShape, HomeShape, NEW k \in Keys, Step(k),
         NEW c \in Homes, rows'[c].id # NoId
  PROVE  rows'[c].id \in StoatIds'
<1> DEFINE op == worker[k].op
           row == rows[op.entity]
<1>1. c \in Entities /\ rows \in [Entities -> RowType]
  BY OpsAssumption DEF Homes, OpType, Entities, Shape, StateTypeOK
<1>2. CASE rows[c].id # NoId
  <2>1. rows'[c].id = rows[c].id /\ rows[c].id \in StoatIds
    BY <1>2, HomeKept DEF HomeShape
  <2> SUFFICES ASSUME rows[c].id \notin StoatIds' PROVE FALSE
    BY <2>1
  <2>2. /\ RemoteOk(k) \/ RemoteLost(k)
        /\ op.kind = "delete" /\ rows[c].id = row.id
    BY <2>1, IdsStay
  <2>3. op \in Ops /\ op.entity \in Entities
    BY <2>2, Busy DEF RemoteOk, RemoteLost, At
  <2>4. c # op.entity
    BY <2>2, <2>3 DEF HomesStay
  <2>5. rows[c].id \in Claims(c) \cap Claims(op.entity)
    BY <2>2 DEF Claims
  <2> QED
    BY <1>1, <1>2, <2>3, <2>4, <2>5 DEF StoreShape
<1>3. CASE rows[c].id = NoId
  <2>1. worker[k].pc # "idle" /\ c = op.entity /\ (WritePending(k) \/ Remove(k) \/ Confirm(k))
    BY <1>1, <1>3, StepRows
  <2>2. CASE WritePending(k)
    <3>1. rows'[c] = PendingRow(c, row, op.state, op.channel)
      BY <1>1, <2>1, <2>2 DEF WritePending
    <3> QED
      BY <1>3, <2>1, <3>1 DEF PendingRow, PendingMessageRow, PendingStructureRow
  <2>3. CASE Remove(k)
    <3>1. rows'[c] = rows[c] \/ rows'[c] = Absent
      BY <1>1, <2>1, <2>3 DEF Remove
    <3> QED
      BY <1>3, <3>1 DEF Absent
  <2>4. CASE Confirm(k)
    <3>1. rows'[c] = ConfirmedRow(row, worker[k].call.id) /\ stoat' = stoat /\ row \in RowType
      BY <1>1, <2>1, <2>4 DEF Confirm
    <3>2. rows'[c].id = worker[k].call.id
      BY <1>3, <2>1, <3>1 DEF ConfirmedRow, RowType
    <3>3. worker[k].call.id \in StoatIds
      BY <2>4 DEF Confirm, At, StaleShape, LocalStale
    <3> QED
      BY <3>1, <3>2, <3>3 DEF StoatIds
  <2> QED
    BY <2>1, <2>2, <2>3, <2>4
<1> QED
  BY <1>2, <1>3

LEMMA StepHomes ==
  ASSUME HomesStay, ChannelsFirst, Shape, StoreShape, BlameShape, StaleShape, HomeShape,
         NEW k \in Keys, Step(k)
  PROVE  HomeShape'
<1> DEFINE v == worker'[k]
           op == worker[k].op
<1>1. worker \in [Keys -> WorkerType] /\ worker[k] \in WorkerType /\ queue \in [Keys -> Seq(Ops)]
  BY DEF Shape, StateTypeOK
<1>2. ASSUME NEW o \in Ops, o.channel # Null, rows[o.channel].id # NoId
      PROVE  rows'[o.channel].id # NoId
  BY <1>2, HomeKept DEF Homes
<1>3. ASSUME NEW j \in Keys \ {k} PROVE LocalHome(worker[j])'
  <2>1. worker'[j] = worker[j] /\ LocalHome(worker[j])
    BY OneWorkerMoves DEF HomeShape
  <2>2. worker[j].pc # "idle" => worker[j].op \in Ops
    BY Busy
  <2> QED
    BY <1>2, <2>1, <2>2 DEF LocalHome, ForMessage
<1>4. LocalHome(worker[k])'
  <2>1. CASE v.pc = "idle"
    BY <2>1 DEF LocalHome, ForMessage
  <2>2. CASE worker[k].pc = "idle"
    <3>1. v = [Idle EXCEPT !.pc = "deps", !.op = Head(queue[k]), !.todo = Head(queue[k]).deps]
          /\ queue[k] \in Seq(Ops) /\ queue[k] # <<>>
      BY <1>1, <2>2, OneWorkerMoves DEF Take
    <3>2. v.pc = "deps" /\ v.op = Head(queue[k]) /\ v.todo = Head(queue[k]).deps
      BY <3>1 DEF Idle
    <3>3. Head(queue[k]) \in Ops
      BY <3>1, TailElements
    <3> QED
      BY <3>2, <3>3 DEF LocalHome, ForMessage, ChannelsFirst
  <2>3. CASE worker[k].pc # "idle" /\ v.pc # "idle"
    <3> SUFFICES ASSUME ForMessage(v)
                 PROVE  /\ v.pc \in {"diff", "pending", "apply", "remote"}
                             \/ (v.pc = "deps" /\ v.op.channel \notin v.todo) =>
                             rows'[v.op.channel].id # NoId
                        /\ v.pc = "remote" => v.call.chan # NoId
      BY DEF LocalHome
    <3>1. v.op = op /\ op \in Ops /\ op.channel # Null /\ op.kind # "delete" /\ ForMessage(worker[k])
      BY <2>3, WorkerGoes, IdleTyped, Busy DEF ForMessage
    <3>2. LocalHome(worker[k]) /\ LocalShape(k, worker[k])
      BY DEF HomeShape, Shape, WorkerShape
    <3>3. CASE CheckDependency(k) /\ v.pc = "deps"
      <4>1. PICK d : Met(d) /\ v = [worker[k] EXCEPT !.todo = @ \ {d}]
        BY <1>1, <3>3 DEF CheckDependency
      <4>2. v.todo = worker[k].todo \ {d}
        BY <1>1, <4>1 DEF WorkerType
      <4>3. CASE d = op.channel
        <5>1. op.channel \in Entities
          BY <3>1, OpsAssumption DEF OpType, Entities
        <5>2. rows[op.channel].id # NoId
          BY <4>1, <4>3, <5>1 DEF Met, StaleShape, RowStale
        <5> QED
          BY <1>2, <3>1, <3>3, <5>2
      <4>4. CASE d # op.channel
        <5>1. op.channel \notin v.todo => rows[op.channel].id # NoId
          BY <3>1, <3>2, <3>3, <4>2, <4>4 DEF LocalHome, CheckDependency, At
        <5> QED
          BY <1>2, <3>1, <3>3, <5>1
      <4> QED
        BY <4>3, <4>4
    <3>4. CASE Begin(k) \/ Differs(k) \/ WritePending(k) \/ RemoteLimited(k)
      <4>1. rows[op.channel].id # NoId /\ v.pc # "remote"
        BY <2>3, <3>1, <3>2, <3>4, WorkerGoes, IdleTyped
           DEF LocalHome, Begin, Differs, WritePending, RemoteLimited, Ready, At,
               Apply, CheckDependency, MissDependency, TakeWaiters, PushWaiter, RemoteOk, Confirm
      <4> QED
        BY <1>2, <3>1, <4>1
    <3>5. CASE Apply(k) /\ v.pc = "remote" /\ v.call.chan = StoatChannel(op)
      <4>1. rows[op.channel].id # NoId
        BY <3>1, <3>2, <3>5 DEF LocalHome, Apply, At
      <4> QED
        BY <1>2, <3>1, <3>5, <4>1 DEF StoatChannel
    <3>6. CASE v.pc \notin {"deps", "diff", "pending", "apply", "remote"}
      BY <3>6
    <3> QED
      BY <2>3, <3>1, <3>3, <3>4, <3>5, <3>6, WorkerGoes, IdleTyped
  <2> QED
    BY <2>1, <2>2, <2>3
<1>5. \A j \in Keys : LocalHome(worker[j])'
  BY <1>3, <1>4
<1>6. \A c \in Homes : rows'[c].id # NoId => rows'[c].id \in StoatIds'
  BY HomesLive
<1> QED
  BY <1>5, <1>6 DEF HomeShape

(* Until something fails: an entity's row at rest, or in the hands of a     *)
(* worker that has not begun to put or to remove it, has the id and the     *)
(* state of an object; a put's row has the op's state, and before the       *)
(* confirm so has the object.                                               *)
Told(row, S) == Found(row) => \E o \in S : o.id = row.id /\ o.state = row.state

AtWork(w) == Putting(w) \/ w.pc = "remove"

Quiet(e) == \A k \in Keys : worker[k].pc # "idle" /\ worker[k].op.entity = e => ~AtWork(worker[k])

LocalTold(w, row, S) ==
  /\ w.pc \in {"apply", "remote"} /\ Putting(w) =>
       row.state = w.op.state /\ (row.id # NoId => \E o \in S : o.id = row.id)
  /\ w.pc = "confirm" =>
       row.state = w.op.state /\ \E o \in S : o.id = w.call.id /\ o.state = w.op.state

ToldShape ==
  faults = 0 =>
    /\ \A e \in Entities : Quiet(e) => Told(rows[e], stoat)
    /\ \A k \in Keys : LocalTold(worker[k], rows[worker[k].op.entity], stoat)

(* The object of another entity than worker k's stays as it is.             *)
LEMMA ObjectStays ==
  ASSUME HomesStay, Shape, StoreShape, BlameShape, StaleShape, NEW k \in Keys, Step(k),
         NEW e \in Entities, worker[k].pc # "idle" => e # worker[k].op.entity,
         NEW o \in stoat, o.id \in Claims(e)
  PROVE  o \in stoat'
<1> DEFINE op == worker[k].op
           call == worker[k].call
           row == rows[op.entity]
<1>1. o.id \in StoatIds' /\ o.id # NoId
  BY OthersStay DEF StoatIds, BlameShape, ObjectsShape
<1>2. CASE ~(RemoteOk(k) \/ RemoteLost(k))
  BY <1>2, StepObjects DEF BlameShape
<1>3. CASE RemoteOk(k) \/ RemoteLost(k)
  <2>1. /\ worker[k].pc = "remote" /\ Effect(op, call) /\ LocalStore(worker[k], row)
    BY <1>3 DEF RemoteOk, RemoteLost, At, StoreShape
  <2>2. op.entity \in Entities /\ op.entity # e
    BY <2>1, Busy
  <2> HIDE DEF call
  <2>3. CASE call.verb = "create"
    BY <2>1, <2>3 DEF Effect
  <2>4. CASE call.verb = "edit"
    <3>1. call.id = row.id
      BY <2>1, <2>4 DEF LocalStore, call
    <3>2. o.id # call.id
      <4>1. row.id \in Claims(op.entity)
        BY DEF Claims
      <4> QED
        BY <1>1, <2>2, <3>1, <4>1 DEF StoreShape
    <3>3. stoat' = {IF p.id = call.id THEN [p EXCEPT !.state = op.state] ELSE p : p \in stoat}
      BY <2>1, <2>4 DEF Effect
    <3> QED
      BY <3>2, <3>3
  <2>5. CASE call.verb \notin {"create", "edit"}
    <3>1. stoat' = {p \in stoat : p.id # call.id /\ p.chan # call.id}
      BY <2>1, <2>5 DEF Effect
    <3>2. PICK p \in stoat' : p.id = o.id
      BY <1>1 DEF StoatIds
    <3>3. p = o
      BY <3>1, <3>2 DEF BlameShape, ObjectsShape
    <3> QED
      BY <3>2, <3>3
  <2> QED
    BY <2>3, <2>4, <2>5
<1> QED
  BY <1>2, <1>3

LEMMA OthersTold ==
  ASSUME HomesStay, Shape, StoreShape, BlameShape, StaleShape, ToldShape, faults = 0,
         NEW k \in Keys, Step(k)
  PROVE  /\ \A e \in Entities : (worker[k].pc # "idle" => e # worker[k].op.entity) /\ Quiet(e)' =>
              Told(rows'[e], stoat')
         /\ \A j \in Keys \ {k} : LocalTold(worker'[j], rows'[worker'[j].op.entity], stoat')
<1>1. ASSUME NEW e \in Entities, worker[k].pc # "idle" => e # worker[k].op.entity
      PROVE  /\ rows'[e] = rows[e]
             /\ \A o \in stoat : o.id \in Claims(e) => o \in stoat'
  BY <1>1, StepRows, ObjectStays
<1>2. ASSUME NEW e \in Entities, worker[k].pc # "idle" => e # worker[k].op.entity, Quiet(e)'
      PROVE  Told(rows'[e], stoat')
  <2>1. Quiet(e)
    <3> SUFFICES ASSUME NEW j \in Keys, worker[j].pc # "idle", worker[j].op.entity = e
                 PROVE  ~AtWork(worker[j])
      BY DEF Quiet
    <3>1. j # k
      BY <1>2
    <3>2. worker'[j] = worker[j]
      BY <3>1, OneWorkerMoves
    <3> QED
      BY <1>2, <3>2 DEF Quiet
  <2>2. Told(rows[e], stoat)
    BY <2>1 DEF ToldShape
  <2>3. rows[e].id \in Claims(e)
    BY DEF Claims
  <2> QED
    BY <1>1, <1>2, <2>2, <2>3 DEF Told
<1>3. ASSUME NEW j \in Keys \ {k}
      PROVE  LocalTold(worker'[j], rows'[worker'[j].op.entity], stoat')
  <2>1. worker'[j] = worker[j]
    BY OneWorkerMoves
  <2>2. CASE worker[j].pc = "idle"
    BY <2>1, <2>2 DEF LocalTold
  <2>3. CASE worker[j].pc # "idle"
    <3> DEFINE e == worker[j].op.entity
    <3>1. e \in Entities /\ (worker[k].pc # "idle" => e # worker[k].op.entity)
      BY <2>3, Busy, OwnEntity
    <3>2. LocalTold(worker[j], rows[e], stoat)
      BY DEF ToldShape
    <3>3. rows[e].id \in Claims(e) /\ (worker[j].pc = "confirm" => worker[j].call.id \in Claims(e))
      BY DEF Claims, Confirming
    <3>4. rows'[e] = rows[e] /\ \A o \in stoat : o.id \in Claims(e) => o \in stoat'
      BY <1>1, <3>1
    <3> HIDE DEF e
    <3> QED
      BY <2>1, <3>2, <3>3, <3>4 DEF LocalTold, e
  <2> QED
    BY <2>2, <2>3
<1> QED
  BY <1>2, <1>3

(* A worker's call is refused only if Stoat has lost what it is about.      *)
LEMMA CallAccepted ==
  ASSUME HomesStay, Shape, StoreShape, BlameShape, StaleShape, HomeShape, ToldShape, faults = 0,
         NEW k \in Keys, worker[k].pc = "remote"
  PROVE  Accepted(worker[k].op, worker[k].call)
<1> DEFINE w == worker[k]
           row == rows[w.op.entity]
<1>1. /\ LocalStore(w, row) /\ LocalPut(w, row, StoatIds) /\ LocalStale(w, row, HomeIds, StoatIds)
      /\ LocalHome(w) /\ LocalTold(w, row, stoat)
  BY DEF StoreShape, BlameShape, PutShape, StaleShape, HomeShape, ToldShape
<1>2. w.op \in Ops /\ w.op.entity \in Entities
  BY Busy
<1>3. CASE w.call.verb = "create"
  <2>1. w.op.kind # "delete"
    BY <1>1, <1>3 DEF LocalStore
  <2>2. w.op.channel # Null => w.call.chan # NoId
    BY <1>1, <2>1 DEF LocalHome, ForMessage
  <2>3. w.call.chan # NoId => \E c \in Homes : rows[c].id = w.call.chan
    BY <1>1 DEF LocalStale, HomeIds
  <2>4. w.call.chan # NoId => w.call.chan \in StoatIds
    BY <2>3 DEF HomeShape
  <2> QED
    BY <1>3, <2>2, <2>4 DEF Accepted, Live, StoatIds
<1>4. CASE w.call.verb = "edit"
  <2>1. Putting(w) /\ w.call.id = row.id /\ row.id # NoId
    BY <1>1, <1>4 DEF LocalStore, Putting
  <2> QED
    BY <1>1, <1>4, <2>1 DEF Accepted, Live, LocalTold
<1>5. CASE w.call.verb \notin {"create", "edit"}
  <2>1. w.op.kind = "delete" /\ Active(row) /\ w.call.id = row.id
    BY <1>1, <1>5 DEF LocalStore, LocalPut, LocalStale
  <2>2. Quiet(w.op.entity)
    BY <2>1, OwnEntity DEF Quiet, AtWork, Putting
  <2>3. Told(row, stoat) /\ Found(row)
    BY <1>2, <2>1, <2>2 DEF ToldShape, Active, Found
  <2> QED
    BY <1>5, <2>1, <2>3 DEF Accepted, Live, Told
<1> QED
  BY <1>3, <1>4, <1>5

LEMMA OwnTold ==
  ASSUME HomesStay, Shape, StoreShape, BlameShape, StaleShape, HomeShape, ToldShape, faults' = 0,
         NEW k \in Keys, Step(k), worker[k].pc # "idle"
  PROVE  /\ ~AtWork(worker'[k]) => Told(rows'[worker[k].op.entity], stoat')
         /\ LocalTold(worker'[k], rows'[worker'[k].op.entity], stoat')
<1> DEFINE w == worker[k]
           v == worker'[k]
           op == w.op
           e == op.entity
           row == rows[e]
<1>1. faults = 0 /\ faults' # faults + 1
  BY StepFaults
<1>2. /\ worker \in [Keys -> WorkerType] /\ w \in WorkerType /\ rows \in [Entities -> RowType]
      /\ op \in Ops /\ e \in Entities /\ row \in RowType /\ stoat \subseteq StoatType
  BY Busy DEF Shape, StateTypeOK
<1>3. /\ LocalStore(w, row) /\ LocalPut(w, row, StoatIds) /\ LocalStale(w, row, HomeIds, StoatIds)
      /\ LocalTold(w, row, stoat)
  BY <1>1 DEF StoreShape, BlameShape, PutShape, StaleShape, ToldShape
<1>4. ~AtWork(w) => Told(row, stoat)
  <2>1. ~AtWork(w) => Quiet(e)
    BY OwnEntity DEF Quiet
  <2> QED
    BY <1>1, <1>2, <2>1 DEF ToldShape
<1>5. LocalTold(Idle, rows'[Idle.op.entity], stoat')
  BY IdleTyped DEF LocalTold
<1>6. CASE /\ v = Idle /\ UNCHANGED world
           /\ w.pc \notin {"apply", "remote", "confirm", "remove"}
  BY <1>4, <1>5, <1>6 DEF AtWork, Putting, world
<1>7. CASE RemoteError(k) /\ ~Accepted(op, w.call)
  BY <1>1, <1>7, CallAccepted DEF RemoteError, At
<1>8. CASE Remove(k) /\ v = Idle
  <2>1. op.kind = "delete" /\ e \notin Homes /\ e # Null
    BY <1>2, <1>3, <1>8, EntitiesAssumption DEF Remove, At, LocalStale, HomesStay
  <2>2. MayRemove(rows, e)
    BY <2>1 DEF MayRemove, StaleShape, RowStale, Entities
  <2>3. rows'[e] = Absent
    BY <1>2, <1>8, <2>2 DEF Remove
  <2> QED
    BY <1>5, <1>8, <2>3 DEF Told, Found, Absent
<1>9. CASE /\ v.op = op /\ v.pc \in {"deps", "defer", "diff", "pending", "notify", "push"}
           /\ UNCHANGED world /\ ~AtWork(w)
  BY <1>4, <1>9 DEF LocalTold, AtWork, Putting, world
<1>10. CASE v.op = op /\ Begin(k) /\ v.pc = "apply" /\ op.kind = "delete"
  <2>1. ~AtWork(w) /\ UNCHANGED world
    BY <1>10 DEF Begin, Ready, At, AtWork, Putting
  <2> QED
    BY <1>4, <1>10, <2>1 DEF LocalTold, AtWork, Putting, world
<1>11. CASE v.op = op /\ WritePending(k) /\ v.pc = "apply"
  <2>1. /\ rows'[e] = PendingRow(e, row, op.state, op.channel) /\ stoat' = stoat
        /\ op.kind # "delete" /\ ~AtWork(w)
    BY <1>2, <1>3, <1>11 DEF WritePending, At, LocalStore, AtWork, Putting
  <2>2. rows'[e].id = row.id /\ rows'[e].state = op.state
    BY <2>1 DEF PendingRow, PendingMessageRow, PendingStructureRow
  <2>3. row.id # NoId => Found(row)
    BY <1>2 DEF StoreShape
  <2>4. row.id # NoId => \E o \in stoat : o.id = row.id
    BY <1>4, <2>1, <2>3 DEF Told
  <2> QED
    BY <1>11, <2>1, <2>2, <2>4 DEF LocalTold, AtWork, Putting
<1>12. CASE v.op = op /\ Apply(k) /\ v.pc \in {"remove", "remote"}
  <2>1. UNCHANGED world /\ w.pc = "apply"
    BY <1>12 DEF Apply, At
  <2>2. op.kind = "delete" => ~AtWork(w)
    BY <2>1 DEF AtWork, Putting
  <2> QED
    BY <1>3, <1>4, <1>12, <2>1, <2>2 DEF LocalTold, AtWork, Putting, world
<1>13. CASE v.op = op /\ v.pc = "remove"
  BY <1>13 DEF LocalTold, AtWork
<1>14. CASE v.op = op /\ RemoteOk(k) /\ op.kind # "delete" /\ v.pc = "confirm"
  <2>1. /\ w.pc = "remote" /\ Effect(op, w.call) /\ Accepted(op, w.call) /\ rows' = rows
        /\ Putting(w) /\ Putting(v)
    BY <1>14 DEF RemoteOk, At, Putting
  <2>2. v.call.id = IF w.call.verb = "create" THEN nextId ELSE w.call.id
    <3>1. v = [w EXCEPT !.pc = IF op.kind = "delete" THEN "remove" ELSE "confirm",
                !.call.id = IF w.call.verb = "create" THEN nextId ELSE w.call.id]
      BY <1>2, <1>14 DEF RemoteOk
    <3> QED
      BY <1>2, <3>1 DEF WorkerType, CallType
  <2>3. row.state = op.state
    BY <1>3, <2>1 DEF LocalTold
  <2>4. \E o \in stoat' : o.id = v.call.id /\ o.state = op.state
    <3>1. CASE w.call.verb = "create"
      <4> DEFINE new == [id |-> nextId, entity |-> op.entity, state |-> op.state, chan |-> w.call.chan]
      <4>1. new \in stoat' /\ new.id = nextId /\ new.state = op.state
        BY <2>1, <3>1 DEF Effect
      <4> HIDE DEF new
      <4> QED
        BY <2>2, <3>1, <4>1
    <3>2. CASE w.call.verb = "edit"
      <4>1. PICK o \in stoat : o.id = w.call.id
        BY <2>1, <3>2 DEF Accepted, Live
      <4>2. stoat' = {IF p.id = w.call.id THEN [p EXCEPT !.state = op.state] ELSE p : p \in stoat}
        BY <2>1, <3>2 DEF Effect
      <4>3. [o EXCEPT !.state = op.state] \in stoat'
        BY <4>1, <4>2
      <4>4. [o EXCEPT !.state = op.state].id = o.id /\ [o EXCEPT !.state = op.state].state = op.state
        BY <1>2 DEF StoatType
      <4> QED
        BY <2>2, <3>2, <4>1, <4>3, <4>4
    <3> QED
      BY <1>3, <1>14, <2>1, <3>1, <3>2 DEF LocalStore
  <2> QED
    BY <1>14, <2>1, <2>3, <2>4 DEF LocalTold, AtWork
<1>15. CASE v.op = op /\ Confirm(k) /\ v.pc = "notify"
  <2>1. w.pc = "confirm" /\ rows'[e] = ConfirmedRow(row, w.call.id) /\ stoat' = stoat
    BY <1>2, <1>15 DEF Confirm, At
  <2>2. Found(row)
    BY <1>3, <2>1 DEF LocalPut, LocalStore, Putting
  <2>3. rows'[e].id = w.call.id /\ rows'[e].state = row.state
    BY <1>2, <2>1, <2>2 DEF ConfirmedRow, RowType
  <2> QED
    BY <1>3, <1>15, <2>1, <2>3 DEF LocalTold, Told, AtWork, Putting
<1>16. CASE v = Idle
  BY <1>1, <1>6, <1>7, <1>8, <1>16, WorkerGoes, IdleTyped
<1>17. CASE v # Idle
  <2>1. CASE CheckDependency(k) \/ MissDependency(k) \/ Differs(k) \/ TakeWaiters(k) \/ PushWaiter(k)
    <3>1. UNCHANGED world /\ ~AtWork(w)
      BY <2>1 DEF CheckDependency, MissDependency, Differs, TakeWaiters, PushWaiter, At, AtWork, Putting
    <3>2. v.op = op /\ v.pc \in {"deps", "defer", "diff", "pending", "notify", "push"}
      BY <1>1, <1>17, <2>1, WorkerGoes
         DEF CheckDependency, MissDependency, Differs, TakeWaiters, PushWaiter, At,
             Begin, Ready, WritePending, Apply, RemoteLimited, RemoteOk, Confirm
    <3> QED
      BY <1>9, <3>1, <3>2
  <2>2. CASE Begin(k) /\ v.op = op /\ v.pc = IF op.kind = "delete" THEN "apply" ELSE "diff"
    <3>1. UNCHANGED world /\ ~AtWork(w)
      BY <2>2 DEF Begin, Ready, At, AtWork, Putting
    <3> QED
      BY <1>9, <1>10, <2>2, <3>1
  <2> QED
    BY <1>1, <1>11, <1>12, <1>13, <1>14, <1>15, <1>17, <2>1, <2>2, WorkerGoes
<1> QED
  BY <1>16, <1>17

LEMMA StepTold ==
  ASSUME HomesStay, Shape, StoreShape, BlameShape, StaleShape, HomeShape, ToldShape,
         NEW k \in Keys, Step(k)
  PROVE  ToldShape'
<1> SUFFICES ASSUME faults' = 0
             PROVE  /\ \A e \in Entities : Quiet(e)' => Told(rows'[e], stoat')
                    /\ \A j \in Keys : LocalTold(worker'[j], rows'[worker'[j].op.entity], stoat')
  BY DEF ToldShape
<1>1. faults = 0
  BY StepFaults
<1>2. CASE worker[k].pc = "idle"
  <2>1. worker'[k].pc = "deps"
    <3>1. Take(k) /\ worker \in [Keys -> WorkerType]
      BY <1>2, OneWorkerMoves DEF Shape, StateTypeOK
    <3>2. worker'[k] = [Idle EXCEPT !.pc = "deps", !.op = Head(queue[k]), !.todo = Head(queue[k]).deps]
      BY <3>1 DEF Take
    <3> QED
      BY <3>2 DEF Idle
  <2>2. LocalTold(worker'[k], rows'[worker'[k].op.entity], stoat')
    BY <2>1 DEF LocalTold
  <2> QED
    BY <1>1, <1>2, <2>2, OthersTold
<1>3. CASE worker[k].pc # "idle"
  <2>1. PICK e \in Entities : e = worker[k].op.entity
    BY <1>3, Busy
  <2>2. Quiet(e)' => ~AtWork(worker'[k])
    <3>1. worker'[k].pc # "idle" => worker'[k].op = worker[k].op
      BY <1>3, OneWorkerMoves, IdleTyped
    <3>2. worker'[k].pc = "idle" => ~AtWork(worker'[k])
      BY DEF AtWork, Putting
    <3> QED
      BY <2>1, <3>1, <3>2 DEF Quiet
  <2>3. Quiet(e)' => Told(rows'[e], stoat')
    BY <1>3, <2>1, <2>2, OwnTold
  <2>4. LocalTold(worker'[k], rows'[worker'[k].op.entity], stoat')
    BY <1>3, OwnTold
  <2>5. ASSUME NEW d \in Entities, Quiet(d)' PROVE Told(rows'[d], stoat')
    <3>1. CASE d = e
      BY <2>3, <2>5, <3>1
    <3>2. CASE d # e
      BY <1>1, <2>1, <2>5, <3>2, OthersTold
    <3> QED
      BY <3>1, <3>2
  <2> QED
    BY <1>1, <2>4, <2>5, OthersTold
<1> QED
  BY <1>2, <1>3

LEMMA InitTold == Init => HomeShape /\ ToldShape
<1> SUFFICES ASSUME Init PROVE HomeShape /\ ToldShape
  OBVIOUS
<1>1. ASSUME NEW e \in Entities
      PROVE  \/ rows[e] = Absent
             \/ \E o \in stoat : o.id = rows[e].id /\ o.state = rows[e].state
  <2>1. CASE \E i \in DOMAIN Mirrored : Mirrored[i] = e
    <3>1. PICK i \in DOMAIN Mirrored : rows[e] = [status |-> "active", state |-> OldState,
                                                  channel |-> Null, id |-> i]
      BY <2>1 DEF Init
    <3> DEFINE o == [id |-> i, entity |-> Mirrored[i], state |-> OldState, chan |-> NoId]
    <3>2. o \in stoat /\ o.id = rows[e].id /\ o.state = rows[e].state
      BY <3>1 DEF Init
    <3> QED
      BY <3>2
  <2>2. CASE ~\E i \in DOMAIN Mirrored : Mirrored[i] = e
    BY <2>2 DEF Init
  <2> QED
    BY <2>1, <2>2
<1>2. \A c \in Homes : c \in Entities
  BY OpsAssumption DEF Homes, OpType, Entities
<1>3. \A c \in Homes : rows[c].id # NoId => rows[c].id \in StoatIds
  BY <1>1, <1>2 DEF Absent, StoatIds
<1>4. \A e \in Entities : Told(rows[e], stoat)
  BY <1>1 DEF Told, Found, Absent
<1>5. \A k \in Keys : worker[k] = Idle
  BY DEF Init
<1> QED
  BY <1>3, <1>4, <1>5, IdleTyped DEF HomeShape, ToldShape, LocalHome, ForMessage, LocalTold

LEMMA NextTold ==
  ASSUME HomesStay, ChannelsFirst, Shape, StoreShape, BlameShape, StaleShape, HomeShape, ToldShape,
         [Next]_vars
  PROVE  HomeShape' /\ ToldShape'
<1>1. ASSUME NEW k \in Keys, Step(k) PROVE HomeShape' /\ ToldShape'
  BY <1>1, StepHomes, StepTold
<1>2. CASE ~\E k \in Keys : Step(k)
  <2>1. UNCHANGED <<worker, rows, stoat, faults>>
    BY <1>2, OtherSteps DEF world
  <2> QED
    BY <2>1 DEF HomeShape, StoatIds, LocalHome, ToldShape, Quiet
<1> QED
  BY <1>1, <1>2

(* The faults of a run stay below their bound.                              *)
FaultsInBound == faults <= MaxFaults

LEMMA FaultsBounded == Spec => []FaultsInBound
<1>1. Init => FaultsInBound
  BY BoundsAssumption DEF Init, FaultsInBound
<1>2. Shape /\ FaultsInBound /\ [Next]_vars => FaultsInBound'
  <2> SUFFICES ASSUME Shape, faults <= MaxFaults, [Next]_vars PROVE faults' <= MaxFaults
    BY DEF FaultsInBound
  <2>1. CASE \E k \in Keys : Step(k)
    <3>1. faults' = faults \/ Fault
      BY ZenonT(60), <2>1 DEF Step, Process, Take, CheckDependency, MissDependency, Defer, Enqueue, LogDryRun,
         Begin, SkipEqual, Differs, WritePending, WritePendingRefused, StoreFails, Apply, RemoteOk,
         RemoteError, RemoteLost, RemoteLimited, Remove, Confirm, TakeWaiters, PushWaiter, Notified, env
    <3> QED
      BY <3>1, BoundsAssumption DEF Fault, Shape, StateTypeOK
  <2>2. CASE ~\E k \in Keys : Step(k)
    BY <2>2, OtherSteps
  <2> QED
    BY <2>1, <2>2
<1> QED
  BY <1>1, <1>2, ShapeAlways, PTL DEF Spec

(* While nothing fails, an op whose state equals the stored one is skipped  *)
(* only if its object on Stoat has that state: what WritePending stored     *)
(* ahead of a call is never taken for what Stoat shows.  No channel with    *)
(* messages is deleted, and a message's put waits for its channel.          *)
THEOREM SkipsAreMirrored ==
  ASSUME HomesStay, ChannelsFirst, MaxFaults = 0
  PROVE  Spec => SkippedOnlyWhenMirrored
<1> DEFINE Mirrors == \A k \in Keys : SkipEqual(k) =>
                        \E o \in stoat : /\ o.id = rows[worker[k].op.entity].id
                                         /\ o.state = worker[k].op.state
<1>1. Shape /\ ToldShape /\ FaultsInBound => Mirrors
  <2> SUFFICES ASSUME Shape, ToldShape, FaultsInBound, NEW k \in Keys, SkipEqual(k)
               PROVE  \E o \in stoat : /\ o.id = rows[worker[k].op.entity].id
                                       /\ o.state = worker[k].op.state
    OBVIOUS
  <2>1. faults = 0
    BY DEF FaultsInBound, Shape, StateTypeOK
  <2>2. worker[k].pc = "diff" /\ worker[k].op.entity \in Entities /\ Unchanged(worker[k].op)
    BY Busy DEF SkipEqual, At
  <2>3. Quiet(worker[k].op.entity)
    BY <2>2, OwnEntity DEF Quiet, AtWork, Putting
  <2> QED
    BY <2>1, <2>2, <2>3 DEF ToldShape, Told, Unchanged
<1>2. Shape /\ StoreShape /\ BlameShape /\ StaleShape /\ StaleCount /\ [Next]_vars =>
        StaleShape' /\ StaleCount'
  BY NextStale
<1>3. Shape /\ StoreShape /\ BlameShape /\ StaleShape /\ HomeShape /\ ToldShape /\ [Next]_vars =>
        HomeShape' /\ ToldShape'
  BY NextTold
<1>4. Spec => [](Shape /\ ToldShape /\ FaultsInBound)
  BY <1>2, <1>3, InitStale, InitTold, BlameAlways, FaultsBounded, PTL DEF Spec
<1> HIDE DEF Mirrors
<1>5. Spec => [][Mirrors]_vars
  BY <1>1, <1>4, PTL
<1> QED
  BY <1>5 DEF Mirrors, SkippedOnlyWhenMirrored

-----------------------------------------------------------------------------
(* Order.  Ops whose dependencies stand still are never set aside, and one  *)
(* after the other, as they were sent, become what Stoat shows.             *)

(* Both gateways stay up, nothing fails, and it is no dry run.              *)
FairWeather == StoatUp /\ MaxOutages = 0 /\ MaxFaults = 0 /\ DryRuns \subseteq {FALSE}

LEMMA DepsOfOps ==
  ASSUME NEW op \in Ops
  PROVE  op.deps \subseteq Deps /\ op.channel \in Deps \cup {Null}
<1>1. op.deps \subseteq Entities /\ op.channel \in Channels \cup {Null}
  BY OpsAssumption DEF OpType
<1> QED
  BY <1>1 DEF Deps, Entities

LEMMA SettledHomesStay == Settled => HomesStay
BY DepsOfOps DEF Settled, HomesStay, Homes

SettledShape ==
  /\ discordReady /\ stoatReady /\ ~dryRun /\ faults = 0 /\ outages = 0
  /\ \A d \in Deps : Active(rows[d])
  /\ \A k \in Keys : /\ worker[k].pc # "defer" /\ worker[k].pushing = <<>>
                     /\ worker[k].pc = "deps" => worker[k].todo \subseteq worker[k].op.deps
  /\ \A e \in Entities : waiters[e] = <<>>

LEMMA InitSettled == Settled /\ FairWeather /\ Init => SettledShape
<1> SUFFICES ASSUME Settled, FairWeather, Init PROVE SettledShape
  OBVIOUS
<1>1. discordReady /\ stoatReady /\ ~dryRun /\ faults = 0 /\ outages = 0
  BY DEF Init, FairWeather
<1>2. ASSUME NEW d \in Deps PROVE Active(rows[d])
  <2>1. d \in Entities /\ \E i \in DOMAIN Mirrored : Mirrored[i] = d
    BY DEF Settled, Deps
  <2> QED
    BY <2>1 DEF Init, Active
<1>3. \A k \in Keys : worker[k] = Idle
  BY DEF Init
<1>4. \A e \in Entities : waiters[e] = <<>>
  BY DEF Init
<1> QED
  BY <1>1, <1>2, <1>3, <1>4, IdleTyped DEF SettledShape

(* No step of a worker fails, and what it misses is nothing.                *)
LEMMA SettledSteps ==
  ASSUME Settled, FairWeather, Shape, SettledShape, NEW k \in Keys, Step(k)
  PROVE  /\ ~Fault /\ UNCHANGED <<discordReady, stoatReady, dryRun, faults, outages>>
         /\ ~MissDependency(k) /\ ~Defer(k) /\ ~PushWaiter(k) /\ ~Enqueue(k) /\ ~LogDryRun(k)
         /\ ~StoreFails(k) /\ ~RemoteLost(k) /\ ~RemoteLimited(k)
<1>1. ~Fault
  BY BoundsAssumption DEF Fault, FairWeather, SettledShape
<1>2. ~MissDependency(k)
  <2> SUFFICES ASSUME MissDependency(k) PROVE FALSE
    OBVIOUS
  <2>1. PICK d \in worker[k].todo : ~Met(d) \/ Fault
    BY DEF MissDependency
  <2>2. worker[k].pc = "deps" /\ worker[k].op \in Ops
    BY Busy DEF MissDependency, At
  <2>3. d \in Deps
    BY <2>1, <2>2, DepsOfOps DEF SettledShape
  <2> QED
    BY <1>1, <2>1, <2>3 DEF SettledShape, Met
<1>3. ~Defer(k) /\ ~PushWaiter(k) /\ ~Enqueue(k) /\ ~LogDryRun(k)
  BY DEF Defer, At, SettledShape, PushWaiter, Enqueue, Healthy, LogDryRun
<1>4. ~StoreFails(k) /\ ~RemoteLost(k) /\ ~RemoteLimited(k)
  BY <1>1 DEF StoreFails, RemoteLost, RemoteLimited
<1>5. UNCHANGED <<discordReady, stoatReady, dryRun, faults, outages>>
  BY <1>1, <1>2, <1>3, <1>4
     DEF Step, Process, Take, CheckDependency, Begin, SkipEqual, Differs, WritePending,
         WritePendingRefused, Apply, RemoteOk, RemoteError, Remove, Confirm, TakeWaiters, Notified, env
<1> QED
  BY <1>1, <1>2, <1>3, <1>4, <1>5

LEMMA StepSettled ==
  ASSUME Settled, FairWeather, Shape, SettledShape, NEW k \in Keys, Step(k)
  PROVE  SettledShape'
<1> DEFINE v == worker'[k]
<1>1. /\ worker \in [Keys -> WorkerType] /\ worker[k] \in WorkerType /\ LocalShape(k, worker[k])
      /\ waiters \in [Entities -> Seq(Ops)]
  BY DEF Shape, StateTypeOK, WorkerShape
<1>2. discordReady' /\ stoatReady' /\ ~dryRun' /\ faults' = 0 /\ outages' = 0
  BY SettledSteps DEF SettledShape
<1>3. ASSUME NEW d \in Deps PROVE Active(rows'[d])
  <2>1. rows'[d] = rows[d]
    BY StepRows, Busy DEF Settled, Deps
  <2> QED
    BY <2>1 DEF SettledShape
<1>4. \A e \in Entities : waiters'[e] = <<>>
  <2>1. CASE TakeWaiters(k)
    BY <1>1, <2>1 DEF TakeWaiters, SettledShape
  <2>2. CASE ~TakeWaiters(k)
    <3>1. waiters' = waiters
      BY <2>2, SettledSteps
         DEF Step, Process, Take, CheckDependency, Begin, SkipEqual, Differs, WritePending,
             WritePendingRefused, Apply, RemoteOk, RemoteError, Remove, Confirm, Notified, Return, sched
    <3> QED
      BY <3>1 DEF SettledShape
  <2> QED
    BY <2>1, <2>2
<1>5. /\ v.pc # "defer" /\ v.pushing = <<>>
      /\ v.pc = "deps" => v.todo \subseteq v.op.deps
  <2>1. CASE v = Idle
    BY <2>1, IdleTyped
  <2>2. CASE Take(k)
    <3>1. v = [Idle EXCEPT !.pc = "deps", !.op = Head(queue[k]), !.todo = Head(queue[k]).deps]
      BY <1>1, <2>2 DEF Take
    <3> QED
      BY <3>1 DEF Idle
  <2>3. CASE CheckDependency(k)
    <3>1. PICK d : v = [worker[k] EXCEPT !.todo = worker[k].todo \ {d}]
      BY <1>1, <2>3 DEF CheckDependency
    <3>2. /\ v.pc = "deps" /\ v.pushing = worker[k].pushing /\ v.op = worker[k].op
          /\ v.todo = worker[k].todo \ {d}
      BY <1>1, <2>3, <3>1 DEF WorkerType, CheckDependency, At
    <3> QED
      BY <2>3, <3>2 DEF SettledShape, CheckDependency, At
  <2>4. CASE TakeWaiters(k)
    <3>1. v = [worker[k] EXCEPT !.pc = "push", !.pushing = waiters[worker[k].op.entity]]
      BY <1>1, <2>4 DEF TakeWaiters
    <3>2. waiters[worker[k].op.entity] = <<>>
      BY <2>4, Busy DEF TakeWaiters, At, SettledShape
    <3> QED
      BY <1>1, <3>1, <3>2 DEF WorkerType
  <2>5. CASE Begin(k) \/ Differs(k) \/ WritePending(k) \/ Confirm(k)
    <3>1. \E l \in {"apply", "diff", "pending", "notify"} : v = [worker[k] EXCEPT !.pc = l]
      BY <1>1, <2>5 DEF Begin, Differs, WritePending, Confirm, Goto
    <3>2. v.pushing = worker[k].pushing /\ v.pc \notin {"defer", "deps"}
      BY <1>1, <3>1 DEF WorkerType
    <3> QED
      BY <3>2 DEF SettledShape
  <2>6. CASE Apply(k)
    <3>1. \/ v = [worker[k] EXCEPT !.pc = "remove"]
          \/ \E c : v = [worker[k] EXCEPT !.pc = "remote", !.call = c]
      BY <1>1, <2>6 DEF Apply, Goto
    <3>2. v.pushing = worker[k].pushing /\ v.pc \notin {"defer", "deps"}
      BY <1>1, <3>1 DEF WorkerType
    <3> QED
      BY <3>2 DEF SettledShape
  <2>7. CASE RemoteOk(k)
    <3>1. \E l \in {"remove", "confirm"} : \E i : v = [worker[k] EXCEPT !.pc = l, !.call.id = i]
      BY <1>1, <2>7 DEF RemoteOk
    <3>2. v.pushing = worker[k].pushing /\ v.pc \notin {"defer", "deps"}
      BY <1>1, <3>1 DEF WorkerType
    <3> QED
      BY <3>2 DEF SettledShape
  <2>8. CASE SkipEqual(k) \/ WritePendingRefused(k) \/ RemoteError(k) \/ Remove(k) \/ Notified(k)
    <3>1. v = Idle
      BY <1>1, <2>8 DEF SkipEqual, WritePendingRefused, RemoteError, Remove, Notified, Return
    <3> QED
      BY <2>1, <3>1
  <2> QED
    BY <2>2, <2>3, <2>4, <2>5, <2>6, <2>7, <2>8, SettledSteps DEF Step, Process
<1>6. \A j \in Keys \ {k} : worker'[j] = worker[j]
  BY OneWorkerMoves
<1> QED
  BY <1>2, <1>3, <1>4, <1>5, <1>6 DEF SettledShape

LEMMA NextSettled ==
  ASSUME Settled, FairWeather, Shape, SettledShape, [Next]_vars
  PROVE  SettledShape'
<1>1. CASE \E k \in Keys : Step(k)
  BY <1>1, StepSettled
<1>2. CASE ~\E k \in Keys : Step(k)
  <2>1. UNCHANGED <<worker, rows, faults, dryRun>>
    BY <1>2, OtherSteps DEF world
  <2>2. ~StoatReady /\ ~DiscordLost /\ ~DiscordBack
    BY DEF StoatReady, DiscordLost, DiscordBack, SettledShape, FairWeather
  <2>3. CASE \E op \in Ops : Submit(op) \/ Send(op)
    BY <2>1, <2>3 DEF Submit, Send, env, SettledShape
  <2>4. CASE UNCHANGED vars
    BY <2>4 DEF vars, env, sched, world, SettledShape
  <2> QED
    BY <1>2, <2>2, <2>3, <2>4 DEF Next, Gateways, Rest
<1> QED
  BY <1>1, <1>2

(* The ops of a key are taken from its channel in the order in which they   *)
(* were sent: while one is not finished, the later ones are in the channel, *)
(* which is in that order too.                                              *)
InQueue(q, op) == op \in RangeOf(q[WorkerKey(op)])

InOrder(s, q) ==
  \A a, b \in DOMAIN q, i, j \in DOMAIN s : s[i] = q[a] /\ s[j] = q[b] /\ a < b => i < j

OrderShape ==
  /\ NoDuplicates(sent) /\ RangeOf(sent) = submitted \ calling
  /\ \A i, j \in DOMAIN sent :
       i < j /\ WorkerKey(sent[i]) = WorkerKey(sent[j]) /\ sent[i] \notin finished => InQueue(queue, sent[j])
  /\ \A k \in Keys : InOrder(sent, queue[k])

(* A sent op that is neither in its channel nor finished is in the hands of *)
(* its worker.                                                              *)
LEMMA SentSomewhere ==
  ASSUME Shape, SettledShape, NoOpLostOrDuplicated,
         NEW x \in Ops, x \in submitted, x \notin calling, x \notin finished, ~InQueue(queue, x)
  PROVE  WorkerKey(x) \in Keys /\ worker[WorkerKey(x)].op = x /\ worker[WorkerKey(x)].pc # "idle"
<1>1. PICK p : Places(x) = {p}
  BY DEF NoOpLostOrDuplicated
<1>2. InPlaces(x \in calling, QueuedAt(x), HeldBy(x), PushedBy(x), WaitsFor(x), x \in finished, p)
  <2>1. p \in PlaceSet(x \in calling, QueuedAt(x), HeldBy(x), PushedBy(x), WaitsFor(x), x \in finished)
    BY <1>1 DEF Places
  <2>2. (x \in calling) \in BOOLEAN /\ (x \in finished) \in BOOLEAN
    OBVIOUS
  <2> QED
    BY <2>1, <2>2, PlacesMeaning
<1>3. PushedBy(x) = {} /\ WaitsFor(x) = {}
  BY EmptyRange DEF PushedBy, WaitsFor, SettledShape
<1>4. QueuedAt(x) = {}
  BY DEF QueuedAt, Shape, QueueRouted, InQueue
<1>5. PICK k \in Keys : worker[k].op = x
  BY <1>2, <1>3, <1>4 DEF InPlaces, HeldBy
<1>6. worker[k].pc # "idle"
  BY <1>5, IdleTyped, OpsAssumption DEF Shape, WorkerShape, LocalShape
<1>7. WorkerKey(x) = k
  BY <1>5, <1>6, Busy
<1> QED
  BY <1>5, <1>6, <1>7

(* An op in a channel is sent, and neither in a worker's hands nor over.    *)
LEMMA QueuedOnly ==
  ASSUME Shape, NoOpLostOrDuplicated, NEW x \in Ops, NEW k \in Keys, x \in RangeOf(queue[k])
  PROVE  /\ x \in submitted /\ x \notin calling /\ x \notin finished
         /\ \A j \in Keys : worker[j].op # x
<1>1. k \in QueuedAt(x)
  BY DEF QueuedAt
<1>2. Spot(x, FALSE, {k}, {}, {}, {}, FALSE)
  BY <1>1, Alone
<1> QED
  BY <1>2 DEF Spot, HeldBy

LEMMA HeldOnly ==
  ASSUME Shape, NoOpLostOrDuplicated, NEW k \in Keys, worker[k].pc # "idle"
  PROVE  /\ worker[k].op \in submitted /\ worker[k].op \notin calling /\ worker[k].op \notin finished
         /\ ~InQueue(queue, worker[k].op)
<1>1. worker[k].op \in Ops /\ WorkerKey(worker[k].op) = k
  BY Busy
<1>2. k \in HeldBy(worker[k].op)
  BY DEF HeldBy
<1>3. Spot(worker[k].op, FALSE, {}, {k}, {}, {}, FALSE)
  BY <1>1, <1>2, Alone
<1> QED
  BY <1>1, <1>3 DEF Spot, QueuedAt, InQueue

(* What the workers' steps do to the channels.                              *)
LEMMA StepQueues ==
  ASSUME Settled, FairWeather, Shape, SettledShape, NEW k \in Keys, Step(k)
  PROVE  /\ UNCHANGED <<submitted, calling, sent>>
         /\ \/ finished' = finished
            \/ /\ worker[k].pc # "idle" /\ worker'[k] = Idle
               /\ finished' = finished \cup {worker[k].op}
         /\ Take(k) => finished' = finished /\ queue' = [queue EXCEPT ![k] = Tail(@)]
         /\ ~Take(k) => queue' = queue
<1>1. CASE Take(k)
  BY <1>1, OneWorkerMoves DEF Take
<1>2. CASE SkipEqual(k) \/ WritePendingRefused(k) \/ RemoteError(k) \/ Remove(k) \/ Notified(k)
  <2>1. Return(k) /\ worker[k].pc # "idle" /\ ~Take(k)
    BY <1>2 DEF SkipEqual, WritePendingRefused, RemoteError, Remove, Notified, At, Take
  <2> QED
    BY <2>1 DEF Return, Shape, StateTypeOK
<1>3. CASE CheckDependency(k) \/ Begin(k) \/ Differs(k) \/ WritePending(k) \/ Apply(k) \/ RemoteOk(k)
             \/ Confirm(k) \/ TakeWaiters(k)
  BY <1>3 DEF CheckDependency, Begin, Differs, WritePending, Apply, RemoteOk, Confirm, TakeWaiters,
     sched, Take, At, Ready
<1> QED
  BY <1>1, <1>2, <1>3, SettledSteps DEF Step, Process

(* And what a Send does.                                                    *)
LEMMA SendQueues ==
  ASSUME Shape, NoOpLostOrDuplicated, OrderShape, NEW m \in Ops, Send(m)
  PROVE  /\ sent \in Seq(Ops) /\ queue \in [Keys -> Seq(Ops)] /\ WorkerKey(m) \in Keys
         /\ m \in submitted /\ m \notin finished /\ m \notin RangeOf(sent)
         /\ \A j \in Keys : m \notin RangeOf(queue[j])
         /\ sent' = Append(sent, m) /\ UNCHANGED <<submitted, finished, worker, rows, stoat, nextId>>
         /\ calling' = calling \ {m} /\ m \in calling
         /\ DOMAIN sent' = 1 .. Len(sent) + 1 /\ DOMAIN sent = 1 .. Len(sent) /\ Len(sent) \in Nat
         /\ sent'[Len(sent) + 1] = m
         /\ \A i \in DOMAIN sent : sent'[i] = sent[i] /\ sent[i] \in Ops /\ sent[i] # m
         /\ \A j \in Keys : queue'[j] = IF j = WorkerKey(m) THEN Append(queue[j], m) ELSE queue[j]
         /\ \A x \in Ops : InQueue(queue', x) <=> InQueue(queue, x) \/ x = m
<1> DEFINE k == WorkerKey(m)
<1>1. /\ sent \in Seq(Ops) /\ queue \in [Keys -> Seq(Ops)] /\ k \in Keys
      /\ m \in calling /\ sent' = Append(sent, m) /\ queue' = [queue EXCEPT ![k] = Append(@, m)]
      /\ calling' = calling \ {m} /\ UNCHANGED <<submitted, finished, worker, rows, stoat, nextId>>
  BY KeysOfOps DEF Shape, StateTypeOK, Send, world
<1>2. m \in submitted /\ m \notin finished /\ m \notin RangeOf(sent) /\ \A j \in Keys : m \notin RangeOf(queue[j])
  <2>1. Spot(m, TRUE, {}, {}, {}, {}, FALSE)
    BY <1>1, Alone
  <2> QED
    BY <1>1, <2>1 DEF Spot, QueuedAt, OrderShape
<1>3. /\ DOMAIN sent' = 1 .. Len(sent) + 1 /\ DOMAIN sent = 1 .. Len(sent) /\ Len(sent) \in Nat
      /\ sent'[Len(sent) + 1] = m
      /\ \A i \in DOMAIN sent : sent'[i] = sent[i] /\ sent[i] \in Ops /\ sent[i] # m
  BY <1>1, <1>2 DEF RangeOf
<1>4. \A j \in Keys : queue'[j] = IF j = k THEN Append(queue[k], m) ELSE queue[j]
  BY <1>1
<1>5. \A x \in Ops : InQueue(queue', x) <=> InQueue(queue, x) \/ x = m
  <2>1. RangeOf(Append(queue[k], m)) = RangeOf(queue[k]) \cup {m}
    BY <1>1, AppendElements
  <2> QED
    BY <1>4, <2>1, KeysOfOps, <1>2 DEF InQueue
<1> QED
  BY <1>1, <1>2, <1>3, <1>4, <1>5

LEMMA SendOrdered ==
  ASSUME Shape, NoOpLostOrDuplicated, OrderShape, NEW m \in Ops, Send(m)
  PROVE  OrderShape'
<1> DEFINE k == WorkerKey(m)
<1>1. /\ sent \in Seq(Ops) /\ queue \in [Keys -> Seq(Ops)] /\ k \in Keys
      /\ m \in calling /\ sent' = Append(sent, m) /\ calling' = calling \ {m}
      /\ UNCHANGED <<submitted, finished>>
  BY SendQueues
<1>2. m \in submitted /\ m \notin RangeOf(sent) /\ \A j \in Keys : m \notin RangeOf(queue[j])
  BY SendQueues
<1>3. NoDuplicates(sent') /\ RangeOf(sent') = submitted' \ calling'
  <2>1. NoDuplicates(sent') /\ RangeOf(sent') = RangeOf(sent) \cup {m}
    BY <1>1, <1>2, AppendDistinct, AppendElements DEF OrderShape
  <2> QED
    BY <1>1, <1>2, <2>1 DEF OrderShape
<1>4. /\ DOMAIN sent' = 1 .. Len(sent) + 1 /\ DOMAIN sent = 1 .. Len(sent) /\ Len(sent) \in Nat
      /\ sent'[Len(sent) + 1] = m
      /\ \A i \in DOMAIN sent : sent'[i] = sent[i] /\ sent[i] \in Ops /\ sent[i] # m
  BY SendQueues
<1>5. \A j \in Keys : queue'[j] = IF j = k THEN Append(queue[j], m) ELSE queue[j]
  BY SendQueues
<1>6. \A x \in Ops : InQueue(queue', x) <=> InQueue(queue, x) \/ x = m
  BY SendQueues
<1>7. ASSUME NEW i \in DOMAIN sent', NEW j \in DOMAIN sent', i < j,
             WorkerKey(sent'[i]) = WorkerKey(sent'[j]), sent'[i] \notin finished'
      PROVE  InQueue(queue', sent'[j])
  <2>1. CASE j \in DOMAIN sent
    <3>1. i \in DOMAIN sent
      BY <1>4, <1>7, <2>1
    <3>2. InQueue(queue, sent[j])
      BY <1>1, <1>4, <1>7, <2>1, <3>1 DEF OrderShape
    <3>3. PICK x \in Ops : x = sent[j]
      BY <1>4, <2>1
    <3>4. InQueue(queue', x) /\ sent'[j] = x
      BY <1>4, <1>6, <2>1, <3>2, <3>3
    <3> QED
      BY <3>4 DEF InQueue
  <2>2. CASE j = Len(sent) + 1
    BY <1>4, <1>6, <2>2 DEF InQueue
  <2> QED
    BY <1>4, <2>1, <2>2
<1>8. ASSUME NEW h \in Keys PROVE InOrder(sent', queue'[h])
  <2> SUFFICES ASSUME NEW a \in DOMAIN queue'[h], NEW b \in DOMAIN queue'[h], a < b,
                      NEW i \in DOMAIN sent', NEW j \in DOMAIN sent',
                      sent'[i] = queue'[h][a], sent'[j] = queue'[h][b]
               PROVE  i < j
    BY DEF InOrder
  <2>1. queue[h] \in Seq(Ops) /\ DOMAIN queue[h] = 1 .. Len(queue[h]) /\ Len(queue[h]) \in Nat
        /\ \A c \in DOMAIN queue[h] : queue[h][c] # m
    BY <1>1, <1>2 DEF RangeOf
  <2>2. CASE h = k
    <3>1. /\ DOMAIN queue'[h] = 1 .. Len(queue[h]) + 1 /\ queue'[h][Len(queue[h]) + 1] = m
          /\ \A c \in DOMAIN queue[h] : queue'[h][c] = queue[h][c]
      <4>1. queue'[h] = Append(queue[h], m)
        BY <1>5, <2>2
      <4> QED
        BY <2>1, <4>1
    <3>2. a \in DOMAIN queue[h]
      BY <2>1, <3>1
    <3>3. i \in DOMAIN sent
      BY SMTT(20), <1>4, <2>1, <3>1, <3>2
    <3>4. CASE b \in DOMAIN queue[h]
      <4>1. j \in DOMAIN sent
        BY <1>4, <2>1, <3>1, <3>4
      <4> QED
        BY <1>4, <3>1, <3>2, <3>3, <3>4, <4>1 DEF OrderShape, InOrder
    <3>5. CASE b = Len(queue[h]) + 1
      <4>1. j = Len(sent) + 1
        BY <1>4, <3>1, <3>5
      <4> QED
        BY <1>4, <3>3, <4>1
    <3> QED
      BY <2>1, <3>1, <3>4, <3>5
  <2>3. CASE h # k
    <3>1. queue'[h] = queue[h]
      BY <1>5, <2>3
    <3>2. i \in DOMAIN sent /\ j \in DOMAIN sent
      BY <1>4, <2>1, <3>1
    <3> QED
      BY <1>4, <3>1, <3>2 DEF OrderShape, InOrder
  <2> QED
    BY <2>2, <2>3
<1> QED
  BY <1>3, <1>7, <1>8 DEF OrderShape

LEMMA TakeOrdered ==
  ASSUME Settled, FairWeather, Shape, SettledShape, NoOpLostOrDuplicated, OrderShape,
         NEW k \in Keys, Take(k)
  PROVE  OrderShape'
<1>1. /\ sent \in Seq(Ops) /\ queue \in [Keys -> Seq(Ops)] /\ queue[k] # <<>> /\ At(k, "idle")
      /\ queue' = [queue EXCEPT ![k] = Tail(@)]
      /\ UNCHANGED <<submitted, calling, sent, finished>>
  BY DEF Shape, StateTypeOK, Take
<1>2. /\ DOMAIN queue[k] = 1 .. Len(queue[k]) /\ Len(queue[k]) \in Nat \ {0}
      /\ \A j \in Keys : queue'[j] = IF j = k THEN Tail(queue[k]) ELSE queue[j]
  BY <1>1
<1>3. PICK m \in Ops : /\ m = Head(queue[k]) /\ m = queue[k][1]
                       /\ RangeOf(queue[k]) = RangeOf(Tail(queue[k])) \cup {m}
  BY <1>1, TailElements
<1>4. WorkerKey(m) = k /\ m \in RangeOf(queue[k])
  BY <1>3 DEF Shape, QueueRouted
<1>5. \A x \in Ops : InQueue(queue, x) /\ x # m => InQueue(queue', x)
  BY <1>2, <1>3, KeysOfOps DEF InQueue
<1>6. ASSUME NEW i \in DOMAIN sent, NEW j \in DOMAIN sent, i < j,
             WorkerKey(sent[i]) = WorkerKey(sent[j]), sent[i] \notin finished
      PROVE  sent[j] # m
  <2> SUFFICES ASSUME sent[j] = m PROVE FALSE
    OBVIOUS
  <2>1. sent[i] \in Ops /\ sent[i] # m /\ sent[i] \in submitted /\ sent[i] \notin calling
    BY <1>1, <1>6 DEF OrderShape, NoDuplicates, RangeOf
  <2>2. InQueue(queue, sent[i])
    BY <1>1, <1>4, <1>6, <2>1, SentSomewhere DEF At
  <2>3. PICK a \in DOMAIN queue[k] : queue[k][a] = sent[i]
    BY <1>4, <1>6, <2>2 DEF InQueue, RangeOf
  <2>4. 1 < a /\ 1 \in DOMAIN queue[k]
    BY <1>2, <1>3, <2>1, <2>3
  <2>5. j < i
    BY <1>3, <1>6, <2>3, <2>4 DEF OrderShape, InOrder
  <2>6. i \in Nat /\ j \in Nat
    BY <1>1
  <2> QED
    BY <1>6, <2>5, <2>6
<1>7. ASSUME NEW i \in DOMAIN sent, NEW j \in DOMAIN sent, i < j,
             WorkerKey(sent[i]) = WorkerKey(sent[j]), sent[i] \notin finished
      PROVE  InQueue(queue', sent[j])
  <2>1. PICK x \in Ops : x = sent[j]
    BY <1>1
  <2>2. InQueue(queue, x) /\ x # m
    BY <1>6, <1>7, <2>1 DEF OrderShape
  <2>3. InQueue(queue', x)
    BY <1>5, <2>2
  <2>4. sent'[j] = x
    BY <1>1, <2>1
  <2> QED
    BY <1>1, <2>1, <2>3 DEF InQueue
<1>8. ASSUME NEW h \in Keys PROVE InOrder(sent, queue'[h])
  <2>1. CASE h # k
    BY <1>2, <2>1 DEF OrderShape
  <2>2. CASE h = k
    <3>1. /\ queue'[k] = Tail(queue[k]) /\ DOMAIN Tail(queue[k]) = 1 .. Len(queue[k]) - 1
          /\ \A a \in 1 .. Len(queue[k]) - 1 : Tail(queue[k])[a] = queue[k][a + 1]
      BY <1>1, <1>2
    <3> SUFFICES ASSUME NEW a \in DOMAIN queue'[k], NEW b \in DOMAIN queue'[k], a < b,
                        NEW i \in DOMAIN sent, NEW j \in DOMAIN sent,
                        sent[i] = queue'[k][a], sent[j] = queue'[k][b]
                 PROVE  i < j
      BY <2>2 DEF InOrder
    <3>2. /\ a + 1 \in DOMAIN queue[k] /\ b + 1 \in DOMAIN queue[k] /\ a + 1 < b + 1
          /\ sent[i] = queue[k][a + 1] /\ sent[j] = queue[k][b + 1]
      BY <1>2, <3>1
    <3> QED
      BY <3>2 DEF OrderShape, InOrder
  <2> QED
    BY <2>1, <2>2
<1>9. ASSUME NEW i \in DOMAIN sent', NEW j \in DOMAIN sent', i < j,
             WorkerKey(sent'[i]) = WorkerKey(sent'[j]), sent'[i] \notin finished'
      PROVE  InQueue(queue', sent'[j])
  BY <1>1, <1>7, <1>9 DEF InQueue
<1> QED
  BY <1>1, <1>8, <1>9 DEF OrderShape

LEMMA NextOrdered ==
  ASSUME Settled, FairWeather, Shape, SettledShape, NoOpLostOrDuplicated, OrderShape, [Next]_vars
  PROVE  OrderShape'
<1>1. CASE \E m \in Ops : Send(m)
  BY <1>1, SendOrdered
<1>2. CASE \E k \in Keys : Take(k)
  BY <1>2, TakeOrdered
<1>3. ASSUME NEW k \in Keys, Step(k), ~Take(k) PROVE OrderShape'
  <2>1. UNCHANGED <<submitted, calling, sent, queue>> /\ finished \subseteq finished'
    BY <1>3, StepQueues
  <2> QED
    BY <2>1 DEF OrderShape, InQueue
<1>4. ASSUME NEW m \in Ops, Submit(m) PROVE OrderShape'
  <2>1. /\ UNCHANGED <<sent, queue, finished>> /\ m \notin submitted
        /\ submitted' = submitted \cup {m} /\ calling' = calling \cup {m}
    BY <1>4 DEF Submit
  <2>2. submitted' \ calling' = submitted \ calling
    BY <2>1
  <2> QED
    BY <2>1, <2>2 DEF OrderShape, InQueue
<1>5. CASE Gateways \/ Rest \/ UNCHANGED vars
  <2>1. UNCHANGED <<submitted, calling, sent, queue, finished>>
    BY <1>5 DEF Gateways, Rest, StoatReady, DiscordLost, DiscordBack, vars, sched
  <2> QED
    BY <2>1 DEF OrderShape, InQueue
<1> QED
  BY <1>1, <1>2, <1>3, <1>4, <1>5 DEF Next

LEMMA InitOrdered == Init => OrderShape
BY EmptyRange, EmptyDistinct DEF Init, OrderShape, InOrder

(* Ops of one entity are ops of one key, so that the one sent first is      *)
(* finished when the other leaves the channel.                              *)
LEMMA EarlierFirst ==
  ASSUME Shape, NoOpLostOrDuplicated, OrderShape, NEW i \in DOMAIN sent, NEW j \in DOMAIN sent,
         i < j, WorkerKey(sent[i]) = WorkerKey(sent[j]), ~InQueue(queue, sent[j])
  PROVE  sent[i] \in finished /\ ~InQueue(queue, sent[i])
<1>1. sent[i] \in finished
  BY DEF OrderShape
<1>2. sent[i] \in Ops
  BY DEF Shape, StateTypeOK
<1> QED
  BY <1>1, <1>2, QueuedOnly, KeysOfOps DEF InQueue

LEMMA HeldIsSent ==
  ASSUME Shape, NoOpLostOrDuplicated, OrderShape, NEW k \in Keys, worker[k].pc # "idle"
  PROVE  \E x \in DOMAIN sent : sent[x] = worker[k].op
BY HeldOnly DEF OrderShape, RangeOf

(* No op joins a channel in a worker's step.                                *)
LEMMA StepUnqueues ==
  ASSUME Settled, FairWeather, Shape, SettledShape, NEW k \in Keys, Step(k),
         NEW x \in Ops, InQueue(queue', x)
  PROVE  InQueue(queue, x)
<1>1. queue \in [Keys -> Seq(Ops)] /\ WorkerKey(x) \in Keys
  BY KeysOfOps DEF Shape, StateTypeOK
<1>2. CASE Take(k)
  <2>1. queue' = [queue EXCEPT ![k] = Tail(@)] /\ queue[k] # <<>>
    BY <1>2, StepQueues DEF Take
  <2>2. RangeOf(Tail(queue[k])) \subseteq RangeOf(queue[k])
    BY <1>1, <2>1, TailElements
  <2> QED
    BY <1>1, <2>1, <2>2 DEF InQueue
<1>3. CASE ~Take(k)
  BY <1>3, StepQueues
<1> QED
  BY <1>2, <1>3

(* What an op leaves in its entity's row.                                   *)
Says(op, row) == IF op.kind = "delete" THEN ~Found(row) ELSE Found(row) /\ row.state = op.state

(* The state of the whole engine while the weather is fair.                 *)
Calm == /\ Shape /\ StoreShape /\ BlameShape /\ StaleShape /\ HomeShape /\ ToldShape
        /\ SettledShape /\ NoOpLostOrDuplicated /\ OrderShape

DoneShape ==
  /\ \A k \in Keys : worker[k].pc \in {"notify", "push"} => Says(worker[k].op, rows[worker[k].op.entity])
  /\ \A i \in DOMAIN sent :
       /\ sent[i] \in finished
       /\ \A j \in DOMAIN sent : j > i /\ sent[j].entity = sent[i].entity => InQueue(queue, sent[j])
       => Says(sent[i], rows[sent[i].entity])

(* A remote delete takes the row along, for no message row refers to it.    *)
LEMMA RemoveRemoves ==
  ASSUME HomesStay, Shape, StaleShape, NEW k \in Keys, Remove(k)
  PROVE  worker[k].op.kind = "delete" /\ rows'[worker[k].op.entity] = Absent
<1> DEFINE e == worker[k].op.entity
<1>1. worker[k].op \in Ops /\ e \in Entities /\ rows \in [Entities -> RowType]
  BY Busy DEF Remove, At, Shape, StateTypeOK
<1>2. worker[k].op.kind = "delete"
  BY DEF Remove, At, StaleShape, LocalStale
<1>3. e \notin Homes /\ e # Null
  BY <1>1, <1>2, EntitiesAssumption DEF HomesStay
<1>4. MayRemove(rows, e)
  BY <1>3 DEF MayRemove, StaleShape, RowStale, Entities
<1> QED
  BY <1>1, <1>2, <1>4 DEF Remove

LEMMA StepSays ==
  ASSUME Settled, FairWeather, Calm, DoneShape, NEW k \in Keys, Step(k), worker[k].pc # "idle",
         worker'[k] = Idle \/ worker'[k].pc \in {"notify", "push"}
  PROVE  Says(worker[k].op, rows'[worker[k].op.entity])
<1> DEFINE op == worker[k].op
           e == op.entity
           row == rows[e]
<1>1. /\ op \in Ops /\ e \in Entities /\ rows \in [Entities -> RowType] /\ row \in RowType
      /\ LocalStore(worker[k], row) /\ LocalPut(worker[k], row, StoatIds)
      /\ LocalTold(worker[k], row, stoat)
      /\ op.channel \in Channels \cup {Null} /\ (e \in Messages <=> op.channel # Null)
  BY Busy, OpsAssumption
     DEF Calm, Shape, StateTypeOK, StoreShape, BlameShape, PutShape, ToldShape, SettledShape, OpType
<1>2. CASE SkipEqual(k)
  BY <1>1, <1>2 DEF SkipEqual, At, Unchanged, LocalStore, Says, world
<1>3. ~WritePendingRefused(k)
  <2> SUFFICES ASSUME WritePendingRefused(k) PROVE FALSE
    OBVIOUS
  <2>1. e \in Messages /\ ~(op.channel \in Channels /\ Found(rows[op.channel]))
    BY DEF WritePendingRefused, MayWritePending
  <2>2. op.channel \in Deps
    BY <1>1, <2>1, DepsOfOps
  <2> QED
    BY <1>1, <2>1, <2>2 DEF Calm, SettledShape, Active, Found
<1>4. CASE Notified(k)
  BY <1>4 DEF Notified, At, DoneShape, world
<1>5. ~RemoteError(k)
  BY CallAccepted, SettledHomesStay, SettledSteps DEF Calm, RemoteError, At, SettledShape
<1>6. CASE Remove(k)
  BY <1>6, RemoveRemoves, SettledHomesStay DEF Calm, Says, Found, Absent
<1>7. CASE Confirm(k)
  <2>1. worker[k].pc = "confirm" /\ rows'[e] = ConfirmedRow(row, worker[k].call.id)
    BY <1>1, <1>7 DEF Confirm, At
  <2>2. op.kind # "delete" /\ Found(row) /\ row.state = op.state
    BY <1>1, <2>1 DEF LocalPut, LocalStore, Putting, LocalTold
  <2>3. Found(rows'[e]) /\ rows'[e].state = row.state
    BY <1>1, <2>1, <2>2 DEF ConfirmedRow, RowType, Found
  <2> QED
    BY <2>2, <2>3 DEF Says
<1>8. CASE TakeWaiters(k)
  BY <1>8 DEF TakeWaiters, At, DoneShape, world
<1>9. faults' # faults + 1
  <2>1. faults' = faults /\ faults = 0
    BY SettledSteps DEF Calm, SettledShape
  <2> QED
    BY <2>1
<1> QED
  BY <1>2, <1>3, <1>4, <1>5, <1>6, <1>7, <1>8, <1>9, WorkerGoes, SettledSteps, IdleTyped DEF Calm

LEMMA StepDone ==
  ASSUME Settled, FairWeather, Calm, DoneShape, NEW k \in Keys, Step(k)
  PROVE  DoneShape'
<1>1. /\ Shape /\ SettledShape /\ NoOpLostOrDuplicated /\ OrderShape
      /\ sent \in Seq(Ops) /\ sent' = sent
  BY StepQueues DEF Calm, Shape, StateTypeOK
<1>2. ASSUME NEW j \in Keys, worker'[j].pc \in {"notify", "push"}
      PROVE  Says(worker'[j].op, rows'[worker'[j].op.entity])
  <2>1. CASE j # k
    <3>1. worker'[j] = worker[j]
      BY <1>1, <2>1, OneWorkerMoves
    <3>2. worker[j].op.entity \in Entities /\ (worker[k].pc # "idle" => worker[j].op.entity # worker[k].op.entity)
      BY <1>1, <1>2, <2>1, <3>1, Busy, OwnEntity
    <3>3. rows'[worker[j].op.entity] = rows[worker[j].op.entity]
      BY <1>1, <3>2, StepRows
    <3> QED
      BY <1>2, <3>1, <3>3 DEF DoneShape
  <2>2. CASE j = k
    <3>1. worker[k].pc # "idle"
      <4> SUFFICES ASSUME worker[k].pc = "idle" PROVE FALSE
        OBVIOUS
      <4>1. Take(k) /\ worker \in [Keys -> WorkerType]
        BY <1>1, OneWorkerMoves DEF Shape, StateTypeOK
      <4>2. worker'[k] = [Idle EXCEPT !.pc = "deps", !.op = Head(queue[k]), !.todo = Head(queue[k]).deps]
        BY <4>1 DEF Take
      <4> QED
        BY <1>2, <2>2, <4>2 DEF Idle
    <3>2. worker'[k].op = worker[k].op
      BY <1>1, <1>2, <2>2, <3>1, OneWorkerMoves, IdleTyped
    <3> QED
      BY <1>2, <2>2, <3>1, <3>2, StepSays
  <2> QED
    BY <2>1, <2>2
<1>3. ASSUME NEW i \in DOMAIN sent, sent[i] \in finished',
             \A j \in DOMAIN sent : j > i /\ sent[j].entity = sent[i].entity => InQueue(queue', sent[j])
      PROVE  Says(sent[i], rows'[sent[i].entity])
  <2>1. CASE sent[i] \notin finished
    <3>1. worker[k].pc # "idle" /\ worker'[k] = Idle /\ sent[i] = worker[k].op
      BY <1>1, <1>3, <2>1, StepQueues
    <3> QED
      BY <3>1, StepSays
  <2>2. CASE sent[i] \in finished
    <3>1. \A j \in DOMAIN sent : sent[j] \in Ops /\ sent[j].entity \in Entities
      BY <1>1, OpsAssumption DEF OpType
    <3>2. \A j \in DOMAIN sent : j > i /\ sent[j].entity = sent[i].entity => InQueue(queue, sent[j])
      BY <1>1, <1>3, <3>1, StepUnqueues
    <3>3. Says(sent[i], rows[sent[i].entity])
      BY <2>2, <3>2 DEF DoneShape
    <3>4. ASSUME worker[k].pc # "idle", sent[i].entity = worker[k].op.entity PROVE FALSE
      <4>1. PICK j \in DOMAIN sent : sent[j] = worker[k].op
        BY <1>1, <3>4, HeldIsSent
      <4>2. sent[j] \notin finished /\ ~InQueue(queue, sent[j])
        BY <1>1, <3>4, <4>1, HeldOnly
      <4>3. i \in Nat /\ j \in Nat /\ i # j
        BY <1>1, <2>2, <4>2
      <4>4. ~(j > i)
        BY <3>2, <3>4, <4>1, <4>2
      <4>5. WorkerKey(sent[j]) = WorkerKey(sent[i])
        BY <3>1, <3>4, <4>1, OneWorkerPerEntity
      <4>6. InQueue(queue, sent[i])
        BY <1>1, <4>2, <4>3, <4>4, <4>5 DEF OrderShape
      <4> QED
        BY <1>1, <2>2, <3>1, <4>6, QueuedOnly, KeysOfOps DEF InQueue
    <3>5. rows'[sent[i].entity] = rows[sent[i].entity]
      BY <1>1, <3>1, <3>4, StepRows
    <3> QED
      BY <3>3, <3>5
  <2> QED
    BY <2>1, <2>2
<1> QED
  BY <1>1, <1>2, <1>3 DEF DoneShape

LEMMA NextDone ==
  ASSUME Settled, FairWeather, Calm, DoneShape, [Next]_vars
  PROVE  DoneShape'
<1>1. CASE \E k \in Keys : Step(k)
  BY <1>1, StepDone
<1>2. ASSUME NEW m \in Ops, Send(m) PROVE DoneShape'
  <2>1. Shape /\ NoOpLostOrDuplicated /\ OrderShape
    BY DEF Calm
  <2>2. UNCHANGED <<worker, rows, finished>> /\ m \notin finished
    BY <1>2, <2>1, SendQueues
  <2>3. /\ DOMAIN sent' = 1 .. Len(sent) + 1 /\ DOMAIN sent = 1 .. Len(sent) /\ Len(sent) \in Nat
        /\ sent'[Len(sent) + 1] = m
        /\ \A i \in DOMAIN sent : sent'[i] = sent[i] /\ sent[i] \in Ops /\ sent[i] # m
        /\ \A x \in Ops : InQueue(queue', x) <=> InQueue(queue, x) \/ x = m
    BY <1>2, <2>1, SendQueues
  <2>4. ASSUME NEW i \in DOMAIN sent', sent'[i] \in finished',
               \A j \in DOMAIN sent' : j > i /\ sent'[j].entity = sent'[i].entity =>
                  InQueue(queue', sent'[j])
        PROVE  Says(sent'[i], rows'[sent'[i].entity])
    <3>1. i \in DOMAIN sent
      BY <2>2, <2>3, <2>4
    <3>2. \A j \in DOMAIN sent : j > i /\ sent[j].entity = sent[i].entity => InQueue(queue, sent[j])
      BY <2>3, <2>4, <3>1
    <3> QED
      BY <2>2, <2>3, <2>4, <3>1, <3>2 DEF DoneShape
  <2> QED
    BY <2>2, <2>4 DEF DoneShape
<1>3. CASE (\E m \in Ops : Submit(m)) \/ Gateways \/ Rest \/ UNCHANGED vars
  <2>1. UNCHANGED <<worker, rows, finished, sent, queue>>
    BY <1>3 DEF Submit, Gateways, Rest, StoatReady, DiscordLost, DiscordBack, vars, sched, world
  <2> QED
    BY <2>1 DEF DoneShape
<1> QED
  BY <1>1, <1>2, <1>3 DEF Next

(* An object on Stoat whose id an entity's row or worker claims is its own. *)
LEMMA OwnObject ==
  ASSUME Shape, StoreShape, BlameShape, faults = 0, NEW e \in Entities, NEW o \in stoat, o.id \in Claims(e)
  PROVE  o.entity = e
<1>1. LostIds = {}
  BY FS_EmptySet, FS_CardinalityType DEF BlameShape
<1>2. Held(o)
  BY <1>1 DEF LostIds
<1>3. o.entity \in Entities /\ o.id # NoId
  BY DEF Shape, StateTypeOK, StoatType, BlameShape, ObjectsShape
<1>4. o.id \in Claims(o.entity)
  <2>1. CASE rows[o.entity].id = o.id
    BY <2>1 DEF Claims
  <2>2. CASE \E k \in Keys : Confirming(k) /\ worker[k].op.entity = o.entity /\ worker[k].call.id = o.id
    BY <2>2 DEF Claims
  <2> QED
    BY <1>2, <2>1, <2>2 DEF Held, HeldIn, Confirming
<1> QED
  BY <1>3, <1>4 DEF StoreShape

(* No object is left of an entity without a row.                            *)
LEMMA NoObject ==
  ASSUME Shape, StoreShape, BlameShape, faults = 0,
         NEW e \in Entities, ~Found(rows[e]), Quiet(e), NEW o \in stoat
  PROVE  o.entity # e
<1>1. LostIds = {}
  BY FS_EmptySet, FS_CardinalityType DEF BlameShape
<1>2. Held(o)
  BY <1>1 DEF LostIds
<1>3. \A k \in Keys : Putting(worker[k]) => worker[k].pc # "idle" /\ AtWork(worker[k])
  BY DEF Putting, AtWork
<1> QED
  BY <1>2, <1>3 DEF Held, Quiet, Active, Found

LEMMA SettledAlways ==
  ASSUME Settled, FairWeather, ChannelsFirst
  PROVE  Spec => [](Calm /\ DoneShape)
<1>1. HomesStay
  BY SettledHomesStay
<1>2. Shape /\ StoreShape /\ BlameShape /\ StaleShape /\ StaleCount /\ [Next]_vars =>
        StaleShape' /\ StaleCount'
  BY <1>1, NextStale
<1>3. Shape /\ StoreShape /\ BlameShape /\ StaleShape /\ HomeShape /\ ToldShape /\ [Next]_vars =>
        HomeShape' /\ ToldShape'
  BY <1>1, NextTold
<1>4. Shape /\ SettledShape /\ [Next]_vars => SettledShape'
  BY NextSettled
<1>5. Shape /\ SettledShape /\ NoOpLostOrDuplicated /\ OrderShape /\ [Next]_vars => OrderShape'
  BY NextOrdered
<1>6. Calm /\ DoneShape /\ [Next]_vars => DoneShape'
  BY NextDone
<1>7. Init => SettledShape /\ DoneShape
  <2> SUFFICES ASSUME Init PROVE SettledShape /\ DoneShape
    OBVIOUS
  <2>1. sent = <<>> /\ finished = {} /\ \A k \in Keys : worker[k] = Idle
    BY DEF Init
  <2> QED
    BY <2>1, InitSettled, IdleTyped DEF DoneShape
<1>8. Shape /\ StoreShape /\ BlameShape /\ StaleShape /\ HomeShape /\ ToldShape /\ SettledShape
        /\ NoOpLostOrDuplicated /\ OrderShape => Calm
  BY DEF Calm
<1> QED
  BY <1>2, <1>3, <1>4, <1>5, <1>6, <1>7, <1>8, InitStale, InitTold, InitOrdered, BlameAlways,
     OpsConserved, PTL DEF Spec

(* Once nothing is in flight for an entity, Stoat shows what the op sent    *)
(* last for it asked for: ops of one entity neither overtake each other nor *)
(* leave anything of the earlier ones behind, with any number of workers,   *)
(* entities and ops, and any interleaving.                                  *)
THEOREM LastOpIsMirrored ==
  ASSUME Settled, FairWeather, ChannelsFirst
  PROVE  Spec => []MirrorsLastOp
<1>1. Calm /\ DoneShape => MirrorsLastOp
  <2> SUFFICES ASSUME Calm, DoneShape, NEW i \in DOMAIN sent, IsLast(i), ~InFlight(sent[i].entity)
               PROVE  IF sent[i].kind = "delete"
                      THEN \A o \in stoat : o.entity # sent[i].entity
                      ELSE \E o \in stoat : o.entity = sent[i].entity /\ o.state = sent[i].state
    BY DEF MirrorsLastOp
  <2> DEFINE e == sent[i].entity
  <2>1. /\ Shape /\ StoreShape /\ BlameShape /\ ToldShape /\ NoOpLostOrDuplicated /\ OrderShape
        /\ faults = 0
    BY DEF Calm, SettledShape
  <2>2. sent[i] \in Ops /\ e \in Entities /\ sent[i] \in submitted /\ sent \in Seq(Ops)
    BY <2>1, OpsAssumption DEF Shape, StateTypeOK, OpType, OrderShape, RangeOf
  <2>3. sent[i] \in finished
    BY <2>2 DEF InFlight
  <2>4. \A j \in DOMAIN sent : j > i => sent[j].entity # sent[i].entity
    BY <2>2 DEF IsLast
  <2>5. Says(sent[i], rows[e])
    BY <2>3, <2>4 DEF DoneShape
  <2>6. Quiet(e)
    BY <2>1, HeldOnly DEF Quiet, InFlight
  <2>7. CASE sent[i].kind = "delete"
    BY <2>1, <2>2, <2>5, <2>6, <2>7, NoObject DEF Says
  <2>8. CASE sent[i].kind # "delete"
    <3>1. PICK o \in stoat : o.id = rows[e].id /\ o.state = sent[i].state
      BY <2>1, <2>2, <2>5, <2>6, <2>8 DEF Says, ToldShape, Told
    <3>2. o.id \in Claims(e)
      BY <3>1 DEF Claims
    <3>3. o.entity = e
      BY <2>1, <2>2, <3>2, OwnObject
    <3> QED
      BY <2>8, <3>1, <3>3
  <2> QED
    BY <2>7, <2>8
<1> QED
  BY <1>1, SettledAlways, PTL

(* An op that brings its message to Stoat leaves its id in the row, and a   *)
(* message's object shows that an op for it has left the channel.           *)
MadeShape ==
  /\ \A i \in DOMAIN sent : Introduces(i) /\ sent[i] \in finished => rows[sent[i].entity].id # NoId
  /\ \A o \in stoat : o.entity \in Messages =>
       \E x \in DOMAIN sent : sent[x].entity = o.entity /\ ~InQueue(queue, sent[x])

(* The message of an op that introduces it has its object only once the op  *)
(* has left the channel.                                                    *)
LEMMA IntroducedFirst ==
  ASSUME Calm, MadeShape, NEW j \in DOMAIN sent, Introduces(j),
         NEW p \in stoat, p.entity = sent[j].entity
  PROVE  ~InQueue(queue, sent[j])
<1>1. Shape /\ NoOpLostOrDuplicated /\ OrderShape /\ sent \in Seq(Ops)
  BY DEF Calm, Shape, StateTypeOK
<1>2. sent[j] \in Ops /\ sent[j].entity \in Messages
  BY <1>1, OpsAssumption DEF Introduces
<1>3. PICK x \in DOMAIN sent : sent[x].entity = sent[j].entity /\ ~InQueue(queue, sent[x])
  BY <1>2 DEF MadeShape
<1>4. x >= j /\ x \in Nat /\ j \in Nat
  BY <1>1, <1>3 DEF Introduces
<1>5. WorkerKey(sent[x]) = WorkerKey(sent[j])
  BY <1>1, <1>2, <1>3, OneWorkerPerEntity
<1>6. CASE x = j
  BY <1>3, <1>6
<1>7. CASE j < x
  BY <1>1, <1>3, <1>5, <1>7, EarlierFirst
<1> QED
  BY <1>4, <1>6, <1>7

LEMMA StepMade ==
  ASSUME Settled, FairWeather, Calm, Calm', DoneShape, MadeShape, NEW k \in Keys, Step(k)
  PROVE  MadeShape'
<1>1. /\ Shape /\ StoreShape /\ BlameShape /\ SettledShape /\ NoOpLostOrDuplicated /\ OrderShape
      /\ sent \in Seq(Ops) /\ sent' = sent
  BY StepQueues DEF Calm, Shape, StateTypeOK
<1>2. ASSUME NEW i \in DOMAIN sent, Introduces(i), sent[i] \in finished'
      PROVE  rows'[sent[i].entity].id # NoId
  <2>1. PICK a \in Ops : a = sent[i]
    BY <1>1
  <2>2. a.entity \in Entities /\ a.kind # "delete"
    BY <1>1, <1>2, <2>1, OpsAssumption DEF OpType, Introduces
  <2>3. CASE sent[i] \notin finished
    <3>1. worker[k].pc # "idle" /\ worker'[k] = Idle /\ a = worker[k].op
      BY <1>1, <1>2, <2>1, <2>3, StepQueues
    <3>2. Found(rows'[a.entity])
      BY <2>2, <3>1, StepSays DEF Says
    <3>3. ASSUME NEW j \in Keys, worker'[j].pc # "idle", worker'[j].op.entity = a.entity PROVE FALSE
      <4>1. j # k
        BY <3>1, <3>3, IdleTyped
      <4>2. worker'[j] = worker[j]
        BY <1>1, <4>1, OneWorkerMoves
      <4> QED
        BY <1>1, <3>1, <3>3, <4>1, <4>2, OwnEntity
    <3>4. Quiet(a.entity)'
      <4>1. ~\E j \in Keys : worker'[j].pc # "idle" /\ worker'[j].op.entity = a.entity
        BY <3>3
      <4> QED
        BY <4>1 DEF Quiet
    <3>5. PICK o \in stoat' : o.id = rows'[a.entity].id
      BY <2>2, <3>2, <3>4 DEF Calm, SettledShape, ToldShape, Told
    <3>6. o.id # NoId
      BY DEF Calm, BlameShape, ObjectsShape
    <3> QED
      BY <2>1, <3>5, <3>6
  <2>4. CASE sent[i] \in finished
    <3>1. rows[a.entity].id # NoId
      BY <1>2, <2>1, <2>4 DEF MadeShape
    <3>2. ASSUME worker[k].pc # "idle", a.entity = worker[k].op.entity, Remove(k) PROVE FALSE
      <4>1. worker[k].op.kind = "delete"
        BY <3>2, RemoveRemoves, SettledHomesStay DEF Calm
      <4>2. PICK x \in DOMAIN sent : sent[x] = worker[k].op
        BY <1>1, <3>2, HeldIsSent
      <4> QED
        BY <1>2, <2>1, <3>2, <4>1, <4>2 DEF Introduces
    <3> QED
      BY <1>1, <2>1, <2>2, <3>1, <3>2, RowKeepsId
  <2> QED
    BY <2>3, <2>4
<1>3. ASSUME NEW o \in stoat', o.entity \in Messages
      PROVE  \E x \in DOMAIN sent : sent[x].entity = o.entity /\ ~InQueue(queue', sent[x])
  <2>1. \A x \in DOMAIN sent : ~InQueue(queue, sent[x]) => ~InQueue(queue', sent[x])
    BY <1>1, StepUnqueues
  <2>2. CASE \E p \in stoat : p.entity = o.entity
    BY <1>3, <2>1, <2>2 DEF MadeShape
  <2>3. CASE ~\E p \in stoat : p.entity = o.entity
    <3>1. RemoteOk(k)
      BY <1>1, <2>3, StepObjects, SettledSteps DEF BlameShape
    <3>2. worker[k].pc # "idle" /\ Effect(worker[k].op, worker[k].call)
      BY <3>1 DEF RemoteOk, At
    <3>3. o.entity = worker[k].op.entity
      BY <1>1, <2>3, <3>2, EffectObjects DEF BlameShape
    <3>4. PICK x \in DOMAIN sent : sent[x] = worker[k].op
      BY <1>1, <3>2, HeldIsSent
    <3>5. ~InQueue(queue, sent[x])
      BY <1>1, <3>2, <3>4, HeldOnly
    <3> QED
      BY <2>1, <3>3, <3>4, <3>5
  <2> QED
    BY <2>2, <2>3
<1>4. \A i \in DOMAIN sent : Introduces(i)' <=> Introduces(i)
  BY <1>1 DEF Introduces
<1> QED
  BY <1>1, <1>2, <1>3, <1>4 DEF MadeShape

LEMMA NextMade ==
  ASSUME Settled, FairWeather, Calm, Calm', DoneShape, MadeShape, [Next]_vars
  PROVE  MadeShape'
<1>1. CASE \E k \in Keys : Step(k)
  BY <1>1, StepMade
<1>2. ASSUME NEW m \in Ops, Send(m) PROVE MadeShape'
  <2>1. Shape /\ NoOpLostOrDuplicated /\ OrderShape
    BY DEF Calm
  <2>2. UNCHANGED <<rows, stoat, finished>> /\ m \notin finished
    BY <1>2, <2>1, SendQueues
  <2>3. /\ DOMAIN sent' = 1 .. Len(sent) + 1 /\ DOMAIN sent = 1 .. Len(sent) /\ Len(sent) \in Nat
        /\ sent'[Len(sent) + 1] = m
        /\ \A i \in DOMAIN sent : sent'[i] = sent[i] /\ sent[i] \in Ops /\ sent[i] # m
        /\ \A x \in Ops : InQueue(queue', x) <=> InQueue(queue, x) \/ x = m
    BY <1>2, <2>1, SendQueues
  <2>4. ASSUME NEW i \in DOMAIN sent', Introduces(i)', sent'[i] \in finished'
        PROVE  rows'[sent'[i].entity].id # NoId
    <3>1. i \in DOMAIN sent
      BY <2>2, <2>3, <2>4
    <3>2. Introduces(i)
      BY <2>3, <2>4, <3>1 DEF Introduces
    <3> QED
      BY <2>2, <2>3, <2>4, <3>1, <3>2 DEF MadeShape
  <2>5. ASSUME NEW o \in stoat', o.entity \in Messages
        PROVE  \E x \in DOMAIN sent' : sent'[x].entity = o.entity /\ ~InQueue(queue', sent'[x])
    <3>1. PICK x \in DOMAIN sent : sent[x].entity = o.entity /\ ~InQueue(queue, sent[x])
      BY <2>2, <2>5 DEF MadeShape
    <3> QED
      BY <2>3, <3>1
  <2> QED
    BY <2>4, <2>5 DEF MadeShape
<1>3. CASE (\E m \in Ops : Submit(m)) \/ Gateways \/ Rest \/ UNCHANGED vars
  <2>1. UNCHANGED <<rows, stoat, finished, sent, queue>>
    BY <1>3 DEF Submit, Gateways, Rest, StoatReady, DiscordLost, DiscordBack, vars, sched, world
  <2> QED
    BY <2>1 DEF MadeShape, Introduces
<1> QED
  BY <1>1, <1>2, <1>3 DEF Next

LEMMA StepInOrder ==
  ASSUME Settled, FairWeather, Calm, MadeShape, SendOrderIsDisplayOrder, NEW k \in Keys, Step(k)
  PROVE  SendOrderIsDisplayOrder'
<1>1. /\ Shape /\ StoreShape /\ BlameShape /\ SettledShape /\ NoOpLostOrDuplicated /\ OrderShape
      /\ sent \in Seq(Ops) /\ sent' = sent /\ nextId \in Nat
  BY StepQueues DEF Calm, Shape, StateTypeOK
<1>2. ASSUME NEW i \in DOMAIN sent, NEW j \in DOMAIN sent, i < j, Introduces(i), Introduces(j),
             sent[i].channel = sent[j].channel,
             NEW o \in stoat', NEW p \in stoat', o.entity = sent[i].entity, p.entity = sent[j].entity
      PROVE  o.id < p.id
  <2> DEFINE Old(q) == \E r \in stoat : r.id = q.id /\ r.entity = q.entity
             New(q) == /\ RemoteOk(k) /\ worker[k].pc # "idle" /\ worker[k].call.verb = "create"
                       /\ q.id = nextId /\ q.entity = worker[k].op.entity
  <2>1. ASSUME NEW q \in stoat' PROVE Old(q) \/ New(q)
    <3>1. CASE RemoteOk(k)
      <4>1. worker[k].pc # "idle" /\ Effect(worker[k].op, worker[k].call)
        BY <3>1 DEF RemoteOk, At
      <4> QED
        BY <1>1, <3>1, <4>1, EffectObjects DEF BlameShape
    <3>2. CASE ~RemoteOk(k)
      BY <1>1, <3>2, StepObjects, SettledSteps DEF BlameShape
    <3> QED
      BY <3>1, <3>2
  <2>2. /\ sent[i] \in Ops /\ sent[j] \in Ops /\ sent[i].entity \in Messages /\ sent[j].entity \in Messages
        /\ sent[i].entity \in Entities
    BY <1>1, <1>2, OpsAssumption DEF Introduces, Entities
  <2>3. WorkerKey(sent[i]) = WorkerKey(sent[j])
    BY <1>2, <2>2 DEF WorkerKey, Introduces
  <2>4. sent[i].entity # sent[j].entity
    BY <1>1, <1>2 DEF Introduces
  <2>5. CASE Old(o) /\ Old(p)
    BY <1>2, <2>5 DEF SendOrderIsDisplayOrder
  <2>6. CASE Old(o) /\ New(p)
    BY <1>1, <2>6 DEF BlameShape, ObjectsShape
  <2>7. CASE New(o) /\ New(p)
    BY <1>2, <2>4, <2>7
  <2>8. CASE New(o) /\ Old(p)
    <3>1. ~InQueue(queue, sent[j])
      BY <1>2, <2>8, IntroducedFirst
    <3>2. sent[i] \in finished
      BY <1>1, <1>2, <2>3, <3>1, EarlierFirst
    <3>3. rows[sent[i].entity].id # NoId
      BY <1>2, <3>2 DEF MadeShape
    <3>4. rows[worker[k].op.entity].id = NoId
      BY <1>1, <2>8 DEF StoreShape, LocalStore, RemoteOk, At
    <3> QED
      BY <1>2, <2>8, <3>3, <3>4
  <2> HIDE DEF Old, New
  <2> QED
    BY <2>1, <2>5, <2>6, <2>7, <2>8
<1>3. \A i \in DOMAIN sent : Introduces(i)' <=> Introduces(i)
  BY <1>1 DEF Introduces
<1> QED
  BY <1>1, <1>2, <1>3 DEF SendOrderIsDisplayOrder

LEMMA NextInOrder ==
  ASSUME Settled, FairWeather, Calm, MadeShape, SendOrderIsDisplayOrder, [Next]_vars
  PROVE  SendOrderIsDisplayOrder'
<1>1. CASE \E k \in Keys : Step(k)
  BY <1>1, StepInOrder
<1>2. ASSUME NEW m \in Ops, Send(m) PROVE SendOrderIsDisplayOrder'
  <2>1. Shape /\ NoOpLostOrDuplicated /\ OrderShape
    BY DEF Calm
  <2>2. /\ stoat' = stoat
        /\ DOMAIN sent' = 1 .. Len(sent) + 1 /\ DOMAIN sent = 1 .. Len(sent) /\ Len(sent) \in Nat
        /\ sent'[Len(sent) + 1] = m
        /\ \A i \in DOMAIN sent : sent'[i] = sent[i] /\ sent[i] \in Ops
    BY <1>2, <2>1, SendQueues
  <2>3. ASSUME NEW i \in DOMAIN sent', NEW j \in DOMAIN sent', i < j, Introduces(i)', Introduces(j)',
               sent'[i].channel = sent'[j].channel,
               NEW o \in stoat', NEW p \in stoat', o.entity = sent'[i].entity, p.entity = sent'[j].entity
        PROVE  o.id < p.id
    <3>1. i \in DOMAIN sent
      BY <2>2, <2>3
    <3>2. CASE j \in DOMAIN sent
      <4>1. Introduces(i) /\ Introduces(j)
        BY <2>2, <2>3, <3>1, <3>2 DEF Introduces
      <4> QED
        BY <2>2, <2>3, <3>1, <3>2, <4>1 DEF SendOrderIsDisplayOrder
    <3>3. CASE j = Len(sent) + 1
      <4>1. p \in stoat /\ p.entity = m.entity /\ m.entity \in Messages
        BY <2>2, <2>3, <3>3, OpsAssumption DEF Introduces
      <4>2. PICK x \in DOMAIN sent : sent[x].entity = p.entity
        BY <4>1 DEF MadeShape
      <4>3. x \in DOMAIN sent' /\ sent'[x].entity = sent'[j].entity /\ ~(x >= j)
        BY <2>2, <2>3, <3>3, <4>2
      <4> QED
        BY <2>3, <4>3 DEF Introduces
    <3> QED
      BY <2>2, <3>2, <3>3
  <2> QED
    BY <2>3 DEF SendOrderIsDisplayOrder
<1>3. CASE (\E m \in Ops : Submit(m)) \/ Gateways \/ Rest \/ UNCHANGED vars
  <2>1. UNCHANGED <<stoat, sent>>
    BY <1>3 DEF Submit, Gateways, Rest, StoatReady, DiscordLost, DiscordBack, vars, sched, world
  <2> QED
    BY <2>1 DEF SendOrderIsDisplayOrder, Introduces
<1> QED
  BY <1>1, <1>2, <1>3 DEF Next

(* The messages of a channel appear on Stoat in the order in which they     *)
(* were sent to the engine, whatever else is under way.                     *)
THEOREM DisplayIsInOrder ==
  ASSUME Settled, FairWeather, ChannelsFirst
  PROVE  Spec => []SendOrderIsDisplayOrder
<1>1. Init => MadeShape /\ SendOrderIsDisplayOrder
  <2> SUFFICES ASSUME Init PROVE MadeShape /\ SendOrderIsDisplayOrder
    OBVIOUS
  <2>1. sent = <<>> /\ \A o \in stoat : o.entity \in Roles \cup Channels
    BY BoundsAssumption DEF Init
  <2>2. \A o \in stoat : o.entity \notin Messages
    BY <2>1, EntitiesAssumption
  <2> QED
    BY <2>1, <2>2 DEF MadeShape, SendOrderIsDisplayOrder
<1>2. Calm /\ Calm' /\ DoneShape /\ MadeShape /\ [Next]_vars => MadeShape'
  BY NextMade
<1>3. Calm /\ MadeShape /\ SendOrderIsDisplayOrder /\ [Next]_vars => SendOrderIsDisplayOrder'
  BY NextInOrder
<1> QED
  BY <1>1, <1>2, <1>3, SettledAlways, PTL DEF Spec
=============================================================================
