---------------------------- MODULE EngineProofs ----------------------------
(***************************************************************************)
(* The engine's scheduling: the shape of its state, which every proof about *)
(* the engine starts from; no op is lost or run twice, and the WaitGroup is *)
(* exact; and the queues, waiter lists and workers implement SerializedOps. *)
(***************************************************************************)
EXTENDS EngineProperties, TLAPS, FiniteSetTheorems, SequenceTheorems

(* Shape: types, what a worker holds at each of its labels, and that ops    *)
(* travel in the channel of their own key.                                  *)

(* A worker between two ops is Idle; otherwise it holds an op of its own    *)
(* key, and only the fields its label uses are set.                         *)
LocalShape(k, w) ==
  /\ w.pc = "idle" => w = Idle
  /\ w.pc # "idle" => w.op \in Ops /\ WorkerKey(w.op) = k
  /\ w.pc = "defer" => w.missing \in Entities
  /\ w.pc # "push" => w.pushing = <<>>
  /\ w.pc \notin {"deps", "defer"} => w.todo = {}

WorkerShape == \A k \in Keys : LocalShape(k, worker[k])

(* Ops wait in the channel of their own key.                                *)
QueueRouted == \A k \in Keys : \A op \in RangeOf(queue[k]) : WorkerKey(op) = k

Shape == StateTypeOK /\ wg \in Int /\ WorkerShape /\ QueueRouted

LEMMA KeysOfOps == \A op \in Ops : WorkerKey(op) \in Keys
BY DEF Keys

LEMMA InitShape == Init => Shape
<1> SUFFICES ASSUME Init PROVE Shape
  OBVIOUS
<1> USE DEF Init
<1>1. Idle \in WorkerType
  BY DEF Idle, WorkerType, NoCall, CallType, NoId
<1>2. rows \in [Entities -> RowType]
  BY BoundsAssumption DEF RowType, Absent, NoId
<1>3. stoat \subseteq StoatType
  BY BoundsAssumption DEF StoatType, NoId, Entities
<1>4. nextId \in Nat \ {0} /\ landed \subseteq Entities
  BY BoundsAssumption DEF Entities
<1>5. StateTypeOK
  BY <1>1, <1>2, <1>3, <1>4, BoundsAssumption DEF StateTypeOK
<1>6. WorkerShape
  BY DEF WorkerShape, LocalShape, Idle
<1>7. QueueRouted
  BY DEF QueueRouted, RangeOf
<1> QED
  BY <1>5, <1>6, <1>7 DEF Shape

-----------------------------------------------------------------------------
(* What Tail and Append do to the elements of a sequence.                   *)
LEMMA TailElements ==
  ASSUME NEW S, NEW s \in Seq(S), s # <<>>
  PROVE  /\ Head(s) \in S /\ Tail(s) \in Seq(S)
         /\ Head(s) \in RangeOf(s)
         /\ RangeOf(s) = RangeOf(Tail(s)) \cup {Head(s)}
<1>1. /\ Head(s) \in S /\ Tail(s) \in Seq(S) /\ Head(s) = s[1]
      /\ Len(s) \in Nat \ {0} /\ Len(Tail(s)) = Len(s) - 1
      /\ \A i \in 1 .. Len(s) - 1 : Tail(s)[i] = s[i + 1]
  OBVIOUS
<1>2. DOMAIN s = 1 .. Len(s) /\ DOMAIN Tail(s) = 1 .. Len(s) - 1
  BY <1>1
<1>3. \A x : x \in RangeOf(s) => x \in RangeOf(Tail(s)) \cup {Head(s)}
  <2> SUFFICES ASSUME NEW i \in 1 .. Len(s), i # 1
               PROVE  s[i] \in RangeOf(Tail(s))
    BY <1>1, <1>2 DEF RangeOf
  <2> i - 1 \in 1 .. Len(s) - 1 /\ Tail(s)[i - 1] = s[i]
    BY <1>1
  <2> QED
    BY <1>2 DEF RangeOf
<1>4. \A x : x \in RangeOf(Tail(s)) \cup {Head(s)} => x \in RangeOf(s)
  BY <1>1, <1>2 DEF RangeOf
<1> QED
  BY <1>1, <1>3, <1>4

LEMMA AppendElements ==
  ASSUME NEW S, NEW s \in Seq(S), NEW x \in S
  PROVE  Append(s, x) \in Seq(S) /\ RangeOf(Append(s, x)) = RangeOf(s) \cup {x}
<1>1. /\ Append(s, x) \in Seq(S) /\ Len(Append(s, x)) = Len(s) + 1
      /\ Len(s) \in Nat /\ Append(s, x)[Len(s) + 1] = x
      /\ \A i \in 1 .. Len(s) : Append(s, x)[i] = s[i]
  OBVIOUS
<1>2. DOMAIN s = 1 .. Len(s) /\ DOMAIN Append(s, x) = 1 .. Len(s) + 1
  BY <1>1
<1>3. \A y : y \in RangeOf(s) \cup {x} => y \in RangeOf(Append(s, x))
  BY <1>1, <1>2 DEF RangeOf
<1>4. \A y : y \in RangeOf(Append(s, x)) => y \in RangeOf(s) \cup {x}
  BY <1>1, <1>2 DEF RangeOf
<1> QED
  BY <1>1, <1>3, <1>4

-----------------------------------------------------------------------------
(* Every update the actions make of a worker's record is well-typed.        *)
Labels == {"idle", "deps", "defer", "diff", "pending", "apply", "remote",
           "confirm", "remove", "notify", "push"}

LEMMA UpdateTyped ==
  ASSUME NEW w \in WorkerType, NEW pc \in Labels
  PROVE  /\ \A todo \in SUBSET Entities : [w EXCEPT !.todo = todo] \in WorkerType
         /\ \A s \in Seq(Ops) : [w EXCEPT !.pushing = s] \in WorkerType
         /\ [w EXCEPT !.pc = pc] \in WorkerType
         /\ \A e \in Entities : [w EXCEPT !.pc = pc, !.missing = e] \in WorkerType
         /\ \A s \in Seq(Ops) : [w EXCEPT !.pc = pc, !.pushing = s] \in WorkerType
         /\ \A c \in CallType : [w EXCEPT !.pc = pc, !.call = c] \in WorkerType
         /\ \A n \in Nat, c \in CallType :
              [w EXCEPT !.pc = pc, !.tries = n, !.call = c] \in WorkerType
         /\ \A n \in Nat : [w EXCEPT !.pc = pc, !.call.id = n] \in WorkerType
<1> USE DEF WorkerType, Labels
<1>1. ASSUME NEW todo \in SUBSET Entities PROVE [w EXCEPT !.todo = todo] \in WorkerType
  OBVIOUS
<1>2. ASSUME NEW s \in Seq(Ops) PROVE [w EXCEPT !.pushing = s] \in WorkerType
  OBVIOUS
<1>3. [w EXCEPT !.pc = pc] \in WorkerType
  OBVIOUS
<1>4. ASSUME NEW e \in Entities PROVE [w EXCEPT !.pc = pc, !.missing = e] \in WorkerType
  OBVIOUS
<1>5. ASSUME NEW s \in Seq(Ops) PROVE [w EXCEPT !.pc = pc, !.pushing = s] \in WorkerType
  OBVIOUS
<1>6. ASSUME NEW c \in CallType PROVE [w EXCEPT !.pc = pc, !.call = c] \in WorkerType
  OBVIOUS
<1>7. ASSUME NEW n \in Nat, NEW c \in CallType
      PROVE [w EXCEPT !.pc = pc, !.tries = n, !.call = c] \in WorkerType
  OBVIOUS
<1>8. ASSUME NEW n \in Nat PROVE [w EXCEPT !.pc = pc, !.call.id = n] \in WorkerType
  BY DEF CallType
<1> QED
  BY <1>1, <1>2, <1>3, <1>4, <1>5, <1>6, <1>7, <1>8

LEMMA FreshTyped ==
  ASSUME NEW op \in Ops
  PROVE  [Idle EXCEPT !.pc = "deps", !.op = op, !.todo = op.deps] \in WorkerType
<1>1. op.deps \in SUBSET Entities
  BY OpsAssumption DEF OpType
<1>2. Idle \in WorkerType
  BY DEF Idle, WorkerType, NoCall, CallType, NoId
<1> DEFINE t == op.deps
<1> HIDE DEF t
<1>3. [Idle EXCEPT !.pc = "deps", !.op = op, !.todo = t] \in WorkerType
  BY <1>1, <1>2 DEF WorkerType, t
<1> QED
  BY <1>3 DEF t

LEMMA IdleTyped == Idle \in WorkerType /\ Idle.op = Null /\ Idle.pc = "idle"
                   /\ Idle.pushing = <<>> /\ Idle.todo = {}
BY DEF Idle, WorkerType, NoCall, CallType, NoId

(* What a worker that is not idle may rely on.                              *)
LEMMA Busy ==
  ASSUME Shape, NEW k \in Keys, worker[k].pc # "idle"
  PROVE  /\ worker[k] \in WorkerType /\ worker[k].op \in Ops /\ worker[k].op \in OpType
         /\ worker[k].op.entity \in Entities /\ WorkerKey(worker[k].op) = k
         /\ worker[k].op # Null
BY OpsAssumption DEF Shape, StateTypeOK, WorkerShape, LocalShape, OpType

(* One worker moves and the rest stand still.                               *)
LEMMA MoveShape ==
  ASSUME Shape, NEW k \in Keys, NEW w \in WorkerType, LocalShape(k, w),
         worker' = [worker EXCEPT ![k] = w]
  PROVE  worker' \in [Keys -> WorkerType] /\ WorkerShape'
BY DEF Shape, StateTypeOK, WorkerShape

LEMMA ReturnShape ==
  ASSUME Shape, NEW k \in Keys, worker[k].pc # "idle", Return(k)
  PROVE  /\ submitted' \subseteq Ops /\ calling' \subseteq Ops /\ finished' \subseteq Ops
         /\ sent' \in Seq(Ops) /\ queue' \in [Keys -> Seq(Ops)]
         /\ waiters' \in [Entities -> Seq(Ops)] /\ worker' \in [Keys -> WorkerType]
         /\ wg' \in Int /\ WorkerShape' /\ QueueRouted'
<1>1. LocalShape(k, Idle) /\ Idle \in WorkerType
  BY IdleTyped DEF LocalShape
<1>2. worker' \in [Keys -> WorkerType] /\ WorkerShape'
  BY <1>1, MoveShape DEF Return
<1>3. finished' \subseteq Ops
  BY Busy DEF Return, Shape, StateTypeOK
<1> QED
  BY <1>2, <1>3 DEF Return, Shape, StateTypeOK, QueueRouted

(* The parts of the state that most steps leave alone.                      *)
LEMMA SchedShape ==
  ASSUME Shape, UNCHANGED sched
  PROVE  /\ submitted' \subseteq Ops /\ calling' \subseteq Ops /\ finished' \subseteq Ops
         /\ sent' \in Seq(Ops) /\ queue' \in [Keys -> Seq(Ops)]
         /\ waiters' \in [Entities -> Seq(Ops)] /\ wg' \in Int /\ QueueRouted'
BY DEF Shape, StateTypeOK, sched, QueueRouted

LEMMA WorldShape ==
  ASSUME Shape, UNCHANGED world
  PROVE  /\ rows' \in [Entities -> RowType] /\ landed' \subseteq Entities
         /\ stoat' \subseteq StoatType /\ nextId' \in Nat \ {0}
BY DEF Shape, StateTypeOK, world

LEMMA EnvShape ==
  ASSUME Shape, UNCHANGED env \/ Fault
  PROVE  /\ discordReady' \in BOOLEAN /\ stoatReady' \in BOOLEAN
         /\ opQueue' \subseteq Ops /\ faults' \in Nat /\ outages' \in Nat
<1>1. CASE UNCHANGED env
  BY <1>1 DEF Shape, StateTypeOK, env
<1>2. CASE Fault
  BY <1>2 DEF Shape, StateTypeOK, Fault
<1> QED
  BY <1>1, <1>2

LEMMA SubmitShape ==
  ASSUME Shape, NEW op \in Ops, Submit(op) \/ Send(op)
  PROVE  Shape'
<1>1. CASE Submit(op)
  BY <1>1, EnvShape, WorldShape DEF Shape, StateTypeOK, Submit, WorkerShape, QueueRouted
<1>2. CASE Send(op)
  <2>1. WorkerKey(op) \in Keys
    BY KeysOfOps
  <2>2. /\ Append(queue[WorkerKey(op)], op) \in Seq(Ops) /\ Append(sent, op) \in Seq(Ops)
        /\ RangeOf(Append(queue[WorkerKey(op)], op)) = RangeOf(queue[WorkerKey(op)]) \cup {op}
    BY <2>1, AppendElements DEF Shape, StateTypeOK
  <2>3. QueueRouted' /\ queue' \in [Keys -> Seq(Ops)]
    BY <1>2, <2>1, <2>2 DEF Send, QueueRouted, Shape, StateTypeOK
  <2>4. UNCHANGED <<world, env>>
    BY <1>2 DEF Send
  <2> QED
    BY <1>2, <2>2, <2>3, <2>4, EnvShape, WorldShape DEF Send, Shape, StateTypeOK, WorkerShape
<1> QED
  BY <1>1, <1>2

LEMMA TakeShape == ASSUME Shape, NEW k \in Keys, Take(k) PROVE Shape'
<1> DEFINE op == Head(queue[k])
           w == [Idle EXCEPT !.pc = "deps", !.op = op, !.todo = op.deps]
<1>1. /\ op \in Ops /\ Tail(queue[k]) \in Seq(Ops) /\ op \in RangeOf(queue[k])
      /\ RangeOf(Tail(queue[k])) \subseteq RangeOf(queue[k])
  BY TailElements DEF Take, Shape, StateTypeOK
<1>2. w \in WorkerType /\ w.pc = "deps" /\ w.op = op /\ w.pushing = <<>>
  BY <1>1, FreshTyped DEF Idle
<1>3. worker' = [worker EXCEPT ![k] = w] /\ queue' = [queue EXCEPT ![k] = Tail(@)]
  BY DEF Take
<1>4. WorkerKey(op) = k
  BY <1>1 DEF Shape, QueueRouted
<1> HIDE DEF w
<1>5. worker' \in [Keys -> WorkerType] /\ WorkerShape'
  BY <1>1, <1>2, <1>3, <1>4, MoveShape DEF LocalShape
<1>6. QueueRouted' /\ queue' \in [Keys -> Seq(Ops)]
  BY <1>1, <1>3 DEF QueueRouted, Shape, StateTypeOK
<1>7. UNCHANGED <<submitted, calling, sent, waiters, finished, wg, world, env>>
  BY DEF Take
<1> QED
  BY <1>5, <1>6, <1>7, EnvShape, WorldShape DEF Shape, StateTypeOK

LEMMA DependencyShape ==
  ASSUME Shape, NEW k \in Keys, CheckDependency(k) \/ MissDependency(k) \/ Defer(k)
  PROVE  Shape'
<1>0. /\ worker[k].pc # "idle" /\ worker[k] \in WorkerType /\ LocalShape(k, worker[k])
      /\ worker[k].op \in Ops
  BY Busy DEF CheckDependency, MissDependency, Defer, At, Shape, WorkerShape
<1>1. CASE CheckDependency(k)
  <2>1. PICK d \in worker[k].todo :
          worker' = [worker EXCEPT ![k] = [worker[k] EXCEPT !.todo = worker[k].todo \ {d}]]
    BY <1>1 DEF CheckDependency
  <2> DEFINE w == [worker[k] EXCEPT !.todo = worker[k].todo \ {d}]
  <2>2. worker[k].todo \ {d} \in SUBSET Entities
    BY <1>0 DEF WorkerType
  <2>3. w \in WorkerType
    BY <1>0, <2>2, UpdateTyped DEF Labels
  <2>4. LocalShape(k, w)
    BY <1>0, <1>1 DEF LocalShape, CheckDependency, At, WorkerType
  <2>5. UNCHANGED <<sched, world, env>>
    BY <1>1 DEF CheckDependency
  <2> HIDE DEF w
  <2>6. worker' \in [Keys -> WorkerType] /\ WorkerShape'
    BY <2>1, <2>3, <2>4, MoveShape DEF w
  <2> QED
    BY <2>5, <2>6, SchedShape, EnvShape, WorldShape DEF Shape, StateTypeOK
<1>2. CASE MissDependency(k)
  <2>1. PICK d \in worker[k].todo :
          worker' = [worker EXCEPT ![k] = [worker[k] EXCEPT !.pc = "defer", !.missing = d]]
    BY <1>2 DEF MissDependency, Shape, StateTypeOK
  <2> DEFINE w == [worker[k] EXCEPT !.pc = "defer", !.missing = d]
  <2>2. d \in Entities
    BY <1>0, <2>1 DEF WorkerType
  <2>3. w \in WorkerType
    BY <1>0, <2>2, UpdateTyped DEF Labels
  <2>4. LocalShape(k, w)
    BY <1>0, <1>2, <2>2 DEF LocalShape, MissDependency, At, WorkerType
  <2>5. UNCHANGED <<sched, world>> /\ (UNCHANGED env \/ Fault)
    BY <1>2 DEF MissDependency
  <2> HIDE DEF w
  <2>6. worker' \in [Keys -> WorkerType] /\ WorkerShape'
    BY <2>1, <2>3, <2>4, MoveShape DEF w
  <2> QED
    BY <2>5, <2>6, SchedShape, EnvShape, WorldShape DEF Shape, StateTypeOK
<1>3. CASE Defer(k)
  <2>1. worker[k].missing \in Entities
    BY <1>0, <1>3 DEF Defer, LocalShape, At
  <2>2. Append(waiters[worker[k].missing], worker[k].op) \in Seq(Ops)
    BY <1>0, <2>1, AppendElements DEF Shape, StateTypeOK
  <2>3. waiters' \in [Entities -> Seq(Ops)]
    BY <1>3, <2>1, <2>2 DEF Defer, Shape, StateTypeOK
  <2>4. worker' \in [Keys -> WorkerType] /\ WorkerShape'
    BY <1>3, IdleTyped, MoveShape DEF Defer, LocalShape
  <2>5. UNCHANGED <<submitted, calling, sent, queue, finished, wg, world, env>>
    BY <1>3 DEF Defer
  <2> QED
    BY <2>3, <2>4, <2>5, EnvShape, WorldShape DEF Shape, StateTypeOK, QueueRouted
<1> QED
  BY <1>1, <1>2, <1>3

(* A remote call leaves well-formed objects on Stoat.                       *)
LEMMA EffectTyped ==
  ASSUME Shape, NEW k \in Keys, worker[k].pc # "idle",
         Effect(worker[k].op, worker[k].call)
  PROVE  stoat' \subseteq StoatType /\ nextId' \in Nat \ {0}
<1> DEFINE op == worker[k].op
           call == worker[k].call
<1>1. /\ op.entity \in Entities /\ op.state \in States /\ call \in CallType
      /\ stoat \subseteq StoatType /\ nextId \in Nat \ {0}
  BY Busy DEF Shape, StateTypeOK, OpType, WorkerType
<1> HIDE DEF op, call
<1>2. CASE call.verb = "create"
  BY <1>1, <1>2 DEF Effect, StoatType, CallType, op, call
<1>3. CASE call.verb = "edit"
  BY <1>1, <1>3 DEF Effect, StoatType, CallType, op, call
<1>4. CASE call.verb \notin {"create", "edit"}
  BY <1>1, <1>4 DEF Effect, op, call
<1> QED
  BY <1>2, <1>3, <1>4

LEMMA EndShape ==
  ASSUME Shape, NEW k \in Keys,
         Enqueue(k) \/ LogDryRun(k) \/ SkipEqual(k) \/ WritePendingRefused(k)
           \/ StoreFails(k) \/ RemoteError(k) \/ RemoteLost(k) \/ Remove(k) \/ Notified(k)
  PROVE  Shape'
<1>1. worker[k].pc # "idle" /\ Return(k)
  BY DEF Enqueue, LogDryRun, SkipEqual, WritePendingRefused, StoreFails, RemoteError,
         RemoteLost, Remove, Notified, Ready, At
<1>2. /\ submitted' \subseteq Ops /\ calling' \subseteq Ops /\ finished' \subseteq Ops
      /\ sent' \in Seq(Ops) /\ queue' \in [Keys -> Seq(Ops)]
      /\ waiters' \in [Entities -> Seq(Ops)] /\ worker' \in [Keys -> WorkerType]
      /\ wg' \in Int /\ WorkerShape' /\ QueueRouted'
  BY <1>1, ReturnShape
<1>3. /\ discordReady' \in BOOLEAN /\ stoatReady' \in BOOLEAN
      /\ opQueue' \subseteq Ops /\ faults' \in Nat /\ outages' \in Nat
  BY <1>1, Busy DEF Shape, StateTypeOK, Enqueue, LogDryRun, SkipEqual,
     WritePendingRefused, StoreFails, RemoteError, RemoteLost, Remove, Notified, Fault, env
<1>4. rows' \in [Entities -> RowType] /\ landed' \subseteq Entities
  <2>1. Absent \in RowType
    BY DEF Absent, RowType, NoId
  <2>2. CASE Remove(k)
    BY <1>1, <2>1, <2>2, Busy DEF Remove, Shape, StateTypeOK
  <2>3. CASE ~Remove(k)
    BY <2>3 DEF Shape, StateTypeOK, Enqueue, LogDryRun, SkipEqual,
       WritePendingRefused, StoreFails, RemoteError, RemoteLost, Notified, world
  <2> QED
    BY <2>2, <2>3
<1>5. stoat' \subseteq StoatType /\ nextId' \in Nat \ {0}
  <2>1. CASE RemoteLost(k)
    BY <2>1, <1>1, EffectTyped DEF RemoteLost
  <2>2. CASE ~RemoteLost(k)
    BY <2>2 DEF Shape, StateTypeOK, Enqueue, LogDryRun, SkipEqual,
       WritePendingRefused, StoreFails, RemoteError, Remove, Notified, world
  <2> QED
    BY <2>1, <2>2
<1> QED
  BY <1>2, <1>3, <1>4, <1>5 DEF Shape, StateTypeOK

(* A worker inside process moves from one label to the next.                *)
LEMMA GotoShape ==
  ASSUME Shape, NEW k \in Keys, worker[k].pc \notin {"idle", "push"}, worker[k].todo = {},
         NEW w \in WorkerType, worker' = [worker EXCEPT ![k] = w],
         w.op = worker[k].op, w.todo = {}, w.pushing = worker[k].pushing,
         w.pc \notin {"idle", "defer", "push"}
  PROVE  worker' \in [Keys -> WorkerType] /\ WorkerShape'
<1>1. LocalShape(k, worker[k])
  BY DEF Shape, WorkerShape
<1>2. LocalShape(k, w)
  BY <1>1 DEF LocalShape
<1> QED
  BY <1>2, MoveShape

LEMMA ProcessShape ==
  ASSUME Shape, NEW k \in Keys,
         Begin(k) \/ Differs(k) \/ WritePending(k) \/ Apply(k) \/ RemoteOk(k)
           \/ RemoteLimited(k) \/ Confirm(k)
  PROVE  Shape'
<1>1. /\ worker[k].pc \notin {"idle", "push"} /\ worker[k].todo = {} /\ worker[k] \in WorkerType
      /\ worker[k].op \in OpType /\ worker[k].op.entity \in Entities
      /\ worker \in [Keys -> WorkerType] /\ worker[k].call \in CallType
      /\ nextId \in Nat /\ rows \in [Entities -> RowType] /\ landed \subseteq Entities
  <2>1. worker[k].pc \notin {"idle", "push"}
    BY DEF Begin, Differs, WritePending, Apply, RemoteOk, RemoteLimited, Confirm, Ready, At
  <2>2. LocalShape(k, worker[k])
    BY DEF Shape, WorkerShape
  <2>3. worker[k].todo = {}
    BY <2>1, <2>2 DEF LocalShape, Begin, Differs, WritePending, Apply, RemoteOk, RemoteLimited,
       Confirm, Ready, At
  <2> QED
    BY <2>1, <2>3, Busy DEF Shape, StateTypeOK, WorkerType
<1>2. ASSUME NEW label \in Labels \ {"idle", "defer", "push"}, Goto(k, label)
      PROVE  worker' \in [Keys -> WorkerType] /\ WorkerShape'
  <2> DEFINE w == [worker[k] EXCEPT !.pc = label]
  <2>1. w \in WorkerType /\ worker' = [worker EXCEPT ![k] = w]
    BY <1>1, <1>2, UpdateTyped DEF Goto
  <2>2. /\ w.op = worker[k].op /\ w.todo = {} /\ w.pushing = worker[k].pushing
        /\ w.pc \notin {"idle", "defer", "push"}
    BY <1>1, <1>2 DEF WorkerType
  <2> HIDE DEF w
  <2> QED
    BY <1>1, <2>1, <2>2, GotoShape
<1>3. CASE Begin(k)
  <2>1. \E label \in Labels \ {"idle", "defer", "push"} : Goto(k, label)
    BY <1>3 DEF Begin, Labels
  <2> QED
    BY <1>2, <1>3, <2>1, SchedShape, EnvShape, WorldShape DEF Begin, Shape, StateTypeOK
<1>4. CASE Differs(k)
  <2>1. "pending" \in Labels \ {"idle", "defer", "push"} /\ Goto(k, "pending")
    BY <1>4 DEF Differs, Labels
  <2> QED
    BY <1>2, <1>4, <2>1, SchedShape, EnvShape, WorldShape DEF Differs, Shape, StateTypeOK
<1>5. CASE WritePending(k)
  <2> DEFINE op == worker[k].op
             row == PendingRow(op.entity, rows[op.entity], op.state, op.channel)
  <2>1. "apply" \in Labels \ {"idle", "defer", "push"} /\ Goto(k, "apply")
    BY <1>5 DEF WritePending, Labels
  <2>2. /\ rows[op.entity] \in RowType /\ op.state \in States
        /\ op.channel \in Channels \cup {Null}
    BY <1>1 DEF OpType
  <2>3. row \in RowType
    BY <2>2 DEF PendingRow, PendingMessageRow, PendingStructureRow, RowType, NoId
  <2>4. rows' = [rows EXCEPT ![op.entity] = row]
    BY <1>5 DEF WritePending
  <2> HIDE DEF row
  <2>5. rows' \in [Entities -> RowType]
    BY <1>1, <2>3, <2>4
  <2>6. UNCHANGED <<sched, landed, stoat, nextId, env>>
    BY <1>5 DEF WritePending
  <2> QED
    BY <1>2, <2>1, <2>5, <2>6, SchedShape, EnvShape DEF Shape, StateTypeOK
<1>6. CASE Apply(k)
  <2>1. UNCHANGED <<sched, world, env>>
    BY <1>6 DEF Apply
  <2>2. worker' \in [Keys -> WorkerType] /\ WorkerShape'
    <3> DEFINE op == worker[k].op
               verb == IF op.kind = "delete" THEN "delete" ELSE ApplyVerb(rows[op.entity])
               call == [verb |-> verb, id |-> rows[op.entity].id, chan |-> StoatChannel(op)]
    <3>1. CASE Goto(k, "remove")
      BY <1>2, <3>1 DEF Labels
    <3>2. CASE worker' = [worker EXCEPT ![k] = [worker[k] EXCEPT !.pc = "remote", !.call = call]]
      <4>1. StoatChannel(op) \in Nat /\ rows[op.entity].id \in Nat
        BY <1>1 DEF StoatChannel, RowType, OpType, NoId, Entities
      <4>2. call \in CallType
        BY <4>1 DEF CallType, ApplyVerb
      <4> HIDE DEF call
      <4> DEFINE w == [worker[k] EXCEPT !.pc = "remote", !.call = call]
      <4>3. w \in WorkerType
        BY <1>1, <4>2, UpdateTyped DEF Labels
      <4>4. /\ w.op = worker[k].op /\ w.todo = {} /\ w.pushing = worker[k].pushing
            /\ w.pc \notin {"idle", "defer", "push"}
        BY <1>1 DEF WorkerType
      <4> HIDE DEF w
      <4> QED
        BY <1>1, <3>2, <4>3, <4>4, GotoShape DEF w
    <3> QED
      BY <1>1, <1>6, <3>1, <3>2 DEF Apply
  <2> QED
    BY <2>1, <2>2, SchedShape, EnvShape, WorldShape DEF Shape, StateTypeOK
<1>7. CASE RemoteOk(k)
  <2> DEFINE op == worker[k].op
             id == IF worker[k].call.verb = "create" THEN nextId ELSE worker[k].call.id
             label == IF op.kind = "delete" THEN "remove" ELSE "confirm"
             w == [worker[k] EXCEPT !.pc = label, !.call.id = id]
  <2>1. UNCHANGED <<sched, rows, landed, env>> /\ Effect(op, worker[k].call)
    BY <1>7 DEF RemoteOk
  <2>2. id \in Nat /\ label \in Labels
    BY <1>1 DEF CallType, Labels
  <2>3. w \in WorkerType
    BY <1>1, <2>2, UpdateTyped
  <2>4. /\ w.op = worker[k].op /\ w.todo = {} /\ w.pushing = worker[k].pushing
        /\ w.pc \notin {"idle", "defer", "push"}
    BY <1>1 DEF WorkerType
  <2>5. worker' = [worker EXCEPT ![k] = w]
    BY <1>1, <1>7 DEF RemoteOk
  <2> HIDE DEF w
  <2>6. worker' \in [Keys -> WorkerType] /\ WorkerShape'
    BY <1>1, <2>3, <2>4, <2>5, GotoShape
  <2>7. stoat' \subseteq StoatType /\ nextId' \in Nat \ {0}
    BY <1>1, <2>1, EffectTyped
  <2> QED
    BY <2>1, <2>6, <2>7, SchedShape, EnvShape DEF Shape, StateTypeOK
<1>8. CASE RemoteLimited(k)
  <2>1. Fault /\ UNCHANGED world
    BY <1>8 DEF RemoteLimited
  <2>2. CASE Return(k)
    BY <1>1, <2>1, <2>2, ReturnShape, EnvShape, WorldShape DEF Shape, StateTypeOK
  <2>3. CASE ~Return(k)
    <3> DEFINE w == [worker[k] EXCEPT !.pc = "apply", !.tries = worker[k].tries + 1, !.call = NoCall]
    <3>1. NoCall \in CallType /\ worker[k].tries + 1 \in Nat
      BY <1>1 DEF NoCall, CallType, NoId, WorkerType
    <3>2. w \in WorkerType
      BY <1>1, <3>1, UpdateTyped DEF Labels
    <3>3. /\ w.op = worker[k].op /\ w.todo = {} /\ w.pushing = worker[k].pushing
          /\ w.pc \notin {"idle", "defer", "push"}
      BY <1>1 DEF WorkerType
    <3>4. worker' = [worker EXCEPT ![k] = w] /\ UNCHANGED sched
      BY <1>1, <1>8, <2>3 DEF RemoteLimited
    <3> HIDE DEF w
    <3>5. worker' \in [Keys -> WorkerType] /\ WorkerShape'
      BY <1>1, <3>2, <3>3, <3>4, GotoShape
    <3> QED
      BY <2>1, <3>4, <3>5, SchedShape, EnvShape, WorldShape DEF Shape, StateTypeOK
  <2> QED
    BY <2>2, <2>3
<1>9. CASE Confirm(k)
  <2> DEFINE e == worker[k].op.entity
             row == ConfirmedRow(rows[e], worker[k].call.id)
  <2>1. "notify" \in Labels \ {"idle", "defer", "push"} /\ Goto(k, "notify")
    BY <1>9 DEF Confirm, Labels
  <2>2. row \in RowType
    <3>1. rows[e] \in RowType /\ worker[k].call.id \in Nat
      BY <1>1 DEF CallType
    <3>2. \A r \in RowType, n \in Nat : [r EXCEPT !.status = "active", !.id = n] \in RowType
      BY DEF RowType
    <3> QED
      BY <3>1, <3>2 DEF ConfirmedRow
  <2>3. rows' = [rows EXCEPT ![e] = row] /\ landed' = landed \cup {e}
    BY <1>9 DEF Confirm
  <2> HIDE DEF row
  <2>4. rows' \in [Entities -> RowType] /\ landed' \subseteq Entities
    BY <1>1, <2>2, <2>3
  <2>5. UNCHANGED <<sched, stoat, nextId, env>>
    BY <1>9 DEF Confirm
  <2> QED
    BY <1>2, <2>1, <2>4, <2>5, SchedShape, EnvShape DEF Shape, StateTypeOK
<1> QED
  BY <1>3, <1>4, <1>5, <1>6, <1>7, <1>8, <1>9

LEMMA NotifyShape ==
  ASSUME Shape, NEW k \in Keys, TakeWaiters(k) \/ PushWaiter(k)
  PROVE  Shape'
<1>1. /\ worker[k] \in WorkerType /\ worker[k].op \in Ops /\ worker[k].op.entity \in Entities
      /\ worker[k].pushing \in Seq(Ops) /\ worker[k].pc # "idle"
      /\ LocalShape(k, worker[k]) /\ waiters \in [Entities -> Seq(Ops)]
      /\ worker \in [Keys -> WorkerType] /\ queue \in [Keys -> Seq(Ops)]
  BY Busy DEF TakeWaiters, PushWaiter, At, Shape, StateTypeOK, WorkerType, WorkerShape
<1>2. ASSUME NEW s \in Seq(Ops),
             worker' = [worker EXCEPT ![k] = [worker[k] EXCEPT !.pc = "push", !.pushing = s]],
             worker[k].pc \in {"notify", "push"}
      PROVE  worker' \in [Keys -> WorkerType] /\ WorkerShape'
  <2> DEFINE w == [worker[k] EXCEPT !.pc = "push", !.pushing = s]
  <2>1. w \in WorkerType
    BY <1>1, UpdateTyped DEF Labels
  <2>2. LocalShape(k, w)
    BY <1>1, <1>2 DEF LocalShape, WorkerType
  <2> HIDE DEF w
  <2> QED
    BY <1>2, <2>1, <2>2, MoveShape DEF w
<1>3. CASE TakeWaiters(k)
  <2> DEFINE s == waiters[worker[k].op.entity]
  <2>1. /\ worker' = [worker EXCEPT ![k] = [worker[k] EXCEPT !.pc = "push", !.pushing = s]]
        /\ worker[k].pc \in {"notify", "push"} /\ s \in Seq(Ops)
    BY <1>1, <1>3 DEF TakeWaiters, At
  <2>2. waiters' \in [Entities -> Seq(Ops)]
    BY <1>1, <1>3 DEF TakeWaiters
  <2>3. UNCHANGED <<submitted, calling, sent, queue, finished, wg, world, env>>
    BY <1>3 DEF TakeWaiters
  <2>4. worker' \in [Keys -> WorkerType] /\ WorkerShape'
    BY <1>2, <2>1
  <2> QED
    BY <2>2, <2>3, <2>4, EnvShape, WorldShape DEF Shape, StateTypeOK, QueueRouted
<1>4. CASE PushWaiter(k)
  <2> DEFINE op == Head(worker[k].pushing)
             s == Tail(worker[k].pushing)
             to == WorkerKey(op)
  <2>1. op \in Ops /\ s \in Seq(Ops) /\ to \in Keys
    BY <1>1, <1>4, TailElements, KeysOfOps DEF PushWaiter
  <2>2. /\ Append(queue[to], op) \in Seq(Ops)
        /\ RangeOf(Append(queue[to], op)) = RangeOf(queue[to]) \cup {op}
    BY <1>1, <2>1, AppendElements
  <2>3. queue' = [queue EXCEPT ![to] = Append(queue[to], op)]
    BY <1>4 DEF PushWaiter
  <2>4. [worker[k] EXCEPT !.pushing = s] = [worker[k] EXCEPT !.pc = "push", !.pushing = s]
    BY <1>1, <1>4 DEF PushWaiter, At, WorkerType
  <2>5. worker' = [worker EXCEPT ![k] = [worker[k] EXCEPT !.pushing = s]]
        /\ worker[k].pc \in {"notify", "push"}
    BY <1>4 DEF PushWaiter, At
  <2>6. worker' \in [Keys -> WorkerType] /\ WorkerShape'
    BY <1>2, <2>1, <2>4, <2>5
  <2>7. UNCHANGED <<submitted, calling, sent, waiters, finished, wg, world, env>>
    BY <1>4 DEF PushWaiter
  <2> HIDE DEF op, s, to
  <2>8. queue' \in [Keys -> Seq(Ops)]
    BY <1>1, <2>1, <2>2, <2>3
  <2>9. QueueRouted'
    BY <1>1, <2>1, <2>2, <2>3 DEF Shape, QueueRouted, to
  <2> QED
    BY <2>6, <2>7, <2>8, <2>9, EnvShape, WorldShape DEF Shape, StateTypeOK
<1> QED
  BY <1>3, <1>4

LEMMA GatewaysShape == ASSUME Shape, Gateways PROVE Shape'
<1>1. UNCHANGED <<sched, worker, world, opQueue, faults>>
  BY DEF Gateways, StoatReady, DiscordLost, DiscordBack
<1>2. discordReady' \in BOOLEAN /\ stoatReady' \in BOOLEAN
  BY Zenon DEF Gateways, StoatReady, DiscordLost, DiscordBack, Shape, StateTypeOK
<1>3. outages' \in Nat
  BY DEF Gateways, StoatReady, DiscordLost, DiscordBack, Shape, StateTypeOK
<1> QED
  BY <1>1, <1>2, <1>3, SchedShape, WorldShape DEF Shape, StateTypeOK, WorkerShape

LEMMA StutterShape == ASSUME Shape, UNCHANGED vars PROVE Shape'
<1>1. UNCHANGED <<sched, worker, world, env>>
  BY DEF vars
<1> QED
  BY <1>1, SchedShape, WorldShape, EnvShape DEF Shape, StateTypeOK, WorkerShape

LEMMA NextShape == ASSUME Shape, [Next]_vars PROVE Shape'
<1>1. CASE \E op \in Ops : Submit(op) \/ Send(op)
  BY <1>1, SubmitShape
<1>2. ASSUME NEW k \in Keys, Step(k) PROVE Shape'
  BY <1>2, TakeShape, DependencyShape, ProcessShape, NotifyShape, EndShape DEF Step, Process
<1>3. CASE Gateways
  BY <1>3, GatewaysShape
<1>4. CASE Rest \/ UNCHANGED vars
  BY <1>4, StutterShape DEF Rest
<1> QED
  BY <1>1, <1>2, <1>3, <1>4 DEF Next

(* Whatever Discord, the gateways, Stoat and the scheduler do, every        *)
(* variable of the engine keeps its kind, and the ops in a worker's hands   *)
(* and in its channel are ops of its key.                                   *)
THEOREM ShapeAlways == Spec => []Shape
<1> QED
  BY InitShape, NextShape, PTL DEF Spec

-----------------------------------------------------------------------------
(* Conservation of ops: every step moves one op, or one waiter list, from   *)
(* its only place to another.                                               *)
InPlaces(c, q, h, u, w, f, p) ==
  \/ c /\ p = <<"calling", Null>>
  \/ \E k \in q : p = <<"queued", k>>
  \/ \E k \in h : p = <<"held", k>>
  \/ \E k \in u : p = <<"pushed", k>>
  \/ \E e \in w : p = <<"waiting", e>>
  \/ f /\ p = <<"finished", Null>>

LEMMA PlacesMeaning ==
  ASSUME NEW c \in BOOLEAN, NEW q, NEW h, NEW u, NEW w, NEW f \in BOOLEAN, NEW p
  PROVE  p \in PlaceSet(c, q, h, u, w, f) <=> InPlaces(c, q, h, u, w, f, p)
<1> DEFINE cs == IF c THEN {<<"calling", Null>>} ELSE {}
           fs == IF f THEN {<<"finished", Null>>} ELSE {}
<1>1. p \in PlaceSet(c, q, h, u, w, f) <=>
        \/ p \in cs \/ p \in {"queued"} \X q \/ p \in {"held"} \X h
        \/ p \in {"pushed"} \X u \/ p \in {"waiting"} \X w \/ p \in fs
  BY DEF PlaceSet
<1>2. \A s, S : p \in {s} \X S <=> \E k \in S : p = <<s, k>>
  OBVIOUS
<1>3. (p \in cs <=> c /\ p = <<"calling", Null>>) /\ (p \in fs <=> f /\ p = <<"finished", Null>>)
  OBVIOUS
<1> HIDE DEF cs, fs
<1> QED
  BY <1>1, <1>2, <1>3 DEF InPlaces

(* An op in one place only: what each of the six sets says of it.           *)
LEMMA Whereabouts ==
  ASSUME NEW c \in BOOLEAN, NEW q, NEW h, NEW u, NEW w, NEW f \in BOOLEAN, NEW p,
         PlaceSet(c, q, h, u, w, f) = {p}
  PROVE  /\ c <=> p = <<"calling", Null>>
         /\ \A k : k \in q <=> p = <<"queued", k>>
         /\ \A k : k \in h <=> p = <<"held", k>>
         /\ \A k : k \in u <=> p = <<"pushed", k>>
         /\ \A k : k \in w <=> p = <<"waiting", k>>
         /\ f <=> p = <<"finished", Null>>
<1>1. InPlaces(c, q, h, u, w, f, p)
  BY PlacesMeaning
<1>2. \A o : InPlaces(c, q, h, u, w, f, o) => o = p
  BY PlacesMeaning
<1>3. \A s, t, a, b : <<s, a>> = <<t, b>> => s = t /\ a = b
  OBVIOUS
<1>4. c <=> p = <<"calling", Null>>
  <2>1. c => InPlaces(c, q, h, u, w, f, <<"calling", Null>>)
    BY DEF InPlaces
  <2>2. p = <<"calling", Null>> => c
    BY <1>1, <1>3 DEF InPlaces
  <2> QED
    BY <2>1, <2>2, <1>2
<1>5. ASSUME NEW k PROVE  k \in q <=> p = <<"queued", k>>
  <2>1. k \in q => InPlaces(c, q, h, u, w, f, <<"queued", k>>)
    BY DEF InPlaces
  <2>2. p = <<"queued", k>> => k \in q
    BY <1>1, <1>3 DEF InPlaces
  <2> QED
    BY <2>1, <2>2, <1>2
<1>6. ASSUME NEW k PROVE  k \in h <=> p = <<"held", k>>
  <2>1. k \in h => InPlaces(c, q, h, u, w, f, <<"held", k>>)
    BY DEF InPlaces
  <2>2. p = <<"held", k>> => k \in h
    BY <1>1, <1>3 DEF InPlaces
  <2> QED
    BY <2>1, <2>2, <1>2
<1>7. ASSUME NEW k PROVE  k \in u <=> p = <<"pushed", k>>
  <2>1. k \in u => InPlaces(c, q, h, u, w, f, <<"pushed", k>>)
    BY DEF InPlaces
  <2>2. p = <<"pushed", k>> => k \in u
    BY <1>1, <1>3 DEF InPlaces
  <2> QED
    BY <2>1, <2>2, <1>2
<1>8. ASSUME NEW k PROVE  k \in w <=> p = <<"waiting", k>>
  <2>1. k \in w => InPlaces(c, q, h, u, w, f, <<"waiting", k>>)
    BY DEF InPlaces
  <2>2. p = <<"waiting", k>> => k \in w
    BY <1>1, <1>3 DEF InPlaces
  <2> QED
    BY <2>1, <2>2, <1>2
<1>9. f <=> p = <<"finished", Null>>
  <2>1. f => InPlaces(c, q, h, u, w, f, <<"finished", Null>>)
    BY DEF InPlaces
  <2>2. p = <<"finished", Null>> => f
    BY <1>1, <1>3 DEF InPlaces
  <2> QED
    BY <2>1, <2>2, <1>2
<1> QED
  BY <1>4, <1>5, <1>6, <1>7, <1>8, <1>9

LEMMA SinglePlaces ==
  ASSUME NEW k
  PROVE  /\ PlaceSet(FALSE, {}, {}, {}, {}, FALSE) = {}
         /\ PlaceSet(TRUE, {}, {}, {}, {}, FALSE) = {<<"calling", Null>>}
         /\ PlaceSet(FALSE, {k}, {}, {}, {}, FALSE) = {<<"queued", k>>}
         /\ PlaceSet(FALSE, {}, {k}, {}, {}, FALSE) = {<<"held", k>>}
         /\ PlaceSet(FALSE, {}, {}, {k}, {}, FALSE) = {<<"pushed", k>>}
         /\ PlaceSet(FALSE, {}, {}, {}, {k}, FALSE) = {<<"waiting", k>>}
         /\ PlaceSet(FALSE, {}, {}, {}, {}, TRUE) = {<<"finished", Null>>}
<1>1. PlaceSet(FALSE, {}, {}, {}, {}, FALSE) = {}
  <2>1. \A p : p \in PlaceSet(FALSE, {}, {}, {}, {}, FALSE)
                 <=> InPlaces(FALSE, {}, {}, {}, {}, FALSE, p)
    BY PlacesMeaning
  <2> QED
    BY <2>1 DEF InPlaces
<1>2. PlaceSet(TRUE, {}, {}, {}, {}, FALSE) = {<<"calling", Null>>}
  <2>1. \A p : p \in PlaceSet(TRUE, {}, {}, {}, {}, FALSE) <=> InPlaces(TRUE, {}, {}, {}, {}, FALSE, p)
    BY PlacesMeaning
  <2>2. \A p : InPlaces(TRUE, {}, {}, {}, {}, FALSE, p) <=> p = <<"calling", Null>>
    BY DEF InPlaces
  <2> QED
    BY <2>1, <2>2
<1>3. PlaceSet(FALSE, {k}, {}, {}, {}, FALSE) = {<<"queued", k>>}
  <2>1. \A p : p \in PlaceSet(FALSE, {k}, {}, {}, {}, FALSE) <=> InPlaces(FALSE, {k}, {}, {}, {}, FALSE, p)
    BY PlacesMeaning
  <2>2. \A p : InPlaces(FALSE, {k}, {}, {}, {}, FALSE, p) <=> p = <<"queued", k>>
    BY DEF InPlaces
  <2> QED
    BY <2>1, <2>2
<1>4. PlaceSet(FALSE, {}, {k}, {}, {}, FALSE) = {<<"held", k>>}
  <2>1. \A p : p \in PlaceSet(FALSE, {}, {k}, {}, {}, FALSE) <=> InPlaces(FALSE, {}, {k}, {}, {}, FALSE, p)
    BY PlacesMeaning
  <2>2. \A p : InPlaces(FALSE, {}, {k}, {}, {}, FALSE, p) <=> p = <<"held", k>>
    BY DEF InPlaces
  <2> QED
    BY <2>1, <2>2
<1>5. PlaceSet(FALSE, {}, {}, {k}, {}, FALSE) = {<<"pushed", k>>}
  <2>1. \A p : p \in PlaceSet(FALSE, {}, {}, {k}, {}, FALSE) <=> InPlaces(FALSE, {}, {}, {k}, {}, FALSE, p)
    BY PlacesMeaning
  <2>2. \A p : InPlaces(FALSE, {}, {}, {k}, {}, FALSE, p) <=> p = <<"pushed", k>>
    BY DEF InPlaces
  <2> QED
    BY <2>1, <2>2
<1>6. PlaceSet(FALSE, {}, {}, {}, {k}, FALSE) = {<<"waiting", k>>}
  <2>1. \A p : p \in PlaceSet(FALSE, {}, {}, {}, {k}, FALSE) <=> InPlaces(FALSE, {}, {}, {}, {k}, FALSE, p)
    BY PlacesMeaning
  <2>2. \A p : InPlaces(FALSE, {}, {}, {}, {k}, FALSE, p) <=> p = <<"waiting", k>>
    BY DEF InPlaces
  <2> QED
    BY <2>1, <2>2
<1>7. PlaceSet(FALSE, {}, {}, {}, {}, TRUE) = {<<"finished", Null>>}
  <2>1. \A p : p \in PlaceSet(FALSE, {}, {}, {}, {}, TRUE) <=> InPlaces(FALSE, {}, {}, {}, {}, TRUE, p)
    BY PlacesMeaning
  <2>2. \A p : InPlaces(FALSE, {}, {}, {}, {}, TRUE, p) <=> p = <<"finished", Null>>
    BY DEF InPlaces
  <2> QED
    BY <2>1, <2>2
<1> QED
  BY <1>1, <1>2, <1>3, <1>4, <1>5, <1>6, <1>7

LEMMA NoPlace ==
  ASSUME NEW c \in BOOLEAN, NEW q, NEW h, NEW u, NEW w, NEW f \in BOOLEAN,
         PlaceSet(c, q, h, u, w, f) = {}
  PROVE  ~c /\ q = {} /\ h = {} /\ u = {} /\ w = {} /\ ~f
<1>1. \A p : ~InPlaces(c, q, h, u, w, f, p)
  BY PlacesMeaning
<1> QED
  BY <1>1 DEF InPlaces

LEMMA TailDistinct ==
  ASSUME NEW S, NEW s \in Seq(S), s # <<>>, NoDuplicates(s)
  PROVE  NoDuplicates(Tail(s)) /\ RangeOf(Tail(s)) = RangeOf(s) \ {Head(s)}
<1>1. /\ Head(s) = s[1] /\ Len(s) \in Nat \ {0} /\ Tail(s) \in Seq(S)
      /\ Len(Tail(s)) = Len(s) - 1
      /\ \A i \in 1 .. Len(s) - 1 : Tail(s)[i] = s[i + 1]
  OBVIOUS
<1>2. DOMAIN s = 1 .. Len(s) /\ DOMAIN Tail(s) = 1 .. Len(s) - 1
  BY <1>1
<1>3. NoDuplicates(Tail(s))
  <2> SUFFICES ASSUME NEW i \in 1 .. Len(s) - 1, NEW j \in 1 .. Len(s) - 1,
                      Tail(s)[i] = Tail(s)[j]
               PROVE  i = j
    BY <1>2 DEF NoDuplicates
  <2>1. i + 1 \in 1 .. Len(s) /\ j + 1 \in 1 .. Len(s) /\ s[i + 1] = s[j + 1]
    BY <1>1
  <2>2. i + 1 = j + 1
    BY <1>2, <2>1 DEF NoDuplicates
  <2> QED
    BY <1>1, <2>2
<1>4. Head(s) \notin RangeOf(Tail(s))
  <2> SUFFICES ASSUME NEW i \in 1 .. Len(s) - 1, Tail(s)[i] = s[1] PROVE FALSE
    BY <1>1, <1>2 DEF RangeOf
  <2>1. i + 1 \in 1 .. Len(s) /\ 1 \in 1 .. Len(s) /\ s[i + 1] = s[1]
    BY <1>1
  <2> QED
    BY <1>1, <1>2, <2>1 DEF NoDuplicates
<1> QED
  BY <1>3, <1>4, TailElements

(* What a single place says of an op: it is in no other.                    *)
Spot(x, c, q, h, u, w, f) ==
  /\ x \in submitted
  /\ (x \in calling <=> c) /\ QueuedAt(x) = q /\ HeldBy(x) = h
  /\ PushedBy(x) = u /\ WaitsFor(x) = w /\ (x \in finished <=> f)

LEMMA Alone ==
  ASSUME NoOpLostOrDuplicated, NEW x \in Ops
  PROVE  /\ x \in calling => Spot(x, TRUE, {}, {}, {}, {}, FALSE)
         /\ \A k \in QueuedAt(x) : Spot(x, FALSE, {k}, {}, {}, {}, FALSE)
         /\ \A k \in HeldBy(x) : Spot(x, FALSE, {}, {k}, {}, {}, FALSE)
         /\ \A k \in PushedBy(x) : Spot(x, FALSE, {}, {}, {k}, {}, FALSE)
         /\ \A e \in WaitsFor(x) : Spot(x, FALSE, {}, {}, {}, {e}, FALSE)
         /\ x \in finished => Spot(x, FALSE, {}, {}, {}, {}, TRUE)
<1>1. CASE x \notin submitted
  <2>1. Places(x) = {}
    BY <1>1 DEF NoOpLostOrDuplicated
  <2>2. /\ x \notin calling /\ x \notin finished
        /\ QueuedAt(x) = {} /\ HeldBy(x) = {} /\ PushedBy(x) = {} /\ WaitsFor(x) = {}
    <3> DEFINE c == x \in calling
               q == QueuedAt(x)
               h == HeldBy(x)
               u == PushedBy(x)
               w == WaitsFor(x)
               f == x \in finished
    <3>1. PlaceSet(c, q, h, u, w, f) = {}
      BY <2>1 DEF Places
    <3>2. c \in BOOLEAN /\ f \in BOOLEAN
      OBVIOUS
    <3> HIDE DEF c, q, h, u, w, f
    <3>3. ~c /\ q = {} /\ h = {} /\ u = {} /\ w = {} /\ ~f
      BY <3>1, <3>2, NoPlace
    <3> QED
      BY <3>3 DEF c, q, h, u, w, f
  <2> QED
    BY <2>2
<1>2. CASE x \in submitted
  <2>1. PICK p : Places(x) = {p}
    BY <1>2 DEF NoOpLostOrDuplicated
  <2>2. /\ x \in calling <=> p = <<"calling", Null>>
        /\ \A k : k \in QueuedAt(x) <=> p = <<"queued", k>>
        /\ \A k : k \in HeldBy(x) <=> p = <<"held", k>>
        /\ \A k : k \in PushedBy(x) <=> p = <<"pushed", k>>
        /\ \A k : k \in WaitsFor(x) <=> p = <<"waiting", k>>
        /\ x \in finished <=> p = <<"finished", Null>>
    <3> DEFINE c == x \in calling
               q == QueuedAt(x)
               h == HeldBy(x)
               u == PushedBy(x)
               w == WaitsFor(x)
               f == x \in finished
    <3>1. PlaceSet(c, q, h, u, w, f) = {p}
      BY <2>1 DEF Places
    <3>2. c \in BOOLEAN /\ f \in BOOLEAN
      OBVIOUS
    <3> HIDE DEF c, q, h, u, w, f
    <3>3. /\ c <=> p = <<"calling", Null>>
          /\ \A k : k \in q <=> p = <<"queued", k>>
          /\ \A k : k \in h <=> p = <<"held", k>>
          /\ \A k : k \in u <=> p = <<"pushed", k>>
          /\ \A k : k \in w <=> p = <<"waiting", k>>
          /\ f <=> p = <<"finished", Null>>
      BY <3>1, <3>2, Whereabouts
    <3> QED
      BY <3>3 DEF c, q, h, u, w, f
  <2>3. x \in calling => Spot(x, TRUE, {}, {}, {}, {}, FALSE)
    BY <1>2, <2>2 DEF Spot
  <2>4. ASSUME NEW k \in QueuedAt(x) PROVE Spot(x, FALSE, {k}, {}, {}, {}, FALSE)
    BY <1>2, <2>2, <2>4 DEF Spot
  <2>5. ASSUME NEW k \in HeldBy(x) PROVE Spot(x, FALSE, {}, {k}, {}, {}, FALSE)
    BY <1>2, <2>2, <2>5 DEF Spot
  <2>6. ASSUME NEW k \in PushedBy(x) PROVE Spot(x, FALSE, {}, {}, {k}, {}, FALSE)
    BY <1>2, <2>2, <2>6 DEF Spot
  <2>7. ASSUME NEW e \in WaitsFor(x) PROVE Spot(x, FALSE, {}, {}, {}, {e}, FALSE)
    BY <1>2, <2>2, <2>7 DEF Spot
  <2>8. x \in finished => Spot(x, FALSE, {}, {}, {}, {}, TRUE)
    BY <1>2, <2>2 DEF Spot
  <2> QED
    BY <2>3, <2>4, <2>5, <2>6, <2>7, <2>8
<1> QED
  BY <1>1, <1>2

(* One op moves and the rest stay where they are.                           *)
Placed ==
  /\ \A op \in submitted : \E place \in Places(op) : Places(op) = {place}
  /\ \A op \in Ops \ submitted : Places(op) = {}

LEMMA OneMoves ==
  ASSUME NoOpLostOrDuplicated, submitted \subseteq Ops,
         NEW m \in Ops, NEW p, Places(m)' = {p},
         \A x \in Ops \ {m} : Places(x)' = Places(x),
         submitted' = submitted \cup {m}
  PROVE  Placed'
BY DEF NoOpLostOrDuplicated, Placed

LEMMA NoneMoves ==
  ASSUME NoOpLostOrDuplicated, submitted \subseteq Ops,
         \A x \in Ops : Places(x)' = Places(x), UNCHANGED submitted
  PROVE  Placed'
BY DEF NoOpLostOrDuplicated, Placed

LEMMA AppendDistinct ==
  ASSUME NEW S, NEW s \in Seq(S), NEW x \in S, NoDuplicates(s), x \notin RangeOf(s)
  PROVE  NoDuplicates(Append(s, x))
<1>1. /\ Len(s) \in Nat /\ Append(s, x)[Len(s) + 1] = x
      /\ \A i \in 1 .. Len(s) : Append(s, x)[i] = s[i]
  OBVIOUS
<1>2. DOMAIN s = 1 .. Len(s) /\ DOMAIN Append(s, x) = 1 .. Len(s) + 1
  BY <1>1
<1>3. \A i \in 1 .. Len(s) : s[i] # x
  BY <1>2 DEF RangeOf
<1> QED
  BY <1>1, <1>2, <1>3 DEF NoDuplicates

(* How the places of ops follow a change of one channel or of one worker.   *)
LEMMA QueueGrows ==
  ASSUME Shape, NEW k \in Keys, NEW m \in Ops, queue' = [queue EXCEPT ![k] = Append(@, m)]
  PROVE  /\ QueuedAt(m)' = QueuedAt(m) \cup {k}
         /\ \A x : x # m => QueuedAt(x)' = QueuedAt(x)
<1>1. RangeOf(Append(queue[k], m)) = RangeOf(queue[k]) \cup {m}
  BY AppendElements DEF Shape, StateTypeOK
<1>2. \A j \in Keys : queue'[j] = IF j = k THEN Append(queue[k], m) ELSE queue[j]
  BY DEF Shape, StateTypeOK
<1> QED
  BY <1>1, <1>2 DEF QueuedAt

LEMMA QueueShrinks ==
  ASSUME Shape, NEW k \in Keys, queue[k] # <<>>, NoDuplicates(queue[k]),
         NEW m \in Ops, m = Head(queue[k]),
         queue' = [queue EXCEPT ![k] = Tail(@)]
  PROVE  /\ QueuedAt(m)' = QueuedAt(m) \ {k}
         /\ \A x : x # m => QueuedAt(x)' = QueuedAt(x)
<1>1. RangeOf(Tail(queue[k])) = RangeOf(queue[k]) \ {m} /\ m \in RangeOf(queue[k])
  BY TailDistinct, TailElements DEF Shape, StateTypeOK
<1>2. \A j \in Keys : queue'[j] = IF j = k THEN Tail(queue[k]) ELSE queue[j]
  BY DEF Shape, StateTypeOK
<1>3. QueuedAt(m)' = QueuedAt(m) \ {k}
  BY <1>1, <1>2 DEF QueuedAt
<1>4. ASSUME NEW x, x # m PROVE QueuedAt(x)' = QueuedAt(x)
  BY <1>1, <1>2, <1>4 DEF QueuedAt
<1> QED
  BY <1>3, <1>4

LEMMA WorkerMoves ==
  ASSUME Shape, NEW k \in Keys, NEW w, worker' = [worker EXCEPT ![k] = w], NEW x
  PROVE  /\ HeldBy(x)' = IF w.op = x THEN HeldBy(x) \cup {k} ELSE HeldBy(x) \ {k}
         /\ PushedBy(x)' = IF x \in RangeOf(w.pushing) THEN PushedBy(x) \cup {k}
                                                       ELSE PushedBy(x) \ {k}
<1>1. \A j \in Keys : worker'[j] = IF j = k THEN w ELSE worker[j]
  BY DEF Shape, StateTypeOK
<1> QED
  BY <1>1 DEF HeldBy, PushedBy

LEMMA EmptyRange == RangeOf(<<>>) = {}
BY DEF RangeOf

LEMMA EmptyDistinct == NoDuplicates(<<>>)
BY DEF NoDuplicates

-----------------------------------------------------------------------------
Distinct ==
  /\ \A k \in Keys : NoDuplicates(queue[k]) /\ NoDuplicates(worker[k].pushing)
  /\ \A e \in Entities : NoDuplicates(waiters[e])

LEMMA ConservedParts == NoOpLostOrDuplicated <=> Placed /\ Distinct
BY DEF NoOpLostOrDuplicated, Placed, Distinct

LEMMA SubmitConserves ==
  ASSUME Shape, NoOpLostOrDuplicated, NEW m \in Ops, Submit(m)
  PROVE  Placed' /\ Distinct'
<1>1. Places(m) = {}
  BY DEF Submit, NoOpLostOrDuplicated
<1>2. /\ m \notin calling /\ QueuedAt(m) = {} /\ HeldBy(m) = {} /\ PushedBy(m) = {}
      /\ WaitsFor(m) = {} /\ m \notin finished
  <2> DEFINE c == m \in calling
             q == QueuedAt(m)
             h == HeldBy(m)
             u == PushedBy(m)
             w == WaitsFor(m)
             f == m \in finished
  <2>1. PlaceSet(c, q, h, u, w, f) = {} /\ c \in BOOLEAN /\ f \in BOOLEAN
    BY <1>1 DEF Places
  <2> HIDE DEF c, q, h, u, w, f
  <2>2. ~c /\ q = {} /\ h = {} /\ u = {} /\ w = {} /\ ~f
    BY <2>1, NoPlace
  <2> QED
    BY <2>2 DEF c, q, h, u, w, f
<1>3. UNCHANGED <<queue, worker, waiters, finished>> /\ calling' = calling \cup {m}
      /\ submitted' = submitted \cup {m}
  BY DEF Submit
<1>4. \A x : /\ QueuedAt(x)' = QueuedAt(x) /\ HeldBy(x)' = HeldBy(x)
             /\ PushedBy(x)' = PushedBy(x) /\ WaitsFor(x)' = WaitsFor(x)
  BY <1>3 DEF QueuedAt, HeldBy, PushedBy, WaitsFor
<1>5. Places(m)' = {<<"calling", Null>>}
  <2>1. /\ (m \in calling') = TRUE /\ (m \in finished') = FALSE
        /\ QueuedAt(m)' = {} /\ HeldBy(m)' = {} /\ PushedBy(m)' = {} /\ WaitsFor(m)' = {}
    BY <1>2, <1>3, <1>4
  <2> QED
    BY <2>1, SinglePlaces DEF Places
<1>6. ASSUME NEW x \in Ops \ {m} PROVE Places(x)' = Places(x)
  BY <1>3, <1>4 DEF Places
<1>7. Distinct'
  BY <1>3 DEF NoOpLostOrDuplicated, Distinct
<1> QED
  BY <1>3, <1>5, <1>6, <1>7, OneMoves DEF Shape, StateTypeOK

LEMMA SendConserves ==
  ASSUME Shape, NoOpLostOrDuplicated, NEW m \in Ops, Send(m)
  PROVE  Placed' /\ Distinct'
<1>1. PICK k \in Keys : k = WorkerKey(m)
  BY KeysOfOps
<1>2. Spot(m, TRUE, {}, {}, {}, {}, FALSE)
  BY Alone DEF Send
<1>3. /\ UNCHANGED <<submitted, waiters, finished, worker>> /\ calling' = calling \ {m}
      /\ queue' = [queue EXCEPT ![k] = Append(@, m)]
  BY <1>1 DEF Send
<1>4. \A x : HeldBy(x)' = HeldBy(x) /\ PushedBy(x)' = PushedBy(x) /\ WaitsFor(x)' = WaitsFor(x)
  BY <1>3 DEF HeldBy, PushedBy, WaitsFor
<1>5. QueuedAt(m)' = {k} /\ \A x : x # m => QueuedAt(x)' = QueuedAt(x)
  <2>1. /\ QueuedAt(m)' = QueuedAt(m) \cup {k}
        /\ \A x : x # m => QueuedAt(x)' = QueuedAt(x)
    BY <1>3, QueueGrows
  <2>2. QueuedAt(m) = {}
    BY <1>2 DEF Spot
  <2> QED
    BY <2>1, <2>2
<1>6. Places(m)' = {<<"queued", k>>}
  <2>1. /\ (m \in calling') = FALSE /\ (m \in finished') = FALSE
        /\ HeldBy(m)' = {} /\ PushedBy(m)' = {} /\ WaitsFor(m)' = {}
    BY <1>2, <1>3, <1>4 DEF Spot
  <2> QED
    BY <1>5, <2>1, SinglePlaces DEF Places
<1>7. ASSUME NEW x \in Ops \ {m} PROVE Places(x)' = Places(x)
  BY <1>3, <1>4, <1>5 DEF Places
<1>8. Distinct'
  <2>1. m \notin RangeOf(queue[k])
    BY <1>2 DEF Spot, QueuedAt
  <2>2. NoDuplicates(Append(queue[k], m))
    BY <2>1, AppendDistinct DEF Shape, StateTypeOK, NoOpLostOrDuplicated
  <2> QED
    BY <1>3, <2>2 DEF NoOpLostOrDuplicated, Distinct, Shape, StateTypeOK
<1>9. submitted' = submitted \cup {m} /\ submitted \subseteq Ops
  BY <1>2, <1>3, <1>6, <1>7, <1>8 DEF Shape, StateTypeOK, Spot
<1> QED
  BY <1>2, <1>3, <1>6, <1>7, <1>8, <1>9, OneMoves

LEMMA TakeConserves ==
  ASSUME Shape, NoOpLostOrDuplicated, NEW k \in Keys, Take(k)
  PROVE  Placed' /\ Distinct'
<1>1. PICK m \in Ops : m = Head(queue[k]) /\ m \in RangeOf(queue[k])
  BY TailElements DEF Take, Shape, StateTypeOK
<1>2. Spot(m, FALSE, {k}, {}, {}, {}, FALSE)
  BY <1>1, Alone DEF QueuedAt
<1>3. PICK w : worker' = [worker EXCEPT ![k] = w] /\ w.op = m /\ w.pushing = <<>>
  <2> DEFINE v == [Idle EXCEPT !.pc = "deps", !.op = m, !.todo = m.deps]
  <2>1. worker' = [worker EXCEPT ![k] = v] /\ v.op = m /\ v.pushing = <<>>
    BY <1>1 DEF Take, Idle
  <2> HIDE DEF v
  <2> QED
    BY <2>1
<1>4. /\ UNCHANGED <<submitted, calling, waiters, finished>> /\ queue[k] # <<>>
      /\ queue' = [queue EXCEPT ![k] = Tail(@)] /\ worker[k].op = Null /\ worker[k].pushing = <<>>
  BY IdleTyped DEF Take, At, Shape, WorkerShape, LocalShape
<1>5. \A x : WaitsFor(x)' = WaitsFor(x)
  BY <1>4 DEF WaitsFor
<1>6. QueuedAt(m)' = {} /\ \A x : x # m => QueuedAt(x)' = QueuedAt(x)
  <2>1. NoDuplicates(queue[k]) /\ QueuedAt(m) = {k}
    BY <1>2 DEF Spot, NoOpLostOrDuplicated
  <2>2. QueuedAt(m)' = QueuedAt(m) \ {k} /\ \A x : x # m => QueuedAt(x)' = QueuedAt(x)
    BY <1>1, <1>4, <2>1, QueueShrinks
  <2> QED
    BY <2>1, <2>2
<1>7. ASSUME NEW x \in Ops
      PROVE  PushedBy(x)' = PushedBy(x) /\ HeldBy(x)' = IF x = m THEN HeldBy(x) \cup {k} ELSE HeldBy(x)
  <2>1. k \notin PushedBy(x) /\ k \notin HeldBy(x)
    BY <1>4, EmptyRange, OpsAssumption DEF PushedBy, HeldBy
  <2>2. PushedBy(x)' = PushedBy(x) \ {k}
        /\ HeldBy(x)' = IF m = x THEN HeldBy(x) \cup {k} ELSE HeldBy(x) \ {k}
    BY <1>3, WorkerMoves, EmptyRange
  <2> QED
    BY <2>1, <2>2
<1>8. Places(m)' = {<<"held", k>>}
  <2>1. /\ (m \in calling') = FALSE /\ (m \in finished') = FALSE
        /\ HeldBy(m)' = {k} /\ PushedBy(m)' = {} /\ WaitsFor(m)' = {}
    BY <1>2, <1>4, <1>5, <1>7 DEF Spot
  <2> QED
    BY <1>6, <2>1, SinglePlaces DEF Places
<1>9. ASSUME NEW x \in Ops \ {m} PROVE Places(x)' = Places(x)
  BY <1>4, <1>5, <1>6, <1>7 DEF Places
<1>10. Distinct'
  <2>1. NoDuplicates(Tail(queue[k]))
    BY <1>4, TailDistinct DEF Shape, StateTypeOK, NoOpLostOrDuplicated
  <2> QED
    BY <1>3, <1>4, <2>1, EmptyDistinct DEF NoOpLostOrDuplicated, Distinct, Shape, StateTypeOK
<1>11. submitted' = submitted \cup {m} /\ submitted \subseteq Ops
  BY <1>2, <1>4, <1>8, <1>9, <1>10 DEF Shape, StateTypeOK, Spot
<1> QED
  BY <1>2, <1>4, <1>8, <1>9, <1>10, <1>11, OneMoves

LEMMA DeferConserves ==
  ASSUME Shape, NoOpLostOrDuplicated, NEW k \in Keys, Defer(k)
  PROVE  Placed' /\ Distinct'
<1>1. PICK m \in Ops : m = worker[k].op
  BY Busy DEF Defer, At
<1>2. PICK e \in Entities : e = worker[k].missing
  BY DEF Defer, At, Shape, WorkerShape, LocalShape
<1>3. Spot(m, FALSE, {}, {k}, {}, {}, FALSE)
  BY <1>1, Alone DEF HeldBy
<1>4. /\ UNCHANGED <<submitted, calling, queue, finished>>
      /\ waiters' = [waiters EXCEPT ![e] = Append(@, m)]
      /\ worker' = [worker EXCEPT ![k] = Idle] /\ worker[k].pushing = <<>>
  BY <1>1, <1>2 DEF Defer, At, Shape, WorkerShape, LocalShape
<1>5. \A x : QueuedAt(x)' = QueuedAt(x)
  BY <1>4 DEF QueuedAt
<1>6. ASSUME NEW x \in Ops
      PROVE  PushedBy(x)' = PushedBy(x) /\ HeldBy(x)' = HeldBy(x) \ {k}
  <2>1. k \notin PushedBy(x) /\ Idle.op # x /\ x \notin RangeOf(Idle.pushing)
    BY <1>4, EmptyRange, OpsAssumption, IdleTyped DEF PushedBy
  <2>2. PushedBy(x)' = PushedBy(x) \ {k} /\ HeldBy(x)' = HeldBy(x) \ {k}
    BY <1>4, <2>1, WorkerMoves
  <2> QED
    BY <2>1, <2>2
<1>7. WaitsFor(m)' = WaitsFor(m) \cup {e} /\ \A x : x # m => WaitsFor(x)' = WaitsFor(x)
  <2>1. RangeOf(Append(waiters[e], m)) = RangeOf(waiters[e]) \cup {m}
    BY AppendElements DEF Shape, StateTypeOK
  <2>2. \A d \in Entities : waiters'[d] = IF d = e THEN Append(waiters[e], m) ELSE waiters[d]
    BY <1>4 DEF Shape, StateTypeOK
  <2> QED
    BY <2>1, <2>2 DEF WaitsFor
<1>8. Places(m)' = {<<"waiting", e>>}
  <2>1. /\ (m \in calling') = FALSE /\ (m \in finished') = FALSE /\ QueuedAt(m)' = {}
        /\ HeldBy(m)' = {} /\ PushedBy(m)' = {} /\ WaitsFor(m)' = {e}
    BY <1>3, <1>4, <1>5, <1>6, <1>7 DEF Spot
  <2> QED
    BY <2>1, SinglePlaces DEF Places
<1>9. ASSUME NEW x \in Ops \ {m} PROVE Places(x)' = Places(x)
  <2>1. HeldBy(x) \ {k} = HeldBy(x)
    BY <1>1 DEF HeldBy
  <2> QED
    BY <1>4, <1>5, <1>6, <1>7, <2>1 DEF Places
<1>10. Distinct'
  <2>1. m \notin RangeOf(waiters[e])
    BY <1>3 DEF Spot, WaitsFor
  <2>2. NoDuplicates(Append(waiters[e], m))
    BY <2>1, AppendDistinct DEF Shape, StateTypeOK, NoOpLostOrDuplicated
  <2> QED
    BY <1>4, <2>2, EmptyDistinct, IdleTyped DEF NoOpLostOrDuplicated, Distinct, Shape, StateTypeOK
<1>11. submitted' = submitted \cup {m} /\ submitted \subseteq Ops
  BY <1>3, <1>4, <1>8, <1>9, <1>10 DEF Shape, StateTypeOK, Spot
<1> QED
  BY <1>3, <1>4, <1>8, <1>9, <1>10, <1>11, OneMoves

LEMMA ReturnConserves ==
  ASSUME Shape, NoOpLostOrDuplicated, NEW k \in Keys, worker[k].pc # "idle",
         worker[k].pushing = <<>>, Return(k)
  PROVE  Placed' /\ Distinct'
<1>1. PICK m \in Ops : m = worker[k].op
  BY Busy
<1>2. Spot(m, FALSE, {}, {k}, {}, {}, FALSE)
  BY <1>1, Alone DEF HeldBy
<1>3. /\ UNCHANGED <<submitted, calling, queue, waiters>> /\ finished' = finished \cup {m}
      /\ worker' = [worker EXCEPT ![k] = Idle]
  BY <1>1 DEF Return
<1>4. \A x : QueuedAt(x)' = QueuedAt(x) /\ WaitsFor(x)' = WaitsFor(x)
  BY <1>3 DEF QueuedAt, WaitsFor
<1>5. ASSUME NEW x \in Ops
      PROVE  PushedBy(x)' = PushedBy(x) /\ HeldBy(x)' = HeldBy(x) \ {k}
  <2>1. k \notin PushedBy(x) /\ Idle.op # x /\ x \notin RangeOf(Idle.pushing)
    BY EmptyRange, OpsAssumption, IdleTyped DEF PushedBy
  <2>2. PushedBy(x)' = PushedBy(x) \ {k} /\ HeldBy(x)' = HeldBy(x) \ {k}
    BY <1>3, <2>1, WorkerMoves
  <2> QED
    BY <2>1, <2>2
<1>6. Places(m)' = {<<"finished", Null>>}
  <2>1. /\ (m \in calling') = FALSE /\ (m \in finished') = TRUE /\ QueuedAt(m)' = {}
        /\ HeldBy(m)' = {} /\ PushedBy(m)' = {} /\ WaitsFor(m)' = {}
    BY <1>2, <1>3, <1>4, <1>5 DEF Spot
  <2> QED
    BY <2>1, SinglePlaces DEF Places
<1>7. ASSUME NEW x \in Ops \ {m} PROVE Places(x)' = Places(x)
  <2>1. HeldBy(x) \ {k} = HeldBy(x)
    BY <1>1 DEF HeldBy
  <2>2. /\ HeldBy(x)' = HeldBy(x) /\ PushedBy(x)' = PushedBy(x) /\ QueuedAt(x)' = QueuedAt(x)
        /\ WaitsFor(x)' = WaitsFor(x) /\ calling' = calling
    BY <1>3, <1>4, <1>5, <2>1
  <2>3. (x \in finished') = (x \in finished)
    BY <1>3, <1>7
  <2> QED
    BY <2>2, <2>3 DEF Places
<1>8. Distinct'
  BY <1>3, EmptyDistinct, IdleTyped DEF NoOpLostOrDuplicated, Distinct, Shape, StateTypeOK
<1>9. submitted' = submitted \cup {m} /\ submitted \subseteq Ops
  BY <1>2, <1>3, <1>6, <1>7, <1>8 DEF Shape, StateTypeOK, Spot
<1> QED
  BY <1>2, <1>3, <1>6, <1>7, <1>8, <1>9, OneMoves

LEMMA KeepConserves ==
  ASSUME Shape, NoOpLostOrDuplicated, NEW k \in Keys, NEW w,
         worker' = [worker EXCEPT ![k] = w],
         w.op = worker[k].op, w.pushing = worker[k].pushing, UNCHANGED sched
  PROVE  Placed' /\ Distinct'
<1>1. UNCHANGED <<submitted, calling, queue, waiters, finished>>
  BY DEF sched
<1>2. \A x : QueuedAt(x)' = QueuedAt(x) /\ WaitsFor(x)' = WaitsFor(x)
  BY <1>1 DEF QueuedAt, WaitsFor
<1>3. \A j \in Keys : worker'[j].op = worker[j].op /\ worker'[j].pushing = worker[j].pushing
  BY DEF Shape, StateTypeOK
<1>4. \A x : HeldBy(x)' = HeldBy(x) /\ PushedBy(x)' = PushedBy(x)
  BY <1>3 DEF HeldBy, PushedBy
<1>5. \A x \in Ops : Places(x)' = Places(x)
  BY <1>1, <1>2, <1>4 DEF Places
<1>6. Distinct'
  BY <1>1, <1>3 DEF NoOpLostOrDuplicated, Distinct
<1>7. submitted \subseteq Ops
  BY DEF Shape, StateTypeOK
<1> QED
  BY <1>1, <1>5, <1>6, <1>7, NoneMoves

LEMMA TakeWaitersConserves ==
  ASSUME Shape, NoOpLostOrDuplicated, NEW k \in Keys, TakeWaiters(k)
  PROVE  Placed' /\ Distinct'
<1>1. PICK e \in Entities, s \in Seq(Ops) : e = worker[k].op.entity /\ s = waiters[e]
  BY Busy DEF TakeWaiters, At, Shape, StateTypeOK
<1>2. PICK w : worker' = [worker EXCEPT ![k] = w] /\ w.op = worker[k].op /\ w.pushing = s
  <2> DEFINE v == [worker[k] EXCEPT !.pc = "push", !.pushing = s]
  <2>1. worker' = [worker EXCEPT ![k] = v] /\ v.op = worker[k].op /\ v.pushing = s
    BY <1>1, Busy DEF TakeWaiters, At, WorkerType, Shape, StateTypeOK
  <2> HIDE DEF v
  <2> QED
    BY <2>1
<1>3. UNCHANGED <<submitted, calling, queue, finished>> /\ waiters' = [waiters EXCEPT ![e] = <<>>]
  BY <1>1 DEF TakeWaiters
<1>4. \A x : k \notin PushedBy(x)
  BY EmptyRange DEF TakeWaiters, At, Shape, WorkerShape, LocalShape, PushedBy
<1>5. \A x : QueuedAt(x)' = QueuedAt(x)
  BY <1>3 DEF QueuedAt
<1>6. ASSUME NEW x PROVE HeldBy(x)' = HeldBy(x)
  <2>1. \A j \in Keys : worker'[j].op = worker[j].op
    BY <1>2 DEF Shape, StateTypeOK
  <2> QED
    BY <2>1 DEF HeldBy
<1>7. ASSUME NEW x
      PROVE  PushedBy(x)' = IF x \in RangeOf(s) THEN PushedBy(x) \cup {k} ELSE PushedBy(x)
  <2>1. PushedBy(x)' = IF x \in RangeOf(s) THEN PushedBy(x) \cup {k} ELSE PushedBy(x) \ {k}
    BY <1>2, WorkerMoves
  <2> QED
    BY <1>4, <2>1
<1>8. ASSUME NEW x PROVE WaitsFor(x)' = WaitsFor(x) \ {e}
  <2>1. \A d \in Entities : waiters'[d] = IF d = e THEN <<>> ELSE waiters[d]
    BY <1>3 DEF Shape, StateTypeOK
  <2> QED
    BY <2>1, EmptyRange DEF WaitsFor
<1>9. ASSUME NEW x \in Ops, x \in RangeOf(s) PROVE Places(x)' = {<<"pushed", k>>} /\ x \in submitted
  <2>1. Spot(x, FALSE, {}, {}, {}, {e}, FALSE)
    BY <1>1, <1>9, Alone DEF WaitsFor
  <2>2. /\ (x \in calling') = FALSE /\ (x \in finished') = FALSE /\ QueuedAt(x)' = {}
        /\ HeldBy(x)' = {} /\ PushedBy(x)' = {k} /\ WaitsFor(x)' = {}
    BY <1>3, <1>5, <1>6, <1>7, <1>8, <1>9, <2>1 DEF Spot
  <2> QED
    BY <2>1, <2>2, SinglePlaces DEF Places, Spot
<1>10. ASSUME NEW x \in Ops, x \notin RangeOf(s) PROVE Places(x)' = Places(x)
  <2>1. WaitsFor(x) \ {e} = WaitsFor(x)
    BY <1>1, <1>10 DEF WaitsFor
  <2>2. /\ HeldBy(x)' = HeldBy(x) /\ PushedBy(x)' = PushedBy(x) /\ QueuedAt(x)' = QueuedAt(x)
        /\ WaitsFor(x)' = WaitsFor(x) /\ calling' = calling /\ finished' = finished
    BY <1>3, <1>5, <1>6, <1>7, <1>8, <1>10, <2>1
  <2> QED
    BY <2>2 DEF Places
<1>11. Placed'
  <2>1. ASSUME NEW x \in submitted PROVE \E p \in Places(x)' : Places(x)' = {p}
    <3>1. x \in Ops /\ \E p : Places(x) = {p}
      BY DEF Shape, StateTypeOK, NoOpLostOrDuplicated
    <3> QED
      BY <1>9, <1>10, <3>1
  <2>2. ASSUME NEW x \in Ops \ submitted PROVE Places(x)' = {}
    BY <1>9, <1>10 DEF NoOpLostOrDuplicated
  <2>3. submitted' = submitted
    BY <1>3
  <2> QED
    BY <2>1, <2>2, <2>3 DEF Placed
<1>12. Distinct'
  BY <1>1, <1>2, <1>3, EmptyDistinct DEF NoOpLostOrDuplicated, Distinct, Shape, StateTypeOK
<1> QED
  BY <1>11, <1>12

LEMMA PushWaiterConserves ==
  ASSUME Shape, NoOpLostOrDuplicated, NEW k \in Keys, PushWaiter(k)
  PROVE  Placed' /\ Distinct'
<1>1. worker[k] \in WorkerType /\ worker[k].pushing \in Seq(Ops) /\ worker[k].pushing # <<>>
  BY Busy DEF PushWaiter, At, WorkerType
<1>2. PICK m \in Ops, s \in Seq(Ops) :
        /\ m = Head(worker[k].pushing) /\ s = Tail(worker[k].pushing)
        /\ m \in RangeOf(worker[k].pushing) /\ RangeOf(s) = RangeOf(worker[k].pushing) \ {m}
        /\ NoDuplicates(s)
  <2>1. NoDuplicates(worker[k].pushing)
    BY DEF NoOpLostOrDuplicated
  <2> DEFINE q == worker[k].pushing
  <2> HIDE DEF q
  <2>2. q \in Seq(Ops) /\ q # <<>> /\ NoDuplicates(q)
    BY <1>1, <2>1 DEF q
  <2>3. /\ Head(q) \in Ops /\ Tail(q) \in Seq(Ops) /\ Head(q) \in RangeOf(q)
        /\ RangeOf(Tail(q)) = RangeOf(q) \ {Head(q)} /\ NoDuplicates(Tail(q))
    BY <2>2, TailElements, TailDistinct
  <2> QED
    BY <2>3 DEF q
<1>3. PICK j \in Keys : j = WorkerKey(m)
  BY KeysOfOps
<1>4. PICK w : worker' = [worker EXCEPT ![k] = w] /\ w.op = worker[k].op /\ w.pushing = s
  <2> DEFINE v == [worker[k] EXCEPT !.pushing = s]
  <2>1. worker' = [worker EXCEPT ![k] = v] /\ v.op = worker[k].op /\ v.pushing = s
    BY <1>1, <1>2 DEF PushWaiter, WorkerType
  <2> HIDE DEF v
  <2> QED
    BY <2>1
<1>5. /\ UNCHANGED <<submitted, calling, waiters, finished>>
      /\ queue' = [queue EXCEPT ![j] = Append(@, m)]
  BY <1>2, <1>3 DEF PushWaiter
<1>6. Spot(m, FALSE, {}, {}, {k}, {}, FALSE)
  BY <1>2, Alone DEF PushedBy
<1>7. \A x : WaitsFor(x)' = WaitsFor(x)
  BY <1>5 DEF WaitsFor
<1>8. ASSUME NEW x PROVE HeldBy(x)' = HeldBy(x)
  <2>1. \A i \in Keys : worker'[i].op = worker[i].op
    BY <1>4 DEF Shape, StateTypeOK
  <2> QED
    BY <2>1 DEF HeldBy
<1>9. ASSUME NEW x
      PROVE  PushedBy(x)' = IF x = m THEN PushedBy(x) \ {k} ELSE PushedBy(x)
  <2>1. PushedBy(x)' = IF x \in RangeOf(s) THEN PushedBy(x) \cup {k} ELSE PushedBy(x) \ {k}
    BY <1>4, WorkerMoves
  <2>2. k \in PushedBy(x) <=> x \in RangeOf(worker[k].pushing)
    BY DEF PushedBy
  <2>3. /\ k \in PushedBy(x) => PushedBy(x) \cup {k} = PushedBy(x)
        /\ k \notin PushedBy(x) => PushedBy(x) \ {k} = PushedBy(x)
    OBVIOUS
  <2>4. x \in RangeOf(s) <=> x \in RangeOf(worker[k].pushing) /\ x # m
    BY <1>2
  <2>5. CASE k \in PushedBy(x)
    BY <2>1, <2>2, <2>3, <2>4, <2>5
  <2>6. CASE k \notin PushedBy(x)
    <3>1. PushedBy(x)' = PushedBy(x) \ {k}
      BY <2>1, <2>2, <2>4, <2>6
    <3> QED
      BY <2>3, <2>6, <3>1
  <2> QED
    BY <2>5, <2>6
<1>10. QueuedAt(m)' = {j} /\ \A x : x # m => QueuedAt(x)' = QueuedAt(x)
  <2>1. queue' = [queue EXCEPT ![j] = Append(@, m)]
    BY <1>5
  <2>2. QueuedAt(m)' = QueuedAt(m) \cup {j} /\ \A x : x # m => QueuedAt(x)' = QueuedAt(x)
    BY <2>1, QueueGrows
  <2> QED
    BY <1>6, <2>2 DEF Spot
<1>11. Places(m)' = {<<"queued", j>>}
  <2>1. /\ (m \in calling') = FALSE /\ (m \in finished') = FALSE
        /\ HeldBy(m)' = {} /\ PushedBy(m)' = {} /\ WaitsFor(m)' = {}
    BY <1>5, <1>6, <1>7, <1>8, <1>9 DEF Spot
  <2> QED
    BY <1>10, <2>1, SinglePlaces DEF Places
<1>12. ASSUME NEW x \in Ops \ {m} PROVE Places(x)' = Places(x)
  <2>1. /\ HeldBy(x)' = HeldBy(x) /\ PushedBy(x)' = PushedBy(x) /\ QueuedAt(x)' = QueuedAt(x)
        /\ WaitsFor(x)' = WaitsFor(x) /\ calling' = calling /\ finished' = finished
    BY <1>5, <1>7, <1>8, <1>9, <1>10, <1>12
  <2> QED
    BY <2>1 DEF Places
<1>13. Distinct'
  <2>1. m \notin RangeOf(queue[j])
    BY <1>6 DEF Spot, QueuedAt
  <2>2. NoDuplicates(Append(queue[j], m))
    BY <2>1, AppendDistinct DEF Shape, StateTypeOK, NoOpLostOrDuplicated
  <2> QED
    BY <1>2, <1>4, <1>5, <2>2 DEF NoOpLostOrDuplicated, Distinct, Shape, StateTypeOK
<1>14. submitted' = submitted \cup {m} /\ submitted \subseteq Ops
  BY <1>5, <1>6 DEF Shape, StateTypeOK, Spot
<1> QED
  BY <1>11, <1>12, <1>13, <1>14, OneMoves

(* What each step does to the places of ops.                                *)
LEMMA StepConserves ==
  ASSUME Shape, NoOpLostOrDuplicated, NEW k \in Keys, Step(k)
  PROVE  NoOpLostOrDuplicated'
<1> SUFFICES Placed' /\ Distinct'
  BY DEF NoOpLostOrDuplicated, Placed, Distinct
<1>1. CASE Take(k)
  BY <1>1, TakeConserves
<1>2. CASE Defer(k)
  BY <1>2, DeferConserves
<1>3. CASE TakeWaiters(k)
  BY <1>3, TakeWaitersConserves
<1>4. CASE PushWaiter(k)
  BY <1>4, PushWaiterConserves
<1>5. CASE worker[k].pc # "idle" /\ worker[k].pushing = <<>> /\ Return(k)
  BY <1>5, ReturnConserves
<1>6. ASSUME NEW w, worker' = [worker EXCEPT ![k] = w], w.op = worker[k].op,
             w.pushing = worker[k].pushing, UNCHANGED sched
      PROVE  Placed' /\ Distinct'
  BY <1>6, KeepConserves
<1>7. ASSUME worker[k].pc # "push", worker[k].pc # "idle", Return(k) PROVE Placed' /\ Distinct'
  BY <1>5, <1>7 DEF Shape, WorkerShape, LocalShape
<1>8. CASE Enqueue(k) \/ LogDryRun(k) \/ SkipEqual(k) \/ WritePendingRefused(k)
             \/ StoreFails(k) \/ RemoteError(k) \/ RemoteLost(k) \/ Remove(k)
  BY <1>7, <1>8 DEF Enqueue, LogDryRun, SkipEqual, WritePendingRefused, StoreFails,
     RemoteError, RemoteLost, Remove, Ready, At
<1>9. CASE Notified(k)
  BY <1>5, <1>9 DEF Notified, At
<1>10. ASSUME NEW label, Goto(k, label), UNCHANGED sched PROVE Placed' /\ Distinct'
  <2> DEFINE w == [worker[k] EXCEPT !.pc = label]
  <2>1. worker' = [worker EXCEPT ![k] = w] /\ w.op = worker[k].op /\ w.pushing = worker[k].pushing
    BY <1>10 DEF Goto, Shape, StateTypeOK, WorkerType
  <2> HIDE DEF w
  <2> QED
    BY <1>6, <1>10, <2>1
<1>11. CASE Begin(k) \/ Differs(k) \/ WritePending(k) \/ Confirm(k)
  BY <1>10, <1>11 DEF Begin, Differs, WritePending, Confirm
<1>12. CASE CheckDependency(k)
  <2>1. PICK d : worker' = [worker EXCEPT ![k] = [worker[k] EXCEPT !.todo = worker[k].todo \ {d}]]
    BY <1>12 DEF CheckDependency
  <2> DEFINE w == [worker[k] EXCEPT !.todo = worker[k].todo \ {d}]
  <2>2. w.op = worker[k].op /\ w.pushing = worker[k].pushing /\ UNCHANGED sched
    BY <1>12 DEF CheckDependency, Shape, StateTypeOK, WorkerType
  <2> HIDE DEF w
  <2> QED
    BY <1>6, <2>1, <2>2 DEF w
<1>13. CASE MissDependency(k)
  <2>1. PICK d : worker' = [worker EXCEPT ![k] = [worker[k] EXCEPT !.pc = "defer", !.missing = d]]
    BY <1>13 DEF MissDependency, Shape, StateTypeOK
  <2> DEFINE w == [worker[k] EXCEPT !.pc = "defer", !.missing = d]
  <2>2. w.op = worker[k].op /\ w.pushing = worker[k].pushing /\ UNCHANGED sched
    BY <1>13 DEF MissDependency, Shape, StateTypeOK, WorkerType
  <2> HIDE DEF w
  <2> QED
    BY <1>6, <2>1, <2>2 DEF w
<1>14. CASE Apply(k)
  <2>1. CASE Goto(k, "remove")
    BY <1>10, <1>14, <2>1 DEF Apply
  <2>2. CASE ~Goto(k, "remove")
    <3>1. PICK c : worker' = [worker EXCEPT ![k] = [worker[k] EXCEPT !.pc = "remote", !.call = c]]
      BY <1>14, <2>2 DEF Apply, Shape, StateTypeOK
    <3> DEFINE w == [worker[k] EXCEPT !.pc = "remote", !.call = c]
    <3>2. w.op = worker[k].op /\ w.pushing = worker[k].pushing /\ UNCHANGED sched
      BY <1>14 DEF Apply, Shape, StateTypeOK, WorkerType
    <3> HIDE DEF w
    <3> QED
      BY <1>6, <3>1, <3>2 DEF w
  <2> QED
    BY <2>1, <2>2
<1>15. CASE RemoteOk(k)
  <2> DEFINE id == IF worker[k].call.verb = "create" THEN nextId ELSE worker[k].call.id
             label == IF worker[k].op.kind = "delete" THEN "remove" ELSE "confirm"
             w == [worker[k] EXCEPT !.pc = label, !.call.id = id]
  <2>1. worker \in [Keys -> WorkerType] /\ worker[k].call \in CallType
    BY DEF Shape, StateTypeOK, WorkerType
  <2>2. w.op = worker[k].op /\ w.pushing = worker[k].pushing /\ UNCHANGED sched
    BY <1>15, <2>1 DEF RemoteOk, WorkerType
  <2>3. worker' = [worker EXCEPT ![k] = w]
    BY <1>15, <2>1 DEF RemoteOk
  <2> HIDE DEF w
  <2> QED
    BY <1>6, <2>2, <2>3
<1>16. CASE RemoteLimited(k)
  <2>1. CASE Return(k)
    BY <1>7, <1>16, <2>1 DEF RemoteLimited, At
  <2>2. CASE ~Return(k)
    <3> DEFINE w == [worker[k] EXCEPT !.pc = "apply", !.tries = worker[k].tries + 1, !.call = NoCall]
    <3>1. worker' = [worker EXCEPT ![k] = w] /\ UNCHANGED sched
      BY <1>16, <2>2 DEF RemoteLimited, Shape, StateTypeOK
    <3>2. w.op = worker[k].op /\ w.pushing = worker[k].pushing
      BY DEF Shape, StateTypeOK, WorkerType
    <3> HIDE DEF w
    <3> QED
      BY <1>6, <3>1, <3>2
  <2> QED
    BY <2>1, <2>2
<1> QED
  BY <1>1, <1>2, <1>3, <1>4, <1>8, <1>9, <1>11, <1>12, <1>13, <1>14, <1>15, <1>16
     DEF Step, Process

LEMMA NextConserves ==
  ASSUME Shape, NoOpLostOrDuplicated, [Next]_vars
  PROVE  NoOpLostOrDuplicated'
<1>1. CASE \E op \in Ops : Submit(op) \/ Send(op)
  BY <1>1, SubmitConserves, SendConserves DEF NoOpLostOrDuplicated, Placed, Distinct
<1>2. CASE \E k \in Keys : Step(k)
  BY <1>2, StepConserves
<1>3. CASE Gateways \/ Rest \/ UNCHANGED vars
  <2>1. UNCHANGED <<sched, worker>>
    BY <1>3 DEF Gateways, StoatReady, DiscordLost, DiscordBack, Rest, vars
  <2>2. UNCHANGED <<submitted, calling, queue, waiters, finished, worker>>
    BY <2>1 DEF sched
  <2>3. ASSUME NEW x
        PROVE  /\ QueuedAt(x)' = QueuedAt(x) /\ HeldBy(x)' = HeldBy(x)
               /\ PushedBy(x)' = PushedBy(x) /\ WaitsFor(x)' = WaitsFor(x)
    BY <2>2 DEF QueuedAt, HeldBy, PushedBy, WaitsFor
  <2>4. \A x : Places(x)' = Places(x)
    BY <2>2, <2>3 DEF Places
  <2> QED
    BY <2>2, <2>4 DEF NoOpLostOrDuplicated
<1> QED
  BY <1>1, <1>2, <1>3 DEF Next

LEMMA InitConserves == Init => NoOpLostOrDuplicated
<1> SUFFICES ASSUME Init PROVE NoOpLostOrDuplicated
  OBVIOUS
<1>1. ASSUME NEW x \in Ops PROVE Places(x) = {}
  <2>1. /\ (x \in calling) = FALSE /\ (x \in finished) = FALSE /\ QueuedAt(x) = {}
        /\ HeldBy(x) = {} /\ PushedBy(x) = {} /\ WaitsFor(x) = {}
    BY EmptyRange, IdleTyped, OpsAssumption DEF Init, QueuedAt, HeldBy, PushedBy, WaitsFor
  <2> QED
    BY <2>1, SinglePlaces DEF Places
<1> QED
  BY <1>1, EmptyDistinct, IdleTyped DEF Init, NoOpLostOrDuplicated

-----------------------------------------------------------------------------
(* The WaitGroup: only Submit and the end of an op touch what it counts.    *)
LEMMA NextCounts ==
  ASSUME Shape, NoOpLostOrDuplicated, WaitCountsUnfinished, [Next]_vars
  PROVE  WaitCountsUnfinished'
<1> DEFINE left == submitted \ finished
<1>1. /\ IsFiniteSet(left) /\ Cardinality(left) \in Nat /\ wg = Cardinality(left)
      /\ finished \subseteq submitted
  <2>1. left \in SUBSET Ops /\ IsFiniteSet(Ops)
    BY OpsAssumption DEF Shape, StateTypeOK
  <2>2. IsFiniteSet(left)
    BY <2>1, FS_Subset
  <2> QED
    BY <2>2, FS_CardinalityType DEF WaitCountsUnfinished
<1>2. ASSUME NEW m \in Ops, Submit(m) PROVE WaitCountsUnfinished'
  <2>1. submitted' \ finished' = left \cup {m} /\ m \notin left /\ finished' \subseteq submitted'
    BY <1>1, <1>2 DEF Submit
  <2>2. Cardinality(left \cup {m}) = Cardinality(left) + 1
    BY <1>1, <2>1, FS_AddElement
  <2> QED
    BY <1>1, <1>2, <2>1, <2>2 DEF Submit, WaitCountsUnfinished
<1>3. ASSUME NEW k \in Keys, worker[k].pc # "idle", Return(k) PROVE WaitCountsUnfinished'
  <2>1. PICK m \in Ops : m = worker[k].op
    BY <1>3, Busy
  <2>2. m \in submitted /\ m \notin finished
    BY <2>1, Alone DEF HeldBy, Spot
  <2>3. submitted' \ finished' = left \ {m} /\ m \in left /\ finished' \subseteq submitted'
    BY <1>1, <1>3, <2>1, <2>2 DEF Return
  <2>4. Cardinality(left \ {m}) = Cardinality(left) - 1
    BY <1>1, <2>3, FS_RemoveElement
  <2> QED
    BY <1>1, <1>3, <2>3, <2>4 DEF Return, WaitCountsUnfinished
<1>4. ASSUME UNCHANGED <<submitted, finished, wg>> PROVE WaitCountsUnfinished'
  BY <1>4 DEF WaitCountsUnfinished
<1>5. ASSUME NEW k \in Keys, Step(k) PROVE WaitCountsUnfinished'
  <2>1. \/ worker[k].pc # "idle" /\ Return(k)
        \/ UNCHANGED <<submitted, finished, wg>>
    BY <1>5 DEF Step, Process, Take, CheckDependency, MissDependency, Defer, Enqueue, LogDryRun,
       Begin, SkipEqual, Differs, WritePending, WritePendingRefused, StoreFails, Apply,
       RemoteOk, RemoteError, RemoteLost, RemoteLimited, Remove, Confirm, TakeWaiters,
       PushWaiter, Notified, Ready, At, sched
  <2> QED
    BY <1>3, <1>4, <2>1
<1>6. CASE \E op \in Ops : Send(op)
  BY <1>4, <1>6 DEF Send
<1>7. CASE Gateways \/ Rest \/ UNCHANGED vars
  BY <1>4, <1>7 DEF Gateways, StoatReady, DiscordLost, DiscordBack, Rest, vars, sched
<1> QED
  BY <1>2, <1>5, <1>6, <1>7 DEF Next

LEMMA InitCounts == Init => WaitCountsUnfinished
BY FS_EmptySet DEF Init, WaitCountsUnfinished

(* Deferring, taking the waiter lists and pushing them back to other        *)
(* workers lose no op and run none twice, for any ops, dependencies, queue  *)
(* capacity and interleaving.                                               *)
THEOREM OpsConserved == Spec => []NoOpLostOrDuplicated
<1>1. Init => Shape /\ NoOpLostOrDuplicated
  BY InitShape, InitConserves
<1>2. Shape /\ NoOpLostOrDuplicated /\ [Next]_vars => Shape' /\ NoOpLostOrDuplicated'
  BY NextShape, NextConserves
<1> QED
  BY <1>1, <1>2, PTL DEF Spec

(* The WaitGroup counts the unfinished ops, so that Wait returns exactly    *)
(* when every submitted op has been processed.                              *)
THEOREM WaitIsExact == Spec => []WaitCountsUnfinished
<1>1. Init => Shape /\ NoOpLostOrDuplicated /\ WaitCountsUnfinished
  BY InitShape, InitConserves, InitCounts
<1>2. Shape /\ NoOpLostOrDuplicated /\ WaitCountsUnfinished /\ [Next]_vars
        => Shape' /\ NoOpLostOrDuplicated' /\ WaitCountsUnfinished'
  BY NextShape, NextConserves, NextCounts
<1> QED
  BY <1>1, <1>2, PTL DEF Spec

(* Type correctness, and the WaitGroup counter never goes below zero, which *)
(* would make Done panic.                                                   *)
THEOREM TypeCorrect == Spec => []TypeOK
<1>1. Shape /\ WaitCountsUnfinished => TypeOK
  <2> SUFFICES ASSUME Shape, WaitCountsUnfinished PROVE wg \in Nat
    BY DEF TypeOK, Shape
  <2>1. submitted \ finished \in SUBSET Ops /\ IsFiniteSet(Ops)
    BY OpsAssumption DEF Shape, StateTypeOK
  <2>2. Cardinality(submitted \ finished) \in Nat
    BY <2>1, FS_Subset, FS_CardinalityType
  <2> QED
    BY <2>2 DEF WaitCountsUnfinished
<1> QED
  BY <1>1, ShapeAlways, WaitIsExact, PTL

-----------------------------------------------------------------------------
(* The refinement: every step of the workers is a step of the abstract      *)
(* specification or none at all.                                            *)

(* What the landed entities have to do with the tables and with the         *)
(* dependency checks under way.                                             *)
LandedShape ==
  /\ \A e \in Entities : rows[e].id # NoId \/ Active(rows[e]) => e \in landed
  /\ \A k \in Keys : worker[k].pc = "deps" => worker[k].op.deps \ worker[k].todo \subseteq landed

LEMMA InitLanded == Init => LandedShape
<1> SUFFICES ASSUME Init PROVE LandedShape
  OBVIOUS
<1>1. ASSUME NEW e \in Entities, e \notin landed PROVE rows[e] = Absent
  BY <1>1 DEF Init
<1>2. \A k \in Keys : worker[k].pc = "idle"
  BY IdleTyped DEF Init
<1> QED
  BY <1>1, <1>2 DEF LandedShape, Absent, Active

LEMMA NextLanded == ASSUME Shape, LandedShape, [Next]_vars PROVE LandedShape'
<1>1. landed \subseteq landed'
  BY DEF Next, Step, Process, Take, CheckDependency, MissDependency, Defer, Enqueue, WritePending,
     LogDryRun, Begin, SkipEqual, Differs, WritePendingRefused, StoreFails, Apply, RemoteOk,
     RemoteError, RemoteLost, RemoteLimited, Remove, Confirm, TakeWaiters, PushWaiter, Notified,
     Submit, Send, Gateways, StoatReady, DiscordLost, DiscordBack, Rest, vars, world
<1>2. ASSUME NEW d \in Entities, rows'[d].id # NoId \/ Active(rows'[d]) PROVE d \in landed'
  <2>1. CASE rows' = rows
    BY <1>1, <1>2, <2>1 DEF LandedShape
  <2>2. CASE rows' # rows
    <3>1. PICK k \in Keys : WritePending(k) \/ Remove(k) \/ Confirm(k)
      BY <2>2 DEF Next, Step, Process, Take, CheckDependency, MissDependency, Defer, Enqueue,
         LogDryRun, Begin, SkipEqual, Differs, WritePendingRefused, StoreFails, Apply, RemoteOk,
         RemoteError, RemoteLost, RemoteLimited, TakeWaiters, PushWaiter, Notified, Submit, Send,
         Gateways, StoatReady, DiscordLost, DiscordBack, Rest, vars, world
    <3> DEFINE e == worker[k].op.entity
    <3>2. e \in Entities /\ rows \in [Entities -> RowType] /\ rows[e] \in RowType
      BY <3>1, Busy DEF WritePending, Remove, Confirm, At, Shape, StateTypeOK
    <3> HIDE DEF e
    <3>3. CASE d # e
      <4>1. rows'[d] = rows[d]
        BY <3>1, <3>2, <3>3 DEF WritePending, Remove, Confirm, e
      <4> QED
        BY <1>1, <1>2, <4>1 DEF LandedShape
    <3>4. CASE d = e /\ WritePending(k)
      <4>1. Active(rows'[e]) \/ rows'[e].id # NoId => rows[e].id # NoId
        BY <3>2, <3>4 DEF WritePending, PendingRow, PendingMessageRow, PendingStructureRow, Active, e
      <4> QED
        BY <1>1, <1>2, <3>2, <3>4, <4>1 DEF LandedShape
    <3>5. CASE d = e /\ Remove(k)
      <4>1. rows'[e] = Absent
        BY <2>2, <3>2, <3>5 DEF Remove, e
      <4> QED
        BY <1>2, <3>5, <4>1 DEF Absent, Active
    <3>6. CASE d = e /\ Confirm(k)
      BY <3>6 DEF Confirm, e
    <3> QED
      BY <3>1, <3>3, <3>4, <3>5, <3>6
  <2> QED
    BY <2>1, <2>2
<1>3. ASSUME NEW j \in Keys, worker'[j].pc = "deps"
      PROVE  worker'[j].op.deps \ worker'[j].todo \subseteq landed'
  <2>1. CASE worker'[j] = worker[j]
    BY <1>1, <1>3, <2>1 DEF LandedShape
  <2>2. CASE worker'[j] # worker[j]
    <3>1. PICK k \in Keys : Step(k)
      BY <2>2 DEF Next, Submit, Send, Gateways, StoatReady, DiscordLost, DiscordBack, Rest, vars
    <3>2. \E w : worker' = [worker EXCEPT ![k] = w]
      BY <3>1 DEF Step, Process, Take, CheckDependency, MissDependency, Defer, Enqueue, Goto, Return,
         LogDryRun, Begin, SkipEqual, Differs, WritePending, WritePendingRefused, StoreFails, Apply,
         RemoteOk, RemoteError, RemoteLost, RemoteLimited, Remove, Confirm, TakeWaiters,
         PushWaiter, Notified, Shape, StateTypeOK
    <3>3. j = k
      BY <2>2, <3>2 DEF Shape, StateTypeOK
    <3>4. worker[k] \in WorkerType /\ worker \in [Keys -> WorkerType]
      BY DEF Shape, StateTypeOK
    <3>5. Take(k) \/ CheckDependency(k)
      <4>1. worker'[k].pc = "deps"
        BY <1>3, <3>3
      <4>2. worker' # [worker EXCEPT ![k] = Idle]
        BY <3>4, <4>1, IdleTyped
      <4>3. ASSUME NEW label, Goto(k, label) PROVE label = "deps"
        BY <3>4, <4>1, <4>3 DEF Goto, WorkerType
      <4>4. ~(Enqueue(k) \/ LogDryRun(k) \/ SkipEqual(k) \/ WritePendingRefused(k) \/ StoreFails(k)
                \/ RemoteError(k) \/ RemoteLost(k) \/ Remove(k) \/ Notified(k) \/ Defer(k))
        BY <4>2 DEF Enqueue, LogDryRun, SkipEqual, WritePendingRefused, StoreFails, RemoteError,
           RemoteLost, Remove, Notified, Defer, Return
      <4>5. ~(Begin(k) \/ Differs(k) \/ WritePending(k) \/ Confirm(k))
        BY <4>3 DEF Begin, Differs, WritePending, Confirm
      <4>6. ~MissDependency(k)
        BY <3>4, <4>1 DEF MissDependency, WorkerType
      <4>7. ~Apply(k)
        BY <3>4, <4>1, <4>3 DEF Apply, WorkerType
      <4>8. ~RemoteOk(k)
        BY <3>4, <4>1 DEF RemoteOk, WorkerType
      <4>9. ~RemoteLimited(k)
        BY <3>4, <4>1, <4>2 DEF RemoteLimited, Return, WorkerType
      <4>10. ~(TakeWaiters(k) \/ PushWaiter(k))
        BY <3>4, <4>1 DEF TakeWaiters, PushWaiter, At, WorkerType
      <4> QED
        BY <3>1, <4>4, <4>5, <4>6, <4>7, <4>8, <4>9, <4>10 DEF Step, Process
    <3>6. CASE Take(k)
      <4>1. worker'[k].todo = worker'[k].op.deps
        BY <3>4, <3>6 DEF Take, Idle
      <4> QED
        BY <3>3, <4>1
    <3>7. CASE CheckDependency(k)
      <4>1. PICK d \in worker[k].todo : Met(d) /\ worker' = [worker EXCEPT ![k].todo = @ \ {d}]
        BY <3>7 DEF CheckDependency
      <4>2. d \in Entities /\ d \in landed
        BY <3>4, <4>1 DEF WorkerType, LandedShape, Met
      <4>3. worker[k].op.deps \ worker[k].todo \subseteq landed
        BY <3>7 DEF CheckDependency, At, LandedShape
      <4>4. worker'[k].op = worker[k].op /\ worker'[k].todo = worker[k].todo \ {d}
        BY <3>4, <4>1 DEF WorkerType
      <4> QED
        BY <1>1, <3>3, <4>2, <4>3, <4>4
    <3> QED
      BY <3>5, <3>6, <3>7
  <2> QED
    BY <2>1, <2>2
<1> QED
  BY <1>2, <1>3 DEF LandedShape

-----------------------------------------------------------------------------
(* The op a worker's record contributes to Running.                         *)
Runs(w) == w.pc \notin {"idle", "defer"} /\ ~(w.pc = "deps" /\ w.todo # {})

LEMMA RunningKept ==
  ASSUME Shape, NEW k \in Keys, NEW w, worker' = [worker EXCEPT ![k] = w],
         Runs(w) <=> Runs(worker[k]), Runs(w) => w.op = worker[k].op
  PROVE  Running' = Running
<1>1. \A j \in Keys : worker'[j] = IF j = k THEN w ELSE worker[j]
  BY DEF Shape, StateTypeOK
<1>2. \A j \in Keys : /\ Runs(worker'[j]) <=> Runs(worker[j])
                      /\ Runs(worker[j]) => worker'[j].op = worker[j].op
  BY <1>1
<1>3. Running = {worker[j].op : j \in {i \in Keys : Runs(worker[i])}}
  BY DEF Running, Runs, At
<1>4. Running' = {worker'[j].op : j \in {i \in Keys : Runs(worker'[i])}}
  BY DEF Running, Runs, At
<1> QED
  BY <1>2, <1>3, <1>4

LEMMA RunningStarts ==
  ASSUME Shape, NEW k \in Keys, NEW w, worker' = [worker EXCEPT ![k] = w],
         ~Runs(worker[k]), Runs(w)
  PROVE  Running' = Running \cup {w.op}
<1>1. \A j \in Keys : worker'[j] = IF j = k THEN w ELSE worker[j]
  BY DEF Shape, StateTypeOK
<1>2. Running = {worker[j].op : j \in {i \in Keys : Runs(worker[i])}}
  BY DEF Running, Runs, At
<1>3. Running' = {worker'[j].op : j \in {i \in Keys : Runs(worker'[i])}}
  BY DEF Running, Runs, At
<1> QED
  BY <1>1, <1>2, <1>3

LEMMA RunningEnds ==
  ASSUME Shape, NoOpLostOrDuplicated, NEW k \in Keys, worker' = [worker EXCEPT ![k] = Idle],
         Runs(worker[k])
  PROVE  Running' = Running \ {worker[k].op} /\ worker[k].op \in Running
<1>1. \A j \in Keys : worker'[j] = IF j = k THEN Idle ELSE worker[j]
  BY DEF Shape, StateTypeOK
<1>2. Running = {worker[j].op : j \in {i \in Keys : Runs(worker[i])}}
  BY DEF Running, Runs, At
<1>3. Running' = {worker'[j].op : j \in {i \in Keys : Runs(worker'[i])}}
  BY DEF Running, Runs, At
<1>4. ~Runs(Idle)
  BY IdleTyped DEF Runs
<1>5. \A j \in Keys : worker[j].op = worker[k].op => j = k
  <2>1. worker[k].op \in Ops /\ k \in HeldBy(worker[k].op)
    BY Busy DEF Runs, HeldBy
  <2>2. HeldBy(worker[k].op) = {k}
    BY <2>1, Alone DEF Spot
  <2> QED
    BY <2>2 DEF HeldBy
<1>6. \A x : x \in Running' => x \in Running /\ x # worker[k].op
  BY <1>1, <1>2, <1>3, <1>4, <1>5
<1>7. \A x : x \in Running /\ x # worker[k].op => x \in Running'
  BY <1>1, <1>2, <1>3
<1> QED
  BY <1>2, <1>6, <1>7

Simulates == [Serialized!Next]_(Serialized!vars)

(* A worker that finds the last dependency of its op met, or takes an op    *)
(* that has none, starts it.                                                *)
LEMMA StartSimulates ==
  ASSUME Shape, NoOpLostOrDuplicated, NEW k \in Keys, NEW w, NEW m \in Ops,
         worker' = [worker EXCEPT ![k] = w], w.op = m, WorkerKey(m) = k,
         ~Runs(worker[k]), Runs(w), m \in submitted, m \notin finished,
         \A j \in Keys : worker[j].op = m => j = k,
         m.deps \subseteq landed, UNCHANGED <<submitted, finished, landed>>
  PROVE  Simulates
<1>1. Running' = Running \cup {m}
  BY RunningStarts
<1>2. Running = {worker[j].op : j \in {i \in Keys : Runs(worker[i])}}
  BY DEF Running, Runs, At
<1>3. m \notin Running
  BY <1>2
<1> DEFINE K == [op \in Ops |-> IF op.channel = Null THEN <<"entity", op.entity>>
                                                   ELSE <<"channel", op.channel>>]
<1>4. ASSUME NEW other \in Running PROVE K[other] # K[m]
  <2>1. PICK j \in Keys : Runs(worker[j]) /\ other = worker[j].op
    BY <1>2
  <2>2. other \in Ops /\ WorkerKey(other) = j /\ j # k
    BY <2>1, Busy DEF Runs
  <2>3. /\ other.entity \in Messages <=> other.channel # Null
        /\ m.entity \in Messages <=> m.channel # Null
    BY <2>2, OpsAssumption
  <2>4. K[other] = K[m] => WorkerKey(other) = WorkerKey(m)
    BY <2>2, <2>3 DEF WorkerKey
  <2> QED
    BY <2>2, <2>4
<1>5. Serialized!Start(m)
  BY <1>1, <1>3, <1>4 DEF Serialized!Start
<1> QED
  BY <1>5 DEF Simulates, Serialized!Next

LEMMA FinishSimulates ==
  ASSUME Shape, NoOpLostOrDuplicated, NEW k \in Keys, Runs(worker[k]), Return(k), UNCHANGED landed
  PROVE  Simulates
<1>1. PICK m \in Ops : m = worker[k].op
  BY Busy DEF Runs
<1>2. Running' = Running \ {m} /\ m \in Running /\ finished' = finished \cup {m}
      /\ UNCHANGED <<submitted, landed>>
  BY <1>1, RunningEnds DEF Return
<1>3. Serialized!Finish(m)
  BY <1>2 DEF Serialized!Finish
<1> QED
  BY <1>3 DEF Simulates, Serialized!Next

LEMMA StutterSimulates ==
  ASSUME UNCHANGED <<submitted, finished, landed>>, Running' = Running
  PROVE  Simulates
BY DEF Simulates, Serialized!vars

LEMMA DependencySimulates ==
  ASSUME Shape, NoOpLostOrDuplicated, LandedShape, LandedShape', NEW k \in Keys,
         Take(k) \/ CheckDependency(k) \/ MissDependency(k) \/ Defer(k)
  PROVE  Simulates
<1>1. /\ UNCHANGED <<submitted, finished, landed>>
      /\ worker \in [Keys -> WorkerType] /\ worker[k] \in WorkerType
  BY DEF Take, CheckDependency, MissDependency, Defer, world, sched, Shape, StateTypeOK
<1>2. CASE Take(k)
  <2>1. PICK m \in Ops : m = Head(queue[k]) /\ m \in RangeOf(queue[k])
    BY <1>2, TailElements DEF Take, Shape, StateTypeOK
  <2>2. Spot(m, FALSE, {k}, {}, {}, {}, FALSE) /\ WorkerKey(m) = k
    BY <2>1, Alone DEF QueuedAt, Shape, QueueRouted
  <2>3. PICK w : worker' = [worker EXCEPT ![k] = w] /\ w.op = m /\ w.pc = "deps" /\ w.todo = m.deps
    <3> DEFINE v == [Idle EXCEPT !.pc = "deps", !.op = m, !.todo = m.deps]
    <3>1. worker' = [worker EXCEPT ![k] = v] /\ v.op = m /\ v.pc = "deps" /\ v.todo = m.deps
      BY <1>2, <2>1 DEF Take, Idle
    <3> HIDE DEF v
    <3> QED
      BY <3>1
  <2>4. ~Runs(worker[k])
    BY <1>2 DEF Take, At, Runs
  <2>5. CASE m.deps = {}
    <3>1. Runs(w) /\ m \in submitted /\ m \notin finished /\ HeldBy(m) = {}
      BY <2>2, <2>3, <2>5 DEF Runs, Spot
    <3>2. \A j \in Keys : worker[j].op = m => j = k
      BY <3>1 DEF HeldBy
    <3> QED
      <4>1. /\ worker' = [worker EXCEPT ![k] = w] /\ w.op = m /\ WorkerKey(m) = k
            /\ m.deps \subseteq landed /\ UNCHANGED <<submitted, finished, landed>>
        BY <1>1, <2>2, <2>3, <2>5
      <4> QED
        BY <2>4, <3>1, <3>2, <4>1, StartSimulates
  <2>6. CASE m.deps # {}
    <3>1. ~Runs(w)
      BY <2>3, <2>6 DEF Runs
    <3> QED
      BY <1>1, <2>3, <2>4, <3>1, RunningKept, StutterSimulates
  <2> QED
    BY <2>5, <2>6
<1>3. CASE CheckDependency(k)
  <2>1. PICK d \in worker[k].todo :
          worker' = [worker EXCEPT ![k] = [worker[k] EXCEPT !.todo = worker[k].todo \ {d}]]
    BY <1>3 DEF CheckDependency
  <2>2. PICK m \in Ops : m = worker[k].op
    BY <1>3, Busy DEF CheckDependency, At
  <2>3. Spot(m, FALSE, {}, {k}, {}, {}, FALSE) /\ WorkerKey(m) = k
    BY <1>3, <2>2, Alone, Busy DEF HeldBy, CheckDependency, At
  <2>4. PICK w : worker' = [worker EXCEPT ![k] = w] /\ w.op = m /\ w.pc = "deps"
                 /\ w.todo = worker[k].todo \ {d}
    <3> DEFINE v == [worker[k] EXCEPT !.todo = worker[k].todo \ {d}]
    <3>1. v.op = m /\ v.pc = "deps" /\ v.todo = worker[k].todo \ {d}
      BY <1>1, <1>3, <2>2 DEF CheckDependency, At, WorkerType
    <3> HIDE DEF v
    <3> QED
      BY <2>1, <3>1 DEF v
  <2>5. ~Runs(worker[k])
    BY <1>3, <2>1 DEF CheckDependency, At, Runs
  <2>6. CASE w.todo = {}
    <3>1. Runs(w) /\ m \in submitted /\ m \notin finished /\ HeldBy(m) = {k}
      BY <2>3, <2>4, <2>6 DEF Runs, Spot
    <3>2. \A j \in Keys : worker[j].op = m => j = k
      BY <3>1 DEF HeldBy
    <3>3. m.deps \subseteq landed
      <4>1. worker'[k] = w
        BY <1>1, <2>4
      <4> QED
        BY <1>1, <2>4, <2>6, <4>1 DEF LandedShape
    <3> QED
      <4>1. /\ worker' = [worker EXCEPT ![k] = w] /\ w.op = m /\ WorkerKey(m) = k
            /\ UNCHANGED <<submitted, finished, landed>>
        BY <1>1, <2>3, <2>4
      <4> QED
        BY <2>5, <3>1, <3>2, <3>3, <4>1, StartSimulates
  <2>7. CASE w.todo # {}
    <3>1. ~Runs(w)
      BY <2>4, <2>7 DEF Runs
    <3> QED
      BY <1>1, <2>4, <2>5, <3>1, RunningKept, StutterSimulates
  <2> QED
    BY <2>6, <2>7
<1>4. CASE MissDependency(k)
  <2>1. PICK d \in worker[k].todo :
          worker' = [worker EXCEPT ![k] = [worker[k] EXCEPT !.pc = "defer", !.missing = d]]
    BY <1>1, <1>4 DEF MissDependency
  <2> DEFINE w == [worker[k] EXCEPT !.pc = "defer", !.missing = d]
  <2>2. w.pc = "defer"
    BY <1>1 DEF WorkerType
  <2>3. ~Runs(worker[k]) /\ ~Runs(w)
    BY <1>4, <2>1, <2>2 DEF MissDependency, At, Runs
  <2> HIDE DEF w
  <2> QED
    BY <1>1, <2>1, <2>3, RunningKept, StutterSimulates DEF w
<1>5. CASE Defer(k)
  <2>1. ~Runs(worker[k]) /\ ~Runs(Idle) /\ worker' = [worker EXCEPT ![k] = Idle]
    BY <1>5, IdleTyped DEF Defer, At, Runs
  <2> QED
    BY <1>1, <2>1, RunningKept, StutterSimulates
<1> QED
  BY <1>2, <1>3, <1>4, <1>5

LEMMA ProcessSimulates ==
  ASSUME Shape, NoOpLostOrDuplicated, NEW k \in Keys, Process(k)
  PROVE  Simulates
<1>1. worker \in [Keys -> WorkerType] /\ worker[k] \in WorkerType
  BY DEF Shape, StateTypeOK
<1>2. Runs(worker[k])
  BY DEF Process, Enqueue, LogDryRun, Begin, SkipEqual, Differs, WritePending, WritePendingRefused,
     StoreFails, Apply, RemoteOk, RemoteError, RemoteLost, RemoteLimited, Remove, Confirm,
     TakeWaiters, PushWaiter, Notified, Ready, At, Runs
<1>3. CASE Return(k)
  <2>1. UNCHANGED landed
    <3>1. worker'[k].pc = "idle"
      BY <1>1, <1>3, IdleTyped DEF Return
    <3>2. ~Confirm(k)
      BY <1>1, <3>1 DEF Confirm, Goto, WorkerType
    <3> QED
      BY <1>1, <3>2 DEF Process, Enqueue, LogDryRun, SkipEqual, WritePendingRefused,
         StoreFails, RemoteError, RemoteLost, RemoteLimited, Remove, Notified, Begin, Differs,
         WritePending, Apply, RemoteOk, TakeWaiters, PushWaiter, world
  <2> QED
    BY <1>2, <1>3, <2>1, FinishSimulates
<1>4. CASE ~Return(k)
  <2>1. ASSUME NEW w, worker' = [worker EXCEPT ![k] = w], w.op = worker[k].op,
               w.pc \notin {"idle", "defer", "deps"}
        PROVE  Running' = Running
    BY <1>2, <2>1, RunningKept DEF Runs
  <2>2. ASSUME NEW label, Goto(k, label), label \notin {"idle", "defer", "deps"}
        PROVE  Running' = Running
    <3> DEFINE w == [worker[k] EXCEPT !.pc = label]
    <3>1. worker' = [worker EXCEPT ![k] = w] /\ w.op = worker[k].op /\ w.pc = label
      BY <1>1, <2>2 DEF Goto, WorkerType
    <3> HIDE DEF w
    <3> QED
      BY <2>1, <2>2, <3>1
  <2>3. CASE Confirm(k)
    <3>1. Running' = Running /\ UNCHANGED <<submitted, finished>>
          /\ landed' = landed \cup {worker[k].op.entity}
      BY <2>2, <2>3 DEF Confirm, sched
    <3>2. worker[k].op \in Running /\ worker[k].op \in Ops
      <4>1. Running = {worker[j].op : j \in {i \in Keys : Runs(worker[i])}}
        BY DEF Running, Runs, At
      <4> QED
        BY <1>2, <4>1, Busy DEF Runs
    <3>3. Serialized!Land(worker[k].op)
      BY <3>1, <3>2 DEF Serialized!Land
    <3> QED
      BY <3>2, <3>3 DEF Simulates, Serialized!Next
  <2>4. ASSUME Running' = Running, UNCHANGED <<submitted, finished, landed>> PROVE Simulates
    BY <2>4, StutterSimulates
  <2>5. CASE Begin(k) \/ Differs(k) \/ WritePending(k)
    BY <2>2, <2>4, <2>5 DEF Begin, Differs, WritePending, sched, world
  <2>6. CASE Apply(k)
    <3>1. UNCHANGED <<submitted, finished, landed>>
      BY <2>6 DEF Apply, sched, world
    <3>2. CASE Goto(k, "remove")
      BY <2>2, <2>4, <3>1, <3>2
    <3>3. CASE ~Goto(k, "remove")
      <4>1. PICK c : worker' = [worker EXCEPT ![k] = [worker[k] EXCEPT !.pc = "remote", !.call = c]]
        BY <1>1, <2>6, <3>3 DEF Apply
      <4> DEFINE w == [worker[k] EXCEPT !.pc = "remote", !.call = c]
      <4>2. w.op = worker[k].op /\ w.pc = "remote"
        BY <1>1 DEF WorkerType
      <4> HIDE DEF w
      <4> QED
        BY <2>1, <2>4, <3>1, <4>1, <4>2 DEF w
    <3> QED
      BY <3>2, <3>3
  <2>7. CASE RemoteOk(k)
    <3> DEFINE id == IF worker[k].call.verb = "create" THEN nextId ELSE worker[k].call.id
               label == IF worker[k].op.kind = "delete" THEN "remove" ELSE "confirm"
               w == [worker[k] EXCEPT !.pc = label, !.call.id = id]
    <3>1. worker' = [worker EXCEPT ![k] = w] /\ UNCHANGED <<submitted, finished, landed>>
      BY <1>1, <2>7 DEF RemoteOk, sched, world
    <3>2. w.op = worker[k].op /\ w.pc \notin {"idle", "defer", "deps"}
      BY <1>1 DEF WorkerType
    <3> HIDE DEF w
    <3> QED
      BY <2>1, <2>4, <3>1, <3>2
  <2>8. CASE RemoteLimited(k)
    <3> DEFINE w == [worker[k] EXCEPT !.pc = "apply", !.tries = worker[k].tries + 1, !.call = NoCall]
    <3>1. worker' = [worker EXCEPT ![k] = w] /\ UNCHANGED <<submitted, finished, landed>>
      BY <1>1, <1>4, <2>8 DEF RemoteLimited, sched, world
    <3>2. w.op = worker[k].op /\ w.pc = "apply"
      BY <1>1 DEF WorkerType
    <3> HIDE DEF w
    <3> QED
      BY <2>1, <2>4, <3>1, <3>2
  <2>9. CASE TakeWaiters(k)
    <3> DEFINE w == [worker[k] EXCEPT !.pc = "push", !.pushing = waiters[worker[k].op.entity]]
    <3>1. worker' = [worker EXCEPT ![k] = w] /\ UNCHANGED <<submitted, finished, landed>>
      BY <1>1, <2>9 DEF TakeWaiters, world
    <3>2. w.op = worker[k].op /\ w.pc = "push"
      BY <1>1 DEF WorkerType
    <3> HIDE DEF w
    <3> QED
      BY <2>1, <2>4, <3>1, <3>2
  <2>10. CASE PushWaiter(k)
    <3> DEFINE w == [worker[k] EXCEPT !.pushing = Tail(worker[k].pushing)]
    <3>1. worker' = [worker EXCEPT ![k] = w] /\ UNCHANGED <<submitted, finished, landed>>
      BY <1>1, <2>10 DEF PushWaiter, world
    <3>2. w.op = worker[k].op /\ w.pc = "push"
      BY <1>1, <2>10 DEF PushWaiter, At, WorkerType
    <3> HIDE DEF w
    <3> QED
      BY <2>1, <2>4, <3>1, <3>2
  <2> QED
    BY <1>4, <2>3, <2>5, <2>6, <2>7, <2>8, <2>9, <2>10 DEF Process, Enqueue, LogDryRun, SkipEqual,
       WritePendingRefused, StoreFails, RemoteError, RemoteLost, Remove, Notified
<1> QED
  BY <1>3, <1>4

LEMMA NextSimulates ==
  ASSUME Shape, NoOpLostOrDuplicated, LandedShape, LandedShape', [Next]_vars
  PROVE  Simulates
<1>1. CASE \E op \in Ops : Submit(op)
  <2>1. PICK op \in Ops : Submit(op)
    BY <1>1
  <2>2. worker' = worker /\ landed' = landed
    BY <2>1 DEF Submit, world
  <2>3. Running' = Running
    BY <2>2 DEF Running, At
  <2>4. Serialized!Accept(op)
    BY <2>1, <2>2, <2>3 DEF Submit, Serialized!Accept
  <2> QED
    BY <2>4 DEF Simulates, Serialized!Next
<1>2. CASE \E k \in Keys : Step(k)
  BY <1>2, DependencySimulates, ProcessSimulates DEF Step
<1>3. CASE Gateways \/ Rest \/ UNCHANGED vars \/ \E op \in Ops : Send(op)
  <2>1. UNCHANGED <<worker, submitted, finished, landed>>
    BY <1>3 DEF Gateways, StoatReady, DiscordLost, DiscordBack, Rest, vars, Send, sched, world
  <2>2. Running' = Running
    BY <2>1 DEF Running, At
  <2> QED
    BY <2>1, <2>2, StutterSimulates
<1> QED
  BY <1>1, <1>2, <1>3 DEF Next

(* The queues, the waiter lists and the worker goroutines together keep     *)
(* what Submit promises: each op runs at most once, alone among the ops of  *)
(* its key, and only once everything it depends on has landed.              *)
THEOREM Refinement == Spec => ImplementsSerializedOps
<1>1. Init => Shape /\ NoOpLostOrDuplicated /\ LandedShape
  BY InitShape, InitConserves, InitLanded
<1>2. Shape /\ NoOpLostOrDuplicated /\ LandedShape /\ [Next]_vars
        => Shape' /\ NoOpLostOrDuplicated' /\ LandedShape' /\ Simulates
  BY NextShape, NextConserves, NextLanded, NextSimulates
<1>3. Init => Serialized!Init
  <2> SUFFICES ASSUME Init PROVE Serialized!Init
    OBVIOUS
  <2>1. Running = {}
    BY IdleTyped DEF Init, Running
  <2> QED
    BY <2>1 DEF Init, Serialized!Init
<1> QED
  BY <1>1, <1>2, <1>3, PTL DEF Spec, ImplementsSerializedOps, Serialized!Spec, Simulates
=============================================================================
