--------------------------- MODULE ReconcileProofs ---------------------------
(***************************************************************************)
(* What startup does to the mapping tables and to Stoat: types; which      *)
(* objects Bind may delete; that no two entities get one object, that      *)
(* nothing foreign is left in the end, and that all of Discord is there.   *)
(***************************************************************************)
EXTENDS Reconcile, TLAPS, SequenceTheorems, FiniteSetTheorems

(* What an op of an entity may ask for.                                     *)
OpType   == {Put(look) : look \in Look} \cup {Delete}
OpsOf(e) == {Put(look) : look \in MayShow[e]} \cup {Delete}

BootType ==
  [pc : {"down", "admin", "enter", "entered", "fetched", "claim", "match", "bind", "bound",
         "reap", "live", "repair", "repaired", "up"},
   type : {"none", "channel", "role"}, todo : SUBSET Entities, list : Lists,
   server : SUBSET ObjectType, unmapped : SUBSET Entities, avail : SUBSET ObjectType,
   e : Entities \cup {Null}, id : Nat, state : States \cup {Null}]

WorkerType ==
  [pc : {"idle", "apply", "confirm", "remove"}, kind : {"none", "put", "delete"},
   look : Look \cup {Null}, id : Nat]

Types ==
  /\ want \in Lists /\ gone \subseteq Entities
  /\ rows \in [Entities -> RowType] /\ stoat \subseteq ObjectType /\ nextId \in Nat \ {NoId}
  /\ boot \in BootType
  /\ worker \in [Entities -> WorkerType] /\ queue \in [Entities -> Seq(OpType)]

(* Entities that exist or did: no other has a row or an op.                 *)
Known == DOMAIN want \cup gone

Discord ==
  /\ DOMAIN want \cap gone = {}
  /\ \A e \in DOMAIN want : want[e] \in MayShow[e]

(* The main goroutine is about to write boot.id into the row of boot.e.     *)
Stamping(b) == b.pc \in {"enter", "entered", "bind", "bound", "repair", "repaired"}

BootOk(b) ==
  /\ b.todo \subseteq DOMAIN b.list /\ b.unmapped \subseteq DOMAIN b.list
  /\ b.pc = "claim" \/ b.unmapped = {}
  /\ \A e \in DOMAIN b.list : b.list[e] \in MayShow[e]
  /\ Stamping(b) => b.e \in DOMAIN b.list /\ b.id # NoId /\ b.state \in States
  /\ b.pc \in {"claim", "match", "bind", "bound"} => \A e \in b.todo \cup b.unmapped : EntityType(e) = b.type
  /\ b.pc \in {"down", "admin", "enter", "entered", "up"} => b.avail = {}
  /\ \A o \in b.avail : o.type = b.type /\ \E s \in b.server : s.id = o.id

(* Objects as Stoat has them, or as startup read them: an id has one type.  *)
Seen == stoat \cup boot.server \cup boot.avail

ObjectsOk ==
  /\ \A o \in Seen : o.id < nextId
  /\ \A o, p \in Seen : o.id = p.id => o.type = p.type

EntityOk(e, row, w, ops, known) ==
  /\ Active(row) => row.id # NoId
  /\ Found(row) => e \in known
  /\ w.kind = "put" => w.look \in MayShow[e]
  /\ w.pc = "confirm" => w.id # NoId
  /\ ops \in Seq(OpsOf(e)) /\ (ops # <<>> => e \in known)

EntitiesOk == \A e \in Entities : EntityOk(e, rows[e], worker[e], queue[e], Known)

Shape ==
  /\ Types /\ Discord /\ BootOk(boot) /\ DOMAIN boot.list \subseteq Known
  /\ ObjectsOk /\ EntitiesOk

LEMMA Kinds ==
  /\ Entities = Roles \cup Channels /\ Privileged \subseteq Entities
  /\ \A e \in Entities : /\ EntityType(e) \in {"role", "channel"} /\ e # Null
                         /\ e \in Roles <=> EntityType(e) = "role"
BY LooksAssumption, EntitiesAssumption DEF Entities, EntityType

LEMMA ListTyped ==
  ASSUME NEW l \in Lists
  PROVE  DOMAIN l \subseteq Entities /\ \A e \in DOMAIN l : l[e] \in Look
BY DEF Lists

LEMMA DownTyped == Down \in BootType /\ BootOk(Down) /\ DOMAIN Down.list = {}
<1>1. <<>> \in Lists /\ DOMAIN <<>> = {}
  <2>1. <<>> \in Seq(Look) /\ Len(<<>>) = 0
    BY EmptySeq
  <2>2. <<>> \in [1 .. 0 -> Look]
    BY <2>1
  <2>3. 1 .. 0 = {}
    OBVIOUS
  <2> QED
    BY <2>2, <2>3 DEF Lists
<1>2. /\ Down.pc = "down" /\ Down.todo = {} /\ Down.unmapped = {} /\ Down.avail = {}
      /\ Down.list = <<>>
  BY DEF Down
<1>3. Down \in BootType
  BY <1>1 DEF Down, BootType, NoId
<1>4. BootOk(Down)
  BY <1>1, <1>2 DEF BootOk, Stamping
<1> QED
  BY <1>1, <1>2, <1>3, <1>4

LEMMA IdleTyped == Idle \in WorkerType /\ Idle.pc = "idle" /\ Idle.kind = "none"
BY DEF Idle, WorkerType, NoId

-----------------------------------------------------------------------------
LEMMA InitShape == Init => Shape
<1> SUFFICES ASSUME Init PROVE Shape
  OBVIOUS
<1>1. PICK w \in Worlds : want = w.want /\ rows = w.rows /\ stoat = w.stoat /\ nextId = w.next
  BY DEF Init
<1>2. /\ want \in Lists /\ rows \in [Entities -> RowType]
      /\ stoat \subseteq ObjectType /\ nextId \in Nat \ {NoId}
      /\ \A e \in DOMAIN want : want[e] \in MayShow[e]
  BY <1>1, WorldsAssumption
<1>3. queue \in [Entities -> Seq(OpType)] /\ \A e \in Entities : queue[e] = <<>>
  <2>1. <<>> \in Seq(OpType)
    BY EmptySeq
  <2> QED
    BY <2>1 DEF Init, NoOps
<1>4. Types
  BY <1>2, <1>3, DownTyped, IdleTyped DEF Init, Types
<1>5. ObjectsOk
  <2>1. Seen = stoat
    BY DEF Init, Down, Seen
  <2>2. \A o \in stoat : o.id < nextId
    BY <1>1, WorldsAssumption
  <2>3. \A o, p \in stoat : o.id = p.id => o = p
    BY <1>1, WorldsAssumption
  <2> QED
    BY <2>1, <2>2, <2>3 DEF ObjectsOk
<1>6. EntitiesOk
  <2> SUFFICES ASSUME NEW e \in Entities PROVE EntityOk(e, rows[e], worker[e], queue[e], Known)
    BY DEF EntitiesOk
  <2>1. (Active(rows[e]) => rows[e].id # NoId) /\ (Found(rows[e]) => e \in DOMAIN want)
    BY <1>1, WorldsAssumption
  <2>2. worker[e] = Idle /\ queue[e] \in Seq(OpsOf(e))
    BY <1>3, EmptySeq DEF Init
  <2> QED
    BY <1>3, <2>1, <2>2, IdleTyped DEF EntityOk, Known
<1> QED
  BY <1>2, <1>4, <1>5, <1>6, DownTyped DEF Init, Shape, Discord

-----------------------------------------------------------------------------
(* Startup: what becomes of boot.                                           *)
LEMMA StartupBoot ==
  ASSUME Shape, Startup
  PROVE  boot' \in BootType /\ BootOk(boot') /\ DOMAIN boot'.list \subseteq Known
<1>1. /\ boot \in BootType /\ boot.list \in Lists /\ want \in Lists /\ stoat \subseteq ObjectType
      /\ rows \in [Entities -> RowType] /\ nextId \in Nat \ {NoId}
      /\ BootOk(boot) /\ DOMAIN boot.list \subseteq Known
  BY DEF Shape, Types, BootType
<1>2. boot.list \in Lists /\ DOMAIN boot.list \subseteq Entities
      /\ \A e \in DOMAIN boot.list : boot.list[e] \in Look
  BY <1>1, ListTyped
<1>3. CASE Start
  <2>1. Privileged \cap DOMAIN want \subseteq Entities
    BY <1>1, ListTyped
  <2>2. /\ boot' \in BootType /\ boot'.pc = "admin" /\ boot'.list = want
        /\ boot'.todo = Privileged \cap DOMAIN want /\ boot'.unmapped = {} /\ boot'.avail = {}
    BY <1>1, <1>3, <2>1, DownTyped DEF Start, BootType, Down
  <2> QED
    BY <2>2 DEF BootOk, Known, Shape, Discord, Stamping
<1>4. CASE \E r \in Privileged : KeepAdminRole(r)
  BY <1>1, <1>4 DEF KeepAdminRole, BootType, BootOk, At, Stamping
<1>5. CASE \E r \in Privileged : CreateAdminRole(r)
  <2>1. PICK r \in Privileged : CreateAdminRole(r)
    BY <1>5
  <2>2. r \in Entities /\ boot.list[r] \in States
    BY <1>1, <1>2, <2>1, Kinds, LooksAssumption DEF CreateAdminRole, BootOk
  <2> QED
    BY <1>1, <2>1, <2>2 DEF CreateAdminRole, BootType, BootOk, At, Stamping
<1>6. CASE FetchServer
  <2>1. /\ boot' \in BootType /\ boot'.pc = "fetched" /\ boot'.list = boot.list /\ boot'.todo = boot.todo
        /\ boot'.unmapped = boot.unmapped /\ boot'.avail = boot.avail
    BY <1>1, <1>6 DEF FetchServer, BootType
  <2> QED
    BY <1>1, <1>6, <2>1 DEF FetchServer, BootOk, At, Stamping
<1>7. CASE FetchChannels \/ BindRoles
  <2>1. PICK type \in {"channel", "role"}, items \in SUBSET ObjectType :
          /\ BeginPass(type, items)
          /\ \A o \in items : o.type = type /\ \E s \in boot.server : s.id = o.id
    <3>1. CASE BindRoles
      <4>1. Exists("role") \in SUBSET ObjectType
        BY <1>1 DEF Exists, BootType
      <4> QED
        BY <3>1, <4>1 DEF BindRoles, Exists
    <3>2. CASE FetchChannels
      <4> DEFINE had == {o \in stoat : \E s \in Exists("channel") : s.id = o.id}
      <4>1. PICK items \in SUBSET had : BeginPass("channel", items)
        <5>1. had \in SUBSET had /\ \A o \in had : had \ {o} \in SUBSET had
          OBVIOUS
        <5> HIDE DEF had
        <5> QED
          BY <3>2, <5>1 DEF FetchChannels, had
      <4>2. \A o \in had : o.type = "channel" /\ \E s \in boot.server : s.id = o.id
        BY DEF Exists, Shape, ObjectsOk, Seen
      <4>3. items \in SUBSET ObjectType
        BY <1>1
      <4> QED
        BY <4>1, <4>2, <4>3
    <3> QED
      BY <1>7, <3>1, <3>2
  <2>2. OfType(type) \subseteq DOMAIN boot.list /\ \A e \in OfType(type) : EntityType(e) = type
    BY DEF OfType
  <2>3. boot.unmapped = {}
    BY <1>1, <1>7 DEF BootOk, FetchChannels, BindRoles, At
  <2>4. /\ boot' \in BootType /\ boot'.pc = "claim" /\ boot'.type = type
        /\ boot'.todo = OfType(type) /\ boot'.avail = items /\ boot'.unmapped = boot.unmapped
        /\ boot'.list = boot.list /\ boot'.server = boot.server
    BY <1>1, <1>2, <2>1, <2>2 DEF BeginPass, BootType
  <2> QED
    BY <1>1, <2>1, <2>2, <2>3, <2>4 DEF BootOk, Stamping
<1>8. CASE \E e \in Entities : Claim(e) \/ ClearDead(e) \/ FindUnmapped(e)
  <2>1. PICK e \in Entities : Claim(e) \/ ClearDead(e) \/ FindUnmapped(e)
    BY <1>8
  <2>2. /\ boot' \in BootType /\ boot'.pc = "claim" /\ boot'.type = boot.type
        /\ boot'.todo \subseteq boot.todo /\ boot'.unmapped \subseteq boot.unmapped \cup {e}
        /\ boot'.avail \subseteq boot.avail
        /\ boot'.list = boot.list /\ boot'.server = boot.server
    <3>1. CASE Claim(e)
      BY <1>1, <3>1 DEF Claim, At, BootType
    <3>2. CASE ClearDead(e) \/ FindUnmapped(e)
      <4>1. boot' = [boot EXCEPT !.todo = @ \ {e}, !.unmapped = @ \cup {e}] /\ boot.pc = "claim"
        BY <3>2 DEF ClearDead, FindUnmapped, At
      <4> QED
        BY <1>1, <4>1 DEF BootType
    <3> QED
      BY <2>1, <3>1, <3>2
  <2>3. e \in boot.todo /\ At("claim")
    BY <2>1 DEF Claim, ClearDead, FindUnmapped
  <2> QED
    BY <1>1, <2>2, <2>3 DEF BootOk, Stamping, At
<1>9. CASE BeginMatch
  <2>1. /\ boot' \in BootType /\ boot'.pc = "match" /\ boot'.todo = boot.unmapped
        /\ boot'.unmapped = {} /\ boot'.avail = boot.avail /\ boot'.type = boot.type
        /\ boot'.list = boot.list /\ boot'.server = boot.server
    BY <1>1, <1>9 DEF BeginMatch, BootType
  <2> QED
    BY <1>1, <1>9, <2>1 DEF BeginMatch, BootOk, Stamping, At
<1>19. CASE BeginReap
  BY <1>1, <1>19 DEF BeginReap, BootType, BootOk, Stamping, At
<1>10. CASE ConvergeAll
  <2>1. /\ boot' \in BootType /\ boot'.pc = "up" /\ boot'.list = Down.list /\ boot'.todo = {}
        /\ boot'.unmapped = {} /\ boot'.avail = {}
    BY <1>10, DownTyped DEF ConvergeAll, BootType, Down
  <2> QED
    BY <2>1, DownTyped DEF BootOk, Stamping
<1>11. CASE \E e \in Entities : Adopt(e)
  <2>1. PICK e \in Entities, o \in boot.avail :
          /\ e \in boot.todo /\ At("match")
          /\ boot' = [boot EXCEPT !.pc = "bind", !.todo = @ \ {e}, !.e = e, !.id = o.id,
                                  !.state = Empty]
    BY <1>11 DEF Adopt, Candidates
  <2>2. o.id \in Nat \ {NoId} /\ Empty \in States
    BY <1>1, LooksAssumption DEF BootType, ObjectType
  <2>3. /\ boot' \in BootType /\ boot'.pc = "bind" /\ boot'.todo \subseteq boot.todo
        /\ boot'.e = e /\ boot'.id = o.id /\ boot'.state = Empty
        /\ boot'.list = boot.list /\ boot'.server = boot.server /\ boot'.avail = boot.avail
        /\ boot'.type = boot.type /\ boot'.unmapped = boot.unmapped
    BY <1>1, <2>1, <2>2 DEF BootType
  <2> QED
    BY <1>1, <2>1, <2>2, <2>3 DEF BootOk, Stamping, At
<1>15. CASE \E e \in Entities : SkipBind(e)
  BY <1>1, <1>15 DEF SkipBind, BootType, BootOk, Stamping, At
<1>16. CASE StampPending
  <2>1. /\ boot' \in BootType /\ Stamping(boot')
        /\ boot'.pc \in {"admin", "enter", "entered"} => boot.pc \in {"admin", "enter", "entered"}
        /\ boot'.pc \notin {"claim", "match", "down", "up", "bind"}
        /\ boot'.pc = "bound" => boot.pc = "bind"
        /\ boot'.e = boot.e /\ boot'.id = boot.id /\ boot'.state = boot.state
        /\ boot'.list = boot.list /\ boot'.server = boot.server /\ boot'.avail = boot.avail
        /\ boot'.todo = boot.todo /\ boot'.type = boot.type /\ boot'.unmapped = boot.unmapped
    BY <1>1, <1>16 DEF StampPending, BootType, Stamping, At
  <2> QED
    BY <1>1, <1>16, <2>1 DEF BootOk, Stamping, StampPending
<1>17. CASE StampConfirm
  <2>1. /\ boot' \in BootType /\ ~Stamping(boot') /\ boot'.pc \in {"admin", "match", "live"}
        /\ boot'.pc = "match" => boot.pc = "bound"
        /\ boot'.pc = "admin" => boot.pc = "entered"
        /\ boot'.list = boot.list /\ boot'.server = boot.server /\ boot'.avail \subseteq boot.avail
        /\ boot'.todo = boot.todo /\ boot'.type = boot.type /\ boot'.unmapped = boot.unmapped
    BY <1>1, <1>17 DEF StampConfirm, BootType, Stamping, At, NoId
  <2> QED
    BY <1>1, <1>17, <2>1 DEF BootOk, Stamping, StampConfirm
<1>12. CASE \E o \in boot.avail : Reap(o)
  BY <1>1, <1>12 DEF Reap, BootType, BootOk, Stamping, At
<1>13. CASE FetchLive
  BY <1>1, <1>2, <1>13 DEF FetchLive, BootType, BootOk, Stamping, At
<1>14. CASE \E e \in Entities : VerifyLive(e)
  <2>1. PICK e \in Entities, o \in stoat \cup boot.server, s \in States :
          /\ e \in boot.todo /\ At("live")
          /\ boot' = [boot EXCEPT !.pc = "repair", !.todo = @ \ {e}, !.e = e, !.id = o.id,
                                  !.state = s]
    <3>1. PICK e \in Entities : VerifyLive(e)
      BY <1>14
    <3>2. boot.list[e] \in States /\ Empty \in States
      BY <1>1, <1>2, <3>1, LooksAssumption DEF VerifyLive, BootOk
    <3> QED
      BY <3>1, <3>2 DEF VerifyLive, LiveObjects
  <2>2. o.id \in Nat \ {NoId}
    BY <1>1 DEF BootType, ObjectType
  <2>3. /\ boot' \in BootType /\ boot'.pc = "repair" /\ boot'.todo \subseteq boot.todo
        /\ boot'.e = e /\ boot'.id = o.id /\ boot'.state = s
        /\ boot'.list = boot.list /\ boot'.server = boot.server /\ boot'.avail = boot.avail
        /\ boot'.type = boot.type /\ boot'.unmapped = boot.unmapped
    BY <1>1, <2>1, <2>2 DEF BootType
  <2> QED
    BY <1>1, <2>1, <2>2, <2>3 DEF BootOk, Stamping, At
<1>18. CASE \E e \in Entities : SkipLive(e)
  BY <1>1, <1>18 DEF SkipLive, BootType, BootOk, Stamping, At
<1> QED
  BY <1>3, <1>4, <1>5, <1>6, <1>7, <1>8, <1>9, <1>10, <1>11, <1>12, <1>13, <1>14, <1>15, <1>16,
     <1>17, <1>18, <1>19 DEF Startup, Bind, ReconcileLive

-----------------------------------------------------------------------------
(* What the actions leave alone.                                            *)
LEMMA Frames ==
  ASSUME Next
  PROVE  /\ Startup => UNCHANGED <<discord, worker, crashesLeft>> /\ (ConvergeAll \/ UNCHANGED queue)
         /\ \A e \in Entities : Process(e) => UNCHANGED <<discord, boot, crashesLeft>>
         /\ \A e \in Entities : Change(e) \/ Vanish(e) =>
              UNCHANGED <<rows, remote, boot, worker, crashesLeft>>
         /\ Crash => UNCHANGED <<discord, rows, remote>>
BY DEF Startup, Start, Bind, ReconcileLive, ConvergeAll, StampPending, StampConfirm, KeepAdminRole,
   CreateAdminRole, FetchServer, FetchChannels, BeginMatch, BeginReap, BindRoles, Claim, ClearDead,
   FindUnmapped, Adopt, SkipBind, Reap, FetchLive, VerifyLive, SkipLive, Process, Skip,
   WritePending, BeginDelete, Create, Edit, DeleteObject, OpFails, Confirm, Remove, Change, Vanish,
   Crash, engine, remote

(* Which actions write rows, and which touch Stoat.                         *)
LEMMA Writers ==
  ASSUME Next
  PROVE  /\ \/ UNCHANGED rows
            \/ StampPending \/ StampConfirm
            \/ \E e \in Entities : ClearDead(e) \/ WritePending(e) \/ Confirm(e) \/ Remove(e)
         /\ \/ UNCHANGED remote
            \/ \E r \in Privileged : CreateAdminRole(r)
            \/ \E o \in boot.avail : Reap(o)
            \/ \E e \in Entities : CreateEffect(e) \/ EditEffect(e) \/ DeleteEffect(e)
<1>1. CASE Startup
  <2>1. CASE StampPending \/ StampConfirm
    BY <2>1 DEF StampPending, StampConfirm
  <2>2. CASE Start \/ FetchServer \/ FetchChannels \/ BeginMatch \/ BeginReap \/ BindRoles
             \/ FetchLive \/ ConvergeAll
    BY <2>2 DEF Start, FetchServer, FetchChannels, BeginMatch, BeginReap, BindRoles, FetchLive,
       ConvergeAll
  <2>3. CASE \E e \in Entities : \/ Claim(e) \/ ClearDead(e) \/ FindUnmapped(e) \/ Adopt(e)
                                 \/ SkipBind(e) \/ VerifyLive(e) \/ SkipLive(e)
    BY <2>3 DEF Claim, ClearDead, FindUnmapped, Adopt, SkipBind, VerifyLive, SkipLive
  <2>4. CASE \E o \in boot.avail : Reap(o)
    BY <2>4 DEF Reap
  <2>5. CASE \E r \in Privileged : KeepAdminRole(r) \/ CreateAdminRole(r)
    BY <2>5 DEF KeepAdminRole, CreateAdminRole
  <2> QED
    BY <1>1, <2>1, <2>2, <2>3, <2>4, <2>5 DEF Startup, Bind, ReconcileLive
<1>2. CASE \E e \in Entities : Process(e)
  BY <1>2 DEF Process, Skip, WritePending, BeginDelete, Create, Edit, DeleteObject, OpFails,
     Confirm, Remove, remote
<1>3. CASE Crash \/ \E e \in Entities : Change(e) \/ Vanish(e)
  BY <1>3 DEF Crash, Change, Vanish
<1> QED
  BY <1>1, <1>2, <1>3 DEF Next

LEMMA RowsStep ==
  ASSUME Shape, Next
  PROVE  /\ rows' \in [Entities -> RowType]
         /\ \A e \in Entities :
              /\ \/ rows'[e].id \in {rows[e].id, NoId}
                 \/ worker[e].pc = "confirm" /\ rows'[e].id = worker[e].id
                 \/ Stamping(boot) /\ boot.e = e /\ rows'[e].id = boot.id
              /\ Active(rows'[e]) => rows'[e].id # NoId
              /\ Found(rows'[e]) => e \in Known
<1>1. /\ rows \in [Entities -> RowType] /\ worker \in [Entities -> WorkerType]
      /\ boot \in BootType /\ BootOk(boot) /\ DOMAIN boot.list \subseteq Known
      /\ queue \in [Entities -> Seq(OpType)] /\ \A d \in Entities : rows[d] \in RowType
      /\ \A d \in Entities : EntityOk(d, rows[d], worker[d], queue[d], Known)
  BY DEF Shape, Types, EntitiesOk
<1>2. Absent \in RowType /\ Absent.id = NoId /\ ~Found(Absent)
  BY DEF Absent, RowType, NoId, Found
<1>3. CASE UNCHANGED rows
  BY <1>1, <1>3 DEF EntityOk
<1>4. CASE StampPending
  <2>1. boot.e \in Entities /\ boot.e \in Known /\ boot.state \in States
    BY <1>1, <1>4, ListTyped DEF StampPending, BootOk, Stamping, BootType
  <2> DEFINE new == PendingStructureRow(rows[boot.e], boot.state)
  <2>2. new \in RowType /\ new.id = rows[boot.e].id /\ ~Active(new)
    BY <1>1, <2>1 DEF PendingStructureRow, RowType, Active
  <2> HIDE DEF new
  <2>3. rows' = [rows EXCEPT ![boot.e] = new]
    BY <1>4 DEF StampPending, new
  <2> QED
    BY <1>1, <2>1, <2>2, <2>3 DEF EntityOk
<1>5. CASE StampConfirm
  <2>1. boot.e \in Entities /\ boot.e \in Known /\ boot.id \in Nat /\ boot.id # NoId /\ Stamping(boot)
    BY <1>1, <1>5, ListTyped DEF StampConfirm, BootOk, Stamping, BootType
  <2> DEFINE new == ConfirmedRow(rows[boot.e], boot.id)
  <2>2. new \in RowType /\ (new = rows[boot.e] \/ new.id = boot.id)
    <3>1. rows[boot.e] \in RowType
      BY <1>1, <2>1
    <3> QED
      BY <2>1, <3>1 DEF ConfirmedRow, RowType
  <2> HIDE DEF new
  <2>3. rows' = [rows EXCEPT ![boot.e] = new]
    BY <1>5 DEF StampConfirm, new
  <2> QED
    BY <1>1, <2>1, <2>2, <2>3 DEF EntityOk
<1>6. CASE \E d \in Entities : ClearDead(d) \/ Remove(d)
  <2>1. PICK d \in Entities : rows' = [rows EXCEPT ![d] = Absent]
    BY <1>6 DEF ClearDead, Remove
  <2> QED
    BY <1>1, <1>2, <2>1 DEF EntityOk, Active, Found
<1>7. CASE \E d \in Entities : WritePending(d)
  <2>1. PICK d \in Entities : WritePending(d)
    BY <1>7
  <2>2. Head(queue[d]) \in OpType /\ d \in Known
    BY <1>1, <2>1, HeadTailProperties DEF WritePending, Next1, EntityOk
  <2>3. Head(queue[d]).look \in Look
    BY <2>1, <2>2 DEF WritePending, OpType, Put, Delete
  <2> DEFINE new == PendingStructureRow(rows[d], Head(queue[d]).look)
  <2>4. new \in RowType /\ new.id = rows[d].id /\ ~Active(new)
    BY <1>1, <2>3, LooksAssumption DEF PendingStructureRow, RowType, Active
  <2> HIDE DEF new
  <2>5. rows' = [rows EXCEPT ![d] = new]
    BY <2>1 DEF WritePending, new
  <2> QED
    BY <1>1, <2>2, <2>4, <2>5 DEF EntityOk
<1>8. CASE \E d \in Entities : Confirm(d)
  <2>1. PICK d \in Entities : Confirm(d)
    BY <1>8
  <2>2. worker[d].pc = "confirm" /\ worker[d].id \in Nat /\ worker[d].id # NoId
    BY <1>1, <2>1 DEF Confirm, EntityOk, WorkerType
  <2> DEFINE new == ConfirmedRow(rows[d], worker[d].id)
  <2>3. new \in RowType /\ (new = rows[d] \/ new.id = worker[d].id) /\ (Found(new) => Found(rows[d]))
    BY <1>1, <2>2 DEF ConfirmedRow, RowType
  <2> HIDE DEF new
  <2>4. rows' = [rows EXCEPT ![d] = new]
    BY <2>1 DEF Confirm, new
  <2> QED
    BY <1>1, <2>2, <2>3, <2>4 DEF EntityOk
<1> QED
  BY <1>3, <1>4, <1>5, <1>6, <1>7, <1>8, Writers

LEMMA DiscordStep ==
  ASSUME Shape, Next
  PROVE  want' \in Lists /\ gone' \subseteq Entities /\ Discord' /\ Known \subseteq Known'
<1>1. /\ want \in Lists /\ gone \subseteq Entities /\ Discord /\ DOMAIN want \subseteq Entities
      /\ \A d \in DOMAIN want : want[d] \in Look
  BY ListTyped DEF Shape, Types
<1>2. CASE UNCHANGED <<want, gone>>
  BY <1>1, <1>2 DEF Discord, Known
<1>3. CASE \E e \in Entities : Change(e)
  <2>1. PICK e \in Entities, look \in Look :
          /\ look \in MayShow[e] /\ e \notin gone /\ gone' = gone
          /\ want' = [x \in DOMAIN want \cup {e} |-> IF x = e THEN look ELSE want[x]]
    BY <1>3, LooksAssumption DEF Change
  <2>3. want' \in [DOMAIN want \cup {e} -> Look] /\ DOMAIN want' = DOMAIN want \cup {e}
    BY <1>1, <2>1
  <2> QED
    BY <1>1, <2>1, <2>3 DEF Discord, Known, Lists
<1>4. CASE \E e \in Entities : Vanish(e)
  <2>1. PICK e \in Entities :
          gone' = gone \cup {e} /\ want' = [x \in DOMAIN want \ {e} |-> want[x]]
    BY <1>4 DEF Vanish
  <2>2. want' \in [DOMAIN want \ {e} -> Look] /\ DOMAIN want' = DOMAIN want \ {e}
    BY <1>1, <2>1
  <2> QED
    BY <1>1, <2>1, <2>2 DEF Discord, Known, Lists
<1> QED
  BY <1>2, <1>3, <1>4, Frames DEF Next, discord

LEMMA QueueStep ==
  ASSUME Shape, Next
  PROVE  /\ queue' \in [Entities -> Seq(OpType)]
         /\ \A e \in Entities : queue'[e] \in Seq(OpsOf(e)) /\ (queue'[e] # <<>> => e \in Known')
<1>1. /\ queue \in [Entities -> Seq(OpType)] /\ Known \subseteq Known'
      /\ \A d \in Entities : queue[d] \in Seq(OpsOf(d)) /\ (queue[d] # <<>> => d \in Known)
  BY DiscordStep DEF Shape, Types, EntitiesOk, EntityOk
<1>2. \A d \in Entities : OpsOf(d) \subseteq OpType
  BY LooksAssumption DEF OpsOf, OpType
<1>3. CASE UNCHANGED queue
  BY <1>1, <1>3
<1>4. CASE ConvergeAll
  <2>1. \A d \in DOMAIN want : Put(want[d]) \in OpsOf(d)
    BY DEF Shape, Discord, OpsOf
  <2>2. \A d \in DOMAIN want : Append(queue[d], Put(want[d])) \in Seq(OpsOf(d))
    <3>1. DOMAIN want \subseteq Entities
      BY ListTyped DEF Shape, Types
    <3> QED
      BY <1>1, <2>1, <3>1, AppendProperties
  <2>3. queue' = [d \in Entities |-> IF d \in DOMAIN want THEN Append(queue[d], Put(want[d]))
                                                        ELSE queue[d]]
        /\ UNCHANGED <<want, gone>>
    BY <1>4 DEF ConvergeAll, discord
  <2>4. \A d \in Entities : queue'[d] \in Seq(OpsOf(d)) /\ (queue'[d] # <<>> => d \in Known)
    BY <1>1, <2>2, <2>3 DEF Known
  <2>5. \A d \in Entities : queue'[d] \in Seq(OpType)
    BY <1>2, <2>4
  <2> QED
    BY <1>1, <2>3, <2>4, <2>5
<1>5. CASE \E d \in Entities : Change(d) \/ Vanish(d)
  <2>1. PICK d \in Entities : d \in Known' /\ \E op \in OpsOf(d) : Notice(d, op)
    <3>1. PICK d \in Entities : Change(d) \/ Vanish(d)
      BY <1>5
    <3>2. CASE Change(d)
      <4>1. PICK look \in MayShow[d] : Notice(d, Put(look)) /\ d \in DOMAIN want'
        BY <3>2 DEF Change
      <4> QED
        BY <4>1 DEF OpsOf, Known
    <3>3. CASE Vanish(d)
      BY <3>3 DEF Vanish, OpsOf, Known
    <3> QED
      BY <3>1, <3>2, <3>3
  <2>4. PICK op \in OpsOf(d) : Notice(d, op)
    BY <2>1
  <2>2. Append(queue[d], op) \in Seq(OpsOf(d)) /\ Append(queue[d], op) \in Seq(OpType)
    BY <1>1, <1>2, AppendProperties
  <2>3. queue' = queue \/ queue' = [queue EXCEPT ![d] = Append(queue[d], op)]
    BY <2>4 DEF Notice
  <2> QED
    BY <1>1, <2>1, <2>2, <2>3
<1>6. CASE Crash
  <2>1. queue' = [d \in Entities |-> <<>>]
    BY <1>6 DEF Crash, NoOps
  <2> QED
    BY <2>1, EmptySeq
<1>7. CASE \E d \in Entities : Process(d)
  <2>1. PICK d \in Entities : queue' = queue \/ (queue[d] # <<>> /\ queue' = [queue EXCEPT ![d] = Tail(@)])
    BY <1>7 DEF Process, Skip, WritePending, BeginDelete, Create, Edit, DeleteObject, OpFails,
       Confirm, Remove, Next1
  <2>2. queue[d] # <<>> => Tail(queue[d]) \in Seq(OpsOf(d)) /\ Tail(queue[d]) \in Seq(OpType)
    BY <1>1, HeadTailProperties
  <2> QED
    BY <1>1, <2>1, <2>2
<1> QED
  BY <1>3, <1>4, <1>5, <1>6, <1>7, Frames DEF Next

LEMMA WorkerStep ==
  ASSUME Shape, Next
  PROVE  /\ worker' \in [Entities -> WorkerType]
         /\ \A e \in Entities :
              /\ worker'[e].kind = "put" => worker'[e].look \in MayShow[e]
              /\ worker'[e].pc = "confirm" =>
                   /\ worker'[e].id # NoId
                   /\ \/ worker[e].pc = "confirm" /\ worker'[e].id = worker[e].id
                      \/ Create(e) /\ worker'[e].id = nextId
                      \/ worker'[e].id = rows[e].id
<1>1. /\ worker \in [Entities -> WorkerType] /\ queue \in [Entities -> Seq(OpType)]
      /\ rows \in [Entities -> RowType] /\ nextId \in Nat \ {NoId}
      /\ \A d \in Entities : EntityOk(d, rows[d], worker[d], queue[d], Known)
      /\ \A d \in Entities : worker[d] \in WorkerType
  BY DEF Shape, Types, EntitiesOk
<1>2. CASE UNCHANGED worker
  BY <1>1, <1>2 DEF EntityOk
<1>3. CASE Crash
  BY <1>3, IdleTyped DEF Crash
<1>4. CASE \E d \in Entities : Process(d) /\ ~Skip(d)
  <2>1. PICK d \in Entities : Process(d) /\ ~Skip(d)
    BY <1>4
  <2>2. PICK w \in WorkerType :
          /\ Step(d, w) /\ (w.kind = "put" => w.look \in MayShow[d])
          /\ w.pc = "confirm" =>
              /\ w.id # NoId
              /\ \/ worker[d].pc = "confirm" /\ w.id = worker[d].id
                 \/ Create(d) /\ w.id = nextId
                 \/ w.id = rows[d].id
    <3>1. CASE WritePending(d)
      <4>1. Head(queue[d]) \in OpsOf(d)
        BY <1>1, <3>1, HeadTailProperties DEF WritePending, Next1, EntityOk
      <4>2. Head(queue[d]).look \in MayShow[d] /\ Head(queue[d]).look \in Look
        BY <3>1, <4>1, LooksAssumption DEF WritePending, OpsOf, Put, Delete
      <4> DEFINE w == [Idle EXCEPT !.pc = "apply", !.kind = "put", !.look = Head(queue[d]).look]
      <4>3. w \in WorkerType /\ w.pc = "apply" /\ w.look = Head(queue[d]).look
        BY <4>2, IdleTyped DEF WorkerType
      <4>4. Step(d, w)
        BY <3>1 DEF WritePending
      <4> HIDE DEF w
      <4> QED
        BY <4>2, <4>3, <4>4
    <3>2. CASE BeginDelete(d)
      <4> DEFINE w == [Idle EXCEPT !.pc = "apply", !.kind = "delete"]
      <4>1. w \in WorkerType /\ w.pc = "apply" /\ w.kind = "delete"
        BY IdleTyped DEF WorkerType
      <4> QED
        BY <3>2, <4>1 DEF BeginDelete
    <3>3. CASE Create(d)
      <4> DEFINE w == [worker[d] EXCEPT !.pc = "confirm", !.id = nextId]
      <4>1. w \in WorkerType /\ w.id = nextId /\ w.kind = worker[d].kind /\ w.look = worker[d].look
        BY <1>1 DEF WorkerType
      <4>2. Step(d, w) /\ nextId # NoId
        BY <1>1, <3>3 DEF Create
      <4> HIDE DEF w
      <4> QED
        BY <1>1, <3>3, <4>1, <4>2 DEF EntityOk
    <3>4. CASE Edit(d)
      <4> DEFINE w == [worker[d] EXCEPT !.pc = "confirm", !.id = rows[d].id]
      <4>1. rows[d].id \in Nat /\ rows[d].id # NoId
        BY <1>1, <3>4 DEF Edit, EditEffect, HasStoatEntity, RowType
      <4>2. w \in WorkerType /\ w.id = rows[d].id /\ w.kind = worker[d].kind /\ w.look = worker[d].look
        BY <1>1, <4>1 DEF WorkerType
      <4>3. Step(d, w)
        BY <3>4 DEF Edit
      <4> HIDE DEF w
      <4> QED
        BY <1>1, <4>1, <4>2, <4>3 DEF EntityOk
    <3>5. CASE DeleteObject(d)
      <4> DEFINE w == [worker[d] EXCEPT !.pc = "remove"]
      <4>1. w \in WorkerType /\ w.pc = "remove" /\ w.kind = worker[d].kind /\ w.look = worker[d].look
        BY <1>1 DEF WorkerType
      <4>2. Step(d, w)
        BY <3>5 DEF DeleteObject
      <4> HIDE DEF w
      <4> QED
        BY <1>1, <4>1, <4>2 DEF EntityOk
    <3>6. CASE OpFails(d) \/ Confirm(d) \/ Remove(d)
      BY <3>6, IdleTyped DEF OpFails, Confirm, Remove
    <3> QED
      BY <2>1, <3>1, <3>2, <3>3, <3>4, <3>5, <3>6 DEF Process
  <2>3. worker' = [worker EXCEPT ![d] = w]
    BY <2>2 DEF Step
  <2> QED
    BY <1>1, <2>2, <2>3 DEF EntityOk
<1>5. ASSUME NEW d \in Entities, Skip(d) PROVE UNCHANGED worker
  BY <1>5 DEF Skip
<1> QED
  BY <1>2, <1>3, <1>4, <1>5, Frames DEF Next

-----------------------------------------------------------------------------
(* Who may write an id into e's row, or has: the row, the worker that is    *)
(* about to confirm, the main goroutine that is.                            *)
Holds(e, id) ==
  \/ id = rows[e].id
  \/ worker[e].pc = "confirm" /\ id = worker[e].id
  \/ Stamping(boot) /\ boot.e = e /\ id = boot.id

(* The steps that make an object for e, and those that then hold its id.    *)
Made(e)     == CreateEffect(e) \/ (e \in Privileged /\ CreateAdminRole(e))
Acquires(e) == Create(e) \/ (e \in Privileged /\ CreateAdminRole(e))

(* An id comes into e's hands by a create, or by being adopted.             *)
LEMMA HoldsStep ==
  ASSUME Shape, Next, NEW e \in Entities, NEW id, Holds(e, id)', id # NoId
  PROVE  \/ Holds(e, id)
         \/ Acquires(e) /\ id = nextId /\ nextId' = nextId + 1
         \/ Adopt(e) /\ At("match") /\ e \in boot.todo /\ \E o \in Candidates(e) : o.id = id
<1>1. CASE id = rows'[e].id
  BY <1>1, RowsStep DEF Holds
<1>2. CASE worker'[e].pc = "confirm" /\ id = worker'[e].id
  BY <1>2, WorkerStep DEF Holds, Acquires, Create, CreateEffect
<1>3. CASE Stamping(boot') /\ boot'.e = e /\ id = boot'.id
  <2>1. CASE UNCHANGED boot
    BY <1>3, <2>1 DEF Holds
  <2>2. CASE Crash
    BY <1>3, <2>2 DEF Crash, Down, Stamping
  <2>3. CASE Startup
    <3> USE DEF Stamping
    <3>0. boot \in BootType
      BY DEF Shape, Types
    <3>1. CASE \E r \in Privileged : CreateAdminRole(r)
      <4>1. PICK r \in Privileged : CreateAdminRole(r)
        BY <3>1
      <4>2. boot'.e = r /\ boot'.id = nextId /\ nextId' = nextId + 1
        BY <3>0, <4>1 DEF CreateAdminRole, BootType
      <4> QED
        BY <1>3, <4>1, <4>2 DEF Acquires
    <3>2. CASE \E d \in Entities : Adopt(d)
      <4>1. PICK d \in Entities : Adopt(d)
        BY <3>2
      <4>2. PICK o \in Candidates(d) :
              boot' = [boot EXCEPT !.pc = "bind", !.todo = @ \ {d}, !.e = d, !.id = o.id,
                                   !.state = Empty]
        BY <4>1 DEF Adopt
      <4>3. boot'.e = d /\ boot'.id = o.id
        BY <3>0, <4>2 DEF BootType
      <4> QED
        BY <1>3, <4>1, <4>2, <4>3 DEF Adopt
    <3>3. CASE \E d \in Entities : VerifyLive(d)
      <4>1. PICK d \in Entities : VerifyLive(d)
        BY <3>3
      <4>2. boot'.e = d /\ boot'.id = rows[d].id
        BY <3>0, <4>1 DEF VerifyLive, LiveObjects, BootType
      <4> QED
        BY <1>3, <4>2 DEF Holds
    <3>4. CASE StampPending
      <4>1. boot'.e = boot.e /\ boot'.id = boot.id
        BY <3>0, <3>4 DEF StampPending, BootType
      <4> QED
        BY <1>3, <3>4, <4>1 DEF StampPending, Holds
    <3>5. CASE Start \/ ConvergeAll \/ StampConfirm
      BY <1>3, <3>0, <3>5 DEF Start, ConvergeAll, StampConfirm, Down, BootType, At
    <3>9. CASE FetchServer \/ FetchChannels \/ BeginMatch \/ BeginReap \/ BindRoles \/ FetchLive
      <4>1. boot'.pc \in {"fetched", "claim", "match", "reap", "live"}
        <5>1. CASE FetchServer \/ BeginMatch \/ BeginReap \/ FetchLive
          BY <3>0, <5>1 DEF FetchServer, BeginMatch, BeginReap, FetchLive, BootType
        <5>2. CASE FetchChannels \/ BindRoles
          BY <3>0, <5>2 DEF FetchChannels, BindRoles, BeginPass, BootType
        <5> QED
          BY <3>9, <5>1, <5>2
      <4> QED
        BY <1>3, <4>1
    <3>6. CASE \E d \in Entities : Claim(d) \/ ClearDead(d) \/ FindUnmapped(d) \/ SkipBind(d) \/ SkipLive(d)
      BY <1>3, <3>0, <3>6 DEF Claim, ClearDead, FindUnmapped, SkipBind, SkipLive, BootType, At
    <3>7. CASE \E o \in boot.avail : Reap(o)
      BY <1>3, <3>0, <3>7 DEF Reap, BootType, At
    <3>8. CASE \E r \in Privileged : KeepAdminRole(r)
      BY <1>3, <3>0, <3>8 DEF KeepAdminRole, BootType, At
    <3> QED
      BY <2>3, <3>1, <3>2, <3>3, <3>4, <3>5, <3>6, <3>7, <3>8, <3>9 DEF Startup, Bind, ReconcileLive
  <2> QED
    BY <2>1, <2>2, <2>3, Frames DEF Next
<1> QED
  BY <1>1, <1>2, <1>3 DEF Holds

(* What there is to see was there, maybe by the name its holder gave it, or *)
(* was made by this step.                                                   *)
Carried(p) ==
  \E o \in Seen :
    /\ o.id = p.id /\ o.type = p.type
    /\ o.look.name = p.look.name \/ \E f \in Entities : Holds(f, o.id) /\ p.look.name \in NamesOf(f)

NewObject(e, p) ==
  /\ stoat' = stoat \cup {p}
  /\ p.id = nextId /\ p.type = EntityType(e) /\ p.look.name \in NamesOf(e)

MadeNow(p) == \E f \in Entities : Made(f) /\ NewObject(f, p)

LEMMA MadeIsNew ==
  ASSUME Shape, NEW e \in Entities, Made(e)
  PROVE  \E p \in ObjectType : NewObject(e, p)
<1>1. nextId \in Nat \ {NoId} /\ worker \in [Entities -> WorkerType] /\ BootOk(boot)
      /\ EntityOk(e, rows[e], worker[e], queue[e], Known) /\ EntityType(e) \in {"role", "channel"}
  BY Kinds DEF Shape, Types, EntitiesOk
<1>2. PICK look \in MayShow[e] : stoat' = stoat \cup {Object(nextId, EntityType(e), look)}
  <2>1. CASE CreateEffect(e)
    BY <1>1, <2>1 DEF CreateEffect, Applies, EntityOk
  <2>2. CASE e \in Privileged /\ CreateAdminRole(e)
    BY <1>1, <2>2, Kinds, LooksAssumption DEF CreateAdminRole, BootOk
  <2> QED
    BY <2>1, <2>2 DEF Made
<1>3. look \in Look
  BY LooksAssumption
<1> DEFINE p == Object(nextId, EntityType(e), look)
<1>4. /\ p \in ObjectType /\ p.id = nextId /\ p.type = EntityType(e) /\ p.look.name \in NamesOf(e)
      /\ stoat' = stoat \cup {p}
  BY <1>1, <1>2, <1>3 DEF Object, ObjectType, NamesOf
<1> QED
  BY <1>4 DEF NewObject

LEMMA StoatStep ==
  ASSUME Shape, Next
  PROVE  /\ stoat' \subseteq ObjectType /\ nextId' \in Nat \ {NoId} /\ nextId' >= nextId
         /\ \A f \in Entities : Made(f) => nextId' = nextId + 1
         /\ \A p \in stoat' : Carried(p) \/ MadeNow(p)
<1>1. /\ stoat \subseteq ObjectType /\ nextId \in Nat \ {NoId} /\ worker \in [Entities -> WorkerType]
      /\ \A d \in Entities : EntityOk(d, rows[d], worker[d], queue[d], Known)
      /\ boot \in BootType /\ BootOk(boot)
  BY DEF Shape, Types, EntitiesOk
<1>2. \A p \in stoat : Carried(p)
  BY DEF Carried, Seen
<1>3. \A f \in Entities : Made(f) => nextId' = nextId + 1
  BY DEF Made, CreateEffect, CreateAdminRole
<1>4. ASSUME NEW e \in Entities, Made(e)
      PROVE  /\ stoat' \subseteq ObjectType /\ nextId' \in Nat \ {NoId} /\ nextId' >= nextId
             /\ \A p \in stoat' : Carried(p) \/ MadeNow(p)
  <2>1. PICK o \in ObjectType : NewObject(e, o)
    BY <1>4, MadeIsNew
  <2>2. MadeNow(o) /\ nextId' = nextId + 1
    BY <1>3, <1>4, <2>1 DEF MadeNow
  <2> QED
    BY <1>1, <1>2, <2>1, <2>2 DEF NewObject, NoId
<1>5. CASE UNCHANGED remote
  BY <1>1, <1>2, <1>3, <1>5 DEF remote
<1>6. CASE \E r \in Privileged : CreateAdminRole(r)
  BY <1>3, <1>4, <1>6, Kinds DEF Made
<1>7. CASE \E o \in boot.avail : Reap(o)
  BY <1>1, <1>2, <1>3, <1>7 DEF Reap
<1>8. CASE \E e \in Entities : DeleteEffect(e)
  BY <1>1, <1>2, <1>3, <1>8 DEF DeleteEffect
<1>9. CASE \E e \in Entities : CreateEffect(e)
  BY <1>3, <1>4, <1>9 DEF Made
<1>10. CASE \E e \in Entities : EditEffect(e)
  <2>1. PICK e \in Entities : EditEffect(e)
    BY <1>10
  <2>2. worker[e].look \in MayShow[e] /\ worker[e].look \in Look
    BY <1>1, <2>1, LooksAssumption DEF EditEffect, Applies, EntityOk
  <2>3. ASSUME NEW o \in With(rows[e].id)
        PROVE  Edited(e, o) \in ObjectType /\ Carried(Edited(e, o))
    <3>1. o \in stoat /\ o \in ObjectType /\ o.id = rows[e].id
      BY <1>1 DEF With
    <3>2. /\ Edited(e, o) \in ObjectType /\ Edited(e, o).id = o.id /\ Edited(e, o).type = o.type
          /\ Edited(e, o).look.name = o.look.name \/ Edited(e, o).look.name = worker[e].look.name
      BY <2>2, <3>1 DEF Edited, ObjectType, Look
    <3> QED
      BY <2>2, <3>1, <3>2 DEF Carried, Seen, Holds, NamesOf
  <2> QED
    BY <1>1, <1>2, <1>3, <2>1, <2>3 DEF EditEffect
<1> QED
  BY <1>3, <1>5, <1>6, <1>7, <1>8, <1>9, <1>10, Writers

LEMMA SeenStep ==
  ASSUME Shape, Next, NEW p \in Seen'
  PROVE  Carried(p) \/ MadeNow(p)
<1>1. CASE p \in stoat'
  BY <1>1, StoatStep
<1>2. CASE p \in Seen
  BY <1>2 DEF Carried
<1>3. boot'.server \in {boot.server, stoat, {}} /\ boot'.avail \subseteq boot.avail \cup boot.server \cup stoat
  <2>0. boot \in BootType
    BY DEF Shape, Types
  <2>1. CASE UNCHANGED boot
    BY <2>1
  <2>2. CASE Start \/ ConvergeAll \/ Crash
    <3>1. boot'.server = {} /\ boot'.avail = {}
      <4>1. CASE Start
        BY <4>1 DEF Down, Start
      <4>2. CASE ConvergeAll
        BY <4>2 DEF Down, ConvergeAll
      <4>3. CASE Crash
        BY <4>3 DEF Down, Crash
      <4> QED
        BY <2>2, <4>1, <4>2, <4>3
    <3> QED
      BY <3>1
  <2>3. CASE FetchServer \/ FetchLive \/ BeginMatch \/ BeginReap
    BY <2>0, <2>3 DEF FetchServer, FetchLive, BeginMatch, BeginReap, BootType
  <2>4. CASE StampPending
    BY <2>0, <2>4 DEF StampPending, BootType
  <2>5. CASE StampConfirm
    BY <2>0, <2>5 DEF StampConfirm, BootType
  <2>6. CASE FetchChannels \/ BindRoles
    <3>1. PICK type \in {"channel", "role"}, items \in SUBSET (stoat \cup boot.server) : BeginPass(type, items)
      <4>1. CASE BindRoles
        BY <4>1 DEF BindRoles, Exists
      <4>2. CASE FetchChannels
        <5> DEFINE had == {o \in stoat : \E s \in Exists("channel") : s.id = o.id}
        <5>1. had \in SUBSET stoat /\ \A o \in had : had \ {o} \in SUBSET stoat
          OBVIOUS
        <5> HIDE DEF had
        <5> QED
          BY <4>2, <5>1 DEF FetchChannels, had
      <4> QED
        BY <2>6, <4>1, <4>2
    <3> QED
      BY <2>0, <3>1 DEF BeginPass, BootType
  <2>7. CASE \E d \in Entities : ClearDead(d) \/ FindUnmapped(d) \/ SkipBind(d) \/ VerifyLive(d) \/ SkipLive(d)
    <3>1. boot'.server = boot.server /\ boot'.avail = boot.avail
      <4>1. CASE \E d \in Entities : ClearDead(d) \/ FindUnmapped(d)
        BY <2>0, <4>1 DEF ClearDead, FindUnmapped, BootType
      <4>2. CASE \E d \in Entities : SkipBind(d) \/ SkipLive(d)
        BY <2>0, <4>2 DEF SkipBind, SkipLive, BootType
      <4>3. CASE \E d \in Entities : VerifyLive(d)
        BY <2>0, <4>3 DEF VerifyLive, BootType
      <4> QED
        BY <2>7, <4>1, <4>2, <4>3
    <3> QED
      BY <3>1
  <2>8. CASE (\E d \in Entities : Claim(d) \/ Adopt(d)) \/ \E o \in boot.avail : Reap(o)
    <3>1. boot'.server = boot.server /\ \A o \in boot'.avail : o \in boot.avail
      <4>1. CASE \E d \in Entities : Claim(d)
        BY <2>0, <4>1 DEF Claim, BootType
      <4>2. CASE \E d \in Entities : Adopt(d)
        BY <2>0, <4>2 DEF Adopt, BootType
      <4>3. CASE \E o \in boot.avail : Reap(o)
        BY <2>0, <4>3 DEF Reap, BootType
      <4> QED
        BY <2>8, <4>1, <4>2, <4>3
    <3> QED
      BY <3>1
  <2>9. CASE \E r \in Privileged : KeepAdminRole(r) \/ CreateAdminRole(r)
    BY <2>0, <2>9 DEF KeepAdminRole, CreateAdminRole, BootType
  <2> QED
    BY <2>1, <2>2, <2>3, <2>4, <2>5, <2>6, <2>7, <2>8, <2>9, Frames
       DEF Next, Startup, Bind, ReconcileLive
<1> QED
  BY <1>1, <1>2, <1>3 DEF Seen

LEMMA OneObject ==
  ASSUME Shape, NEW e \in Entities, Made(e), NEW p, MadeNow(p)
  PROVE  NewObject(e, p)
<1>1. \A o \in stoat : o.id # nextId
  BY DEF Shape, Types, ObjectsOk, Seen, ObjectType
<1>2. PICK o : NewObject(e, o)
  BY MadeIsNew
<1>3. o \notin stoat /\ stoat \cup {o} = stoat \cup {p}
  BY <1>1, <1>2 DEF NewObject, MadeNow
<1>4. o = p
  BY <1>3
<1> QED
  BY <1>2, <1>4

LEMMA ObjectsStep == ASSUME Shape, Next PROVE ObjectsOk'
<1>1. /\ \A o \in Seen : o.id < nextId /\ o.id \in Nat
      /\ nextId \in Nat /\ nextId' \in Nat /\ nextId' >= nextId /\ \A f \in Entities : Made(f) => nextId' = nextId + 1
  BY StoatStep DEF Shape, Types, ObjectsOk, Seen, BootType, ObjectType
<1>2. \A p \in Seen' : Carried(p) \/ MadeNow(p)
  BY SeenStep
<1>3. ASSUME NEW p \in Seen' PROVE p.id < nextId'
  <2>1. CASE Carried(p)
    BY <1>1, <2>1 DEF Carried
  <2>2. CASE MadeNow(p)
    BY <1>1, <2>2 DEF MadeNow, NewObject
  <2> QED
    BY <1>2, <1>3, <2>1, <2>2
<1>4. ASSUME NEW p \in Seen', NEW q \in Seen', p.id = q.id PROVE p.type = q.type
  <2>1. CASE Carried(p) /\ Carried(q)
    BY <1>4, <2>1 DEF Carried, Shape, ObjectsOk
  <2>2. CASE MadeNow(p) /\ MadeNow(q)
    BY <2>2, OneObject DEF MadeNow, NewObject
  <2>3. CASE (Carried(p) /\ MadeNow(q)) \/ (MadeNow(p) /\ Carried(q))
    BY <1>1, <1>4, <2>3 DEF Carried, MadeNow, NewObject
  <2> QED
    BY <1>2, <1>4, <2>1, <2>2, <2>3
<1> QED
  BY <1>3, <1>4 DEF ObjectsOk

LEMMA NextShape == ASSUME Shape, Next PROVE Shape'
<1>1. /\ want' \in Lists /\ gone' \subseteq Entities /\ Discord' /\ Known \subseteq Known'
  BY DiscordStep
<1>2. /\ worker' \in [Entities -> WorkerType] /\ queue' \in [Entities -> Seq(OpType)]
      /\ rows' \in [Entities -> RowType]
  BY RowsStep, QueueStep, WorkerStep
<1>3. boot' \in BootType /\ BootOk(boot') /\ DOMAIN boot'.list \subseteq Known'
  <2>1. CASE Startup
    BY <1>1, <2>1, StartupBoot
  <2>2. CASE Crash
    BY <2>2, DownTyped DEF Crash
  <2>3. CASE UNCHANGED boot
    BY <1>1, <2>3 DEF Shape, Types
  <2> QED
    BY <2>1, <2>2, <2>3, Frames DEF Next
<1>4. Types'
  BY <1>1, <1>2, <1>3, StoatStep DEF Types
<1>5. ASSUME NEW e \in Entities PROVE EntityOk(e, rows'[e], worker'[e], queue'[e], Known')
  BY <1>1, RowsStep, QueueStep, WorkerStep DEF EntityOk
<1> QED
  BY <1>1, <1>3, <1>4, <1>5, ObjectsStep DEF Shape, EntitiesOk

(* Types, and what goes with them: a row that is active has an id, an id    *)
(* has one type for good, and rows and ops are those of entities that exist *)
(* or did.                                                                  *)
THEOREM ShapeAlways == Spec => []Shape
<1>1. ASSUME Shape, [Next]_vars PROVE Shape'
  <2>1. CASE UNCHANGED vars
    BY <1>1, <2>1 DEF vars, discord, remote, engine, Shape, Types, Known, Discord, ObjectsOk, Seen, EntitiesOk
  <2> QED
    BY <1>1, <2>1, NextShape
<1> QED
  BY InitShape, <1>1, PTL DEF Spec

(* Every variable keeps its type through startup, ops, events and crashes,  *)
(* for any worlds the program may find.                                     *)
THEOREM TypeCorrect == Spec => []TypeOK
<1>1. ASSUME Shape PROVE TypeOK
  <2>1. DOMAIN want \subseteq Entities \ gone /\ \A e \in DOMAIN want : want[e] \in MayShow[e]
    BY <1>1, ListTyped DEF Shape, Types, Discord
  <2>2. \A o \in stoat : o.id \in 1 .. (nextId - 1) /\ o.type \in {"role", "channel"} /\ o.look \in Look
    BY <1>1 DEF Shape, Types, ObjectsOk, Seen, ObjectType, NoId
  <2>3. rows \in [Entities -> RowType]
        /\ \A e \in Entities : worker[e].pc \in {"idle", "apply", "confirm", "remove"}
    BY <1>1 DEF Shape, Types, WorkerType
  <2>4. boot.todo \subseteq DOMAIN boot.list /\ (At("claim") \/ boot.unmapped = {})
        /\ \A o \in boot.avail : \E s \in boot.server : s.id = o.id
    BY <1>1 DEF Shape, BootOk, At
  <2> QED
    BY <2>1, <2>2, <2>3, <2>4 DEF TypeOK
<1> QED
  BY <1>1, ShapeAlways, PTL

-----------------------------------------------------------------------------
(* An id that an entity holds is one that was handed out, and of its kind.  *)
HeldOk ==
  \A e \in Entities, id \in Nat \ {NoId} :
    Holds(e, id) => /\ id < nextId
                    /\ \A o \in Seen : o.id = id => o.type = EntityType(e)

LEMMA InitHeld == Init => HeldOk
<1> SUFFICES ASSUME Init, NEW e \in Entities, NEW id \in Nat \ {NoId}, Holds(e, id)
             PROVE  id < nextId /\ \A o \in Seen : o.id = id => o.type = EntityType(e)
  BY DEF HeldOk
<1>1. PICK w \in Worlds : rows = w.rows /\ stoat = w.stoat /\ nextId = w.next
  BY DEF Init
<1>2. id = rows[e].id /\ Seen = stoat
  BY DEF Init, Holds, Idle, Down, Stamping, Seen
<1> QED
  BY <1>1, <1>2, WorldsAssumption

(* The ids that are seen or held before a step are below the next one.      *)
LEMMA Bounds ==
  ASSUME Shape, HeldOk, Next
  PROVE  /\ nextId \in Nat \ {NoId} /\ nextId' \in Nat /\ nextId' >= nextId
         /\ \A p \in Seen' : p.id \in Nat \ {NoId} /\ (Carried(p) \/ MadeNow(p))
         /\ \A p \in Seen' : Carried(p) => p.id < nextId
         /\ \A p \in Seen' : MadeNow(p) => p.id = nextId
         /\ \A e \in Entities, id \in Nat \ {NoId} : Holds(e, id) => id < nextId
         /\ \A e \in Entities : \A o \in Candidates(e) : o \in Seen /\ o.id < nextId
<1>1. /\ \A o \in Seen : o.id < nextId /\ o.id \in Nat \ {NoId}
      /\ nextId \in Nat \ {NoId} /\ nextId' \in Nat /\ nextId' >= nextId
  BY StoatStep DEF Shape, Types, ObjectsOk, Seen, BootType, ObjectType
<1>2. \A p \in Seen' : Carried(p) \/ MadeNow(p)
  BY SeenStep
<1>3. \A p : (Carried(p) => p.id < nextId /\ p.id \in Nat \ {NoId}) /\ (MadeNow(p) => p.id = nextId)
  BY <1>1 DEF Carried, MadeNow, NewObject
<1> QED
  BY <1>1, <1>2, <1>3 DEF HeldOk, Candidates, Seen

LEMMA HeldStep == ASSUME Shape, HeldOk, Next PROVE HeldOk'
<1> SUFFICES ASSUME NEW e \in Entities, NEW id \in Nat \ {NoId}, Holds(e, id)'
             PROVE  id < nextId' /\ \A p \in Seen' : p.id = id => p.type = EntityType(e)
  BY DEF HeldOk
<1>1. CASE Holds(e, id)
  <2>1. ASSUME NEW p \in Seen', p.id = id PROVE p.type = EntityType(e)
    <3>1. Carried(p)
      BY <1>1, <2>1, Bounds
    <3> QED
      BY <1>1, <2>1, <3>1 DEF Carried, HeldOk
  <2> QED
    BY <1>1, <2>1, Bounds
<1>2. CASE Acquires(e) /\ id = nextId /\ nextId' = nextId + 1
  <2>1. ASSUME NEW p \in Seen', p.id = id PROVE p.type = EntityType(e)
    <3>1. MadeNow(p) /\ Made(e)
      BY <1>2, <2>1, Bounds DEF Acquires, Made, Create
    <3> QED
      BY <3>1, OneObject DEF NewObject
  <2> QED
    BY <1>2, <2>1, Bounds
<1>3. CASE Adopt(e) /\ At("match") /\ e \in boot.todo /\ \E o \in Candidates(e) : o.id = id
  <2>1. PICK o \in Candidates(e) : o.id = id
    BY <1>3
  <2>2. o.type = EntityType(e) /\ o \in Seen /\ id < nextId
    BY <1>3, <2>1, Bounds DEF Candidates, Shape, BootOk, At
  <2>3. ASSUME NEW p \in Seen', p.id = id PROVE p.type = EntityType(e)
    <3>1. Carried(p)
      BY <2>2, <2>3, Bounds
    <3> QED
      BY <2>1, <2>2, <2>3, <3>1 DEF Carried, Shape, ObjectsOk
  <2> QED
    BY <2>2, <2>3, Bounds
<1> QED
  BY <1>1, <1>2, <1>3, HoldsStep

-----------------------------------------------------------------------------
(* Startup without events: the engine is idle, and Discord as it was read.  *)
Quiet ==
  /\ boot.pc # "up" => \A e \in Entities : queue[e] = <<>> /\ worker[e] = Idle
  /\ boot.pc \notin {"down", "up"} => boot.list = want

Binding(b) == b.pc \in {"claim", "match", "bind", "bound", "reap"}

(* What is available in a pass is claimed by nobody of its kind.            *)
Claimed ==
  Binding(boot) =>
    \A e \in OfType(boot.type) :
      (At("claim") => e \notin boot.todo) /\ Active(rows[e]) => \A o \in boot.avail : o.id # rows[e].id

LEMMA InitQuiet == Init => Quiet /\ Claimed
BY DEF Init, Quiet, Claimed, Down, Binding, NoOps

LEMMA QuietStep == ASSUME Early = FALSE, Shape, Quiet, Next PROVE Quiet'
<1>1. boot \in BootType /\ worker \in [Entities -> WorkerType] /\ queue \in [Entities -> Seq(OpType)]
  BY DEF Shape, Types
<1>2. CASE Crash
  BY <1>2 DEF Crash, Quiet, Down, NoOps
<1>3. CASE \E e \in Entities : Process(e)
  <2>1. boot.pc = "up"
    BY <1>3 DEF Process, Skip, WritePending, BeginDelete, Next1, Create, CreateEffect, Edit,
       EditEffect, DeleteObject, DeleteEffect, Applies, OpFails, Confirm, Remove, Quiet, Idle
  <2> QED
    BY <1>3, <2>1, Frames DEF Quiet
<1>4. CASE \E e \in Entities : Change(e) \/ Vanish(e)
  <2>1. boot.pc \in {"down", "up"} /\ UNCHANGED <<boot, worker>>
    BY <1>4, Frames DEF Change, Vanish, MayHappen
  <2>2. boot.pc = "down" => UNCHANGED queue
    BY <1>4 DEF Change, Vanish, Notice, At
  <2> QED
    BY <2>1, <2>2 DEF Quiet
<1>5. CASE Startup
  <2>1. UNCHANGED <<want, worker>> /\ (ConvergeAll \/ UNCHANGED queue)
    BY <1>5, Frames DEF discord
  <2>2. CASE ConvergeAll
    <3>1. boot'.pc = "up"
      BY <2>2 DEF ConvergeAll, Down
    <3> QED
      BY <3>1 DEF Quiet
  <2>3. CASE Start
    <3>1. boot'.pc = "admin" /\ boot'.list = want /\ boot.pc = "down"
      BY <2>3 DEF Start, Down, At
    <3> QED
      BY <2>1, <2>3, <3>1 DEF Quiet, Start, engine
  <2>4. CASE ~Start /\ ~ConvergeAll
    <3>1. boot'.list = boot.list /\ boot.pc \notin {"down", "up"}
      <4>1. CASE FetchServer \/ FetchChannels \/ BeginMatch \/ BeginReap \/ BindRoles \/ FetchLive
        BY <1>1, <4>1 DEF FetchServer, FetchChannels, BeginMatch, BeginReap, BindRoles, FetchLive,
           BeginPass, At, BootType
      <4>2. CASE StampPending \/ StampConfirm
        BY <1>1, <4>2 DEF StampPending, StampConfirm, At, BootType
      <4>3. CASE \E d \in Entities : \/ Claim(d) \/ ClearDead(d) \/ FindUnmapped(d) \/ Adopt(d)
                                     \/ SkipBind(d)
        BY <1>1, <4>3 DEF Claim, ClearDead, FindUnmapped, Adopt, SkipBind, At, BootType
      <4>4. CASE \E d \in Entities : VerifyLive(d)
        BY <1>1, <4>4 DEF VerifyLive, At, BootType
      <4>7. CASE \E d \in Entities : SkipLive(d)
        BY <1>1, <4>7 DEF SkipLive, At, BootType
      <4>6. CASE \E o \in boot.avail : Reap(o)
        BY <1>1, <4>6 DEF Reap, At, BootType
      <4>5. CASE \E r \in Privileged : KeepAdminRole(r) \/ CreateAdminRole(r)
        BY <1>1, <4>5 DEF KeepAdminRole, CreateAdminRole, At, BootType
      <4> QED
        BY <1>5, <2>4, <4>1, <4>2, <4>3, <4>4, <4>5, <4>6, <4>7
           DEF Startup, Bind, ReconcileLive
    <3> QED
      BY <2>1, <2>4, <3>1 DEF Quiet
  <2> QED
    BY <2>2, <2>3, <2>4
<1> QED
  BY <1>2, <1>3, <1>4, <1>5 DEF Next

(* While the engine is idle only the main goroutine writes.                 *)
LEMMA OnlyStartup ==
  ASSUME Quiet, Next, boot.pc # "up"
  PROVE  Startup \/ Crash \/ (UNCHANGED <<boot, rows, worker, remote>>)
<1>1. ASSUME NEW e \in Entities PROVE ~Process(e)
  BY DEF Process, Skip, WritePending, BeginDelete, Next1, Create, CreateEffect, Edit, EditEffect,
     DeleteObject, DeleteEffect, Applies, OpFails, Confirm, Remove, Quiet, Idle
<1> QED
  BY <1>1, Frames DEF Next

LEMMA ClaimedStep == ASSUME Shape, Quiet, Claimed, Next PROVE Claimed'
<1>0. boot \in BootType /\ rows \in [Entities -> RowType] /\ BootOk(boot)
  BY DEF Shape, Types
<1>1. CASE Crash
  BY <1>1 DEF Crash, Claimed, Down, Binding
<1>2. CASE UNCHANGED <<boot, rows>>
  BY <1>2 DEF Claimed, OfType, At
<1>3. CASE boot.pc = "up" /\ ~Crash
  <2>1. UNCHANGED boot
    BY <1>3, Frames DEF Next, Startup, Start, FetchServer, FetchChannels, BeginMatch, BeginReap,
       BindRoles, FetchLive, StampPending, StampConfirm, Claim, ClearDead, FindUnmapped, Adopt,
       SkipBind, VerifyLive, SkipLive, Reap, KeepAdminRole, CreateAdminRole, ConvergeAll,
       Bind, ReconcileLive, At
  <2> QED
    BY <1>3, <2>1 DEF Claimed, Binding
<1>4. CASE Startup
  <2>1. CASE Start \/ FetchServer \/ FetchLive \/ ConvergeAll
    <3>1. boot'.pc \in {"admin", "fetched", "live", "up"}
      BY <1>0, <2>1 DEF Start, FetchServer, FetchLive, ConvergeAll, Down, BootType
    <3> QED
      BY <3>1 DEF Claimed, Binding
  <2>2. CASE (\E e \in Entities : VerifyLive(e) \/ SkipLive(e))
             \/ \E r \in Privileged : KeepAdminRole(r) \/ CreateAdminRole(r)
    <3>1. boot'.pc \in {"live", "repair", "admin", "enter"}
      <4>1. CASE \E e \in Entities : VerifyLive(e)
        BY <1>0, <4>1 DEF VerifyLive, BootType
      <4>3. CASE \E e \in Entities : SkipLive(e)
        BY <1>0, <4>3 DEF SkipLive, BootType, At
      <4>2. CASE \E r \in Privileged : KeepAdminRole(r) \/ CreateAdminRole(r)
        BY <1>0, <4>2 DEF KeepAdminRole, CreateAdminRole, BootType, At
      <4> QED
        BY <2>2, <4>1, <4>2, <4>3
    <3> QED
      BY <3>1 DEF Claimed, Binding
  <2>3. CASE FetchChannels \/ BindRoles
    <3>1. PICK type, items : BeginPass(type, items)
      BY <2>3 DEF FetchChannels, BindRoles
    <3>2. boot'.pc = "claim" /\ boot'.type = type /\ boot'.list = boot.list /\ boot'.todo = OfType(type)
      BY <1>0, <3>1 DEF BeginPass, BootType
    <3> QED
      BY <3>2 DEF Claimed, OfType, At
  <2>4. ASSUME NEW e \in Entities, Claim(e) PROVE Claimed'
    <3>1. /\ At("claim") /\ UNCHANGED rows
          /\ boot'.pc = "claim" /\ boot'.type = boot.type /\ boot'.list = boot.list
          /\ boot'.todo = boot.todo \ {e} /\ boot'.avail = {o \in boot.avail : o.id # rows[e].id}
      BY <1>0, <2>4 DEF Claim, BootType, At
    <3> QED
      BY <3>1 DEF Claimed, Binding, OfType, At
  <2>5. ASSUME NEW e \in Entities, ClearDead(e) \/ FindUnmapped(e) PROVE Claimed'
    <3>1. /\ At("claim") /\ boot'.pc = "claim" /\ boot'.type = boot.type /\ boot'.list = boot.list
          /\ boot'.todo = boot.todo \ {e} /\ boot'.avail = boot.avail
      BY <1>0, <2>5 DEF ClearDead, FindUnmapped, BootType, At
    <3>2. ~Active(rows'[e]) /\ \A d \in Entities \ {e} : rows'[d] = rows[d]
      BY <1>0, <2>5 DEF ClearDead, FindUnmapped, Active, Absent
    <3>3. OfType(boot.type) \subseteq Entities
      BY <1>0, ListTyped DEF OfType, BootType
    <3> QED
      BY <3>1, <3>2, <3>3 DEF Claimed, Binding, OfType, At
  <2>6. CASE BeginMatch \/ BeginReap
    <3>1. /\ boot.pc \in {"claim", "match"} /\ boot.todo = {} /\ UNCHANGED rows
          /\ boot'.pc \in {"match", "reap"} /\ boot'.type = boot.type /\ boot'.list = boot.list
          /\ boot'.avail = boot.avail
      BY <1>0, <2>6 DEF BeginMatch, BeginReap, BootType, At
    <3> QED
      BY <3>1 DEF Claimed, Binding, OfType, At
  <2>7. CASE (\E e \in Entities : Adopt(e) \/ SkipBind(e)) \/ \E o \in boot.avail : Reap(o)
    <3>1. /\ Binding(boot) /\ boot.pc # "claim" /\ boot'.pc # "claim" /\ UNCHANGED rows
          /\ boot'.type = boot.type /\ boot'.list = boot.list
          /\ \A o \in boot'.avail : o \in boot.avail
      <4>1. CASE \E e \in Entities : Adopt(e)
        BY <1>0, <4>1 DEF Adopt, BootType, At, Binding
      <4>2. CASE \E e \in Entities : SkipBind(e)
        BY <1>0, <4>2 DEF SkipBind, BootType, At, Binding
      <4>3. CASE \E o \in boot.avail : Reap(o)
        BY <1>0, <4>3 DEF Reap, BootType, At, Binding
      <4> QED
        BY <2>7, <4>1, <4>2, <4>3
    <3> QED
      BY <3>1 DEF Claimed, OfType, At
  <2>8. CASE StampPending
    <3>1. /\ boot'.pc = IF boot.pc = "enter" THEN "entered" ELSE IF boot.pc = "bind" THEN "bound" ELSE "repaired"
          /\ boot'.type = boot.type /\ boot'.list = boot.list /\ boot'.avail = boot.avail
      BY <1>0, <2>8 DEF StampPending, BootType, At
    <3>2. boot.e \in Entities /\ Stamping(boot)
      BY <1>0, <2>8, ListTyped DEF StampPending, BootOk, Stamping, BootType
    <3>3. ~Active(rows'[boot.e]) /\ \A d \in Entities \ {boot.e} : rows'[d] = rows[d]
      BY <1>0, <2>8, <3>2 DEF StampPending, PendingStructureRow, Active
    <3>4. OfType(boot.type) \subseteq Entities
      BY <1>0, ListTyped DEF OfType, BootType
    <3> QED
      BY <2>8, <3>1, <3>3, <3>4 DEF Claimed, Binding, OfType, At, StampPending
  <2>9. CASE StampConfirm
    <3>1. /\ boot'.pc \in {"admin", "match", "live"} /\ (boot'.pc = "match" => boot.pc = "bound")
          /\ boot'.type = boot.type /\ boot'.list = boot.list
          /\ boot'.avail = {o \in boot.avail : o.id # boot.id}
      BY <1>0, <2>9 DEF StampConfirm, BootType, At
    <3>2. boot.e \in Entities
      BY <1>0, <2>9, ListTyped DEF StampConfirm, BootOk, Stamping, BootType
    <3>3. /\ Active(rows'[boot.e]) => rows'[boot.e].id = boot.id
          /\ \A d \in Entities \ {boot.e} : rows'[d] = rows[d]
      <4>1. rows[boot.e] \in RowType
        BY <1>0, <3>2
      <4> QED
        BY <1>0, <2>9, <3>2, <4>1 DEF StampConfirm, ConfirmedRow, Active, Found, RowType
    <3>4. OfType(boot.type) \subseteq Entities
      BY <1>0, ListTyped DEF OfType, BootType
    <3> QED
      BY <2>9, <3>1, <3>3, <3>4 DEF Claimed, Binding, OfType, At
  <2> QED
    BY <1>4, <2>1, <2>2, <2>3, <2>4, <2>5, <2>6, <2>7, <2>8, <2>9 DEF Startup, Bind, ReconcileLive
<1> QED
  BY <1>1, <1>2, <1>3, <1>4, OnlyStartup

(* What startup knows: used where no events come while it is under way.     *)
StartupInv == Shape /\ HeldOk /\ Quiet /\ Claimed

LEMMA StartupAlways == ASSUME Early = FALSE PROVE Spec => []StartupInv
<1>1. ASSUME StartupInv, [Next]_vars PROVE StartupInv'
  <2>1. CASE UNCHANGED vars
    <3> USE <1>1, <2>1 DEF StartupInv, vars, discord, remote, engine
    <3>1. Shape'
      BY DEF Shape, Types, Known, Discord, ObjectsOk, Seen, EntitiesOk
    <3>2. HeldOk'
      BY DEF HeldOk, Holds, Seen
    <3>3. Quiet' /\ Claimed'
      BY DEF Quiet, Claimed, OfType, At
    <3> QED
      BY <3>1, <3>2, <3>3
  <2> QED
    BY <1>1, <2>1, NextShape, HeldStep, QuietStep, ClaimedStep DEF StartupInv
<1>2. Init => StartupInv
  BY InitShape, InitHeld, InitQuiet DEF StartupInv
<1> QED
  BY <1>1, <1>2, PTL DEF Spec

(* Bind deletes nothing that an active row of an existing entity names,     *)
(* whatever failed, crashed or was left by earlier lives, and however names *)
(* coincide: what is reaped is what no row of its kind claimed.             *)
ReapsNothingActive ==
  [][At("reap") /\ boot'.avail # boot.avail =>
       \A e \in DOMAIN boot.list, o \in stoat \ stoat' : Active(rows[e]) => rows[e].id # o.id]_vars

LEMMA ReapStep ==
  ASSUME StartupInv, Next, At("reap"),
         NEW e \in DOMAIN boot.list, NEW o \in stoat \ stoat', Active(rows[e])
  PROVE  rows[e].id # o.id
<1>0. boot \in BootType /\ BootOk(boot) /\ e \in Entities /\ stoat \subseteq ObjectType
  BY ListTyped DEF StartupInv, Shape, Types, BootType
<1>1. PICK q \in boot.avail : Reap(q)
  <2>1. stoat' # stoat
    OBVIOUS
  <2>2. \A d \in Entities : worker[d].pc = "idle"
    BY DEF StartupInv, Quiet, At, Idle
  <2> QED
    BY <2>1, <2>2, Writers DEF remote, CreateAdminRole, CreateEffect, EditEffect, DeleteEffect,
       Applies, At
<1>2. q.id = o.id
  BY <1>1 DEF Reap
<1>3. q.type = boot.type /\ q \in Seen
  BY <1>0 DEF BootOk, Seen
<1>4. ASSUME rows[e].id = o.id PROVE FALSE
  <2>1. Holds(e, o.id) /\ o.id \in Nat \ {NoId} /\ o \in Seen
    BY <1>0, <1>4 DEF Holds, ObjectType, Seen
  <2>2. q.type = EntityType(e)
    BY <1>2, <1>3, <2>1, <1>0 DEF StartupInv, HeldOk
  <2> QED
    BY <1>2, <1>3, <1>4, <2>2 DEF StartupInv, Claimed, Binding, OfType, At
<1> QED
  BY <1>4

THEOREM NothingActiveReaped == ASSUME Early = FALSE PROVE Spec => ReapsNothingActive
<1>1. ASSUME StartupInv, [Next]_vars
      PROVE  [At("reap") /\ boot'.avail # boot.avail =>
                \A e \in DOMAIN boot.list, o \in stoat \ stoat' : Active(rows[e]) => rows[e].id # o.id]_vars
  BY <1>1, ReapStep
<1> QED
  BY <1>1, StartupAlways, PTL DEF Spec, ReapsNothingActive

-----------------------------------------------------------------------------
(* Where names tell entities apart, and Stoat's objects are called like the *)
(* entities whose rows name them, a name never leads Bind to what another   *)
(* entity holds.                                                            *)
Owned ==
  /\ \A e, f \in Entities, id \in Nat \ {NoId} : Holds(e, id) /\ Holds(f, id) => e = f
  /\ \A e \in Entities, o \in Seen : Holds(e, o.id) => o.look.name \in NamesOf(e)
  /\ \A o, p \in Seen, e \in Entities :
       o.id = p.id /\ o.look.name \in NamesOf(e) => p.look.name \in NamesOf(e)

LEMMA AcquiresOnce ==
  ASSUME Shape, NEW e \in Entities, NEW f \in Entities, Acquires(e), Acquires(f)
  PROVE  e = f
<1>1. worker \in [Entities -> WorkerType] /\ boot \in BootType
  BY DEF Shape, Types
<1>2. CASE Create(e) /\ Create(f)
  <2>1. worker[f].pc = "apply" /\ worker'[f].pc = "confirm"
    <3> DEFINE w == [worker[f] EXCEPT !.pc = "confirm", !.id = nextId]
    <3>1. worker[f] \in WorkerType /\ worker[f].pc = "apply" /\ worker' = [worker EXCEPT ![f] = w]
      BY <1>1, <1>2 DEF Create, CreateEffect, Applies, Step
    <3>2. w.pc = "confirm"
      BY <3>1 DEF WorkerType
    <3> HIDE DEF w
    <3> QED
      BY <1>1, <3>1, <3>2
  <2>2. e # f => worker'[f] = worker[f]
    BY <1>1, <1>2 DEF Create, Step
  <2> QED
    BY <2>1, <2>2
<1>3. ASSUME NEW r \in Privileged, CreateAdminRole(r) PROVE boot'.e = r /\ boot' # boot
  BY <1>1, <1>3 DEF CreateAdminRole, BootType, At
<1>4. ASSUME NEW d \in Entities, Create(d) PROVE boot' = boot
  BY <1>4 DEF Create
<1> QED
  BY <1>2, <1>3, <1>4 DEF Acquires

LEMMA AdoptsOnce ==
  ASSUME Shape, NEW e \in Entities, NEW f \in Entities, Adopt(e), Adopt(f)
  PROVE  e = f
<1>1. ASSUME NEW d \in Entities, Adopt(d) PROVE boot'.e = d
  BY <1>1 DEF Adopt, Shape, Types, BootType
<1> QED
  BY <1>1

(* A name that an object got in this step is one of the same owner's.       *)
LEMMA SameName ==
  ASSUME NamesApart, Shape, Owned, NEW p, Carried(p)
  PROVE  \E o \in Seen : /\ o.id = p.id
                         /\ \A e \in Entities : o.look.name \in NamesOf(e) <=> p.look.name \in NamesOf(e)
<1>1. PICK o \in Seen :
        /\ o.id = p.id
        /\ o.look.name = p.look.name \/ \E f \in Entities : Holds(f, o.id) /\ p.look.name \in NamesOf(f)
  BY DEF Carried
<1>2. CASE o.look.name = p.look.name
  BY <1>1, <1>2
<1>3. ASSUME NEW f \in Entities, Holds(f, o.id), p.look.name \in NamesOf(f)
      PROVE  \A e \in Entities : o.look.name \in NamesOf(e) <=> p.look.name \in NamesOf(e)
  BY <1>3 DEF Owned, NamesApart
<1> QED
  BY <1>1, <1>2, <1>3

LEMMA OwnedStep == ASSUME NamesApart, Shape, HeldOk, Owned, Next PROVE Owned'
<1>1. ASSUME NEW e \in Entities, NEW f \in Entities, NEW id \in Nat \ {NoId},
             Adopt(e), Holds(f, id), NEW o \in Candidates(e), o.id = id
      PROVE  e = f
  <2>1. o \in Seen /\ o.look.name \in NamesOf(e)
    BY <1>1, Bounds DEF Candidates, Adopt, Shape, BootOk, NamesOf
  <2>2. o.look.name \in NamesOf(f)
    BY <1>1, <2>1 DEF Owned
  <2> QED
    BY <2>1, <2>2 DEF NamesApart
<1>2. ASSUME NEW e \in Entities, NEW f \in Entities, NEW id \in Nat \ {NoId},
             Holds(e, id)', Holds(f, id)'
      PROVE  e = f
  <2>1. CASE Holds(e, id) /\ Holds(f, id)
    BY <2>1 DEF Owned
  <2>2. CASE Acquires(e) /\ Acquires(f)
    BY <2>2, AcquiresOnce
  <2>3. CASE Adopt(e) /\ Adopt(f)
    BY <2>3, AdoptsOnce
  <2>4. CASE id # nextId
    BY <1>1, <1>2, <2>1, <2>3, <2>4, HoldsStep
  <2>5. CASE id = nextId
    BY <1>2, <2>2, <2>5, HoldsStep, Bounds
  <2> QED
    BY <2>4, <2>5
<1>3. ASSUME NEW e \in Entities, NEW p \in Seen', Holds(e, p.id)' PROVE p.look.name \in NamesOf(e)
  <2>0. p.id \in Nat \ {NoId} /\ (Carried(p) \/ MadeNow(p))
    BY Bounds
  <2>1. CASE MadeNow(p)
    <3>1. p.id = nextId
      BY <2>1, Bounds
    <3>2. Acquires(e)
      BY <1>3, <2>0, <3>1, HoldsStep, Bounds
    <3>3. Made(e)
      BY <3>2 DEF Acquires, Made, Create
    <3> QED
      BY <2>1, <3>3, OneObject DEF NewObject
  <2>2. CASE Carried(p)
    <3>1. PICK o \in Seen :
            /\ o.id = p.id
            /\ \A d \in Entities : o.look.name \in NamesOf(d) <=> p.look.name \in NamesOf(d)
      BY <2>2, SameName
    <3>2. CASE Holds(e, p.id)
      BY <3>1, <3>2 DEF Owned
    <3>3. CASE Adopt(e) /\ \E q \in Candidates(e) : q.id = p.id
      <4>1. PICK q \in Candidates(e) : q.id = p.id
        BY <3>3
      <4>2. q \in Seen /\ q.look.name \in NamesOf(e)
        BY <3>3, Bounds DEF Candidates, Adopt, Shape, BootOk, NamesOf
      <4>3. o.look.name \in NamesOf(e)
        BY <3>1, <4>1, <4>2 DEF Owned
      <4> QED
        BY <3>1, <4>3
    <3> QED
      BY <1>3, <2>0, <2>2, <3>2, <3>3, HoldsStep, Bounds
  <2> QED
    BY <2>0, <2>1, <2>2
<1>4. ASSUME NEW p \in Seen', NEW q \in Seen', NEW e \in Entities, p.id = q.id, p.look.name \in NamesOf(e)
      PROVE  q.look.name \in NamesOf(e)
  <2>1. CASE Carried(p) /\ Carried(q)
    <3>1. PICK o \in Seen :
            /\ o.id = p.id
            /\ \A d \in Entities : o.look.name \in NamesOf(d) <=> p.look.name \in NamesOf(d)
      BY <2>1, SameName
    <3>2. PICK s \in Seen :
            /\ s.id = q.id
            /\ \A d \in Entities : s.look.name \in NamesOf(d) <=> q.look.name \in NamesOf(d)
      BY <2>1, SameName
    <3>3. s.look.name \in NamesOf(e)
      BY <1>4, <3>1, <3>2 DEF Owned
    <3> QED
      BY <3>2, <3>3
  <2>2. CASE MadeNow(p) /\ MadeNow(q)
    <3>1. PICK f \in Entities : Made(f) /\ NewObject(f, p)
      BY <2>2 DEF MadeNow
    <3>2. NewObject(f, q)
      BY <2>2, <3>1, OneObject
    <3>3. p \notin stoat /\ p = q
      BY <3>1, <3>2, Bounds DEF NewObject, Shape, ObjectsOk, Seen
    <3> QED
      BY <1>4, <3>3
  <2> QED
    BY <1>4, <2>1, <2>2, Bounds
<1> QED
  BY <1>2, <1>3, <1>4 DEF Owned

-----------------------------------------------------------------------------
(* In a life that finds no row pending, and until it ends, names may        *)
(* coincide: before ops run, a row with an id is active, so that it claims  *)
(* its object, but for the one that is being repaired.                      *)
Unheld ==
  boot.unmapped \cup (IF boot.pc \in {"match", "bind", "bound"} THEN boot.todo ELSE {})
    \cup (IF boot.pc \in {"enter", "entered", "bind", "bound"} THEN {boot.e} ELSE {})

RowsOrderly ==
  /\ boot.pc # "up" => \A e \in Entities :
       rows[e].id # NoId => Active(rows[e]) \/ (At("repaired") /\ boot.e = e /\ Found(rows[e]))
  /\ \A e \in Unheld : rows[e].id = NoId
  /\ boot.pc \in {"bind", "bound"} => boot.e \notin boot.todo

HeldOnce ==
  \A e, f \in Entities \ gone, id \in Nat \ {NoId} : Holds(e, id) /\ Holds(f, id) => e = f

Tracked == Early = FALSE /\ crashesLeft = 0 /\ StartupInv /\ RowsOrderly /\ HeldOnce

LEMMA OrderlyStep == ASSUME Tracked, Next PROVE RowsOrderly'
<1>0. /\ boot \in BootType /\ rows \in [Entities -> RowType] /\ BootOk(boot) /\ RowsOrderly
      /\ Quiet /\ Unheld \subseteq Entities /\ DOMAIN boot.list \subseteq Entities
      /\ \A e \in Entities : rows[e] \in RowType
  <2>1. Shape /\ RowsOrderly /\ Quiet
    BY DEF Tracked, StartupInv
  <2>2. DOMAIN boot.list \subseteq Entities
    BY <2>1, ListTyped DEF Shape, Types, BootType
  <2> QED
    BY <2>1, <2>2 DEF Shape, Types, BootOk, Unheld, Stamping
<1>1. ~Crash
  BY DEF Tracked, Crash
<1>2. CASE UNCHANGED <<boot, rows>>
  BY <1>0, <1>2 DEF RowsOrderly, Unheld, At
<1>3. CASE boot.pc = "up"
  <2>1. UNCHANGED boot
    BY <1>1, <1>3, Frames DEF Next, Startup, Start, FetchServer, FetchChannels, BeginMatch, BeginReap,
       BindRoles, FetchLive, StampPending, StampConfirm, Claim, ClearDead, FindUnmapped, Adopt,
       SkipBind, VerifyLive, SkipLive, Reap, KeepAdminRole, CreateAdminRole, ConvergeAll,
       Bind, ReconcileLive, At
  <2> QED
    BY <1>0, <1>3, <2>1 DEF RowsOrderly, Unheld, BootOk
<1>4. CASE /\ Startup /\ UNCHANGED rows /\ ~StampPending /\ ~StampConfirm
           /\ \A e \in Entities : ~ClearDead(e)
  <2>1. ASSUME boot'.pc # "repaired", boot.pc # "repaired", Unheld' \subseteq Unheld,
               boot'.pc \in {"bind", "bound"} => boot'.e \notin boot'.todo
        PROVE  RowsOrderly'
    BY <1>0, <1>3, <1>4, <2>1 DEF RowsOrderly, At
  <2>2. CASE Start \/ ConvergeAll
    <3>1. boot'.pc \in {"admin", "up"} /\ boot'.unmapped = {} /\ boot.pc \in {"down", "live"}
      <4>1. CASE Start
        BY <4>1 DEF Start, Down, At
      <4>2. CASE ConvergeAll
        BY <4>2 DEF ConvergeAll, Down, At
      <4> QED
        BY <2>2, <4>1, <4>2
    <3>2. Unheld' = {}
      BY <3>1 DEF Unheld
    <3> QED
      BY <2>1, <3>1, <3>2
  <2>3. CASE FetchServer \/ FetchLive \/ FetchChannels \/ BindRoles
    <3>1. boot'.pc \in {"fetched", "live", "claim"} /\ boot'.unmapped = boot.unmapped
          /\ boot.pc \in {"admin", "reap", "fetched"}
      <4>1. CASE FetchServer \/ FetchLive
        BY <1>0, <4>1 DEF FetchServer, FetchLive, At, BootType
      <4>2. CASE FetchChannels \/ BindRoles
        BY <1>0, <4>2 DEF FetchChannels, BindRoles, BeginPass, At, BootType
      <4> QED
        BY <2>3, <4>1, <4>2
    <3>2. Unheld' \subseteq Unheld
      BY <3>1 DEF Unheld
    <3> QED
      BY <2>1, <3>1, <3>2
  <2>4. CASE \E e \in Entities : Claim(e) \/ VerifyLive(e) \/ SkipLive(e)
    <3>1. boot'.pc \in {"claim", "repair", "live"} /\ boot'.unmapped = boot.unmapped
          /\ boot.pc \in {"claim", "live"}
      <4>1. CASE \E e \in Entities : Claim(e)
        BY <1>0, <4>1 DEF Claim, At, BootType
      <4>2. CASE \E e \in Entities : VerifyLive(e)
        BY <1>0, <4>2 DEF VerifyLive, At, BootType
      <4>3. CASE \E e \in Entities : SkipLive(e)
        BY <1>0, <4>3 DEF SkipLive, At, BootType
      <4> QED
        BY <2>4, <4>1, <4>2, <4>3
    <3>2. Unheld' \subseteq Unheld
      BY <3>1 DEF Unheld
    <3> QED
      BY <2>1, <3>1, <3>2
  <2>5. CASE (\E o \in boot.avail : Reap(o)) \/ \E r \in Privileged : KeepAdminRole(r)
    <3>1. boot'.pc \in {"reap", "admin"} /\ boot'.unmapped = boot.unmapped /\ boot.pc \in {"reap", "admin"}
      BY <1>0, <2>5 DEF Reap, KeepAdminRole, At, BootType
    <3>2. Unheld' \subseteq Unheld
      BY <3>1 DEF Unheld
    <3> QED
      BY <2>1, <3>1, <3>2
  <2>6. CASE BeginMatch \/ BeginReap
    <3>1. /\ boot'.pc \in {"match", "reap"} /\ boot.pc \in {"claim", "match"}
          /\ boot'.pc = "match" => boot'.todo = boot.unmapped
          /\ boot'.unmapped \subseteq boot.unmapped
      <4>1. CASE BeginMatch
        BY <1>0, <4>1 DEF BeginMatch, At, BootType
      <4>2. CASE BeginReap
        BY <1>0, <4>2 DEF BeginReap, At, BootType
      <4> QED
        BY <2>6, <4>1, <4>2
    <3>2. Unheld' \subseteq Unheld
      BY <3>1 DEF Unheld
    <3> QED
      BY <2>1, <3>1, <3>2
  <2>7. ASSUME NEW e \in Entities, Adopt(e) \/ SkipBind(e) PROVE RowsOrderly'
    <3>1. /\ boot'.pc \in {"match", "bind"} /\ boot.pc = "match" /\ e \in boot.todo
          /\ boot'.todo = boot.todo \ {e} /\ boot'.unmapped = boot.unmapped
          /\ boot'.pc = "bind" => boot'.e = e
      <4>1. CASE Adopt(e)
        BY <1>0, <4>1 DEF Adopt, At, BootType
      <4>2. CASE SkipBind(e)
        BY <1>0, <4>2 DEF SkipBind, At, BootType
      <4> QED
        BY <2>7, <4>1, <4>2
    <3>2. Unheld' \subseteq Unheld
      BY <3>1 DEF Unheld
    <3> QED
      BY <2>1, <3>1, <3>2
  <2>8. ASSUME NEW r \in Privileged, CreateAdminRole(r) PROVE RowsOrderly'
    <3>1. /\ boot'.pc = "enter" /\ boot.pc = "admin" /\ boot'.e = r /\ boot'.unmapped = boot.unmapped
          /\ r \in Entities /\ ~(Active(rows[r]) /\ rows[r].id # NoId)
      BY <1>0, <2>8, Kinds DEF CreateAdminRole, At, BootType
    <3>2. rows[r].id = NoId
      BY <1>0, <3>1 DEF RowsOrderly, At
    <3>3. Unheld' \subseteq Unheld \cup {r}
      BY <3>1 DEF Unheld
    <3> QED
      BY <1>0, <1>4, <3>1, <3>2, <3>3 DEF RowsOrderly, At
  <2>9. ASSUME NEW e \in Entities, FindUnmapped(e) PROVE RowsOrderly'
    <3>1. /\ boot'.pc = "claim" /\ boot.pc = "claim" /\ boot'.unmapped = boot.unmapped \cup {e}
          /\ ~Active(rows[e])
      BY <1>0, <2>9 DEF FindUnmapped, At, BootType
    <3>2. rows[e].id = NoId
      BY <1>0, <3>1 DEF RowsOrderly, At
    <3>3. Unheld' \subseteq Unheld \cup {e}
      BY <3>1 DEF Unheld
    <3> QED
      BY <1>0, <1>4, <3>1, <3>2, <3>3 DEF RowsOrderly, At
  <2> QED
    BY <1>4, <2>2, <2>3, <2>4, <2>5, <2>6, <2>7, <2>8, <2>9 DEF Startup, Bind, ReconcileLive
<1>5. ASSUME NEW e \in Entities, ClearDead(e) PROVE RowsOrderly'
  <2>1. /\ boot'.pc = "claim" /\ boot.pc = "claim" /\ boot'.unmapped = boot.unmapped \cup {e}
        /\ rows'[e] = Absent /\ \A d \in Entities \ {e} : rows'[d] = rows[d]
    BY <1>0, <1>5 DEF ClearDead, At, BootType
  <2>2. Unheld' \subseteq Unheld \cup {e}
    BY <2>1 DEF Unheld
  <2> QED
    BY <1>0, <2>1, <2>2 DEF RowsOrderly, At, Absent
<1>6. CASE StampPending
  <2>1. boot.e \in Entities
    BY <1>0, <1>6 DEF StampPending, BootOk, Stamping
  <2>2. /\ rows'[boot.e].id = rows[boot.e].id /\ Found(rows'[boot.e])
        /\ \A d \in Entities \ {boot.e} : rows'[d] = rows[d]
    BY <1>0, <1>6, <2>1 DEF StampPending, PendingStructureRow, Found
  <2>3. /\ boot'.pc = IF boot.pc = "enter" THEN "entered" ELSE IF boot.pc = "bind" THEN "bound" ELSE "repaired"
        /\ boot.pc \in {"enter", "bind", "repair"}
        /\ boot'.e = boot.e /\ boot'.todo = boot.todo /\ boot'.unmapped = boot.unmapped
    BY <1>0, <1>6 DEF StampPending, BootType, At
  <2>4. Unheld' = Unheld
    BY <2>3 DEF Unheld
  <2>5. boot'.pc # "repaired" => rows[boot.e].id = NoId
    BY <1>0, <2>3 DEF RowsOrderly, Unheld
  <2>6. \A d \in Entities : rows'[d].id = rows[d].id
    BY <2>2
  <2> QED
    BY <1>0, <2>1, <2>2, <2>3, <2>4, <2>5, <2>6 DEF RowsOrderly, At
<1>7. CASE StampConfirm
  <2>1. boot.e \in Entities
    BY <1>0, <1>7 DEF StampConfirm, BootOk, Stamping
  <2>2. /\ Active(rows'[boot.e]) \/ (~Found(rows[boot.e]) /\ rows'[boot.e] = rows[boot.e])
        /\ \A d \in Entities \ {boot.e} : rows'[d] = rows[d]
    BY <1>0, <1>7, <2>1 DEF StampConfirm, ConfirmedRow, Found, Active, RowType
  <2>3. /\ boot'.pc = IF boot.pc = "entered" THEN "admin" ELSE IF boot.pc = "bound" THEN "match" ELSE "live"
        /\ boot.pc \in {"entered", "bound", "repaired"}
        /\ boot'.todo = boot.todo /\ boot'.unmapped = boot.unmapped
    BY <1>0, <1>7 DEF StampConfirm, BootType, At
  <2>4. Unheld' \subseteq Unheld \ {boot.e}
    BY <1>0, <2>3 DEF Unheld, RowsOrderly, BootOk
  <2>5. ~Found(rows[boot.e]) => rows[boot.e].id = NoId
    BY <1>0, <2>1, <2>3 DEF RowsOrderly, Active, Found
  <2> QED
    BY <1>0, <2>1, <2>2, <2>3, <2>4, <2>5 DEF RowsOrderly, At
<1> QED
  <2>1. ASSUME boot.pc # "up"
        PROVE  UNCHANGED rows \/ StampPending \/ StampConfirm \/ \E e \in Entities : ClearDead(e)
    <3>1. ASSUME NEW e \in Entities PROVE ~WritePending(e) /\ ~Confirm(e) /\ ~Remove(e)
      BY <1>0, <2>1 DEF Quiet, WritePending, Next1, Confirm, Remove, Idle
    <3> QED
      BY <3>1, Writers
  <2> QED
    BY <1>0, <1>1, <1>2, <1>3, <1>4, <1>5, <1>6, <1>7, <2>1, OnlyStartup DEF Tracked, StartupInv

LEMMA HeldOnceStep == ASSUME Tracked, Next PROVE HeldOnce'
<1>0. /\ Shape /\ HeldOk /\ Quiet /\ Claimed /\ RowsOrderly /\ HeldOnce /\ BootOk(boot)
      /\ boot \in BootType /\ boot.list \in Lists
  BY DEF Tracked, StartupInv, Shape, Types, BootType
<1>1. gone \subseteq gone'
  BY Frames DEF Next, Change, Vanish, discord
<1>2. ASSUME NEW e \in Entities, NEW f \in Entities \ gone, NEW o \in Candidates(e), Adopt(e)
      PROVE  ~Holds(f, o.id)
  <2>1. /\ At("match") /\ e \in boot.todo /\ o \in boot.avail /\ o \in Seen
        /\ o.id \in Nat \ {NoId} /\ o.type = boot.type
    BY <1>0, <1>2, Bounds DEF Adopt, Candidates, BootOk, BootType, ObjectType
  <2> SUFFICES ASSUME Holds(f, o.id) PROVE FALSE
    OBVIOUS
  <2>2. rows[f].id = o.id
    BY <1>0, <2>1 DEF Holds, Quiet, Idle, Stamping, At
  <2>3. Active(rows[f]) /\ f \in DOMAIN want
    <3>1. Active(rows[f])
      BY <1>0, <2>1, <2>2 DEF RowsOrderly, At
    <3> QED
      BY <1>0, <3>1 DEF Shape, EntitiesOk, EntityOk, Active, Found, Known
  <2>4. f \in OfType(boot.type)
    BY <1>0, <2>1, <2>3 DEF HeldOk, Quiet, OfType, At
  <2> QED
    BY <1>0, <2>1, <2>2, <2>3, <2>4 DEF Claimed, Binding, At
<1>3. ASSUME NEW e \in Entities \ gone, NEW f \in Entities \ gone, NEW id \in Nat \ {NoId},
             Holds(e, id)', Holds(f, id)'
      PROVE  e = f
  <2>1. CASE Holds(e, id) /\ Holds(f, id)
    BY <1>0, <2>1 DEF HeldOnce
  <2>2. CASE Acquires(e) /\ Acquires(f)
    BY <1>0, <2>2, AcquiresOnce
  <2>3. CASE Adopt(e) /\ Adopt(f)
    BY <1>0, <2>3, AdoptsOnce
  <2>4. CASE id # nextId
    BY <1>0, <1>2, <1>3, <2>1, <2>3, <2>4, HoldsStep
  <2>5. CASE id = nextId
    BY <1>0, <1>3, <2>2, <2>5, HoldsStep, Bounds
  <2> QED
    BY <2>4, <2>5
<1> QED
  BY <1>1, <1>3 DEF HeldOnce

LEMMA TrackedStep == ASSUME Tracked, [Next]_vars PROVE Tracked'
<1>1. CASE UNCHANGED vars
  <2> USE <1>1 DEF vars, discord, remote, engine
  <2>1. Shape'
    BY DEF Tracked, StartupInv, Shape, Types, Known, Discord, ObjectsOk, Seen, EntitiesOk
  <2>3. HeldOk' /\ Quiet' /\ Claimed'
    BY DEF Tracked, StartupInv, HeldOk, Holds, Seen, Quiet, Claimed, OfType, At
  <2>2. RowsOrderly' /\ HeldOnce'
    BY DEF Tracked, RowsOrderly, Unheld, HeldOnce, Holds, At
  <2> QED
    BY <2>1, <2>2, <2>3 DEF Tracked, StartupInv
<1>2. CASE Next
  <2>1. crashesLeft' = 0
    BY <1>2, Frames DEF Next, Tracked, Crash
  <2>2. StartupInv'
    BY <1>2, NextShape, HeldStep, QuietStep, ClaimedStep DEF Tracked, StartupInv
  <2> QED
    BY <1>2, <2>1, <2>2, OrderlyStep, HeldOnceStep DEF Tracked
<1> QED
  BY <1>1, <1>2

LEMMA InitHolds ==
  ASSUME Init, NEW w \in Worlds, rows = w.rows, stoat = w.stoat
  PROVE  /\ Seen = stoat /\ \A e \in Entities : \A id : Holds(e, id) => id = w.rows[e].id
         /\ \A e, f \in Entities, id \in Nat \ {NoId} : Holds(e, id) /\ Holds(f, id) => e = f
         /\ \A e \in Entities, o \in stoat : Holds(e, o.id) => o.id = w.rows[e].id
         /\ \A o, p \in stoat : o.id = p.id => o = p
<1>1. Seen = stoat /\ \A e \in Entities : \A id : Holds(e, id) => id = w.rows[e].id
  BY DEF Init, Holds, Idle, Down, Stamping, Seen
<1> QED
  BY <1>1, WorldsAssumption

LEMMA InitOwned ==
  ASSUME Init, NEW w \in Worlds, rows = w.rows, stoat = w.stoat, NamesApart, WellNamed(w)
  PROVE  Owned
BY InitHolds DEF Owned, WellNamed

LEMMA InitTracked ==
  ASSUME Early = FALSE, Init, NEW w \in Worlds, rows = w.rows, stoat = w.stoat,
         crashesLeft = w.crashes, Orderly(w)
  PROVE  Tracked
<1>1. StartupInv /\ crashesLeft = 0
  BY InitShape, InitHeld, InitQuiet DEF StartupInv, Orderly
<1>2. RowsOrderly
  BY DEF Init, RowsOrderly, Unheld, Down, Orderly, At
<1>3. HeldOnce
  BY InitHolds DEF HeldOnce
<1> QED
  BY <1>1, <1>2, <1>3 DEF Tracked

-----------------------------------------------------------------------------
(* No two entities of Discord are ever mapped to one object on Stoat:       *)
(* through crashes and failures, and even with events during startup, as    *)
(* long as names tell entities apart; and however names coincide, in a life *)
(* that finds the tables in order.                                          *)
THEOREM MappedAtMostOnce ==
  ASSUME \A w \in Worlds : (NamesApart /\ WellNamed(w)) \/ (Early = FALSE /\ Orderly(w))
  PROVE  Spec => []MappedOnce
<1> DEFINE ByName == NamesApart /\ Shape /\ HeldOk /\ Owned
<1>1. Init => ByName \/ Tracked
  <2> SUFFICES ASSUME Init PROVE ByName \/ Tracked
    OBVIOUS
  <2>1. PICK w \in Worlds : rows = w.rows /\ stoat = w.stoat /\ crashesLeft = w.crashes
    BY DEF Init
  <2> QED
    BY <2>1, InitShape, InitHeld, InitOwned, InitTracked
<1>2. ASSUME ByName, [Next]_vars PROVE ByName'
  <2>1. CASE UNCHANGED vars
    <3>1. Shape'
      BY <1>2, <2>1 DEF vars, discord, remote, engine, Shape, Types, Known, Discord, ObjectsOk,
         Seen, EntitiesOk
    <3>2. HeldOk' /\ Owned'
      BY <1>2, <2>1 DEF vars, remote, engine, HeldOk, Owned, Holds, Seen
    <3> QED
      BY <1>2, <3>1, <3>2 DEF NamesApart, NamesOf
  <2>2. CASE Next
    BY <1>2, <2>2, NextShape, HeldStep, OwnedStep DEF NamesApart, NamesOf
  <2> QED
    BY <1>2, <2>1, <2>2
<1>3. ByName \/ Tracked => MappedOnce
  <2> SUFFICES ASSUME ByName \/ Tracked, NEW e \in DOMAIN want, NEW f \in DOMAIN want, e # f,
                      Active(rows[e]), Active(rows[f])
               PROVE  rows[e].id # rows[f].id
    BY DEF MappedOnce
  <2>1. Shape
    BY DEF Tracked, StartupInv
  <2>2. e \in Entities \ gone /\ f \in Entities \ gone
    BY <2>1, ListTyped DEF Shape, Types, Discord
  <2>3. rows[e].id \in Nat \ {NoId} /\ rows[f].id \in Nat \ {NoId}
    BY <2>1, <2>2 DEF Shape, Types, EntitiesOk, EntityOk, RowType
  <2> QED
    BY <2>2, <2>3 DEF Owned, Tracked, HeldOnce, Holds
<1> HIDE DEF ByName
<1> QED
  BY <1>1, <1>2, <1>3, TrackedStep, PTL DEF Spec

(* In such a life Bind deletes no object that the row of an existing entity *)
(* names, be the row active or not, and whatever calls fail.                *)
THEOREM OnlyForeignReaped ==
  ASSUME Early = FALSE, \A w \in Worlds : Orderly(w)
  PROVE  Spec => ReapsOnlyForeign
<1>1. Init => Tracked
  <2> SUFFICES ASSUME Init PROVE Tracked
    OBVIOUS
  <2>1. PICK w \in Worlds : rows = w.rows /\ stoat = w.stoat /\ crashesLeft = w.crashes
    BY DEF Init
  <2> QED
    BY <2>1, InitTracked
<1>2. ASSUME Tracked, [Next]_vars
      PROVE  [At("reap") /\ boot'.avail # boot.avail /\ faults = 0 =>
                \A e \in DOMAIN boot.list, o \in stoat \ stoat' : rows[e].id # o.id]_vars
  <2> SUFFICES ASSUME Next, At("reap"), NEW e \in DOMAIN boot.list, NEW o \in stoat \ stoat',
                      rows[e].id = o.id
               PROVE  FALSE
    BY <1>2
  <2>1. e \in Entities /\ o.id # NoId
    BY <1>2, ListTyped DEF Tracked, StartupInv, Shape, Types, BootType, ObjectType
  <2>2. Active(rows[e])
    BY <1>2, <2>1 DEF Tracked, RowsOrderly, At
  <2> QED
    BY <1>2, <2>2, ReapStep DEF Tracked
<1> QED
  BY <1>1, <1>2, TrackedStep, PTL DEF Spec, ReapsOnlyForeign

-----------------------------------------------------------------------------
(* Why nothing foreign stays.  Where startup has got to, an object is still *)
(* to be read, or is up for reaping ...                                     *)
Unread(o) ==
  \/ boot.pc \in {"down", "admin", "enter", "entered", "fetched"}
  \/ Binding(boot) /\ (o \in boot.avail \/ (boot.type = "channel" /\ o.type = "role"))

(* ... and where it is past that, a row names it that no op or stamp is     *)
(* about to take away ...                                                   *)
Owns(e, id) ==
  \/ worker[e].pc = "confirm" /\ worker[e].id = id
  \/ /\ rows[e].id = id /\ worker[e].pc # "remove"
     /\ Active(rows[e]) \/ worker[e].kind = "put" \/ (At("repaired") /\ boot.e = e)

(* ... of an entity that exists, or whose delete is still to come.          *)
Stays(e) == e \in DOMAIN want \/ queue[e] # <<>> \/ Applies(e, "delete")

Accounted == \A o \in stoat : o.id = Elevation \/ Unread(o) \/ \E e \in Entities : Owns(e, o.id) /\ Stays(e)

(* A worker in the middle of a put has a row to confirm ...                 *)
PutOk(row, w) ==
  /\ w.pc = "confirm" => w.kind = "put"
  /\ w.pc = "idle" => w.kind = "none"
  /\ w.kind = "put" => Found(row)
  /\ w.pc = "confirm" => row.id \in {NoId, w.id}

(* ... and the last op of what Discord deleted is its delete.               *)
EndsOk(ops, w) ==
  /\ ops # <<>> => ops[Len(ops)] = Delete
  /\ w.kind = "put" => ops # <<>>

(* What Bind is about to bind has no active row; what is being repaired has *)
(* the one it was found by.                                                 *)
BindOk ==
  /\ \A e \in boot.unmapped : ~Active(rows[e])
  /\ boot.pc \in {"match", "bind", "bound"} => \A e \in boot.todo : ~Active(rows[e])
  /\ boot.pc \in {"bind", "bound"} => boot.e \notin boot.todo /\ ~Active(rows[boot.e])
  /\ boot.pc \in {"bound", "repaired"} => Found(rows[boot.e])
  /\ boot.pc \in {"repair", "repaired"} => rows[boot.e].id = boot.id

ReadOk ==
  boot.pc = "fetched" \/ Binding(boot) => stoat \subseteq boot.server /\ boot.type \in {"channel", "role"}

Ledger ==
  /\ ReadOk /\ BindOk
  /\ \A e \in Entities : PutOk(rows[e], worker[e])
  /\ \A e \in gone : EndsOk(queue[e], worker[e])
  /\ faults \in Nat /\ (faults = 0 => Accounted)

LEMMA InitLedger == Init => Ledger
<1> SUFFICES ASSUME Init PROVE Ledger
  OBVIOUS
<1>1. boot.pc = "down" /\ boot.unmapped = {} /\ gone = {} /\ faults \in Nat
  BY DEF Init, Down
<1>2. \A e \in Entities : worker[e].pc = "idle" /\ worker[e].kind = "none"
  BY DEF Init, Idle
<1>3. ReadOk /\ BindOk /\ Accounted
  BY <1>1 DEF ReadOk, BindOk, Accounted, Unread, Binding
<1> QED
  BY <1>1, <1>2, <1>3 DEF Ledger, PutOk

(* Until main is up the engine is idle, and an owner is a row.              *)
LEMMA OwnersAtStartup ==
  ASSUME StartupInv, boot.pc # "up", NEW e \in Entities
  PROVE  /\ queue[e] = <<>> /\ worker[e].pc = "idle" /\ worker[e].kind = "none"
         /\ \A id : Owns(e, id) <=> /\ rows[e].id = id
                                    /\ Active(rows[e]) \/ (boot.pc = "repaired" /\ boot.e = e)
         /\ Stays(e) <=> e \in DOMAIN want
<1>1. queue[e] = <<>> /\ worker[e].pc = "idle" /\ worker[e].kind = "none"
  BY DEF StartupInv, Quiet, Idle
<1> QED
  BY <1>1 DEF Owns, Stays, Applies, At

(* An owner that startup leaves alone stays one.                            *)
LEMMA OwnerCarried ==
  ASSUME StartupInv, boot.pc # "up", NEW e \in Entities, NEW id, Owns(e, id), Stays(e),
         UNCHANGED <<want, worker>>, rows'[e] = rows[e],
         boot.pc = "repaired" => Active(rows[e]) \/ (boot'.pc = "repaired" /\ boot'.e = boot.e)
  PROVE  Owns(e, id)' /\ Stays(e)'
<1>1. /\ rows[e].id = id /\ worker[e].pc = "idle" /\ e \in DOMAIN want
      /\ Active(rows[e]) \/ (boot.pc = "repaired" /\ boot.e = e)
  BY OwnersAtStartup
<1>2. Active(rows'[e]) \/ (boot'.pc = "repaired" /\ boot'.e = e)
  BY <1>1 DEF Active
<1> QED
  BY <1>1, <1>2 DEF Owns, Stays, At

LEMMA FaultsGrow == ASSUME Next, faults \in Nat PROVE faults' \in Nat /\ (faults' = 0 => faults = 0)
<1>1. faults' \in {faults, faults + 1}
  BY DEF Next, Startup, Start, Bind, ReconcileLive, ConvergeAll, StampPending, StampConfirm,
     KeepAdminRole, CreateAdminRole, FetchServer, FetchChannels, BeginMatch, BeginReap, BindRoles,
     Claim, ClearDead, FindUnmapped, Adopt, SkipBind, Reap, FetchLive, VerifyLive, SkipLive,
     Process, Skip, WritePending, BeginDelete, Create, Edit, DeleteObject, OpFails, Confirm,
     Remove, Change, Vanish, Crash
<1> QED
  BY <1>1

(* What a step of startup keeps or has to keep.                             *)
Told == ReadOk /\ BindOk /\ (faults = 0 => Accounted)

LEMMA StartupFrame ==
  ASSUME StartupInv, Ledger, Startup
  PROVE  /\ boot.pc # "up" /\ UNCHANGED <<want, gone, worker>> /\ (ConvergeAll \/ UNCHANGED queue)
         /\ boot \in BootType /\ BootOk(boot) /\ BootOk(boot') /\ DOMAIN boot.list \subseteq Entities
         /\ rows \in [Entities -> RowType] /\ stoat \subseteq ObjectType
         /\ faults' = 0 => faults = 0 /\ Accounted
         /\ boot.pc \notin {"down", "up"} => boot.list = want
         /\ ReadOk /\ BindOk
<1>1. Next
  BY DEF Next
<1>2. UNCHANGED <<want, gone, worker>> /\ (ConvergeAll \/ UNCHANGED queue)
  BY <1>1, Frames DEF discord
<1>3. BootOk(boot')
  BY StartupBoot DEF StartupInv
<1>4. boot.pc # "up"
  BY DEF Startup, Start, FetchServer, FetchChannels, BeginMatch, BeginReap, BindRoles, FetchLive,
     StampPending, StampConfirm, Claim, ClearDead, FindUnmapped, Adopt, SkipBind, VerifyLive,
     SkipLive, Reap, KeepAdminRole, CreateAdminRole, ConvergeAll, Bind, ReconcileLive, At
<1>5. faults' = 0 => faults = 0 /\ Accounted
  BY <1>1, FaultsGrow DEF Ledger
<1>6. DOMAIN boot.list \subseteq Entities
  BY ListTyped DEF StartupInv, Shape, Types, BootType
<1> QED
  BY <1>2, <1>3, <1>4, <1>5, <1>6 DEF StartupInv, Shape, Types, Quiet, Ledger

(* Before Bind everything is still to be read.                              *)
LEMMA ToldEarly ==
  ASSUME StartupInv, Ledger, Startup, boot'.pc \in {"admin", "enter", "entered"}
  PROVE  Told'
<1>1. boot'.unmapped = {}
  BY StartupFrame DEF BootOk
<1> QED
  BY <1>1 DEF Told, ReadOk, BindOk, Accounted, Unread, Binding

LEMMA ToldByFetch ==
  ASSUME StartupInv, Ledger, Startup, FetchServer \/ FetchChannels
  PROVE  Told'
<1>0. boot \in BootType /\ BootOk(boot)
  BY StartupFrame
<1>1. CASE FetchServer
  <2>1. boot'.pc = "fetched" /\ boot'.server = stoat' /\ boot'.type = "channel" /\ boot'.unmapped = {}
    BY <1>0, <1>1 DEF FetchServer, BootType, BootOk, At, remote
  <2> QED
    BY <2>1 DEF Told, ReadOk, BindOk, Accounted, Unread, Binding
<1>2. CASE FetchChannels
  <2>1. stoat \subseteq boot.server /\ stoat \subseteq ObjectType /\ stoat' = stoat
    BY <1>2, StartupFrame DEF ReadOk, FetchChannels, At, remote
  <2>2. /\ boot'.pc = "claim" /\ boot'.server = boot.server /\ boot'.type = "channel" /\ boot'.unmapped = {}
        /\ faults' = 0 => \A o \in stoat : o.type = "channel" => o \in boot'.avail
    <3> DEFINE had == {o \in stoat : \E s \in Exists("channel") : s.id = o.id}
    <3>1. \A o \in stoat : o.type = "channel" => o \in had
      BY <2>1 DEF Exists
    <3>2. boot.unmapped = {}
      BY <1>0, <1>2 DEF FetchChannels, BootOk, At
    <3>3. CASE BeginPass("channel", had)
      BY <1>0, <3>1, <3>2, <3>3 DEF BeginPass, BootType
    <3>4. CASE \E o \in had : faults' = faults + 1 /\ BeginPass("channel", had \ {o})
      <4>1. faults' # 0
        BY <3>4 DEF Ledger
      <4> QED
        BY <1>0, <3>2, <3>4, <4>1 DEF BeginPass, BootType
    <3> QED
      BY <1>2, <3>3, <3>4 DEF FetchChannels
  <2>3. \A o \in stoat : o.type \in {"role", "channel"}
    BY <2>1 DEF ObjectType
  <2> QED
    BY <2>1, <2>2, <2>3 DEF Told, ReadOk, BindOk, Accounted, Unread, Binding
<1> QED
  BY <1>1, <1>2

(* Claiming: an active row takes its object out of what is available.       *)
LEMMA ToldByClaim ==
  ASSUME StartupInv, Ledger, Startup, NEW e \in Entities, Claim(e)
  PROVE  Told'
<1>0. /\ boot \in BootType /\ boot.list = want /\ BootOk(boot) /\ boot.pc = "claim" /\ boot.pc # "up"
      /\ UNCHANGED <<want, worker, queue, rows, stoat>> /\ ReadOk /\ BindOk
      /\ faults' = 0 => Accounted
  BY StartupFrame DEF Claim, At, engine, remote
<1>1. /\ boot'.pc = "claim" /\ boot'.type = boot.type /\ boot'.server = boot.server
      /\ boot'.avail = {o \in boot.avail : o.id # rows[e].id} /\ boot'.unmapped = boot.unmapped
      /\ e \in boot.todo
  BY <1>0 DEF Claim, BootType
<1>2. Owns(e, rows[e].id) /\ Stays(e)
  BY <1>0, <1>1, OwnersAtStartup DEF Claim, BootOk
<1>3. ASSUME faults' = 0, NEW o \in stoat, ~(o.id = Elevation), ~Unread(o)'
      PROVE  \E d \in Entities : Owns(d, o.id) /\ Stays(d)
  <2>1. CASE Unread(o)
    <3>1. o.id = rows[e].id
      BY <1>0, <1>1, <1>3, <2>1 DEF Unread, Binding
    <3> QED
      BY <1>2, <3>1
  <2>2. CASE ~Unread(o)
    BY <1>0, <1>3, <2>2 DEF Accounted
  <2> QED
    BY <2>1, <2>2
<1>4. ASSUME NEW d \in Entities, NEW id, Owns(d, id), Stays(d) PROVE Owns(d, id)' /\ Stays(d)'
  BY <1>0, <1>4, OwnerCarried
<1>5. faults' = 0 => Accounted'
  BY <1>0, <1>3, <1>4 DEF Accounted
<1>6. ReadOk' /\ BindOk'
  BY <1>0, <1>1 DEF ReadOk, BindOk, Binding
<1> QED
  BY <1>5, <1>6 DEF Told

(* A dead row names nothing that there is to be read.                       *)
LEMMA ToldByClear ==
  ASSUME StartupInv, Ledger, Startup, NEW e \in Entities, ClearDead(e) \/ FindUnmapped(e)
  PROVE  Told'
<1>0. /\ boot \in BootType /\ boot.list = want /\ BootOk(boot) /\ boot.pc = "claim" /\ boot.pc # "up"
      /\ UNCHANGED <<want, worker, queue, stoat>> /\ ReadOk /\ BindOk
      /\ (faults' = 0 => Accounted) /\ rows \in [Entities -> RowType] /\ stoat \subseteq ObjectType
      /\ boot.unmapped \subseteq Entities
  <2>1. boot.pc = "claim"
    BY DEF ClearDead, FindUnmapped, At
  <2> QED
    BY <2>1, StartupFrame DEF ClearDead, FindUnmapped, At, engine, remote, BootType
<1>1. /\ boot'.pc = "claim" /\ boot'.type = boot.type /\ boot'.server = boot.server
      /\ boot'.avail = boot.avail /\ boot'.unmapped = boot.unmapped \cup {e} /\ e \in boot.todo
  BY <1>0 DEF ClearDead, FindUnmapped, BootType
<1>2. /\ ~Active(rows'[e]) /\ \A d \in Entities \ {e} : rows'[d] = rows[d]
      /\ rows'[e] = rows[e] \/ (ClearDead(e) /\ Active(rows[e]))
  BY <1>0 DEF ClearDead, FindUnmapped, Active, Absent
<1>3. ASSUME ClearDead(e), NEW o \in stoat PROVE o.id # rows[e].id
  <2>1. SUFFICES ASSUME o.id = rows[e].id PROVE FALSE
    OBVIOUS
  <2>2. o \in boot.server /\ o \in Seen /\ o.id \in Nat \ {NoId} /\ Holds(e, o.id)
    BY <1>0, <2>1 DEF ReadOk, Binding, Seen, ObjectType, Holds
  <2>3. o.type = EntityType(e)
    BY <2>2 DEF StartupInv, HeldOk
  <2>4. EntityType(e) = boot.type
    BY <1>0, <1>1 DEF BootOk
  <2> QED
    BY <1>3, <2>1, <2>2, <2>3, <2>4 DEF ClearDead, Exists
<1>4. ASSUME NEW d \in Entities, NEW o \in stoat, Owns(d, o.id), Stays(d)
      PROVE  Owns(d, o.id)' /\ Stays(d)'
  <2>1. rows'[d] = rows[d]
    <3>1. rows[d].id = o.id
      BY <1>0, <1>4, OwnersAtStartup
    <3> QED
      BY <1>2, <1>3, <3>1
  <2> QED
    BY <1>0, <1>4, <2>1, OwnerCarried
<1>5. \A o \in stoat : Unread(o) => Unread(o)'
  BY <1>0, <1>1 DEF Unread, Binding
<1>6. faults' = 0 => Accounted'
  BY <1>0, <1>4, <1>5 DEF Accounted
<1>7. ReadOk' /\ BindOk'
  BY <1>0, <1>1, <1>2 DEF ReadOk, BindOk, Binding
<1> QED
  BY <1>6, <1>7 DEF Told

(* Steps of a pass that only choose what to do.                             *)
LEMMA ToldByChoice ==
  ASSUME StartupInv, Ledger, Startup,
         BeginMatch \/ BeginReap \/ \E e \in Entities : Adopt(e) \/ SkipBind(e)
  PROVE  Told'
<1>0. /\ boot \in BootType /\ BootOk(boot) /\ boot.pc \in {"claim", "match"}
      /\ UNCHANGED <<want, worker, queue, rows, stoat>> /\ ReadOk /\ BindOk
      /\ faults' = 0 => Accounted
  <2>1. boot.pc \in {"claim", "match"} /\ ~ConvergeAll
    BY DEF BeginMatch, BeginReap, Adopt, SkipBind, At, ConvergeAll
  <2> QED
    BY <2>1, StartupFrame DEF BeginMatch, BeginReap, Adopt, SkipBind, engine, remote
<1>1. /\ Binding(boot') /\ boot'.pc \notin {"bound", "repair", "repaired"}
      /\ boot'.type = boot.type /\ boot'.server = boot.server /\ boot'.avail = boot.avail
      /\ BindOk'
  <2>1. CASE BeginMatch
    BY <1>0, <2>1 DEF BeginMatch, BootType, Binding, BindOk, At
  <2>2. CASE BeginReap
    BY <1>0, <2>2 DEF BeginReap, BootType, Binding, BindOk, At
  <2>3. ASSUME NEW e \in Entities, Adopt(e)
        PROVE  /\ Binding(boot') /\ boot'.pc \notin {"bound", "repair", "repaired"}
               /\ boot'.type = boot.type /\ boot'.server = boot.server /\ boot'.avail = boot.avail
               /\ BindOk'
    <3>1. /\ boot'.pc = "bind" /\ boot'.e = e /\ boot'.todo = boot.todo \ {e} /\ e \in boot.todo
          /\ boot.pc = "match" /\ boot'.unmapped = boot.unmapped
          /\ boot'.type = boot.type /\ boot'.server = boot.server /\ boot'.avail = boot.avail
      BY <1>0, <2>3 DEF Adopt, BootType, At
    <3> QED
      BY <1>0, <3>1 DEF Binding, BindOk
  <2>4. ASSUME NEW e \in Entities, SkipBind(e)
        PROVE  /\ Binding(boot') /\ boot'.pc \notin {"bound", "repair", "repaired"}
               /\ boot'.type = boot.type /\ boot'.server = boot.server /\ boot'.avail = boot.avail
               /\ BindOk'
    BY <1>0, <2>4 DEF SkipBind, BootType, Binding, BindOk, At
  <2> QED
    BY <2>1, <2>2, <2>3, <2>4
<1>2. \A o \in stoat : Unread(o) => Unread(o)'
  BY <1>0, <1>1 DEF Unread, Binding
<1>3. ASSUME NEW d \in Entities, NEW id, Owns(d, id), Stays(d) PROVE Owns(d, id)' /\ Stays(d)'
  BY <1>0, <1>3, OwnerCarried
<1>4. faults' = 0 => Accounted'
  BY <1>0, <1>2, <1>3 DEF Accounted
<1>5. ReadOk'
  BY <1>0, <1>1 DEF ReadOk, Binding
<1> QED
  BY <1>1, <1>4, <1>5 DEF Told

(* What is left over is deleted, but for the bot's own role.                *)
LEMMA ToldByReap ==
  ASSUME DryRun = FALSE, StartupInv, Ledger, Startup, NEW q \in boot.avail, Reap(q)
  PROVE  Told'
<1>0. /\ boot \in BootType /\ BootOk(boot) /\ boot.pc = "reap" /\ faults \in Nat
      /\ UNCHANGED <<want, worker, queue, rows>> /\ stoat' \subseteq stoat /\ ReadOk /\ BindOk
      /\ faults' = 0 => Accounted
  <2>1. boot.pc = "reap" /\ ~ConvergeAll
    BY DEF Reap, At, ConvergeAll
  <2> QED
    BY <2>1, StartupFrame DEF Reap, engine, Ledger
<1>1. /\ boot'.pc = "reap" /\ boot'.type = boot.type /\ boot'.server = boot.server
      /\ boot'.avail = boot.avail \ {q} /\ boot'.unmapped = boot.unmapped
  BY <1>0 DEF Reap, BootType
<1>2. faults' = 0 => \A o \in stoat' : o = q => o.id = Elevation
  BY <1>0 DEF Reap, Exempt
<1>3. ASSUME faults' = 0, NEW o \in stoat' PROVE o.id = Elevation \/ (Unread(o) => Unread(o)')
  BY <1>0, <1>1, <1>2, <1>3 DEF Unread, Binding
<1>4. ASSUME NEW d \in Entities, NEW id, Owns(d, id), Stays(d) PROVE Owns(d, id)' /\ Stays(d)'
  BY <1>0, <1>4, OwnerCarried
<1>5. faults' = 0 => Accounted'
  BY <1>0, <1>3, <1>4 DEF Accounted
<1>6. ReadOk' /\ BindOk'
  BY <1>0, <1>1 DEF ReadOk, BindOk, Binding
<1> QED
  BY <1>5, <1>6 DEF Told

(* Once a pass is over, what there is of its kind is owned.                 *)
LEMMA ToldByPass ==
  ASSUME StartupInv, Ledger, Startup, BindRoles \/ FetchLive
  PROVE  Told'
<1>0. /\ boot \in BootType /\ BootOk(boot) /\ boot.pc = "reap" /\ boot.avail = {}
      /\ UNCHANGED <<want, worker, queue, rows, stoat>> /\ ReadOk /\ BindOk
      /\ (faults' = 0 => Accounted) /\ stoat \subseteq boot.server /\ boot.unmapped = {}
  <2>1. boot.pc = "reap" /\ boot.avail = {} /\ ~ConvergeAll
    BY DEF BindRoles, FetchLive, At, ConvergeAll
  <2>2. boot.unmapped = {}
    BY <2>1, StartupFrame DEF BootOk
  <2> QED
    BY <2>1, <2>2, StartupFrame DEF BindRoles, FetchLive, engine, remote, ReadOk, Binding
<1>1. ASSUME NEW d \in Entities, NEW id, Owns(d, id), Stays(d) PROVE Owns(d, id)' /\ Stays(d)'
  BY <1>0, <1>1, OwnerCarried
<1>2. CASE BindRoles
  <2>1. /\ boot'.pc = "claim" /\ boot'.type = "role" /\ boot'.server = boot.server
        /\ boot'.avail = Exists("role") /\ boot'.unmapped = {} /\ boot.type = "channel"
    BY <1>0, <1>2 DEF BindRoles, BeginPass, BootType
  <2>2. \A o \in stoat : Unread(o) => Unread(o)'
    BY <1>0, <2>1 DEF Unread, Binding, Exists
  <2>3. faults' = 0 => Accounted'
    BY <1>0, <1>1, <2>2 DEF Accounted
  <2>4. ReadOk' /\ BindOk'
    BY <1>0, <2>1 DEF ReadOk, BindOk, Binding
  <2> QED
    BY <2>3, <2>4 DEF Told
<1>3. CASE FetchLive
  <2>1. boot'.pc = "live" /\ boot'.unmapped = {} /\ boot.type = "role"
    BY <1>0, <1>3 DEF FetchLive, BootType
  <2>2. \A o \in stoat : ~Unread(o)
    BY <1>0, <2>1 DEF Unread, Binding
  <2>3. faults' = 0 => Accounted'
    BY <1>0, <1>1, <2>2 DEF Accounted
  <2>4. ReadOk' /\ BindOk'
    BY <2>1 DEF ReadOk, BindOk, Binding
  <2> QED
    BY <2>3, <2>4 DEF Told
<1> QED
  BY <1>2, <1>3

LEMMA ToldByLive ==
  ASSUME StartupInv, Ledger, Startup,
         ConvergeAll \/ \E e \in Entities : VerifyLive(e) \/ SkipLive(e)
  PROVE  Told'
<1>0. /\ boot \in BootType /\ BootOk(boot) /\ boot.pc = "live" /\ boot.unmapped = {}
      /\ UNCHANGED <<want, worker, rows, stoat>>
      /\ faults' = 0 => Accounted
  <2>1. boot.pc = "live"
    BY DEF VerifyLive, SkipLive, ConvergeAll, At
  <2>2. boot.unmapped = {}
    BY <2>1, StartupFrame DEF BootOk
  <2> QED
    BY <2>1, <2>2, StartupFrame DEF VerifyLive, SkipLive, ConvergeAll, remote
<1>1. /\ boot'.pc \in {"live", "repair", "up"} /\ boot'.unmapped = {}
      /\ boot'.pc = "repair" => rows'[boot'.e].id = boot'.id
  <2>1. CASE ConvergeAll
    BY <2>1 DEF ConvergeAll, Down
  <2>2. ASSUME NEW e \in Entities, VerifyLive(e)
        PROVE  boot'.pc = "repair" /\ boot'.unmapped = {} /\ rows'[boot'.e].id = boot'.id
    <3>1. PICK o \in LiveObjects(e) : \E state :
            boot' = [boot EXCEPT !.pc = "repair", !.todo = @ \ {e}, !.e = e, !.id = o.id,
                                 !.state = state]
      BY <2>2 DEF VerifyLive
    <3> QED
      BY <1>0, <3>1 DEF LiveObjects, BootType
  <2>3. ASSUME NEW e \in Entities, SkipLive(e)
        PROVE  boot'.pc = "live" /\ boot'.unmapped = {}
    BY <1>0, <2>3 DEF SkipLive, BootType
  <2> QED
    BY <2>1, <2>2, <2>3
<1>2. ASSUME NEW d \in Entities, NEW id, Owns(d, id), Stays(d) PROVE Owns(d, id)' /\ Stays(d)'
  BY <1>0, <1>2, OwnerCarried
<1>3. faults' = 0 => Accounted'
  BY <1>0, <1>2 DEF Accounted, Unread, Binding
<1>4. ReadOk' /\ BindOk'
  BY <1>1 DEF ReadOk, BindOk, Binding
<1> QED
  BY <1>3, <1>4 DEF Told

(* A stamp hands over an object, or gives one back to its row.              *)
LEMMA ToldByStamp ==
  ASSUME StartupInv, Ledger, Startup, StampPending, boot.pc \in {"bind", "repair"}
  PROVE  Told'
<1>0. /\ boot \in BootType /\ BootOk(boot) /\ boot.e \in Entities /\ boot.unmapped = {}
      /\ UNCHANGED <<want, worker, queue, stoat>> /\ ReadOk /\ BindOk
      /\ (faults' = 0 => Accounted) /\ rows \in [Entities -> RowType]
  <2>1. boot.e \in Entities /\ boot.unmapped = {} /\ ~ConvergeAll
    BY StartupFrame DEF BootOk, Stamping, ConvergeAll, At
  <2> QED
    BY <2>1, StartupFrame DEF StampPending, engine, remote
<1>1. /\ boot'.pc = IF boot.pc = "bind" THEN "bound" ELSE "repaired"
      /\ boot'.e = boot.e /\ boot'.id = boot.id /\ boot'.type = boot.type /\ boot'.todo = boot.todo
      /\ boot'.server = boot.server /\ boot'.avail = boot.avail /\ boot'.unmapped = {}
  BY <1>0 DEF StampPending, BootType, At
<1>2. /\ ~Active(rows'[boot.e]) /\ Found(rows'[boot.e]) /\ rows'[boot.e].id = rows[boot.e].id
      /\ \A d \in Entities \ {boot.e} : rows'[d] = rows[d]
  BY <1>0 DEF StampPending, PendingStructureRow, Active, Found
<1>3. ASSUME NEW d \in Entities, NEW id, Owns(d, id), Stays(d) PROVE Owns(d, id)' /\ Stays(d)'
  <2>1. /\ rows[d].id = id /\ Active(rows[d]) /\ d \in DOMAIN want
        /\ worker[d].pc = "idle"
    BY <1>3, OwnersAtStartup
  <2>2. CASE d # boot.e
    BY <1>0, <1>2, <1>3, <2>2, OwnerCarried
  <2>3. CASE d = boot.e
    <3>1. boot'.pc = "repaired"
      BY <1>0, <1>1, <2>1, <2>3 DEF BindOk
    <3> QED
      BY <1>0, <1>1, <1>2, <2>1, <2>3, <3>1 DEF Owns, Stays, At
  <2> QED
    BY <2>2, <2>3
<1>4. \A o \in stoat : Unread(o) => Unread(o)'
  BY <1>0, <1>1 DEF Unread, Binding
<1>5. faults' = 0 => Accounted'
  BY <1>0, <1>3, <1>4 DEF Accounted
<1>6. ReadOk'
  BY <1>0, <1>1 DEF ReadOk, Binding
<1>7. BindOk'
  <2>1. boot.pc = "bind" => \A e \in boot.todo : e # boot.e /\ e \in Entities
    BY <1>0, StartupFrame DEF BindOk, BootOk
  <2> QED
    BY <1>0, <1>1, <1>2, <2>1 DEF BindOk
<1> QED
  BY <1>5, <1>6, <1>7 DEF Told

LEMMA ToldByConfirm ==
  ASSUME StartupInv, Ledger, Startup, StampConfirm, boot.pc \in {"bound", "repaired"}
  PROVE  Told'
<1>0. /\ boot \in BootType /\ BootOk(boot) /\ boot.e \in Entities /\ boot.unmapped = {}
      /\ boot.e \in DOMAIN want
      /\ UNCHANGED <<want, worker, queue, stoat>> /\ ReadOk /\ BindOk
      /\ (faults' = 0 => Accounted) /\ rows \in [Entities -> RowType] /\ rows[boot.e] \in RowType
  <2>1. /\ boot.e \in Entities /\ boot.e \in DOMAIN want /\ boot.unmapped = {} /\ ~ConvergeAll
    BY StartupFrame DEF BootOk, Stamping, ConvergeAll, At
  <2> QED
    BY <2>1, StartupFrame DEF StampConfirm, engine, remote
<1>1. /\ boot'.pc = IF boot.pc = "bound" THEN "match" ELSE "live"
      /\ boot'.type = boot.type /\ boot'.todo = boot.todo /\ boot'.server = boot.server
      /\ boot'.avail = {o \in boot.avail : o.id # boot.id} /\ boot'.unmapped = {}
  BY <1>0 DEF StampConfirm, BootType, At
<1>2. /\ Active(rows'[boot.e]) /\ rows'[boot.e].id = boot.id
      /\ \A d \in Entities \ {boot.e} : rows'[d] = rows[d]
  <2>1. Found(rows[boot.e])
    BY <1>0 DEF BindOk
  <2> QED
    BY <1>0, <2>1 DEF StampConfirm, ConfirmedRow, Active, RowType
<1>3. PICK e \in Entities, id \in Nat : e = boot.e /\ id = boot.id
  BY <1>0 DEF BootType
<1>4. Owns(e, id)' /\ Stays(e)'
  <2>1. worker'[e].pc = "idle"
    BY <1>0, OwnersAtStartup
  <2> QED
    BY <1>0, <1>2, <1>3, <2>1 DEF Owns, Stays
<1>5. ASSUME NEW d \in Entities, NEW i, Owns(d, i), Stays(d)
      PROVE  (Owns(d, i)' /\ Stays(d)') \/ i = id
  <2>1. CASE d = e
    BY <1>0, <1>3, <1>5, <2>1, OwnersAtStartup DEF BindOk
  <2>2. CASE d # e
    <3>1. rows'[d] = rows[d] /\ (boot.pc = "repaired" => Active(rows[d]))
      BY <1>0, <1>2, <1>3, <1>5, <2>2, OwnersAtStartup
    <3> QED
      BY <1>0, <1>5, <3>1, OwnerCarried
  <2> QED
    BY <2>1, <2>2
<1>6. \A o \in stoat : Unread(o) => Unread(o)' \/ o.id = id
  BY <1>0, <1>1, <1>3 DEF Unread, Binding
<1>7. faults' = 0 => Accounted'
  <2> SUFFICES ASSUME faults' = 0, NEW o \in stoat
               PROVE  o.id = Elevation \/ Unread(o)' \/ \E d \in Entities : Owns(d, o.id)' /\ Stays(d)'
    BY <1>0 DEF Accounted
  <2>1. CASE o.id = id
    BY <1>4, <2>1
  <2>2. CASE o.id # id
    BY <1>0, <1>5, <1>6, <2>2 DEF Accounted
  <2> QED
    BY <2>1, <2>2
<1>8. ReadOk'
  BY <1>0, <1>1 DEF ReadOk, Binding
<1>9. BindOk'
  <2>1. boot.pc = "bound" => \A d \in boot.todo : d # boot.e /\ d \in Entities
    BY <1>0, StartupFrame DEF BindOk, BootOk
  <2> QED
    BY <1>0, <1>1, <1>2, <2>1 DEF BindOk
<1> QED
  BY <1>7, <1>8, <1>9 DEF Told

LEMMA StartupTold == ASSUME DryRun = FALSE, StartupInv, Ledger, Startup PROVE Told'
<1>1. boot \in BootType
  BY StartupFrame
<1>2. CASE Start \/ \E r \in Privileged : KeepAdminRole(r) \/ CreateAdminRole(r)
  <2>1. boot'.pc \in {"admin", "enter"}
    BY <1>1, <1>2 DEF Start, KeepAdminRole, CreateAdminRole, Down, BootType, At
  <2> QED
    BY <2>1, ToldEarly
<1>3. CASE StampPending
  <2>1. CASE boot.pc = "enter"
    <3>1. boot'.pc = "entered"
      BY <1>1, <1>3, <2>1 DEF StampPending, BootType, At
    <3> QED
      BY <3>1, ToldEarly
  <2> QED
    BY <1>3, <2>1, ToldByStamp DEF StampPending
<1>4. CASE StampConfirm
  <2>1. CASE boot.pc = "entered"
    <3>1. boot'.pc = "admin"
      BY <1>1, <1>4, <2>1 DEF StampConfirm, BootType, At
    <3> QED
      BY <3>1, ToldEarly
  <2> QED
    BY <1>4, <2>1, ToldByConfirm DEF StampConfirm
<1> QED
  BY <1>2, <1>3, <1>4, ToldByFetch, ToldByClaim, ToldByClear, ToldByChoice, ToldByReap, ToldByPass,
     ToldByLive DEF Startup, Bind, ReconcileLive

-----------------------------------------------------------------------------
(* Ops: each takes its object along from row to row.                        *)
LEMMA TailEnds ==
  ASSUME NEW S, NEW s \in Seq(S), s # <<>>
  PROVE  /\ Tail(s) # <<>> => Tail(s)[Len(Tail(s))] = s[Len(s)]
         /\ Tail(s) = <<>> => Head(s) = s[Len(s)]
<1>1. /\ Len(s) \in Nat \ {0} /\ Len(Tail(s)) = Len(s) - 1 /\ Tail(s) \in Seq(S)
      /\ \A i \in 1 .. Len(Tail(s)) : Tail(s)[i] = s[i + 1]
  BY HeadTailProperties, EmptySeq, LenProperties
<1>2. CASE Tail(s) = <<>>
  BY <1>1, <1>2
<1>3. CASE Tail(s) # <<>>
  <2>1. Len(Tail(s)) \in Nat \ {0}
    BY <1>1, <1>3, EmptySeq
  <2> QED
    BY <1>1, <1>3, <2>1
<1> QED
  BY <1>2, <1>3

(* What the engine has for an entity of the past ends with its delete.      *)
LEMMA Lasts ==
  ASSUME StartupInv, Ledger, NEW e \in Entities,
         worker[e].kind = "put" \/ (\E id : Owns(e, id) /\ ~At("repaired"))
  PROVE  /\ Found(rows[e])
         /\ e \in DOMAIN want \/ e \in gone
         /\ worker[e].kind = "put" => e \in DOMAIN want \/ queue[e] # <<>>
<1>1. Found(rows[e])
  BY DEF Owns, Active, Found, Ledger, PutOk
<1> QED
  BY <1>1 DEF Ledger, EndsOk, StartupInv, Shape, EntitiesOk, EntityOk, Known

LEMMA ProcessFrame ==
  ASSUME StartupInv, Ledger, NEW e \in Entities, Process(e)
  PROVE  /\ boot.pc = "up" /\ UNCHANGED <<want, gone, boot>>
         /\ \A d \in Entities \ {e} : rows'[d] = rows[d] /\ worker'[d] = worker[d] /\ queue'[d] = queue[d]
         /\ worker[e] \in WorkerType /\ rows[e] \in RowType /\ queue[e] \in Seq(OpType)
         /\ rows \in [Entities -> RowType] /\ worker \in [Entities -> WorkerType]
         /\ queue \in [Entities -> Seq(OpType)]
         /\ faults' = 0 => faults = 0 /\ Accounted
<1>1. boot.pc = "up"
  BY DEF Process, Skip, WritePending, BeginDelete, Next1, Create, CreateEffect, Edit,
     EditEffect, DeleteObject, DeleteEffect, Applies, OpFails, Confirm, Remove, StartupInv, Quiet, Idle
<1>2. UNCHANGED <<want, gone, boot>>
  BY Frames DEF Next, discord
<1>3. /\ rows \in [Entities -> RowType] /\ worker \in [Entities -> WorkerType]
      /\ queue \in [Entities -> Seq(OpType)]
  BY DEF StartupInv, Shape, Types
<1>4. \A d \in Entities \ {e} : rows'[d] = rows[d] /\ worker'[d] = worker[d] /\ queue'[d] = queue[d]
  BY <1>3 DEF Process, Skip, WritePending, BeginDelete, Step, Create, Edit, DeleteObject, OpFails,
     Confirm, Remove
<1>5. faults' = 0 => faults = 0 /\ Accounted
  BY FaultsGrow DEF Ledger, Next
<1> QED
  BY <1>1, <1>2, <1>3, <1>4, <1>5

(* The local halves of the ledger: workers with rows, and last ops.         *)
LEMMA ProcessKeeps ==
  ASSUME DryRun = FALSE, StartupInv, Ledger, NEW e \in Entities, Process(e)
  PROVE  /\ PutOk(rows'[e], worker'[e])
         /\ e \in gone => EndsOk(queue'[e], worker'[e])
<1>0. /\ worker[e] \in WorkerType /\ rows[e] \in RowType /\ queue[e] \in Seq(OpType)
      /\ rows \in [Entities -> RowType] /\ worker \in [Entities -> WorkerType]
      /\ queue \in [Entities -> Seq(OpType)]
      /\ PutOk(rows[e], worker[e]) /\ (e \in gone => EndsOk(queue[e], worker[e]))
  BY ProcessFrame DEF Ledger
<1>1. queue[e] # <<>> => /\ Tail(queue[e]) # <<>> => Tail(queue[e])[Len(Tail(queue[e]))] = queue[e][Len(queue[e])]
                         /\ Tail(queue[e]) = <<>> => Head(queue[e]) = queue[e][Len(queue[e])]
  BY <1>0, TailEnds
<1>2. CASE Skip(e)
  BY <1>0, <1>1, <1>2 DEF Skip, Next1, Idle, EndsOk, PutOk, Delete
<1>3. CASE WritePending(e)
  <2>1. /\ worker[e] = Idle /\ queue[e] # <<>> /\ Head(queue[e]).kind = "put" /\ queue'[e] = Tail(queue[e])
        /\ Found(rows'[e]) /\ worker'[e].kind = "put" /\ worker'[e].pc = "apply"
    BY <1>0, <1>3 DEF WritePending, Next1, Step, Idle, PendingStructureRow, Found
  <2> QED
    BY <1>0, <1>1, <2>1 DEF EndsOk, PutOk, Delete
<1>4. CASE BeginDelete(e)
  <2>1. /\ queue[e] # <<>> /\ queue'[e] = Tail(queue[e]) /\ UNCHANGED rows
        /\ worker'[e].kind = "delete" /\ worker'[e].pc = "apply"
    BY <1>0, <1>4 DEF BeginDelete, Next1, Step, Idle
  <2> QED
    BY <1>0, <1>1, <2>1 DEF EndsOk, PutOk
<1>5. CASE Create(e) \/ Edit(e)
  <2>1. /\ UNCHANGED <<queue, rows>> /\ worker'[e].kind = worker[e].kind /\ worker[e].kind = "put"
        /\ worker'[e].pc = "confirm"
        /\ Found(rows[e]) => rows[e].id \in {NoId, worker'[e].id}
    <3>1. CASE Create(e)
      BY <1>0, <3>1 DEF Create, CreateEffect, Applies, Step, HasStoatEntity, WorkerType
    <3>2. CASE Edit(e)
      BY <1>0, <3>2 DEF Edit, EditEffect, Applies, Step, WorkerType
    <3> QED
      BY <1>5, <3>1, <3>2
  <2> QED
    BY <1>0, <2>1 DEF EndsOk, PutOk
<1>6. CASE DeleteObject(e)
  <2>1. /\ UNCHANGED <<queue, rows>> /\ worker'[e].kind = "delete" /\ worker'[e].pc = "remove"
    BY <1>0, <1>6 DEF DeleteObject, DeleteEffect, Applies, Step, WorkerType
  <2> QED
    BY <1>0, <2>1 DEF EndsOk, PutOk
<1>7. CASE OpFails(e) \/ Confirm(e) \/ Remove(e)
  <2>1. UNCHANGED queue /\ worker'[e] = Idle
    BY <1>0, <1>7 DEF OpFails, Confirm, Remove, Step
  <2> QED
    BY <1>0, <2>1 DEF EndsOk, PutOk, Idle
<1> QED
  BY <1>2, <1>3, <1>4, <1>5, <1>6, <1>7 DEF Process

(* What there is on Stoat after a step of e's worker was there before, or   *)
(* is what the worker made for e.                                           *)
LEMMA ObjectsFrom ==
  ASSUME StartupInv, Ledger, NEW e \in Entities, Process(e), faults' = 0, NEW o \in stoat'
  PROVE  \/ \E p \in stoat : p.id = o.id
         \/ Create(e) /\ o.id = nextId
<1>0. worker[e] \in WorkerType /\ stoat \subseteq ObjectType /\ faults = 0
  BY ProcessFrame DEF StartupInv, Shape, Types
<1>1. CASE Skip(e) \/ WritePending(e) \/ BeginDelete(e) \/ Confirm(e) \/ Remove(e)
  BY <1>1 DEF Skip, WritePending, BeginDelete, Confirm, Remove, remote
<1>2. CASE Create(e)
  BY <1>2 DEF Create, CreateEffect, Object
<1>3. CASE Edit(e)
  <2>1. \A p \in With(rows[e].id) : p \in stoat /\ Edited(e, p).id = p.id
    BY <1>0 DEF With, Edited, ObjectType
  <2> QED
    BY <1>3, <2>1 DEF Edit, EditEffect
<1>4. CASE DeleteObject(e)
  BY <1>4 DEF DeleteObject, DeleteEffect, remote
<1>5. CASE OpFails(e)
  BY <1>0, <1>5 DEF OpFails, remote
<1> QED
  BY <1>1, <1>2, <1>3, <1>4, <1>5 DEF Process

(* The entity itself keeps what it owns, or is rid of it.                   *)
LEMMA OwnerGoesOn ==
  ASSUME DryRun = FALSE, StartupInv, Ledger, NEW e \in Entities, Process(e), faults' = 0,
         NEW o \in stoat', NEW p \in stoat, p.id = o.id, Owns(e, o.id), o.id # Elevation, Stays(e)
  PROVE  Owns(e, o.id)' /\ Stays(e)'
<1>0. /\ worker[e] \in WorkerType /\ rows[e] \in RowType /\ queue[e] \in Seq(OpType)
      /\ rows \in [Entities -> RowType] /\ worker \in [Entities -> WorkerType]
      /\ queue \in [Entities -> Seq(OpType)] /\ UNCHANGED <<want, gone, boot>> /\ boot.pc = "up"
      /\ PutOk(rows[e], worker[e]) /\ (e \in gone => EndsOk(queue[e], worker[e]))
      /\ PutOk(rows'[e], worker'[e]) /\ (e \in gone => EndsOk(queue'[e], worker'[e]))
      /\ faults = 0 /\ o.id # NoId
  <2>1. o.id # NoId
    BY DEF StartupInv, Shape, Types, ObjectType
  <2> QED
    BY <2>1, ProcessFrame, ProcessKeeps DEF Ledger
<1>1. /\ Found(rows[e]) /\ (e \in DOMAIN want \/ e \in gone)
      /\ worker[e].kind = "put" => e \in DOMAIN want \/ queue[e] # <<>>
  BY <1>0, Lasts DEF At
<1>2. \/ worker[e].pc = "confirm" /\ worker[e].id = o.id
      \/ rows[e].id = o.id /\ worker[e].pc # "remove" /\ (Active(rows[e]) \/ worker[e].kind = "put")
  BY <1>0 DEF Owns, At
<1>3. ASSUME queue'[e] = Tail(queue[e]), queue[e] # <<>>, Head(queue[e]).kind = "put"
      PROVE  e \in DOMAIN want \/ queue'[e] # <<>>
  <2>1. Tail(queue[e]) = <<>> => Head(queue[e]) = queue[e][Len(queue[e])]
    BY <1>0, <1>3, TailEnds
  <2> QED
    BY <1>0, <1>1, <1>3, <2>1 DEF EndsOk, Delete
<1>4. CASE Skip(e)
  <2>1. /\ queue'[e] = Tail(queue[e]) /\ queue[e] # <<>> /\ Head(queue[e]).kind = "put"
        /\ UNCHANGED <<rows, worker>>
    BY <1>0, <1>4 DEF Skip, Next1
  <2> QED
    BY <1>0, <1>3, <2>1 DEF Owns, Stays, At
<1>5. CASE WritePending(e)
  <2>1. /\ queue'[e] = Tail(queue[e]) /\ queue[e] # <<>> /\ Head(queue[e]).kind = "put"
        /\ worker[e] = Idle /\ worker'[e].pc = "apply" /\ worker'[e].kind = "put"
        /\ rows'[e].id = rows[e].id
    BY <1>0, <1>5 DEF WritePending, Next1, Step, Idle, PendingStructureRow
  <2> QED
    BY <1>0, <1>2, <1>3, <2>1 DEF Owns, Stays, Idle
<1>6. CASE BeginDelete(e)
  <2>1. /\ worker[e] = Idle /\ worker'[e].pc = "apply" /\ worker'[e].kind = "delete" /\ UNCHANGED rows
    BY <1>0, <1>6 DEF BeginDelete, Next1, Step, Idle
  <2> QED
    BY <1>0, <1>2, <2>1 DEF Owns, Stays, Idle, Applies
<1>7. CASE Create(e)
  <2>1. ~Found(rows[e]) \/ rows[e].id = NoId
    BY <1>7 DEF Create, CreateEffect, HasStoatEntity
  <2>2. worker[e].pc = "apply"
    BY <1>7 DEF Create, CreateEffect, Applies
  <2> QED
    BY <1>0, <1>1, <1>2, <2>1, <2>2
<1>8. CASE Edit(e)
  <2>1. /\ worker[e].pc = "apply" /\ worker[e].kind = "put" /\ worker'[e].pc = "confirm"
        /\ worker'[e].id = rows[e].id /\ UNCHANGED queue
    BY <1>0, <1>8 DEF Edit, EditEffect, Applies, Step
  <2> QED
    BY <1>0, <1>1, <1>2, <2>1 DEF Owns, Stays
<1>9. CASE DeleteObject(e)
  <2>1. worker[e].pc = "apply" /\ worker[e].kind = "delete"
    BY <1>9 DEF DeleteObject, DeleteEffect, Applies
  <2>2. rows[e].id = o.id /\ Active(rows[e])
    BY <1>2, <2>1
  <2>3. stoat' = stoat \ With(rows[e].id)
    BY <1>9, <2>2 DEF DeleteObject, DeleteEffect
  <2> QED
    BY <2>2, <2>3 DEF With
<1>10. CASE OpFails(e)
  <2>1. worker[e].pc = "apply" /\ Hopeless(e)
    BY <1>0, <1>10 DEF OpFails
  <2>2. With(rows[e].id) = {} \/ rows[e].id = Elevation
    BY <2>1 DEF Hopeless
  <2> QED
    BY <1>2, <2>1, <2>2 DEF With
<1>11. CASE Confirm(e)
  <2>1. worker[e].pc = "confirm" /\ worker[e].kind = "put" /\ worker[e].id = o.id
    BY <1>0, <1>2, <1>11 DEF Confirm, PutOk
  <2>2. worker'[e].pc = "idle" /\ UNCHANGED queue
    BY <1>0, <1>11 DEF Confirm, Step, Idle
  <2>3. rows'[e].id = o.id /\ Active(rows'[e])
    BY <1>0, <1>1, <1>11, <2>1 DEF Confirm, ConfirmedRow, Active, RowType
  <2> QED
    BY <1>0, <1>1, <2>1, <2>2, <2>3 DEF Owns, Stays
<1>12. CASE Remove(e)
  BY <1>2, <1>12 DEF Remove
<1> QED
  BY <1>4, <1>5, <1>6, <1>7, <1>8, <1>9, <1>10, <1>11, <1>12 DEF Process

LEMMA ProcessTold ==
  ASSUME DryRun = FALSE, StartupInv, Ledger, NEW e \in Entities, Process(e)
  PROVE  Told'
<1>0. /\ boot.pc = "up" /\ UNCHANGED <<want, gone, boot>> /\ boot.unmapped = {}
      /\ worker \in [Entities -> WorkerType] /\ rows \in [Entities -> RowType]
      /\ queue \in [Entities -> Seq(OpType)]
      /\ faults' = 0 => faults = 0 /\ Accounted
  <2>1. boot.pc = "up" => boot.unmapped = {}
    BY DEF StartupInv, Shape, BootOk
  <2> QED
    BY <2>1, ProcessFrame
<1>1. ReadOk' /\ BindOk'
  BY <1>0 DEF ReadOk, BindOk, Binding
<1>2. ASSUME faults' = 0, NEW o \in stoat', o.id # Elevation
      PROVE  \E d \in Entities : Owns(d, o.id)' /\ Stays(d)'
  <2>1. CASE Create(e) /\ o.id = nextId
    <3>1. /\ worker'[e].pc = "confirm" /\ worker'[e].id = o.id /\ UNCHANGED queue
          /\ worker[e].kind = "put"
      BY <1>0, <2>1 DEF Create, CreateEffect, Applies, Step
    <3>2. e \in DOMAIN want \/ queue[e] # <<>>
      BY <3>1, Lasts
    <3>3. Owns(e, o.id)' /\ Stays(e)'
      BY <1>0, <3>1, <3>2 DEF Owns, Stays
    <3> QED
      BY <3>3
  <2>2. CASE \E p \in stoat : p.id = o.id
    <3>1. PICK p \in stoat : p.id = o.id
      BY <2>2
    <3>2. PICK d \in Entities : Owns(d, o.id) /\ Stays(d)
      <4>1. ~Unread(p)
        BY <1>0 DEF Unread, Binding
      <4> QED
        BY <1>0, <1>2, <3>1, <4>1 DEF Accounted
    <3>3. CASE d = e
      BY <1>2, <3>1, <3>2, <3>3, OwnerGoesOn
    <3>4. CASE d # e
      <4>1. rows'[d] = rows[d] /\ worker'[d] = worker[d] /\ queue'[d] = queue[d]
        BY <3>4, ProcessFrame
      <4>2. Owns(d, o.id)' /\ Stays(d)'
        BY <1>0, <3>2, <4>1 DEF Owns, Stays, Applies, At
      <4> QED
        BY <4>2
    <3> QED
      BY <3>3, <3>4
  <2> QED
    BY <1>2, <2>1, <2>2, ObjectsFrom
<1>3. faults' = 0 => Accounted'
  BY <1>2 DEF Accounted
<1> QED
  BY <1>1, <1>3 DEF Told

(* Events come while main is down, when nothing is sure, or up.             *)
LEMMA EventTold ==
  ASSUME Early = FALSE, StartupInv, Ledger, NEW e \in Entities, Change(e) \/ Vanish(e)
  PROVE  Ledger'
<1>0. /\ boot.pc \in {"down", "up"} /\ UNCHANGED <<rows, stoat, boot, worker, faults>>
      /\ boot.unmapped = {} /\ queue \in [Entities -> Seq(OpType)] /\ want \in Lists
      /\ DOMAIN want \subseteq Entities /\ DOMAIN want \cap gone = {}
  <2>1. boot.pc \in {"down", "up"} /\ UNCHANGED <<rows, stoat, boot, worker, faults>>
    BY DEF Change, Vanish, MayHappen, remote
  <2> QED
    BY <2>1, ListTyped DEF StartupInv, Shape, Types, BootOk, Discord
<1>1. ReadOk' /\ BindOk' /\ \A d \in Entities : PutOk(rows'[d], worker'[d])
  BY <1>0 DEF ReadOk, BindOk, Binding, Ledger
<1>2. ASSUME NEW d \in Entities
      PROVE  /\ d \in DOMAIN want => d \in DOMAIN want' \/ (boot.pc = "up" => queue'[d] # <<>>)
             /\ queue[d] # <<>> => queue'[d] # <<>>
             /\ d \in gone' => EndsOk(queue'[d], worker'[d])
  <2>0. queue[d] \in Seq(OpType) /\ queue[e] \in Seq(OpType)
    BY <1>0
  <2>1. ASSUME NEW op \in OpType
        PROVE  Append(queue[e], op) # <<>> /\ Append(queue[e], op)[Len(Append(queue[e], op))] = op
    BY <2>0, AppendProperties, LenProperties
  <2>2. CASE Change(e)
    <3>1. PICK look \in Look :
            /\ want' = [x \in DOMAIN want \cup {e} |-> IF x = e THEN look ELSE want[x]]
            /\ e \notin gone /\ gone' = gone /\ Notice(e, Put(look))
      BY <2>2, LooksAssumption DEF Change
    <3>2. queue' = queue \/ queue' = [queue EXCEPT ![e] = Append(queue[e], Put(look))]
      BY <3>1 DEF Notice
    <3>3. Put(look) \in OpType
      BY DEF OpType
    <3>4. d \in gone => d # e /\ queue'[d] = queue[d]
      BY <1>0, <3>1, <3>2
    <3> QED
      BY <1>0, <2>1, <3>1, <3>2, <3>3, <3>4 DEF Ledger
  <2>3. CASE Vanish(e)
    <3>1. /\ want' = [x \in DOMAIN want \ {e} |-> want[x]] /\ gone' = gone \cup {e}
          /\ queue' = IF boot.pc = "down" THEN queue ELSE [queue EXCEPT ![e] = Append(queue[e], Delete)]
      BY <2>3 DEF Vanish, Notice, At
    <3>2. Delete \in OpType
      BY DEF OpType
    <3>3. CASE d # e
      BY <1>0, <3>1, <3>3 DEF Ledger
    <3>4. CASE d = e /\ boot.pc = "up"
      <4>1. queue'[d] = Append(queue[e], Delete)
        BY <1>0, <3>1, <3>4
      <4> QED
        BY <2>1, <3>2, <3>4, <4>1 DEF EndsOk
    <3>5. CASE d = e /\ boot.pc = "down"
      BY <1>0, <3>1, <3>5, OwnersAtStartup DEF EndsOk
    <3> QED
      BY <1>0, <3>3, <3>4, <3>5
  <2> QED
    BY <2>2, <2>3
<1>3. Accounted => Accounted'
  <2>1. CASE boot.pc = "down"
    BY <1>0, <2>1 DEF Accounted, Unread
  <2>2. CASE boot.pc = "up"
    <3>1. \A o \in stoat : ~Unread(o)
      BY <2>2 DEF Unread, Binding
    <3>2. ASSUME NEW d \in Entities, NEW id, Owns(d, id), Stays(d) PROVE Owns(d, id)' /\ Stays(d)'
      BY <1>0, <1>2, <2>2, <3>2 DEF Owns, Stays, Applies, At
    <3> QED
      BY <1>0, <3>1, <3>2 DEF Accounted
  <2> QED
    BY <1>0, <2>1, <2>2
<1>4. \A d \in gone' : EndsOk(queue'[d], worker'[d])
  <2>1. gone' \subseteq Entities
    BY DiscordStep DEF Next, StartupInv
  <2> QED
    BY <1>2, <2>1
<1> QED
  BY <1>0, <1>1, <1>3, <1>4 DEF Ledger

LEMMA LedgerStep ==
  ASSUME Early = FALSE, DryRun = FALSE, StartupInv, Ledger, Next
  PROVE  Ledger'
<1>0. faults' \in Nat
  BY FaultsGrow DEF Ledger
<1>1. CASE Startup
  <2>1. ASSUME NEW e \in Entities PROVE PutOk(rows'[e], worker'[e])
    <3>1. worker'[e].pc = "idle" /\ worker'[e].kind = "none"
      BY <1>1, StartupFrame, OwnersAtStartup
    <3> QED
      BY <3>1 DEF PutOk
  <2>2. ASSUME NEW e \in gone PROVE EndsOk(queue'[e], worker'[e])
    <3>1. e \in Entities /\ e \notin DOMAIN want
      BY DEF StartupInv, Shape, Types, Discord
    <3>2. queue'[e] = <<>>
      BY <1>1, <3>1, StartupFrame, OwnersAtStartup DEF ConvergeAll
    <3>3. worker'[e].kind = "none"
      BY <1>1, <3>1, StartupFrame, OwnersAtStartup
    <3> QED
      BY <3>2, <3>3 DEF EndsOk
  <2> QED
    BY <1>0, <1>1, <2>1, <2>2, StartupTold, StartupFrame DEF Ledger, Told
<1>2. CASE Crash
  <2>1. boot'.pc = "down" /\ boot'.unmapped = {} /\ gone' = gone /\ gone \subseteq Entities
    BY <1>2 DEF Crash, Down, discord, StartupInv, Shape, Types
  <2>2. \A e \in Entities : queue'[e] = <<>> /\ worker'[e].pc = "idle" /\ worker'[e].kind = "none"
    BY <1>2 DEF Crash, NoOps, Idle
  <2>3. ReadOk' /\ BindOk' /\ Accounted'
    BY <2>1 DEF ReadOk, BindOk, Binding, Accounted, Unread
  <2> QED
    BY <1>0, <2>1, <2>2, <2>3 DEF Ledger, PutOk, EndsOk
<1>3. CASE \E e \in Entities : Process(e)
  <2>1. PICK e \in Entities : Process(e)
    BY <1>3
  <2>2. \A d \in Entities : PutOk(rows'[d], worker'[d])
    BY <2>1, ProcessFrame, ProcessKeeps DEF Ledger
  <2>3. \A d \in gone' : EndsOk(queue'[d], worker'[d])
    <3>1. gone' = gone /\ gone \subseteq Entities
      BY <2>1, ProcessFrame DEF StartupInv, Shape, Types
    <3> QED
      BY <2>1, <3>1, ProcessFrame, ProcessKeeps DEF Ledger
  <2> QED
    BY <1>0, <2>1, <2>2, <2>3, ProcessTold DEF Ledger, Told
<1> QED
  BY <1>1, <1>2, <1>3, EventTold DEF Next

(* Where no call fails, whatever a start finds on Stoat, in the tables and  *)
(* in the guild, however names coincide, and wherever the process dies and  *)
(* starts again: when all is done, what is left on Stoat is mapped.         *)
THEOREM NothingForeignStays ==
  ASSUME Early = FALSE, DryRun = FALSE
  PROVE  Spec => []NothingForeign
<1>1. StartupInv /\ Ledger /\ [Next]_vars => Ledger'
  <2>1. CASE UNCHANGED vars
    BY <2>1 DEF vars, discord, remote, engine, Ledger, ReadOk, BindOk, Binding, Accounted, Unread,
       Owns, Stays, Applies, At
  <2> QED
    BY <2>1, LedgerStep
<1>2. StartupInv /\ Ledger => NothingForeign
  <2> SUFFICES ASSUME StartupInv, Ledger, Settled, faults = 0, NEW o \in stoat, o.id # Elevation
               PROVE  \E e \in DOMAIN want : rows[e].id = o.id
    BY DEF NothingForeign
  <2>1. ~Unread(o)
    BY DEF Settled, At, Unread, Binding
  <2>2. PICK e \in Entities : Owns(e, o.id) /\ Stays(e)
    BY <2>1 DEF Ledger, Accounted
  <2>3. worker[e].pc = "idle" /\ queue[e] = <<>>
    BY DEF Settled, Idle, NoOps
  <2> QED
    BY <2>2, <2>3 DEF Owns, Stays, Applies
<1> QED
  BY <1>1, <1>2, InitLedger, StartupAlways, PTL DEF Spec

-----------------------------------------------------------------------------
(* Why a start mirrors everything.  Where names tell entities apart and do  *)
(* not change, what Bind has read of a type is there until it reaps it ...  *)
Standing(o) ==
  \/ boot.pc = "fetched"
  \/ Binding(boot) /\ boot.type = "channel" /\ o.type = "role"
  \/ Binding(boot) /\ boot.pc # "reap" /\ o.type = boot.type

ServerOk ==
  /\ \A o \in boot.server : Standing(o) => o \in stoat
  /\ boot.pc \in {"claim", "match", "bind", "bound"} => boot.avail \subseteq stoat
  /\ boot.pc \in {"bind", "bound"} => boot.state = Empty /\ \E o \in stoat : o.id = boot.id

(* ... each entity is looked at, and a row that a pass leaves active names  *)
(* what there is.                                                           *)
Past(e) ==
  \/ boot.pc \in {"live", "repair", "repaired"}
  \/ Binding(boot) /\ boot.type = "role" /\ e \in Channels
  \/ Binding(boot) /\ boot.type = EntityType(e) /\ (boot.pc = "claim" => e \notin boot.todo)

Named(e) == \E o \in stoat : o.id = rows[e].id

ClaimsOk ==
  \A e \in DOMAIN boot.list :
    /\ boot.pc = "claim" /\ boot.type = EntityType(e) =>
         e \in boot.todo \cup boot.unmapped \/ Active(rows[e])
    /\ Past(e) /\ Active(rows[e]) => Named(e)

(* Until main is up, an entity has a row to build on ...                    *)
Fit(e) == ~Found(rows[e]) \/ Active(rows[e]) \/ rows[e].state = Empty

(* ... or it is a role of administrators that main is about to make anew,   *)
Remade(e) ==
  \/ boot.pc = "down" /\ e \in Privileged
  \/ boot.pc \in {"admin", "enter", "entered"} /\ e \in boot.todo \cap Privileged
  \/ boot.pc \in {"enter", "entered"} /\ boot.e = e

(* or one that Bind is still to match, and only one object has its name,    *)
ToBind(e) ==
  \/ boot.pc \in {"down", "admin", "enter", "entered", "fetched"}
  \/ Binding(boot) /\ boot.type = "channel" /\ e \in Roles
  \/ /\ boot.type = EntityType(e)
     /\ \/ boot.pc = "claim"
        \/ boot.pc \in {"match", "bind", "bound"} /\ e \in boot.todo
        \/ boot.pc = "bind" /\ boot.e = e

Matched(e) ==
  /\ rows[e].id # NoId /\ ToBind(e)
  /\ \E o \in Namesakes(e) :
       /\ Namesakes(e) = {o}
       /\ Binding(boot) /\ boot.type = EntityType(e) => o \in boot.avail

(* or its row is being repaired.                                            *)
Mendable(e) == Fit(e) \/ Remade(e) \/ Matched(e) \/ (boot.pc = "repaired" /\ boot.e = e)

(* A row that Diff may go by says what its object shows.                    *)
Truthful(e) ==
  Found(rows[e]) /\ rows[e].state # Empty =>
    Active(rows[e]) /\ \E o \in stoat : o.id = rows[e].id /\ o.look = rows[e].state

(* What has been compared does, and what is being repaired will.            *)
LiveOk ==
  boot.pc \in {"live", "repair", "repaired"} =>
    /\ boot.server = stoat
    /\ boot.pc # "live" =>
         /\ boot.e \notin boot.todo
         /\ \E o \in stoat : o.id = boot.id /\ (boot.state # Empty => o.look = boot.state)
    /\ boot.pc = "repaired" => rows[boot.e].state = boot.state
    /\ \A e \in DOMAIN want \ cut : e \in boot.todo \/ (boot.pc # "live" /\ boot.e = e) \/ Truthful(e)

(* An entity's last op asks for what Discord shows; when it has run, the    *)
(* row says so.                                                             *)
PipeOk(e) ==
  /\ worker[e].kind # "delete" /\ worker[e].pc # "remove"
  /\ \A i \in 1 .. Len(queue[e]) : queue[e][i].kind = "put"
  /\ e \in DOMAIN want =>
       IF queue[e] # <<>> THEN queue[e][Len(queue[e])] = Put(want[e])
       ELSE IF worker[e].kind = "put" THEN worker[e].look = want[e]
       ELSE e \in cut \/ (Found(rows[e]) /\ rows[e].state = want[e])
  /\ worker[e].kind = "none" => e \in cut \/ Truthful(e)
  /\ worker[e].kind = "put" =>
       /\ rows[e].state = worker[e].look
       /\ worker[e].pc = "confirm" => \E o \in stoat : o.id = worker[e].id /\ o.look = worker[e].look

Course ==
  /\ ServerOk /\ ClaimsOk /\ LiveOk
  /\ boot.pc = "entered" => Found(rows[boot.e])
  /\ boot.pc # "up" => \A e \in DOMAIN want \ cut : Mendable(e)
  /\ boot.pc = "up" => \A e \in Entities \ gone : PipeOk(e)

(* What is the case throughout, where names stay and tell entities apart.   *)
Steady == StartupInv /\ Owned /\ Ledger /\ Course

(* The names of entities, and of what they hold.                            *)
LEMMA NamesStay ==
  ASSUME OneName, Shape
  PROVE  /\ \A e \in DOMAIN want : want[e].name \in NamesOf(e)
         /\ \A e \in Entities : \A m, n \in NamesOf(e) : m = n
BY DEF OneName, Shape, Discord, NamesOf

LEMMA InitCourse ==
  ASSUME Init, \A w \in Worlds : Whole(w)
  PROVE  Course
<1>1. boot.pc = "down" /\ boot.server = {} /\ DOMAIN boot.list = {}
  BY DownTyped DEF Init, Down
<1>2. ServerOk /\ ClaimsOk /\ LiveOk
  BY <1>1 DEF ServerOk, ClaimsOk, LiveOk
<1>3. ASSUME NEW e \in DOMAIN want PROVE Mendable(e)
  <2>1. e \in Entities
    BY InitShape, ListTyped DEF Shape, Types
  <2>2. PICK w \in Worlds : rows = w.rows
    BY DEF Init
  <2> QED
    BY <2>1, <2>2 DEF Whole, Mendable, Fit
<1> QED
  BY <1>1, <1>2, <1>3 DEF Course

(* A crash leaves what a start makes up for, or LeftUndone.                 *)
LEMMA CrashCourse == ASSUME Steady, Crash PROVE Course'
<1>1. /\ boot'.pc = "down" /\ boot'.server = {} /\ DOMAIN boot'.list = {}
      /\ UNCHANGED <<want, rows, stoat>>
  BY DownTyped DEF Crash, Down, discord, remote
<1>2. ServerOk' /\ ClaimsOk' /\ LiveOk'
  BY <1>1, DownTyped DEF ServerOk, ClaimsOk, LiveOk, Standing, Binding
<1>3. ASSUME NEW e \in DOMAIN want' \ cut' PROVE Mendable(e)'
  <2>1. e \in Entities /\ e \in DOMAIN want /\ ~LeftUndone(e) /\ rows[e] \in RowType
    BY <1>1, <1>3, ListTyped DEF Crash, Steady, StartupInv, Shape, Types
  <2>2. CASE e \in Privileged
    BY <1>1, <2>2 DEF Mendable, Remade
  <2>3. CASE rows[e].status # "pending" \/ rows[e].state = Empty
    BY <1>1, <2>1, <2>3 DEF Mendable, Fit, Found, Active, RowType
  <2>4. CASE rows[e].id # NoId /\ ~(\A o \in Namesakes(e) : Namesakes(e) # {o})
    <3>1. Namesakes(e)' = Namesakes(e)
      BY <1>1 DEF Namesakes
    <3>2. PICK o \in Namesakes(e) : Namesakes(e) = {o}
      BY <2>4
    <3>3. Matched(e)'
      BY <1>1, <2>4, <3>1, <3>2 DEF Matched, ToBind, Binding
    <3> QED
      BY <3>3 DEF Mendable
  <2> QED
    BY <2>1, <2>2, <2>3, <2>4 DEF LeftUndone
<1> QED
  BY <1>1, <1>2, <1>3 DEF Course

(* Events come while main is down, and change no name, or while it is up.   *)
LEMMA EventCourse ==
  ASSUME Early = FALSE, OneName, Steady, NEW e \in Entities, Change(e) \/ Vanish(e)
  PROVE  Course'
<1>0. /\ boot.pc \in {"down", "up"} /\ UNCHANGED <<rows, stoat, boot, worker, cut>>
      /\ queue \in [Entities -> Seq(OpType)] /\ DOMAIN want \subseteq Entities
      /\ DOMAIN want' \subseteq Entities
  <2>1. want' \in Lists /\ want \in Lists
    BY DiscordStep DEF Next, Steady, StartupInv, Shape, Types
  <2> QED
    BY <2>1, ListTyped DEF Change, Vanish, MayHappen, remote, Steady, StartupInv, Shape, Types
<1>1. /\ \A d \in DOMAIN want' : d \in DOMAIN want \/ (d = e /\ e \notin Known /\ Change(e))
      /\ \A d \in DOMAIN want' \ {e} : want'[d] = want[d]
      /\ DOMAIN want \subseteq DOMAIN want' \cup {e}
  <2>1. CASE Change(e)
    BY <2>1 DEF Change, Known
  <2>2. CASE Vanish(e)
    BY <2>2 DEF Vanish
  <2> QED
    BY <2>1, <2>2
<1>2. /\ \A d \in DOMAIN want : want[d].name \in NamesOf(d)
      /\ \A d \in DOMAIN want' : want'[d].name \in NamesOf(d)
      /\ \A d \in Entities : \A m, n \in NamesOf(d) : m = n
  <2>1. \A d \in DOMAIN want' : want'[d] \in MayShow[d]
    BY DiscordStep DEF Next, Steady, StartupInv, Discord
  <2> QED
    BY <2>1, NamesStay DEF Steady, StartupInv, NamesOf
<1>3. ServerOk' /\ ClaimsOk' /\ LiveOk'
  BY <1>0 DEF Steady, Course, ServerOk, ClaimsOk, LiveOk, Standing, Past, Named, Binding
<1>4. ASSUME boot.pc = "down", NEW d \in DOMAIN want' \ cut PROVE Mendable(d)'
  <2>1. CASE d \in DOMAIN want
    <3>1. Mendable(d) /\ d \in Entities
      BY <1>0, <1>4, <2>1 DEF Steady, Course
    <3>2. want'[d].name = want[d].name
      BY <1>2, <1>4, <2>1, <3>1
    <3>3. Namesakes(d)' = Namesakes(d)
      BY <1>0, <3>2 DEF Namesakes
    <3> QED
      BY <1>0, <3>1, <3>3 DEF Mendable, Fit, Remade, Matched, ToBind
  <2>2. CASE d \notin DOMAIN want
    <3>1. ~Found(rows[d])
      BY <1>0, <1>1, <1>4, <2>2 DEF Steady, StartupInv, Shape, EntitiesOk, EntityOk
    <3> QED
      BY <1>0, <3>1 DEF Mendable, Fit
  <2> QED
    BY <2>1, <2>2
<1>5. ASSUME boot.pc = "up", NEW d \in Entities \ gone' PROVE PipeOk(d)'
  <2>0. d \notin gone /\ PipeOk(d)
    BY <1>5 DEF Change, Vanish, Steady, Course
  <2>1. CASE d # e
    <3>1. queue'[d] = queue[d]
      BY <1>0, <2>1 DEF Change, Vanish, Notice
    <3>2. d \in DOMAIN want' => d \in DOMAIN want /\ want'[d] = want[d]
      BY <1>1, <2>1
    <3> QED
      BY <1>0, <2>0, <3>1, <3>2 DEF PipeOk, Truthful
  <2>2. CASE d = e
    <3>1. PICK look \in MayShow[e] :
            /\ want' = [x \in DOMAIN want \cup {e} |-> IF x = e THEN look ELSE want[x]]
            /\ queue' = [queue EXCEPT ![e] = Append(queue[e], Put(look))]
      BY <1>5, <2>2 DEF Change, Vanish, Notice, At
    <3>2. Put(look) \in OpType
      BY LooksAssumption DEF OpType
    <3> DEFINE q == Append(queue[e], Put(look))
    <3>3. /\ queue'[e] = q /\ want'[e] = look /\ q # <<>> /\ q[Len(q)] = Put(look)
          /\ \A i \in 1 .. Len(q) : q[i] = Put(look) \/ (i \in 1 .. Len(queue[e]) /\ q[i] = queue[e][i])
      <4>1. queue[e] \in Seq(OpType)
        BY <1>0
      <4> QED
        BY <1>0, <3>1, <3>2, <4>1, AppendProperties, LenProperties
    <3> HIDE DEF q
    <3>4. \A i \in 1 .. Len(q) : q[i].kind = "put"
      BY <2>0, <2>2, <3>3 DEF PipeOk, Put
    <3> QED
      BY <1>0, <2>0, <2>2, <3>3, <3>4 DEF PipeOk, Truthful
  <2> QED
    BY <2>1, <2>2
<1> QED
  BY <1>0, <1>3, <1>4, <1>5 DEF Course, Steady

(* What another entity holds outlasts a step of e's worker.                 *)
LEMMA OthersStand ==
  ASSUME Shape, Owned, NEW e \in Entities, Process(e), NEW d \in Entities \ {e},
         NEW o \in stoat, Holds(d, o.id)
  PROVE  o \in stoat'
<1>1. o.id \in Nat \ {NoId}
  BY DEF Shape, Types, ObjectType
<1>2. o.id # rows[e].id
  BY <1>1 DEF Owned, Holds
<1>3. UNCHANGED stoat \/ CreateEffect(e) \/ EditEffect(e) \/ DeleteEffect(e)
  BY DEF Process, Skip, WritePending, BeginDelete, Create, Edit, DeleteObject, OpFails, Confirm,
     Remove, remote
<1> QED
  BY <1>2, <1>3 DEF CreateEffect, EditEffect, DeleteEffect, With

(* An edit makes an object look as it was asked to, names staying.          *)
LEMMA EditShows ==
  ASSUME OneName, Shape, Owned, NEW e \in Entities, EditEffect(e)
  PROVE  \E o \in stoat' : o.id = rows[e].id /\ o.look = worker[e].look
<1>1. PICK o \in stoat : o.id = rows[e].id /\ Edited(e, o) \in stoat'
  BY DEF EditEffect, With
<1>2. worker[e].look \in MayShow[e] /\ worker[e].look \in Look /\ o \in ObjectType
  BY LooksAssumption DEF EditEffect, Applies, Shape, Types, EntitiesOk, EntityOk
<1>3. o.look.name = worker[e].look.name
  <2>1. o.look.name \in NamesOf(e)
    BY <1>1 DEF Owned, Holds, Seen
  <2> QED
    BY <1>2, <2>1 DEF OneName, NamesOf
<1>4. [worker[e].look EXCEPT !.name = o.look.name] = worker[e].look
  BY <1>2, <1>3 DEF Look
<1>5. Edited(e, o) = [o EXCEPT !.look = worker[e].look]
  BY <1>4 DEF Edited
<1>6. Edited(e, o).id = o.id /\ Edited(e, o).look = worker[e].look
  BY <1>2, <1>5 DEF ObjectType
<1> QED
  BY <1>1, <1>6

(* Each op leaves its entity's row truthful, or the entity cut short.       *)
LEMMA ProcessPipe ==
  ASSUME OneName, DryRun = FALSE, Steady, NEW e \in Entities \ gone, Process(e)
  PROVE  PipeOk(e)'
<1>0. /\ boot.pc = "up" /\ UNCHANGED <<want, gone, boot>>
      /\ worker[e] \in WorkerType /\ rows[e] \in RowType /\ queue[e] \in Seq(OpType)
      /\ rows \in [Entities -> RowType] /\ worker \in [Entities -> WorkerType]
      /\ queue \in [Entities -> Seq(OpType)] /\ PutOk(rows[e], worker[e])
      /\ PipeOk(e)
  BY ProcessFrame DEF Steady, Ledger, Course
<1>1. ASSUME queue[e] # <<>>
      PROVE  /\ Head(queue[e]).kind = "put" /\ \A i \in 1 .. Len(Tail(queue[e])) : Tail(queue[e])[i].kind = "put"
             /\ e \in DOMAIN want => IF Tail(queue[e]) # <<>> THEN Tail(queue[e])[Len(Tail(queue[e]))] = Put(want[e])
                                     ELSE Head(queue[e]).look = want[e]
  <2>1. /\ Len(queue[e]) \in Nat \ {0} /\ Len(Tail(queue[e])) = Len(queue[e]) - 1
        /\ \A i \in 1 .. Len(Tail(queue[e])) : Tail(queue[e])[i] = queue[e][i + 1]
        /\ Head(queue[e]) = queue[e][1]
    BY <1>0, <1>1, HeadTailProperties, EmptySeq, LenProperties
  <2>2. \A i \in 1 .. Len(Tail(queue[e])) : i + 1 \in 1 .. Len(queue[e])
    BY <2>1
  <2>3. /\ Tail(queue[e]) # <<>> => Tail(queue[e])[Len(Tail(queue[e]))] = queue[e][Len(queue[e])]
        /\ Tail(queue[e]) = <<>> => Head(queue[e]) = queue[e][Len(queue[e])]
    BY <1>0, <1>1, TailEnds
  <2>4. e \in DOMAIN want => queue[e][Len(queue[e])] = Put(want[e])
    BY <1>0, <1>1 DEF PipeOk
  <2>5. \A i \in 1 .. Len(queue[e]) : queue[e][i].kind = "put"
    BY <1>0 DEF PipeOk
  <2> QED
    BY <2>1, <2>2, <2>3, <2>4, <2>5 DEF Put
<1>2. CASE Skip(e)
  <2>1. /\ worker[e] = Idle /\ queue[e] # <<>> /\ queue'[e] = Tail(queue[e])
        /\ UNCHANGED <<rows, stoat, worker, cut>>
    BY <1>0, <1>2 DEF Skip, Next1, remote
  <2>2. Found(rows[e]) /\ rows[e].state = Head(queue[e]).look
    BY <1>1, <1>2, <2>1 DEF Skip
  <2> QED
    BY <1>0, <1>1, <2>1, <2>2 DEF PipeOk, Truthful, Idle
<1>3. CASE WritePending(e)
  <2>1. /\ queue[e] # <<>> /\ queue'[e] = Tail(queue[e])
        /\ rows'[e].state = Head(queue[e]).look /\ worker'[e].look = Head(queue[e]).look
        /\ worker'[e].kind = "put" /\ worker'[e].pc = "apply"
    BY <1>0, <1>3 DEF WritePending, Next1, Step, Idle, PendingStructureRow
  <2> QED
    BY <1>0, <1>1, <2>1 DEF PipeOk
<1>4. CASE BeginDelete(e)
  BY <1>1, <1>4 DEF BeginDelete, Next1
<1>5. CASE Create(e) \/ Edit(e)
  <2>1. /\ UNCHANGED <<queue, rows, cut>> /\ worker'[e].kind = "put" /\ worker'[e].look = worker[e].look
        /\ worker[e].kind = "put" /\ worker'[e].pc = "confirm"
        /\ \E o \in stoat' : o.id = worker'[e].id /\ o.look = worker'[e].look
    <3>1. CASE Create(e)
      <4>1. Object(nextId, EntityType(e), worker[e].look) \in stoat'
        BY <3>1 DEF Create, CreateEffect
      <4>2. /\ worker'[e].id = nextId /\ worker'[e].look = worker[e].look
            /\ worker'[e].kind = "put" /\ worker'[e].pc = "confirm" /\ worker[e].kind = "put"
            /\ UNCHANGED <<queue, rows, cut>>
        BY <1>0, <3>1 DEF Create, CreateEffect, Applies, Step, WorkerType
      <4> QED
        BY <4>1, <4>2 DEF Object
    <3>2. CASE Edit(e)
      <4>1. \E o \in stoat' : o.id = rows[e].id /\ o.look = worker[e].look
        BY <3>2, EditShows DEF Edit, Steady, StartupInv
      <4>2. /\ worker'[e].id = rows[e].id /\ worker'[e].look = worker[e].look
            /\ worker'[e].kind = "put" /\ worker'[e].pc = "confirm" /\ worker[e].kind = "put"
            /\ UNCHANGED <<queue, rows, cut>>
        BY <1>0, <3>2 DEF Edit, EditEffect, Applies, Step, WorkerType
      <4> QED
        BY <4>1, <4>2
    <3> QED
      BY <1>5, <3>1, <3>2
  <2> QED
    BY <1>0, <2>1 DEF PipeOk
<1>6. CASE DeleteObject(e) \/ Remove(e)
  BY <1>0, <1>6 DEF DeleteObject, DeleteEffect, Applies, Remove, PipeOk
<1>7. CASE OpFails(e)
  <2>1. /\ queue'[e] = queue[e] /\ e \in cut'
        /\ worker'[e].kind = "none" /\ worker'[e].pc = "idle"
    BY <1>0, <1>7, IdleTyped DEF OpFails, Step
  <2> QED
    BY <1>0, <2>1 DEF PipeOk
<1>8. CASE Confirm(e)
  <2>1. /\ UNCHANGED <<queue, stoat>> /\ worker'[e] = Idle /\ worker[e].pc = "confirm" /\ worker[e].kind = "put"
    BY <1>0, <1>8 DEF Confirm, Step, PutOk, remote
  <2>2. /\ Active(rows'[e]) /\ Found(rows'[e]) /\ rows'[e].id = worker[e].id
        /\ rows'[e].state = worker[e].look
    BY <1>0, <1>8, <2>1 DEF Confirm, ConfirmedRow, Active, Found, RowType, PutOk, PipeOk
  <2> QED
    BY <1>0, <2>1, <2>2 DEF PipeOk, Truthful, Idle
<1> QED
  BY <1>2, <1>3, <1>4, <1>5, <1>6, <1>7, <1>8 DEF Process

LEMMA ProcessCourse ==
  ASSUME OneName, DryRun = FALSE, Steady, NEW e \in Entities, Process(e)
  PROVE  Course'
<1>0. boot.pc = "up" /\ UNCHANGED <<want, gone, boot>> /\ gone \subseteq Entities
  BY ProcessFrame DEF Steady, StartupInv, Shape, Types
<1>1. ASSUME NEW d \in Entities \ gone, d # e PROVE PipeOk(d)'
  <2>1. rows'[d] = rows[d] /\ worker'[d] = worker[d] /\ queue'[d] = queue[d] /\ PipeOk(d)
    BY <1>0, <1>1, ProcessFrame DEF Steady, Course
  <2>2. d \in cut => d \in cut'
    BY <1>1 DEF Process, Skip, WritePending, BeginDelete, Create, Edit, DeleteObject, OpFails,
       Confirm, Remove
  <2>3. \A o \in stoat : Holds(d, o.id) => o \in stoat'
    BY <1>1, OthersStand DEF Steady, StartupInv
  <2>4. Truthful(d) => Truthful(d)'
    BY <2>1, <2>3 DEF Truthful, Holds
  <2>5. worker[d].pc = "confirm" =>
          \A o \in stoat : o.id = worker[d].id => o \in stoat'
    BY <2>3 DEF Holds
  <2> QED
    BY <1>0, <2>1, <2>2, <2>4, <2>5 DEF PipeOk
<1>2. e \notin gone => PipeOk(e)'
  BY ProcessPipe
<1>3. boot'.unmapped = boot.unmapped
  BY <1>0
<1> QED
  BY <1>0, <1>1, <1>2 DEF Course, ServerOk, ClaimsOk, LiveOk, Standing, Past, Binding, Steady

-----------------------------------------------------------------------------
(* Startup.                                                                 *)
LEMMA CourseFrame ==
  ASSUME Steady, Startup
  PROVE  /\ boot.pc # "up" /\ UNCHANGED <<want, gone, worker>>
         /\ boot \in BootType /\ BootOk(boot) /\ BootOk(boot') /\ DOMAIN boot.list \subseteq Entities
         /\ rows \in [Entities -> RowType] /\ stoat \subseteq ObjectType /\ DOMAIN want \subseteq Entities
         /\ boot.pc \notin {"down", "up"} => boot.list = want
         /\ ReadOk /\ BindOk /\ ServerOk /\ ClaimsOk /\ LiveOk /\ cut \subseteq cut'
         /\ \A e \in DOMAIN want \ cut' : Mendable(e)
<1>1. cut \subseteq cut'
  BY DEF Startup, Start, Bind, ReconcileLive, ConvergeAll, StampPending, StampConfirm,
     KeepAdminRole, CreateAdminRole, FetchServer, FetchChannels, BeginMatch, BeginReap, BindRoles,
     Claim, ClearDead, FindUnmapped, Adopt, SkipBind, Reap, FetchLive, VerifyLive, SkipLive
<1>2. DOMAIN want \subseteq Entities
  BY ListTyped DEF Steady, StartupInv, Shape, Types
<1> QED
  BY <1>1, <1>2, StartupFrame DEF Steady, Course

(* Before Bind: a role that main makes anew has its row in the end.         *)
Early4 == {"admin", "enter", "entered", "fetched"}

LEMMA MendedEarly ==
  ASSUME NamesApart, OneName, Steady, Startup, boot.pc \in {"down"} \cup Early4, boot'.pc \in Early4,
         NEW e \in DOMAIN want \ cut'
  PROVE  Mendable(e)'
<1>0. /\ boot \in BootType /\ BootOk(boot) /\ rows \in [Entities -> RowType] /\ UNCHANGED want /\ e \in Entities
      /\ Fit(e) \/ Remade(e) \/ Matched(e)
      /\ boot.pc # "down" => boot.list = want
  BY CourseFrame DEF Mendable, Early4
<1>1. ASSUME Matched(e), rows'[e] = rows[e], \A o \in stoat' \ stoat : o \notin Namesakes(e)', stoat \subseteq stoat'
      PROVE  Mendable(e)'
  <2>1. Namesakes(e)' = Namesakes(e)
    BY <1>0, <1>1 DEF Namesakes
  <2>2. Matched(e)'
    BY <1>0, <1>1, <2>1 DEF Matched, ToBind, Binding, Early4
  <2> QED
    BY <2>2 DEF Mendable
<1>2. CASE Start
  <2>1. /\ boot'.pc = "admin" /\ boot'.todo = Privileged \cap DOMAIN want /\ UNCHANGED <<rows, stoat>>
        /\ boot.pc = "down"
    BY <1>2 DEF Start, Down, At, remote
  <2> QED
    BY <1>0, <1>1, <2>1 DEF Mendable, Fit, Remade
<1>3. ASSUME NEW r \in Privileged, KeepAdminRole(r) PROVE Mendable(e)'
  <2>1. /\ boot'.pc = "admin" /\ boot'.todo = boot.todo \ {r} /\ UNCHANGED <<rows, stoat>>
        /\ boot.pc = "admin" /\ Active(rows[r])
    BY <1>0, <1>3 DEF KeepAdminRole, At, remote, BootType
  <2> QED
    BY <1>0, <1>1, <2>1 DEF Mendable, Fit, Remade
<1>4. ASSUME NEW r \in Privileged, CreateAdminRole(r) PROVE Mendable(e)'
  <2>1. /\ boot'.pc = "enter" /\ boot'.todo = boot.todo \ {r} /\ boot'.e = r /\ UNCHANGED rows
        /\ boot.pc = "admin" /\ stoat' = stoat \cup {Object(nextId, "role", want[r])}
        /\ r \in DOMAIN want
    BY <1>0, <1>4 DEF CreateAdminRole, At, BootType, BootOk
  <2>2. CASE e # r /\ Matched(e)
    <3>1. want[r].name # want[e].name
      BY <1>0, <2>1, <2>2, NamesStay, Kinds DEF NamesApart, Steady, StartupInv
    <3> QED
      BY <1>0, <1>1, <2>1, <2>2, <3>1 DEF Namesakes, Object
  <2> QED
    BY <1>0, <2>1, <2>2 DEF Mendable, Fit, Remade
<1>5. CASE StampPending
  <2>1. /\ boot'.pc = "entered" /\ boot'.todo = boot.todo /\ boot'.e = boot.e /\ UNCHANGED stoat
        /\ boot.pc = "enter" /\ \A d \in Entities \ {boot.e} : rows'[d] = rows[d]
    BY <1>0, <1>5 DEF StampPending, At, BootType, remote, Early4
  <2> QED
    BY <1>0, <1>1, <2>1 DEF Mendable, Fit, Remade
<1>6. CASE StampConfirm
  <2>1. /\ boot'.pc = "admin" /\ boot'.todo = boot.todo /\ UNCHANGED stoat
        /\ boot.pc = "entered" /\ \A d \in Entities \ {boot.e} : rows'[d] = rows[d]
        /\ Found(rows[boot.e])
    BY <1>0, <1>6 DEF StampConfirm, At, BootType, remote, Early4, Steady, Course
  <2>2. boot.e = e => Active(rows'[e])
    BY <1>0, <1>6, <2>1 DEF StampConfirm, ConfirmedRow, Active, RowType
  <2> QED
    BY <1>0, <1>1, <2>1, <2>2 DEF Mendable, Fit, Remade
<1>7. CASE FetchServer
  <2>1. boot.pc = "admin" /\ boot.todo = {} /\ UNCHANGED <<rows, stoat>>
    BY <1>7 DEF FetchServer, At, remote
  <2> QED
    BY <1>0, <1>1, <2>1 DEF Mendable, Fit, Remade
<1>8. ~FetchChannels
  BY <1>0 DEF FetchChannels, BeginPass, BootType, Early4
<1> QED
  BY <1>2, <1>3, <1>4, <1>5, <1>6, <1>7, <1>8 DEF Startup, Bind, ReconcileLive, Early4, At, BeginMatch, BeginReap, BindRoles, Claim, ClearDead, FindUnmapped, Adopt, SkipBind, Reap,
     FetchLive, VerifyLive, SkipLive, ConvergeAll

LEMMA CourseEarly ==
  ASSUME NamesApart, OneName, Steady, Startup,
         boot.pc \in {"down"} \cup Early4, boot'.pc \in Early4
  PROVE  Course'
<1>0. boot \in BootType /\ UNCHANGED want /\ rows \in [Entities -> RowType] /\ boot.e \in Entities \cup {Null}
  BY CourseFrame DEF BootType
<1>1. \A e \in DOMAIN want \ cut' : Mendable(e)'
  BY MendedEarly
<1>2. ServerOk'
  <2>1. boot'.pc = "fetched" => boot'.server = stoat'
    <3>1. boot'.pc = "fetched" => FetchServer
      BY <1>0 DEF Startup, Bind, ReconcileLive, Early4, At, FetchChannels, Start, StampPending,
         StampConfirm, KeepAdminRole, CreateAdminRole, BootType, Down,
         BeginMatch, BeginReap, BindRoles, Claim, ClearDead, FindUnmapped, Adopt, SkipBind, Reap,
         FetchLive, VerifyLive, SkipLive, ConvergeAll, BeginPass
    <3> QED
      BY <1>0, <3>1 DEF FetchServer, BootType, remote
  <2> QED
    BY <2>1 DEF ServerOk, Standing, Binding, Early4
<1>3. ClaimsOk' /\ LiveOk'
  BY DEF ClaimsOk, LiveOk, Past, Binding, Early4
<1>4. boot'.pc = "entered" => Found(rows'[boot'.e])
  <2> SUFFICES ASSUME boot'.pc = "entered" PROVE Found(rows'[boot'.e])
    OBVIOUS
  <2>1. StampPending
    BY <1>0 DEF Startup, Bind, ReconcileLive, Early4, At, FetchChannels, Start, FetchServer,
       StampConfirm, KeepAdminRole, CreateAdminRole, BootType, Down,
       BeginMatch, BeginReap, BindRoles, Claim, ClearDead, FindUnmapped, Adopt, SkipBind, Reap,
       FetchLive, VerifyLive, SkipLive, ConvergeAll, BeginPass
  <2>2. boot'.e = boot.e /\ boot.e \in Entities
    BY <1>0, <2>1, CourseFrame DEF StampPending, BootType, BootOk, Stamping
  <2> QED
    BY <1>0, <2>1, <2>2 DEF StampPending, PendingStructureRow, Found
<1> QED
  BY <1>0, <1>1, <1>2, <1>3, <1>4 DEF Course, Early4

(* A pass begins with all that there is of its type, but for a channel that *)
(* could not be fetched.                                                    *)
LEMMA CourseByFetch ==
  ASSUME Steady, Startup, FetchChannels \/ BindRoles
  PROVE  Course'
<1>0. /\ boot \in BootType /\ UNCHANGED <<want, rows, stoat>> /\ stoat \subseteq boot.server
      /\ boot.list = want /\ ServerOk /\ ClaimsOk /\ DOMAIN want \subseteq Entities
      /\ \A e \in DOMAIN want \ cut' : Mendable(e)
  <2>1. boot.pc \in {"fetched", "reap"}
    BY DEF FetchChannels, BindRoles, At
  <2> QED
    BY <2>1, CourseFrame DEF FetchChannels, BindRoles, remote, ReadOk, Binding
<1>1. /\ boot'.pc = "claim" /\ boot'.list = boot.list /\ boot'.server = boot.server
      /\ boot'.todo = {e \in DOMAIN want : EntityType(e) = boot'.type}
      /\ \/ /\ boot.pc = "fetched" /\ boot'.type = "channel" /\ boot'.avail \subseteq stoat
            /\ \A o \in stoat : o.type = "channel" =>
                 \/ o \in boot'.avail
                 \/ \A c \in DOMAIN want : EntityType(c) = "channel" /\ want[c].name = o.look.name => c \in cut'
         \/ /\ boot.pc = "reap" /\ boot.type = "channel" /\ boot'.type = "role"
            /\ boot'.avail = Exists("role")
  <2>1. CASE BindRoles
    BY <1>0, <2>1 DEF BindRoles, BeginPass, OfType, BootType, At
  <2>2. CASE FetchChannels
    <3> DEFINE had == {o \in stoat : \E s \in Exists("channel") : s.id = o.id}
    <3>1. had \subseteq stoat /\ \A o \in stoat : o.type = "channel" => o \in had
      BY <1>0 DEF Exists
    <3>2. boot.pc = "fetched"
      BY <2>2 DEF FetchChannels, At
    <3>3. CASE BeginPass("channel", had)
      BY <1>0, <3>1, <3>2, <3>3 DEF BeginPass, OfType, BootType
    <3>4. ASSUME NEW o \in had, BeginPass("channel", had \ {o}),
                 cut' = cut \cup {c \in OfType("channel") : boot.list[c].name = o.look.name}
          PROVE  /\ boot'.pc = "claim" /\ boot'.list = boot.list /\ boot'.server = boot.server
                 /\ boot'.todo = {e \in DOMAIN want : EntityType(e) = "channel"} /\ boot'.type = "channel"
                 /\ boot'.avail = had \ {o}
                 /\ \A c \in DOMAIN want : EntityType(c) = "channel" /\ want[c].name = o.look.name => c \in cut'
      BY <1>0, <3>4 DEF BeginPass, OfType, BootType
    <3> HIDE DEF had
    <3>5. BeginPass("channel", had) \/ \E o \in had :
            /\ BeginPass("channel", had \ {o})
            /\ cut' = cut \cup {c \in OfType("channel") : boot.list[c].name = o.look.name}
      BY <2>2 DEF FetchChannels, had
    <3> QED
      BY <3>1, <3>2, <3>3, <3>4, <3>5
  <2> QED
    BY <2>1, <2>2
<1>2. \A e \in Entities : e \in Channels <=> EntityType(e) = "channel"
  BY EntitiesAssumption, Kinds DEF EntityType
<1>3. ServerOk'
  <2>1. CASE boot.pc = "fetched"
    BY <1>0, <1>1, <2>1 DEF ServerOk, Standing
  <2>2. CASE boot.pc = "reap"
    BY <1>0, <1>1, <2>2 DEF ServerOk, Standing, Binding, Exists
  <2> QED
    BY <1>1, <2>1, <2>2
<1>4. ClaimsOk'
  <2> SUFFICES ASSUME NEW e \in DOMAIN want
               PROVE  /\ EntityType(e) = boot'.type => e \in boot'.todo
                      /\ Past(e)' /\ Active(rows[e]) => Named(e)
    BY <1>0, <1>1 DEF ClaimsOk, Named
  <2>1. Past(e)' => boot.pc = "reap" /\ e \in Channels
    BY <1>1 DEF Past, Binding
  <2>2. Past(e)' => Past(e)
    BY <1>0, <1>1, <1>2, <2>1 DEF Past, Binding
  <2> QED
    BY <1>0, <1>1, <2>2 DEF ClaimsOk
<1>5. ASSUME NEW e \in DOMAIN want \ cut' PROVE Mendable(e)'
  <2>0. e \in Entities /\ e \in DOMAIN want /\ (Fit(e) \/ Matched(e))
    BY <1>0, <1>1, <1>5 DEF Mendable, Remade
  <2>1. CASE Fit(e)
    BY <1>0, <2>1 DEF Mendable, Fit
  <2>2. CASE Matched(e)
    <3>1. PICK o \in Namesakes(e) : Namesakes(e) = {o}
      BY <2>2 DEF Matched
    <3>2. Namesakes(e)' = Namesakes(e)
      BY <1>0 DEF Namesakes
    <3>3. o \in stoat /\ o.type = EntityType(e) /\ o.look.name = want[e].name
      BY <3>1 DEF Namesakes
    <3>4. ToBind(e)'
      <4>1. CASE boot.pc = "fetched"
        BY <1>1, <1>2, <2>0, <4>1, Kinds DEF ToBind, Binding
      <4>2. CASE boot.pc = "reap"
        BY <1>1, <1>2, <2>0, <2>2, <4>2, Kinds DEF ToBind, Binding, Matched
      <4> QED
        BY <1>1, <4>1, <4>2
    <3>5. boot'.type = EntityType(e) => o \in boot'.avail
      BY <1>0, <1>1, <1>5, <2>0, <3>3 DEF Exists
    <3> QED
      BY <1>0, <2>2, <3>1, <3>2, <3>4, <3>5 DEF Mendable, Matched
  <2> QED
    BY <2>0, <2>1, <2>2
<1> QED
  BY <1>0, <1>1, <1>3, <1>4, <1>5 DEF Course, LiveOk

(* A claim takes no object that another entity is to be matched with.       *)
LEMMA CourseByClaim ==
  ASSUME NamesApart, OneName, Steady, Startup, NEW e \in Entities,
         Claim(e) \/ ClearDead(e) \/ FindUnmapped(e)
  PROVE  Course'
<1>0. /\ boot \in BootType /\ boot.pc = "claim" /\ UNCHANGED <<want, stoat>>
      /\ rows \in [Entities -> RowType] /\ boot.list = want /\ ServerOk /\ ClaimsOk
      /\ DOMAIN want \subseteq Entities
      /\ \A d \in DOMAIN want \ cut' : Mendable(d)
  <2>1. boot.pc = "claim"
    BY DEF Claim, ClearDead, FindUnmapped, At
  <2> QED
    BY <2>1, CourseFrame DEF Claim, ClearDead, FindUnmapped, remote
<1>1. /\ boot'.pc = "claim" /\ boot'.list = boot.list /\ boot'.server = boot.server
      /\ boot'.type = boot.type /\ boot'.todo = boot.todo \ {e} /\ e \in boot.todo
      /\ \A d \in Entities \ {e} : rows'[d] = rows[d]
      /\ \/ /\ Active(rows[e]) /\ UNCHANGED rows /\ boot'.unmapped = boot.unmapped
            /\ boot'.avail = {o \in boot.avail : o.id # rows[e].id} /\ Named(e)
         \/ /\ ~Active(rows'[e]) /\ boot'.unmapped = boot.unmapped \cup {e}
            /\ boot'.avail = boot.avail /\ (rows'[e] = rows[e] \/ ~Found(rows'[e]))
  <2>1. CASE Claim(e)
    <3>1. Named(e)
      BY <1>0, <2>1 DEF Claim, Exists, ServerOk, Standing, Binding, Named
    <3> QED
      BY <1>0, <2>1, <3>1 DEF Claim, BootType
  <2>2. CASE ClearDead(e) \/ FindUnmapped(e)
    <3>1. /\ boot' = [boot EXCEPT !.todo = @ \ {e}, !.unmapped = @ \cup {e}] /\ e \in boot.todo
          /\ rows' = [rows EXCEPT ![e] = Absent] \/ (UNCHANGED rows /\ ~Active(rows[e]))
      BY <2>2 DEF ClearDead, FindUnmapped
    <3>2. /\ boot'.pc = "claim" /\ boot'.list = boot.list /\ boot'.server = boot.server
          /\ boot'.type = boot.type /\ boot'.todo = boot.todo \ {e}
          /\ boot'.unmapped = boot.unmapped \cup {e} /\ boot'.avail = boot.avail
      BY <1>0, <3>1 DEF BootType
    <3>3. /\ \A d \in Entities \ {e} : rows'[d] = rows[d]
          /\ ~Active(rows'[e]) /\ (rows'[e] = rows[e] \/ ~Found(rows'[e]))
      BY <1>0, <3>1 DEF Absent, Active, Found
    <3> QED
      BY <3>1, <3>2, <3>3
  <2> QED
    BY <2>1, <2>2
<1>2. ServerOk'
  BY <1>0, <1>1 DEF ServerOk, Standing, Binding
<1>3. ClaimsOk'
  <2> SUFFICES ASSUME NEW d \in DOMAIN want
               PROVE  /\ boot.type = EntityType(d) => d \in boot'.todo \cup boot'.unmapped \/ Active(rows'[d])
                      /\ Past(d)' /\ Active(rows'[d]) => Named(d)'
    BY <1>0, <1>1 DEF ClaimsOk
  <2>1. CASE d = e
    BY <1>0, <1>1, <2>1 DEF Named
  <2>2. CASE d # e
    <3>1. rows'[d] = rows[d] /\ (Past(d)' => Past(d))
      BY <1>0, <1>1, <2>2 DEF Past, Binding
    <3> QED
      BY <1>0, <1>1, <2>2, <3>1 DEF ClaimsOk, Named
  <2> QED
    BY <2>1, <2>2
<1>4. ASSUME NEW d \in DOMAIN want \ cut' PROVE Mendable(d)'
  <2>0. d \in Entities /\ (Fit(d) \/ Matched(d))
    BY <1>0, <1>4 DEF Mendable, Remade
  <2>1. CASE Fit(d)
    <3>1. rows'[d] = rows[d] \/ ~Found(rows'[d])
      BY <1>1, <2>0
    <3> QED
      BY <2>1, <3>1 DEF Mendable, Fit
  <2>2. CASE Matched(d) /\ ~Fit(d)
    <3>1. PICK o \in Namesakes(d) : /\ Namesakes(d) = {o}
                                    /\ boot.type = EntityType(d) => o \in boot.avail
      BY <1>0, <2>2 DEF Matched, Binding
    <3>2. Namesakes(d)' = Namesakes(d) /\ o \in Seen /\ o.look.name = want[d].name
      BY <1>0, <3>1 DEF Namesakes, Seen
    <3>3. boot.type = EntityType(d) => o \in boot'.avail
      <4>1. CASE Active(rows[e])
        <5>1. d # e
          BY <2>2, <4>1 DEF Fit
        <5>2. o.id # rows[e].id
          BY <1>0, <2>0, <3>2, <5>1, NamesStay DEF Steady, StartupInv, Owned, Holds, NamesApart
        <5> QED
          BY <1>1, <3>1, <5>2
      <4>2. CASE ~Active(rows[e])
        BY <1>1, <3>1, <4>2
      <4> QED
        BY <4>1, <4>2
    <3>4. ToBind(d)' /\ (rows'[d] = rows[d] \/ ~Found(rows'[d]))
      BY <1>0, <1>1, <2>0, <2>2 DEF Matched, ToBind, Binding
    <3>5. CASE rows'[d] = rows[d]
      <4>1. Matched(d)'
        BY <1>1, <2>2, <3>1, <3>2, <3>3, <3>4, <3>5 DEF Matched
      <4> QED
        BY <4>1 DEF Mendable
    <3> QED
      BY <3>4, <3>5 DEF Mendable, Fit
  <2> QED
    BY <2>0, <2>1, <2>2
<1> QED
  BY <1>0, <1>1, <1>2, <1>3, <1>4 DEF Course, LiveOk

(* Steps of a pass that only choose what to do.                             *)
LEMMA CourseByChoice ==
  ASSUME Steady, Startup, BeginMatch \/ BeginReap \/ \E e \in Entities : Adopt(e) \/ SkipBind(e)
  PROVE  Course'
<1>0. /\ boot \in BootType /\ BootOk(boot) /\ boot.pc \in {"claim", "match"}
      /\ UNCHANGED <<want, stoat, rows>>
      /\ boot.list = want /\ ServerOk /\ ClaimsOk /\ DOMAIN want \subseteq Entities
      /\ \A d \in DOMAIN want \ cut' : Mendable(d)
  <2>1. boot.pc \in {"claim", "match"}
    BY DEF BeginMatch, BeginReap, Adopt, SkipBind, At
  <2> QED
    BY <2>1, CourseFrame DEF BeginMatch, BeginReap, Adopt, SkipBind, remote
<1>1. /\ boot'.list = boot.list /\ boot'.server = boot.server /\ boot'.type = boot.type
      /\ boot'.avail = boot.avail
      /\ \/ /\ boot.pc = "claim" /\ boot'.pc = "match" /\ boot.todo = {} /\ boot'.todo = boot.unmapped
         \/ boot.pc = "match" /\ boot'.pc = "reap" /\ boot.todo = {}
         \/ \E e \in Entities :
              /\ boot.pc = "match" /\ boot'.pc = "bind" /\ boot'.e = e /\ boot'.todo = boot.todo \ {e}
              /\ boot'.state = Empty /\ \E o \in boot.avail : o.id = boot'.id
         \/ \E e \in Entities :
              /\ boot.pc = "match" /\ boot'.pc = "match" /\ boot'.todo = boot.todo \ {e}
              /\ e \in boot.todo /\ \A o : Candidates(e) # {o}
  <2>1. CASE BeginMatch
    BY <1>0, <2>1 DEF BeginMatch, BootType, At
  <2>2. CASE BeginReap
    BY <1>0, <2>2 DEF BeginReap, BootType, At
  <2>3. ASSUME NEW e \in Entities, Adopt(e)
        PROVE  /\ boot'.list = boot.list /\ boot'.server = boot.server /\ boot'.type = boot.type
               /\ boot'.avail = boot.avail
               /\ boot.pc = "match" /\ boot'.pc = "bind" /\ boot'.e = e /\ boot'.todo = boot.todo \ {e}
               /\ boot'.state = Empty /\ \E o \in boot.avail : o.id = boot'.id
    <3>1. PICK o \in Candidates(e) :
            boot' = [boot EXCEPT !.pc = "bind", !.todo = @ \ {e}, !.e = e, !.id = o.id, !.state = Empty]
      BY <2>3 DEF Adopt
    <3>2. o \in boot.avail /\ boot.pc = "match"
      BY <2>3 DEF Candidates, Adopt, At
    <3> QED
      BY <1>0, <3>1, <3>2 DEF BootType
  <2>4. ASSUME NEW e \in Entities, SkipBind(e)
        PROVE  /\ boot'.list = boot.list /\ boot'.server = boot.server /\ boot'.type = boot.type
               /\ boot'.avail = boot.avail
               /\ boot.pc = "match" /\ boot'.pc = "match" /\ boot'.todo = boot.todo \ {e}
               /\ e \in boot.todo /\ \A o : Candidates(e) # {o}
    <3>1. \A o : Candidates(e) # {o}
      BY <2>4, FS_Singleton DEF SkipBind
    <3> QED
      BY <1>0, <2>4, <3>1 DEF SkipBind, BootType, At
  <2> QED
    BY <2>1, <2>2, <2>3, <2>4
<1>2. Binding(boot) /\ Binding(boot') /\ boot.pc # "reap" /\ boot'.pc \in {"match", "bind", "reap"}
  BY <1>0, <1>1 DEF Binding
<1>3. ServerOk'
  <2>1. \A o \in boot.server : Standing(o)' => Standing(o)
    BY <1>1, <1>2 DEF Standing
  <2>2. boot.avail \subseteq stoat
    BY <1>0 DEF ServerOk
  <2> QED
    BY <1>0, <1>1, <1>2, <2>1, <2>2 DEF ServerOk
<1>4. ClaimsOk'
  <2>1. \A d \in DOMAIN want : Past(d)' => Past(d)
    BY <1>1, <1>2 DEF Past
  <2> QED
    BY <1>0, <1>1, <1>2, <2>1 DEF ClaimsOk, Named
<1>5. ASSUME NEW d \in DOMAIN want \ cut' PROVE Mendable(d)'
  <2>0. d \in Entities /\ (Fit(d) \/ Matched(d))
    BY <1>0, <1>5 DEF Mendable, Remade
  <2>1. CASE Fit(d)
    BY <1>0, <2>1 DEF Mendable, Fit
  <2>2. CASE Matched(d) /\ ~Fit(d)
    <3>1. PICK o \in Namesakes(d) : /\ Namesakes(d) = {o}
                                    /\ boot.type = EntityType(d) => o \in boot.avail
      BY <1>2, <2>2 DEF Matched
    <3>2. Namesakes(d)' = Namesakes(d)
      BY <1>0 DEF Namesakes
    <3>3. ASSUME boot.type = EntityType(d) PROVE Candidates(d) = {o}
      <4>1. o \in Candidates(d)
        BY <1>0, <3>1, <3>3 DEF Candidates, Namesakes
      <4>2. Candidates(d) \subseteq Namesakes(d)
        BY <1>0, <3>3 DEF Candidates, Namesakes, ServerOk, BootOk
      <4> QED
        BY <3>1, <4>1, <4>2
    <3>4. boot.type = EntityType(d) /\ boot.pc = "claim" => d \in boot.todo \cup boot.unmapped
      BY <1>0, <2>2 DEF ClaimsOk, Fit
    <3>5. ToBind(d)'
      BY <1>0, <1>1, <1>2, <2>2, <3>3, <3>4 DEF Matched, ToBind
    <3>6. Matched(d)'
      BY <1>0, <1>1, <2>2, <3>1, <3>2, <3>5 DEF Matched
    <3> QED
      BY <3>6 DEF Mendable
  <2> QED
    BY <2>0, <2>1, <2>2
<1> QED
  BY <1>0, <1>1, <1>2, <1>3, <1>4, <1>5 DEF Course, LiveOk

(* Reaping channels touches neither roles nor what an active row names.     *)
LEMMA CourseByReap ==
  ASSUME Steady, Startup, NEW q \in boot.avail, Reap(q)
  PROVE  Course'
<1>0. /\ boot \in BootType /\ BootOk(boot) /\ boot.pc = "reap" /\ UNCHANGED <<want, rows>>
      /\ boot.list = want /\ ServerOk /\ ClaimsOk /\ DOMAIN want \subseteq Entities
      /\ \A d \in DOMAIN want \ cut' : Mendable(d)
  <2>1. boot.pc = "reap"
    BY DEF Reap, At
  <2> QED
    BY <2>1, CourseFrame DEF Reap
<1>1. /\ boot'.pc = "reap" /\ boot'.list = boot.list /\ boot'.server = boot.server
      /\ boot'.type = boot.type /\ stoat' \subseteq stoat
  BY <1>0 DEF Reap, BootType
<1>2. \A p \in stoat \ stoat' : p.type = boot.type
  <2>1. \A p \in stoat \ stoat' : p.id = q.id
    BY DEF Reap
  <2>2. q \in Seen /\ q.type = boot.type
    BY <1>0 DEF Seen, BootOk
  <2> QED
    BY <2>1, <2>2 DEF Steady, StartupInv, Shape, ObjectsOk, Seen
<1>3. ServerOk'
  BY <1>0, <1>1, <1>2 DEF ServerOk, Standing, Binding
<1>4. ClaimsOk'
  <2> SUFFICES ASSUME NEW d \in DOMAIN want, Past(d), Active(rows[d]) PROVE Named(d)'
    BY <1>0, <1>1 DEF ClaimsOk, Past, Binding
  <2>1. PICK p \in stoat : p.id = rows[d].id
    BY <1>0 DEF ClaimsOk, Named
  <2>2. p \in stoat'
    BY <1>0, <2>1, ReapStep DEF Steady, Next, At
  <2> QED
    BY <1>0, <2>1, <2>2 DEF Named
<1>5. ASSUME NEW d \in DOMAIN want \ cut' PROVE Mendable(d)'
  <2>0. d \in Entities /\ (Fit(d) \/ Matched(d))
    BY <1>0, <1>5 DEF Mendable, Remade
  <2>1. CASE Fit(d)
    BY <1>0, <2>1 DEF Mendable, Fit
  <2>2. CASE Matched(d)
    <3>1. boot.type = "channel" /\ EntityType(d) = "role" /\ d \in Roles
      BY <1>0, <2>0, <2>2, Kinds DEF Matched, ToBind, Binding
    <3>2. Namesakes(d)' = Namesakes(d)
      BY <1>0, <1>1, <1>2, <3>1 DEF Namesakes
    <3>3. Matched(d)'
      BY <1>0, <1>1, <2>2, <3>1, <3>2 DEF Matched, ToBind, Binding
    <3> QED
      BY <3>3 DEF Mendable
  <2> QED
    BY <2>0, <2>1, <2>2
<1> QED
  BY <1>0, <1>1, <1>3, <1>4, <1>5 DEF Course, LiveOk

(* Each mapped object is compared with what it should look like.            *)
LEMMA CourseByLive ==
  ASSUME Steady, Startup, FetchLive \/ \E e \in Entities : VerifyLive(e) \/ SkipLive(e)
  PROVE  Course'
<1>0. /\ boot \in BootType /\ boot.pc \in {"reap", "live"} /\ UNCHANGED <<want, rows, stoat>>
      /\ boot.list = want /\ ClaimsOk /\ LiveOk /\ DOMAIN want \subseteq Entities /\ cut \subseteq cut'
      /\ \A d \in DOMAIN want \ cut' : Mendable(d)
      /\ boot.pc = "reap" => boot.type = "role" /\ FetchLive
  <2>1. boot.pc \in {"reap", "live"} /\ (boot.pc = "reap" => boot.type = "role" /\ FetchLive)
    BY DEF FetchLive, VerifyLive, SkipLive, At
  <2> QED
    BY <2>1, CourseFrame DEF FetchLive, VerifyLive, SkipLive, remote
<1>1. ASSUME NEW d \in DOMAIN want PROVE Past(d) /\ (Active(rows[d]) => Named(d))
  <2>1. (d \in Roles /\ EntityType(d) = "role") \/ d \in Channels
    BY <1>0, Kinds
  <2>2. Past(d)
    BY <1>0, <2>1 DEF Past, Binding
  <2> QED
    BY <1>0, <2>2 DEF ClaimsOk
<1>2. ASSUME NEW d \in DOMAIN want \ cut' PROVE Fit(d)
  <2>1. ~Matched(d)
    BY <1>0, Kinds DEF Matched, ToBind, Binding
  <2> QED
    BY <1>0, <2>1 DEF Mendable, Remade
<1>3. boot'.list = boot.list /\ boot'.pc \in {"live", "repair"} /\ LiveOk'
  <2>1. CASE FetchLive
    BY <1>0, <2>1 DEF FetchLive, BootType, LiveOk
  <2>2. ASSUME NEW e \in Entities, VerifyLive(e)
        PROVE  boot'.list = boot.list /\ boot'.pc = "repair" /\ LiveOk'
    <3>0. boot.pc = "live" /\ boot.server = stoat
      BY <2>2 DEF VerifyLive, At, Steady, Course, LiveOk
    <3>1. PICK o \in stoat, s \in {boot.list[e], Empty} :
            /\ o.id = rows[e].id /\ (s # Empty => o.look = s)
            /\ boot' = [boot EXCEPT !.pc = "repair", !.todo = @ \ {e}, !.e = e, !.id = o.id, !.state = s]
      BY <2>2, <3>0 DEF VerifyLive, LiveObjects, Matches
    <3>2. /\ boot'.pc = "repair" /\ boot'.todo = boot.todo \ {e} /\ boot'.e = e /\ boot'.id = o.id
          /\ boot'.state = s /\ boot'.server = boot.server /\ boot'.list = boot.list /\ cut' = cut
      BY <1>0, <2>2, <3>1 DEF BootType, VerifyLive
    <3>3. \A d \in DOMAIN want \ cut : d \in boot.todo \/ Truthful(d)
      BY <1>0, <3>0 DEF LiveOk
    <3>4. \A d \in DOMAIN want \ cut : d \in boot'.todo \/ boot'.e = d \/ Truthful(d)'
      BY <1>0, <3>2, <3>3 DEF Truthful
    <3> QED
      BY <1>0, <3>0, <3>1, <3>2, <3>4 DEF LiveOk
  <2>3. ASSUME NEW e \in Entities, SkipLive(e)
        PROVE  boot'.list = boot.list /\ boot'.pc = "live" /\ LiveOk'
    <3>0. boot.pc = "live" /\ boot.server = stoat /\ e \in boot.todo
      BY <2>3 DEF SkipLive, At, Steady, Course, LiveOk
    <3>1. /\ boot'.pc = "live" /\ boot'.todo = boot.todo \ {e}
          /\ boot'.server = boot.server /\ boot'.list = boot.list
      BY <1>0, <2>3, <3>0 DEF BootType, SkipLive
    <3>2. e \in DOMAIN want \ cut' => Truthful(e)
      <4>1. ASSUME e \in DOMAIN want, Active(rows[e]), e \notin cut' PROVE FALSE
        <5>1. LiveObjects(e) = {}
          BY <2>3, <4>1 DEF SkipLive
        <5> QED
          BY <1>1, <3>0, <4>1, <5>1 DEF LiveObjects, Named
      <4> QED
        BY <1>2, <4>1 DEF Truthful, Fit
    <3>3. \A d \in DOMAIN want \ cut : d \in boot.todo \/ Truthful(d)
      BY <1>0, <3>0 DEF LiveOk
    <3>4. \A d \in DOMAIN want \ cut' : d \in boot'.todo \/ Truthful(d)'
      BY <1>0, <3>1, <3>2, <3>3 DEF Truthful
    <3> QED
      BY <1>0, <3>0, <3>1, <3>4 DEF LiveOk
  <2> QED
    BY <2>1, <2>2, <2>3
<1>4. ServerOk'
  BY <1>3 DEF ServerOk, Standing, Binding
<1>5. ClaimsOk'
  BY <1>0, <1>1, <1>3 DEF ClaimsOk, Named
<1>6. \A d \in DOMAIN want \ cut' : Mendable(d)'
  BY <1>0, <1>2 DEF Mendable, Fit
<1> QED
  BY <1>0, <1>3, <1>4, <1>5, <1>6 DEF Course

(* ConvergeAll gives each entity an op for what Discord shows.              *)
LEMMA CourseByConverge == ASSUME Steady, Startup, ConvergeAll PROVE Course'
<1>0. /\ boot.pc = "live" /\ boot.todo = {} /\ UNCHANGED <<want, gone, rows, stoat, worker, cut>>
      /\ LiveOk /\ boot'.pc = "up" /\ boot'.server = {} /\ DOMAIN boot'.list = {}
      /\ DOMAIN want \subseteq Entities /\ \A d \in DOMAIN want : want[d] \in Look
  <2>1. \A d \in DOMAIN want : want[d] \in Look
    BY ListTyped DEF Steady, StartupInv, Shape, Types
  <2> QED
    BY <2>1, DownTyped, CourseFrame DEF ConvergeAll, At, remote, Down, discord
<1>1. ASSUME NEW e \in Entities \ gone PROVE PipeOk(e)'
  <2>1. queue[e] = <<>> /\ worker[e] = Idle
    BY <1>0 DEF Steady, StartupInv, Quiet
  <2>2. e \in cut \/ Truthful(e)
    <3>1. e \notin DOMAIN want => ~Found(rows[e])
      BY DEF Steady, StartupInv, Shape, EntitiesOk, EntityOk, Known
    <3> QED
      BY <1>0, <3>1 DEF LiveOk, Truthful
  <2>3. e \notin DOMAIN want => queue'[e] = <<>>
    BY <2>1 DEF ConvergeAll
  <2>4. ASSUME e \in DOMAIN want
        PROVE  queue'[e] # <<>> /\ Len(queue'[e]) = 1 /\ queue'[e][1] = Put(want[e])
    <3>1. queue'[e] = Append(<<>>, Put(want[e]))
      BY <2>1, <2>4 DEF ConvergeAll
    <3>2. Put(want[e]) \in OpType
      BY <1>0, <2>4 DEF OpType
    <3> QED
      BY <3>1, <3>2, EmptySeq, AppendProperties, LenProperties
  <2>5. \A i \in 1 .. Len(queue'[e]) : queue'[e][i].kind = "put"
    <3>1. CASE e \in DOMAIN want
      BY <2>4, <3>1 DEF Put
    <3>2. CASE e \notin DOMAIN want
      BY <2>3, <3>2, EmptySeq
    <3> QED
      BY <3>1, <3>2
  <2>6. e \in cut' \/ Truthful(e)'
    BY <1>0, <2>2 DEF Truthful
  <2> QED
    BY <1>0, <2>1, <2>4, <2>5, <2>6 DEF PipeOk, Idle
<1>2. ServerOk' /\ ClaimsOk' /\ LiveOk'
  BY <1>0 DEF ServerOk, ClaimsOk, LiveOk
<1> QED
  BY <1>0, <1>1, <1>2 DEF Course

(* A stamp ends what a row was to be mended for.                            *)
LEMMA CourseByStamp ==
  ASSUME Steady, Startup, StampPending, boot.pc \in {"bind", "repair"}
  PROVE  Course'
<1>0. /\ boot \in BootType /\ boot.e \in Entities /\ UNCHANGED <<want, stoat, cut>>
      /\ rows \in [Entities -> RowType] /\ boot.list = want /\ ServerOk /\ ClaimsOk /\ LiveOk
      /\ DOMAIN want \subseteq Entities
      /\ \A d \in DOMAIN want \ cut : Mendable(d)
  <2>1. boot.e \in Entities
    BY CourseFrame DEF BootOk, Stamping
  <2> QED
    BY <2>1, CourseFrame DEF StampPending, remote
<1>1. /\ boot'.pc = (IF boot.pc = "bind" THEN "bound" ELSE "repaired")
      /\ boot'.list = boot.list /\ boot'.server = boot.server /\ boot'.type = boot.type
      /\ boot'.avail = boot.avail /\ boot'.todo = boot.todo /\ boot'.e = boot.e
      /\ boot'.id = boot.id /\ boot'.state = boot.state
  BY <1>0 DEF StampPending, BootType, At
<1>2. /\ ~Active(rows'[boot.e]) /\ rows'[boot.e].state = boot.state
      /\ \A d \in Entities \ {boot.e} : rows'[d] = rows[d]
  BY <1>0 DEF StampPending, PendingStructureRow, Active
<1>3. ServerOk'
  BY <1>0, <1>1 DEF ServerOk, Standing, Binding
<1>4. ClaimsOk'
  <2> SUFFICES ASSUME NEW d \in DOMAIN want, Past(d)', Active(rows'[d]) PROVE Named(d)'
    BY <1>0, <1>1 DEF ClaimsOk
  <2>1. d # boot.e /\ rows'[d] = rows[d] /\ Past(d)
    BY <1>0, <1>1, <1>2 DEF Past, Binding
  <2> QED
    BY <1>0, <2>1 DEF ClaimsOk, Named
<1>5. ASSUME NEW d \in DOMAIN want \ cut PROVE Mendable(d)'
  <2>1. CASE d = boot.e
    BY <1>0, <1>1, <1>2, <2>1 DEF Mendable, Fit, ServerOk
  <2>2. CASE d # boot.e /\ Fit(d)
    BY <1>0, <1>2, <2>2 DEF Mendable, Fit
  <2>3. CASE d # boot.e /\ Matched(d)
    <3>1. Namesakes(d)' = Namesakes(d) /\ rows'[d] = rows[d]
      BY <1>0, <1>2, <2>3 DEF Namesakes
    <3>2. ToBind(d)' /\ boot.pc = "bind"
      BY <1>0, <1>1, <2>3 DEF Matched, ToBind, Binding
    <3>3. Matched(d)'
      BY <1>1, <2>3, <3>1, <3>2 DEF Matched, Binding
    <3> QED
      BY <3>3 DEF Mendable
  <2> QED
    BY <1>0, <2>1, <2>2, <2>3 DEF Mendable, Remade
<1>6. LiveOk'
  <2> SUFFICES ASSUME boot.pc = "repair" PROVE LiveOk'
    BY <1>0, <1>1 DEF LiveOk
  <2>1. \A d \in DOMAIN want \ cut : d \in boot.todo \/ boot.e = d \/ Truthful(d)'
    BY <1>0, <1>2 DEF LiveOk, Truthful
  <2> QED
    BY <1>0, <1>1, <1>2, <2>1 DEF LiveOk
<1> QED
  BY <1>0, <1>1, <1>3, <1>4, <1>5, <1>6 DEF Course

LEMMA CourseByConfirm ==
  ASSUME NamesApart, OneName, Steady, Startup, StampConfirm, boot.pc \in {"bound", "repaired"}
  PROVE  Course'
<1>0. /\ boot \in BootType /\ boot.e \in Entities /\ UNCHANGED <<want, stoat, cut>>
      /\ rows \in [Entities -> RowType] /\ boot.list = want /\ ServerOk /\ ClaimsOk /\ LiveOk
      /\ DOMAIN want \subseteq Entities /\ BindOk /\ boot.id \in Nat \ {NoId}
      /\ \A d \in DOMAIN want \ cut : Mendable(d)
  <2>1. boot.e \in Entities /\ boot.id # NoId
    BY CourseFrame DEF BootOk, Stamping
  <2> QED
    BY <2>1, CourseFrame DEF StampConfirm, remote, BootType
<1>1. /\ boot'.pc = (IF boot.pc = "bound" THEN "match" ELSE "live")
      /\ boot'.list = boot.list /\ boot'.server = boot.server /\ boot'.type = boot.type
      /\ boot'.avail = {o \in boot.avail : o.id # boot.id} /\ boot'.todo = boot.todo
  BY <1>0 DEF StampConfirm, BootType, At
<1>2. /\ Active(rows'[boot.e]) /\ rows'[boot.e].id = boot.id /\ rows'[boot.e].state = rows[boot.e].state
      /\ \A d \in Entities \ {boot.e} : rows'[d] = rows[d]
  <2>1. Found(rows[boot.e]) /\ rows[boot.e] \in RowType
    BY <1>0 DEF BindOk
  <2> QED
    BY <1>0, <2>1 DEF StampConfirm, ConfirmedRow, Active, RowType
<1>3. ServerOk'
  BY <1>0, <1>1 DEF ServerOk, Standing, Binding
<1>4. \E o \in stoat : o.id = boot.id
  BY <1>0 DEF ServerOk, LiveOk
<1>5. ClaimsOk'
  <2> SUFFICES ASSUME NEW d \in DOMAIN want, Past(d)', Active(rows'[d]) PROVE Named(d)'
    BY <1>0, <1>1 DEF ClaimsOk
  <2>1. CASE d = boot.e
    BY <1>0, <1>2, <1>4, <2>1 DEF Named
  <2>2. CASE d # boot.e
    <3>1. rows'[d] = rows[d] /\ Past(d)
      BY <1>0, <1>1, <1>2, <2>2 DEF Past, Binding
    <3> QED
      BY <1>0, <3>1 DEF ClaimsOk, Named
  <2> QED
    BY <2>1, <2>2
<1>6. ASSUME NEW d \in DOMAIN want \ cut PROVE Mendable(d)'
  <2>1. CASE d = boot.e
    BY <1>0, <1>2, <2>1 DEF Mendable, Fit
  <2>2. CASE d # boot.e /\ Fit(d)
    BY <1>0, <1>2, <2>2 DEF Mendable, Fit
  <2>3. CASE d # boot.e /\ Matched(d)
    <3>1. Namesakes(d)' = Namesakes(d) /\ rows'[d] = rows[d]
      BY <1>0, <1>2, <2>3 DEF Namesakes
    <3>2. ToBind(d)' /\ boot.pc = "bound"
      BY <1>0, <1>1, <2>3 DEF Matched, ToBind, Binding
    <3>3. PICK o \in Namesakes(d) : /\ Namesakes(d) = {o}
                                    /\ boot.type = EntityType(d) => o \in boot.avail
      BY <2>3, <3>2 DEF Matched, Binding
    <3>4. o \in Seen /\ o.look.name = want[d].name
      BY <3>3 DEF Namesakes, Seen
    <3>5. o.id # boot.id
      <4> SUFFICES ASSUME o.id = boot.id PROVE FALSE
        OBVIOUS
      <4>1. Holds(boot.e, o.id)
        BY <3>2 DEF Holds, Stamping
      <4>2. o.look.name \in NamesOf(boot.e)
        BY <1>0, <3>4, <4>1 DEF Steady, Owned
      <4> QED
        BY <1>0, <2>3, <3>4, <4>2, NamesStay DEF Steady, StartupInv, NamesApart
    <3>6. Matched(d)'
      BY <1>1, <2>3, <3>1, <3>2, <3>3, <3>5 DEF Matched
    <3> QED
      BY <3>6 DEF Mendable
  <2> QED
    BY <1>0, <2>1, <2>2, <2>3 DEF Mendable, Remade
<1>7. LiveOk'
  <2> SUFFICES ASSUME boot.pc = "repaired" PROVE LiveOk'
    BY <1>0, <1>1 DEF LiveOk
  <2>1. PICK o \in stoat : o.id = boot.id /\ (boot.state # Empty => o.look = boot.state)
    BY <1>0 DEF LiveOk
  <2>2. rows[boot.e].state = boot.state
    BY <1>0 DEF LiveOk
  <2>3. ASSUME NEW d \in DOMAIN want \ cut PROVE d \in boot.todo \/ Truthful(d)'
    <3>1. CASE d = boot.e
      BY <1>0, <1>2, <2>1, <2>2, <3>1 DEF Truthful
    <3>2. CASE d # boot.e
      BY <1>0, <1>2, <2>3, <3>2 DEF LiveOk, Truthful
    <3> QED
      BY <3>1, <3>2
  <2> QED
    BY <1>0, <1>1, <2>3 DEF LiveOk
<1> QED
  BY <1>0, <1>1, <1>3, <1>5, <1>6, <1>7 DEF Course

LEMMA StartupCourse ==
  ASSUME NamesApart, OneName, Steady, Startup
  PROVE  Course'
<1>1. boot \in BootType
  BY CourseFrame
<1>2. CASE Start \/ FetchServer \/ \E r \in Privileged : KeepAdminRole(r) \/ CreateAdminRole(r)
  <2>1. boot.pc \in {"down"} \cup Early4 /\ boot'.pc \in Early4
    BY <1>1, <1>2 DEF Start, FetchServer, KeepAdminRole, CreateAdminRole, Down, BootType, At, Early4
  <2> QED
    BY <2>1, CourseEarly
<1>3. CASE StampPending
  <2>1. boot.pc = "enter" => boot'.pc = "entered"
    BY <1>1, <1>3 DEF StampPending, BootType, At
  <2> QED
    BY <1>3, <2>1, CourseEarly, CourseByStamp DEF StampPending, Early4
<1>4. CASE StampConfirm
  <2>1. boot.pc = "entered" => boot'.pc = "admin"
    BY <1>1, <1>4 DEF StampConfirm, BootType, At
  <2> QED
    BY <1>4, <2>1, CourseEarly, CourseByConfirm DEF StampConfirm, Early4
<1> QED
  BY <1>2, <1>3, <1>4, CourseByFetch, CourseByClaim, CourseByChoice, CourseByReap, CourseByLive,
     CourseByConverge DEF Startup, Bind, ReconcileLive

(* Where names stay and tell entities apart, a start over tables that were  *)
(* in order at first makes Stoat the mirror of Discord, whatever the server *)
(* is like, whatever calls fail and wherever earlier lives were cut short,  *)
(* but for the entities for which a call failed or that LeftUndone names.   *)
THEOREM StartupConverges ==
  ASSUME Early = FALSE, DryRun = FALSE, NamesApart, OneName,
         \A w \in Worlds : WellNamed(w) /\ Whole(w)
  PROVE  Spec => []StartConverges
<1>1. Init => Owned /\ Course
  <2> SUFFICES ASSUME Init PROVE Owned /\ Course
    OBVIOUS
  <2>1. PICK w \in Worlds : rows = w.rows /\ stoat = w.stoat
    BY DEF Init
  <2> QED
    BY <2>1, InitOwned, InitCourse
<1>2. ASSUME StartupInv, Ledger, Owned, Course, [Next]_vars PROVE Owned' /\ Course'
  <2>0. Steady
    BY <1>2 DEF Steady
  <2>1. CASE UNCHANGED vars
    <3>1. Owned'
      BY <1>2, <2>1 DEF vars, remote, engine, Owned, Holds, Seen
    <3>2. ServerOk' /\ ClaimsOk' /\ LiveOk'
      BY <1>2, <2>1 DEF vars, discord, remote, Course, ServerOk, Standing, ClaimsOk, Past, Named,
         LiveOk, Truthful
    <3>3. ASSUME NEW e \in DOMAIN want, Mendable(e) PROVE Mendable(e)'
      <4>1. Namesakes(e)' = Namesakes(e)
        BY <2>1 DEF vars, discord, remote, Namesakes
      <4> QED
        BY <2>1, <3>3, <4>1 DEF vars, Mendable, Fit, Remade, Matched, ToBind
    <3>4. ASSUME NEW e \in Entities, PipeOk(e) PROVE PipeOk(e)'
      BY <2>1, <3>4 DEF vars, discord, remote, engine, PipeOk, Truthful
    <3> QED
      BY <1>2, <2>1, <3>1, <3>2, <3>3, <3>4 DEF vars, discord, Course
  <2>2. CASE Next
    BY <1>2, <2>0, <2>2, OwnedStep, CrashCourse, EventCourse, ProcessCourse, StartupCourse
       DEF Next, StartupInv
  <2> QED
    BY <1>2, <2>1, <2>2
<1>3. ASSUME StartupInv, Course PROVE StartConverges
  <2> SUFFICES ASSUME Settled, NEW e \in DOMAIN want \ cut PROVE Mirrored(e)
    BY DEF StartConverges
  <2>1. e \in Entities \ gone /\ want[e] # Empty /\ want[e] \in Look
    BY <1>3, ListTyped, LooksAssumption DEF StartupInv, Shape, Types, Discord
  <2>2. PipeOk(e) /\ queue[e] = <<>> /\ worker[e].kind = "none"
    BY <1>3, <2>1 DEF Course, Settled, At, NoOps, Idle
  <2>3. Found(rows[e]) /\ rows[e].state = want[e] /\ Truthful(e)
    BY <2>2 DEF PipeOk
  <2> QED
    BY <2>1, <2>3 DEF Truthful, Mirrored, With
<1>4. StartupInv /\ Ledger /\ [Next]_vars => Ledger'
  <2>1. CASE UNCHANGED vars
    BY <2>1 DEF vars, discord, remote, engine, Ledger, ReadOk, BindOk, Binding, Accounted, Unread,
       Owns, Stays, Applies, At
  <2> QED
    BY <2>1, LedgerStep
<1> QED
  BY <1>1, <1>2, <1>3, <1>4, InitLedger, StartupAlways, PTL DEF Spec
=============================================================================
