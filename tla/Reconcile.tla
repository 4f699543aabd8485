----------------------------- MODULE Reconcile -----------------------------
(***************************************************************************)
(* Startup (cmd/stoatcord, internal/reconcile): the admin roles are        *)
(* mirrored, Bind pairs what Discord and Stoat already have, ReconcileLive *)
(* compares the pairs, ConvergeAll submits an op for everything; and then  *)
(* ops, until the process dies and starts again over the rows it left.     *)
(* The engine is kept to one worker per entity with the statements of      *)
(* process (Engine has the rest).  An error of a statement or a read ends  *)
(* the program, which to the data is a crash.  Categories are left out:    *)
(* Bind pairs them by the same loop and never reaps one.                   *)
(***************************************************************************)
EXTENDS MappingStore, Sequences, FiniteSets

CONSTANTS
  Names,               \* a name, and for a channel its kind
  Attrs,               \* all else that is mirrored
  Empty,               \* the canonical state "{}"
  MayShow,             \* by entity, the looks Discord may give it
  Privileged,          \* roles that carry ADMINISTRATOR
  Elevation,           \* Stoat id of the bot's own role
  Worlds,              \* guild, rows and Stoat as the program may find them first
  Early,               \* whether events come while startup is under way
  DryRun,
  MaxEvents, MaxFaults \* bounds on events, and on failed calls

Look == [name : Names, attrs : Attrs]

ASSUME LooksAssumption ==
  /\ States = Look \cup {Empty} /\ Empty \notin Look
  /\ MayShow \in [Entities -> SUBSET Look]
  /\ Messages = {} /\ Privileged \subseteq Roles
  /\ Elevation \in Nat \ {NoId} /\ Early \in BOOLEAN /\ DryRun \in BOOLEAN

ObjectType == [id : Nat \ {NoId}, type : {"role", "channel"}, look : Look]

(* Discord's structure: a look for each entity there is.                    *)
Lists == UNION {[D -> Look] : D \in SUBSET Entities}

(* Each object has an id of its own and each row names an object of its     *)
(* kind, or a dead one, which no other row names.                           *)
ASSUME WorldsAssumption ==
  \A w \in Worlds :
    /\ w.want \in Lists /\ \A e \in DOMAIN w.want : w.want[e] \in MayShow[e]
    /\ w.rows \in [Entities -> RowType] /\ w.next \in Nat \ {NoId} /\ w.crashes \in Nat
    /\ w.stoat \subseteq ObjectType /\ \A o \in w.stoat : o.id < w.next
    /\ \A o, p \in w.stoat : o.id = p.id => o = p
    /\ \A e \in Entities : LET row == w.rows[e] IN
         /\ row.id < w.next
         /\ Active(row) => row.id # NoId
         /\ Found(row) => e \in DOMAIN w.want
         /\ \A o \in w.stoat : o.id = row.id => o.type = EntityType(e)
         /\ \A f \in Entities \ {e} : w.rows[f].id = row.id => row.id = NoId

VARIABLES
  want, gone,    \* Discord: what exists looks how; deleted ids, which never come back
  rows,          \* the mapping tables
  stoat, nextId, \* objects on Stoat; the next id
  boot,          \* the main goroutine
  queue, worker, \* the engine, by entity
  cut,           \* entities whose op was cut short, and not made up for by a start
  events, faults, crashesLeft

discord == <<want, gone, events>>
remote  == <<stoat, nextId>>
engine  == <<queue, worker>>
vars == <<discord, rows, remote, boot, engine, cut, faults, crashesLeft>>

Object(id, type, look) == [id |-> id, type |-> type, look |-> look]

With(id) == {o \in stoat : o.id = id}

Down == [pc |-> "down", type |-> "none", todo |-> {}, list |-> <<>>, server |-> {},
         unmapped |-> {}, avail |-> {}, e |-> Null, id |-> NoId, state |-> Null]

Idle == [pc |-> "idle", kind |-> "none", look |-> Null, id |-> NoId]

NoOps == [e \in Entities |-> <<>>]

Init ==
  /\ \E w \in Worlds :
       /\ want = w.want /\ rows = w.rows /\ stoat = w.stoat /\ nextId = w.next
       /\ crashesLeft = w.crashes
  /\ gone = {}
  /\ boot = Down /\ queue = NoOps /\ worker = [e \in Entities |-> Idle]
  /\ cut = {} /\ events = 0 /\ faults = 0

-----------------------------------------------------------------------------
At(label) == boot.pc = label

(* Main reads Discord's structure once, for all of startup; without an      *)
(* admin role it refuses to go on.                                          *)
Start ==
  /\ At("down") /\ Privileged \cap DOMAIN want # {}
  /\ boot' = [Down EXCEPT !.pc = "admin", !.list = want, !.todo = Privileged \cap DOMAIN want]
  /\ UNCHANGED <<discord, rows, remote, engine, cut, faults, crashesLeft>>

(* resolveAdminRoles: a role that is mapped stays ...                       *)
KeepAdminRole(r) ==
  /\ At("admin") /\ r \in boot.todo /\ Active(rows[r]) /\ rows[r].id # NoId
  /\ boot' = [boot EXCEPT !.todo = @ \ {r}]
  /\ UNCHANGED <<discord, rows, remote, engine, cut, faults, crashesLeft>>

(* ... and any other is created, then entered into the table.               *)
CreateAdminRole(r) ==
  /\ At("admin") /\ r \in boot.todo /\ ~(Active(rows[r]) /\ rows[r].id # NoId)
  /\ stoat' = stoat \cup {Object(nextId, "role", boot.list[r])} /\ nextId' = nextId + 1
  /\ boot' = [boot EXCEPT !.pc = "enter", !.todo = @ \ {r}, !.e = r, !.id = nextId,
                          !.state = boot.list[r]]
  /\ UNCHANGED <<discord, rows, engine, cut, faults, crashesLeft>>

-----------------------------------------------------------------------------
(* Bind.  FetchServer: objects of every type in one answer.                 *)
FetchServer ==
  /\ At("admin") /\ boot.todo = {}
  /\ boot' = [boot EXCEPT !.pc = "fetched", !.type = "channel", !.server = stoat]
  /\ UNCHANGED <<discord, rows, remote, engine, cut, faults, crashesLeft>>

Exists(type) == {o \in boot.server : o.type = type}

OfType(type) == {e \in DOMAIN boot.list : EntityType(e) = type}

BeginPass(type, items) ==
  boot' = [boot EXCEPT !.pc = "claim", !.type = type, !.todo = OfType(type), !.avail = items]

(* FetchChannel, for each of them: one that is not to be had exists, but    *)
(* cannot be matched.                                                       *)
FetchChannels ==
  LET had == {o \in stoat : \E s \in Exists("channel") : s.id = o.id} IN
  /\ At("fetched")
  /\ \/ BeginPass("channel", had) /\ UNCHANGED <<cut, faults>>
     \/ \E o \in had :
          /\ faults < MaxFaults /\ faults' = faults + 1
          /\ BeginPass("channel", had \ {o})
          /\ cut' = cut \cup {c \in OfType("channel") : boot.list[c].name = o.look.name}
  /\ UNCHANGED <<discord, rows, remote, engine, crashesLeft>>

(* bindEntities.  An active mapping claims its object, by the listing ...   *)
Claim(e) ==
  /\ At("claim") /\ e \in boot.todo /\ Active(rows[e])
  /\ rows[e].id \in {o.id : o \in Exists(boot.type)}
  /\ boot' = [boot EXCEPT !.todo = @ \ {e}, !.avail = {o \in @ : o.id # rows[e].id}]
  /\ UNCHANGED <<discord, rows, remote, engine, cut, faults, crashesLeft>>

(* ... a dead one is cleared; nothing refers to it here ...                 *)
ClearDead(e) ==
  /\ At("claim") /\ e \in boot.todo /\ Active(rows[e])
  /\ rows[e].id \notin {o.id : o \in Exists(boot.type)}
  /\ rows' = [rows EXCEPT ![e] = Absent]
  /\ boot' = [boot EXCEPT !.todo = @ \ {e}, !.unmapped = @ \cup {e}]
  /\ UNCHANGED <<discord, remote, engine, cut, faults, crashesLeft>>

(* ... and what is pending or absent is to be matched.                      *)
FindUnmapped(e) ==
  /\ At("claim") /\ e \in boot.todo /\ ~Active(rows[e])
  /\ boot' = [boot EXCEPT !.todo = @ \ {e}, !.unmapped = @ \cup {e}]
  /\ UNCHANGED <<discord, rows, remote, engine, cut, faults, crashesLeft>>

(* Mutant: what is unmapped is carried over into the next pass.             *)
BeginMatchKeeps ==
  /\ At("claim") /\ boot.todo = {}
  /\ boot' = [boot EXCEPT !.pc = "match", !.todo = boot.unmapped]
  /\ UNCHANGED <<discord, rows, remote, engine, cut, faults, crashesLeft>>

BeginMatch ==
  /\ At("claim") /\ boot.todo = {}
  /\ boot' = [boot EXCEPT !.pc = "match", !.todo = boot.unmapped, !.unmapped = {}]
  /\ UNCHANGED <<discord, rows, remote, engine, cut, faults, crashesLeft>>

(* Mutant: objects that are claimed can be matched, too.                    *)
CandidatesClaimedToo(e) == {o \in Exists(boot.type) : o.look.name = boot.list[e].name}

Candidates(e) == {o \in boot.avail : o.look.name = boot.list[e].name}

(* One candidate, and no more, is adopted; "{}" makes sure of an edit.      *)
Adopt(e) ==
  /\ At("match") /\ e \in boot.todo
  /\ \E o \in Candidates(e) :
       /\ Candidates(e) = {o}
       /\ boot' = [boot EXCEPT !.pc = "bind", !.todo = @ \ {e}, !.e = e, !.id = o.id,
                               !.state = Empty]
  /\ UNCHANGED <<discord, rows, remote, engine, cut, faults, crashesLeft>>

SkipBind(e) ==
  /\ At("match") /\ e \in boot.todo /\ Cardinality(Candidates(e)) # 1
  /\ boot' = [boot EXCEPT !.todo = @ \ {e}]
  /\ UNCHANGED <<discord, rows, remote, engine, cut, faults, crashesLeft>>

(* The two statements by which a row is entered, bound or repaired.         *)
StampPending ==
  /\ boot.pc \in {"enter", "bind", "repair"}
  /\ rows' = [rows EXCEPT ![boot.e] = PendingStructureRow(@, boot.state)]
  /\ boot' = [boot EXCEPT !.pc = CASE At("enter") -> "entered"
                                   [] At("bind") -> "bound" [] OTHER -> "repaired"]
  /\ UNCHANGED <<discord, remote, engine, cut, faults, crashesLeft>>

(* Mutant: the object stays available after it was bound.                   *)
StampConfirmKeeps ==
  /\ boot.pc \in {"entered", "bound", "repaired"}
  /\ rows' = [rows EXCEPT ![boot.e] = ConfirmedRow(@, boot.id)]
  /\ boot' = [boot EXCEPT !.e = Null, !.id = NoId, !.state = Null,
       !.pc = CASE At("entered") -> "admin" [] At("bound") -> "match" [] OTHER -> "live"]
  /\ UNCHANGED <<discord, remote, engine, cut, faults, crashesLeft>>

StampConfirm ==
  /\ boot.pc \in {"entered", "bound", "repaired"}
  /\ rows' = [rows EXCEPT ![boot.e] = ConfirmedRow(@, boot.id)]
  /\ boot' = [boot EXCEPT !.e = Null, !.id = NoId, !.state = Null,
       !.pc = CASE At("entered") -> "admin" [] At("bound") -> "match" [] OTHER -> "live",
       !.avail = {o \in @ : o.id # boot.id}]
  /\ UNCHANGED <<discord, remote, engine, cut, faults, crashesLeft>>

BeginReap ==
  /\ At("match") /\ boot.todo = {}
  /\ boot' = [boot EXCEPT !.pc = "reap"]
  /\ UNCHANGED <<discord, rows, remote, engine, cut, faults, crashesLeft>>

(* Mutant: roles are only logged, as categories are.                        *)
ExemptRole(o) == DryRun \/ o.type = "role"

Exempt(o) == DryRun \/ o.id = Elevation

(* What is left is foreign.  A delete that fails is logged.                 *)
Reap(o) ==
  /\ At("reap") /\ o \in boot.avail
  /\ boot' = [boot EXCEPT !.avail = @ \ {o}]
  /\ \/ /\ stoat' = IF Exempt(o) THEN stoat ELSE {p \in stoat : p.id # o.id}
        /\ UNCHANGED faults
     \/ ~Exempt(o) /\ faults < MaxFaults /\ faults' = faults + 1 /\ UNCHANGED stoat
  /\ UNCHANGED <<discord, rows, nextId, engine, cut, crashesLeft>>

(* verifyElevationRoleUnmapped: else main exits, now and at every start.    *)
BindRoles ==
  /\ At("reap") /\ boot.avail = {} /\ boot.type = "channel"
  /\ \A r \in OfType("role") : ~(Active(rows[r]) /\ rows[r].id = Elevation)
  /\ BeginPass("role", Exists("role"))
  /\ UNCHANGED <<discord, rows, remote, engine, cut, faults, crashesLeft>>

-----------------------------------------------------------------------------
(* ReconcileLive.                                                           *)
FetchLive ==
  /\ At("reap") /\ boot.avail = {} /\ boot.type = "role"
  /\ boot' = [boot EXCEPT !.pc = "live", !.todo = DOMAIN boot.list, !.server = stoat]
  /\ UNCHANGED <<discord, rows, remote, engine, cut, faults, crashesLeft>>

(* A role is looked up in the server's answer, a channel is fetched.        *)
LiveObjects(e) ==
  {o \in IF e \in Roles THEN boot.server ELSE stoat : o.id = rows[e].id}

(* Mutant: what is there is taken to be right.                              *)
MatchesAlways(e, o) == TRUE

(* The grants that every channel carries for the admin roles can make it    *)
(* differ although it looks right.                                          *)
Matches(e, o) == o.look = boot.list[e]

VerifyLive(e) ==
  /\ At("live") /\ e \in boot.todo /\ Active(rows[e])
  /\ \E o \in LiveObjects(e) :
       \E state \in IF Matches(e, o) THEN {boot.list[e]} \cup (IF e \in Channels THEN {Empty} ELSE {})
                                     ELSE {Empty} :
         boot' = [boot EXCEPT !.pc = "repair", !.todo = @ \ {e}, !.e = e, !.id = o.id,
                              !.state = state]
  /\ UNCHANGED <<discord, rows, remote, engine, cut, faults, crashesLeft>>

(* Nothing there to compare, or a channel could not be fetched.             *)
SkipLive(e) ==
  /\ At("live") /\ e \in boot.todo
  /\ boot' = [boot EXCEPT !.todo = @ \ {e}]
  /\ \/ (~Active(rows[e]) \/ LiveObjects(e) = {}) /\ UNCHANGED <<cut, faults>>
     \/ /\ e \in Channels /\ Active(rows[e])
        /\ faults < MaxFaults /\ faults' = faults + 1 /\ cut' = cut \cup {e}
  /\ UNCHANGED <<discord, rows, remote, engine, crashesLeft>>

Put(look) == [kind |-> "put", look |-> look]
Delete    == [kind |-> "delete", look |-> Null]

(* ConvergeAll reads the state cache anew.                                  *)
ConvergeAll ==
  /\ At("live") /\ boot.todo = {}
  /\ boot' = [Down EXCEPT !.pc = "up"]
  /\ queue' = [e \in Entities |-> IF e \in DOMAIN want THEN Append(queue[e], Put(want[e]))
                                                       ELSE queue[e]]
  /\ UNCHANGED <<discord, rows, remote, worker, cut, faults, crashesLeft>>

-----------------------------------------------------------------------------
(* Discord.  While the program is down an event goes unnoticed.             *)
MayHappen == events < MaxEvents /\ (Early \/ boot.pc \in {"down", "up"})

Notice(e, op) ==
  queue' = IF At("down") THEN queue ELSE [queue EXCEPT ![e] = Append(@, op)]

Change(e) ==
  /\ MayHappen /\ e \notin gone
  /\ \E look \in MayShow[e] :
       /\ e \in DOMAIN want => look # want[e]
       /\ want' = [x \in DOMAIN want \cup {e} |-> IF x = e THEN look ELSE want[x]]
       /\ Notice(e, Put(look))
  /\ events' = events + 1
  /\ UNCHANGED <<gone, rows, remote, boot, worker, cut, faults, crashesLeft>>

Vanish(e) ==
  /\ MayHappen /\ e \in DOMAIN want
  /\ want' = [x \in DOMAIN want \ {e} |-> want[x]] /\ gone' = gone \cup {e}
  /\ Notice(e, Delete)
  /\ events' = events + 1
  /\ UNCHANGED <<rows, remote, boot, worker, cut, faults, crashesLeft>>

-----------------------------------------------------------------------------
(* The engine's process, for one entity after the other.                    *)
Next1(e) == worker[e] = Idle /\ queue[e] # <<>>

Step(e, w) == worker' = [worker EXCEPT ![e] = w]

(* In a dry run every op ends here, in a line of the log.                   *)
Skip(e) ==
  LET op == Head(queue[e]) IN
  /\ Next1(e)
  /\ DryRun \/ (op.kind = "put" /\ Found(rows[e]) /\ rows[e].state = op.look)
  /\ queue' = [queue EXCEPT ![e] = Tail(@)]
  /\ UNCHANGED <<discord, rows, remote, boot, worker, cut, faults, crashesLeft>>

WritePending(e) ==
  LET op == Head(queue[e]) IN
  /\ Next1(e) /\ ~DryRun /\ op.kind = "put" /\ ~(Found(rows[e]) /\ rows[e].state = op.look)
  /\ rows' = [rows EXCEPT ![e] = PendingStructureRow(@, op.look)]
  /\ queue' = [queue EXCEPT ![e] = Tail(@)]
  /\ Step(e, [Idle EXCEPT !.pc = "apply", !.kind = "put", !.look = op.look])
  /\ UNCHANGED <<discord, remote, boot, cut, faults, crashesLeft>>

BeginDelete(e) ==
  /\ Next1(e) /\ ~DryRun /\ Head(queue[e]).kind = "delete"
  /\ queue' = [queue EXCEPT ![e] = Tail(@)]
  /\ Step(e, [Idle EXCEPT !.pc = "apply", !.kind = "delete"])
  /\ UNCHANGED <<discord, rows, remote, boot, cut, faults, crashesLeft>>

Applies(e, kind) == worker[e].pc = "apply" /\ worker[e].kind = kind

(* EditRole has no name to set, EditChannel has.                            *)
Edited(e, o) ==
  [o EXCEPT !.look = IF e \in Roles THEN [worker[e].look EXCEPT !.name = o.look.name]
                                    ELSE worker[e].look]

(* applyCreateOrEdit decides by the Stoat id; the elevation role is not     *)
(* written to, and an object that is gone cannot be.                        *)
CreateEffect(e) ==
  /\ Applies(e, "put") /\ ~HasStoatEntity(rows[e])
  /\ stoat' = stoat \cup {Object(nextId, EntityType(e), worker[e].look)}
  /\ nextId' = nextId + 1

EditEffect(e) ==
  LET target == With(rows[e].id) IN
  /\ Applies(e, "put") /\ HasStoatEntity(rows[e]) /\ target # {} /\ rows[e].id # Elevation
  /\ stoat' = (stoat \ target) \cup {Edited(e, o) : o \in target}
  /\ UNCHANGED nextId

(* applyDelete makes no call unless the row is active.                      *)
DeleteEffect(e) ==
  /\ Applies(e, "delete") /\ Active(rows[e])
  /\ With(rows[e].id) # {} /\ rows[e].id # Elevation
  /\ stoat' = stoat \ With(rows[e].id)
  /\ UNCHANGED nextId

Create(e) ==
  /\ CreateEffect(e)
  /\ Step(e, [worker[e] EXCEPT !.pc = "confirm", !.id = nextId])
  /\ UNCHANGED <<discord, rows, boot, queue, cut, faults, crashesLeft>>

Edit(e) ==
  /\ EditEffect(e)
  /\ Step(e, [worker[e] EXCEPT !.pc = "confirm", !.id = rows[e].id])
  /\ UNCHANGED <<discord, rows, boot, queue, cut, faults, crashesLeft>>

DeleteObject(e) ==
  /\ DeleteEffect(e) \/ (Applies(e, "delete") /\ ~Active(rows[e]) /\ UNCHANGED remote)
  /\ Step(e, [worker[e] EXCEPT !.pc = "remove"])
  /\ UNCHANGED <<discord, rows, boot, queue, cut, faults, crashesLeft>>

(* The call fails, before or after it took effect; or it has to, because of *)
(* its target.                                                              *)
Hopeless(e) ==
  /\ \/ Applies(e, "put") /\ HasStoatEntity(rows[e])
     \/ Applies(e, "delete") /\ Active(rows[e])
  /\ With(rows[e].id) = {} \/ rows[e].id = Elevation

OpFails(e) ==
  /\ worker[e].pc = "apply"
  /\ \/ Hopeless(e) /\ UNCHANGED <<remote, faults>>
     \/ /\ ~Hopeless(e) /\ faults < MaxFaults /\ faults' = faults + 1
        /\ UNCHANGED remote \/ CreateEffect(e) \/ EditEffect(e) \/ DeleteEffect(e)
  /\ cut' = cut \cup {e}
  /\ Step(e, Idle)
  /\ UNCHANGED <<discord, rows, boot, queue, crashesLeft>>

Confirm(e) ==
  /\ worker[e].pc = "confirm"
  /\ rows' = [rows EXCEPT ![e] = ConfirmedRow(@, worker[e].id)]
  /\ cut' = cut \ {e}
  /\ Step(e, Idle)
  /\ UNCHANGED <<discord, remote, boot, queue, faults, crashesLeft>>

Remove(e) ==
  /\ worker[e].pc = "remove"
  /\ rows' = [rows EXCEPT ![e] = Absent]
  /\ Step(e, Idle)
  /\ UNCHANGED <<discord, remote, boot, queue, cut, faults, crashesLeft>>

-----------------------------------------------------------------------------
(* What a start does not make up for: a create that was cut short leaves a  *)
(* row that looks up to date (an admin role is created again), and an       *)
(* update that was cut short is lost, unless one object has its name.       *)
Namesakes(e) == {o \in stoat : o.type = EntityType(e) /\ o.look.name = want[e].name}

LeftUndone(e) ==
  /\ e \notin Privileged /\ e \in DOMAIN want /\ rows[e].status = "pending"
  /\ IF rows[e].id = NoId THEN rows[e].state # Empty ELSE \A o \in Namesakes(e) : Namesakes(e) # {o}

Crash ==
  /\ ~At("down") /\ crashesLeft > 0 /\ crashesLeft' = crashesLeft - 1
  /\ boot' = Down /\ queue' = NoOps /\ worker' = [e \in Entities |-> Idle]
  /\ cut' = {e \in Entities : LeftUndone(e)}
  /\ UNCHANGED <<discord, rows, remote, faults>>

Bind ==
  \/ FetchServer \/ FetchChannels \/ BeginMatch \/ BeginReap \/ BindRoles
  \/ \E e \in Entities : Claim(e) \/ ClearDead(e) \/ FindUnmapped(e) \/ Adopt(e) \/ SkipBind(e)
  \/ \E o \in boot.avail : Reap(o)

ReconcileLive == FetchLive \/ \E e \in Entities : VerifyLive(e) \/ SkipLive(e)

Startup ==
  \/ Start \/ Bind \/ ReconcileLive \/ ConvergeAll \/ StampPending \/ StampConfirm
  \/ \E r \in Privileged : KeepAdminRole(r) \/ CreateAdminRole(r)

Process(e) ==
  \/ Skip(e) \/ WritePending(e) \/ BeginDelete(e) \/ Create(e) \/ Edit(e)
  \/ DeleteObject(e) \/ OpFails(e) \/ Confirm(e) \/ Remove(e)

Next ==
  \/ Startup \/ Crash
  \/ \E e \in Entities : Process(e) \/ Change(e) \/ Vanish(e)

Spec == Init /\ [][Next]_vars
-----------------------------------------------------------------------------
TypeOK ==
  /\ DOMAIN want \subseteq Entities \ gone /\ \A e \in DOMAIN want : want[e] \in MayShow[e]
  /\ rows \in [Entities -> RowType]
  /\ \A o \in stoat : o.id \in 1..(nextId - 1) /\ o.type \in {"role", "channel"} /\ o.look \in Look
  /\ \A o \in boot.avail : \E s \in boot.server : s.id = o.id
  /\ boot.todo \subseteq DOMAIN boot.list
  /\ At("claim") \/ boot.unmapped = {}
  /\ \A e \in Entities : worker[e].pc \in {"idle", "apply", "confirm", "remove"}

Settled == At("up") /\ queue = NoOps /\ \A e \in Entities : worker[e] = Idle

Mirrored(e) == Active(rows[e]) /\ \E o \in With(rows[e].id) : o.look = want[e]

(* Once startup is over and all ops are done, every entity of Discord is    *)
(* mapped to an object that looks like it, whatever the tables and Stoat    *)
(* were like at first and wherever the program crashed; except where a      *)
(* crash left something undone (LeftUndone), or a call for it failed since. *)
StartConverges == Settled => \A e \in DOMAIN want \ cut : Mirrored(e)

(* And if no call failed, nothing else is left on Stoat but the bot's role, *)
(* whatever orphans earlier lives of the program left behind.               *)
NothingForeign ==
  Settled /\ faults = 0 =>
    \A o \in stoat : o.id = Elevation \/ \E e \in DOMAIN want : rows[e].id = o.id

(* Bind deletes no object that a row of an existing entity names, be it     *)
(* pending after a crash; if no call failed.                                *)
ReapsOnlyForeign ==
  [][At("reap") /\ boot'.avail # boot.avail /\ faults = 0 =>
       \A e \in DOMAIN boot.list, o \in stoat \ stoat' : rows[e].id # o.id]_vars

(* With DryRun set, nothing is created, changed or deleted on Stoat: what   *)
(* main announces of a dry run.                                             *)
DryRunSparesStoat == [][DryRun => UNCHANGED stoat]_vars

(* No two entities are mapped to one object, however names coincide.        *)
MappedOnce ==
  \A e, f \in DOMAIN want :
    e # f /\ Active(rows[e]) /\ Active(rows[f]) => rows[e].id # rows[f].id

-----------------------------------------------------------------------------
(* Where names are as good as owners.  They tell entities apart, ...        *)
NamesOf(e) == {look.name : look \in MayShow[e]}
NamesApart == \A e, f \in Entities : e # f => NamesOf(e) \cap NamesOf(f) = {}

(* ... and stay what they are ...                                           *)
OneName == \A e \in Entities : \A k, l \in MayShow[e] : k.name = l.name

(* ... and Stoat's objects are called like the entities whose rows name     *)
(* them, in the tables that the program finds first.                        *)
WellNamed(w) ==
  \A e \in Entities, o \in w.stoat : o.id = w.rows[e].id => o.look.name \in NamesOf(e)

(* Tables that no crash has left a row pending in; and tables without a row *)
(* that has an id and is pending, found in a life that does not crash.      *)
Whole(w)   == \A e \in Entities : Found(w.rows[e]) => Active(w.rows[e])
Orderly(w) == w.crashes = 0 /\ \A e \in Entities : w.rows[e].id # NoId => Active(w.rows[e])
=============================================================================
