------------------------------- MODULE Access -------------------------------
(***************************************************************************)
(* Who may see what on Stoat, from startup to shutdown (cmd/stoatcord,     *)
(* internal/discord/gateway.go, internal/stoat): main finds the role that  *)
(* gives the bot its power, mirrors the administrators' roles and wears    *)
(* one, and from then on every write to a channel grants these roles the   *)
(* bot's own permissions before it sets what Discord says.  Each request   *)
(* to Stoat that changes it is a step, which Stoat refuses once the bot    *)
(* cannot see the channel.  Engine has the rest of the engine.  Of Bind    *)
(* and ReconcileLive, what they write to the tables for the channels or    *)
(* for the roles is one step here; Reconcile has those row by row.         *)
(***************************************************************************)
EXTENDS MappingStore, Sequences, FiniteSets, FiniteSetsExt, Functions

CONSTANTS
  Everyone,                  \* the role whose id is the guild's
  Privileged,                \* roles that carry ADMINISTRATOR
  Perms, View,               \* permissions; that of seeing a channel
  Reachable,                 \* those that Stoat has, too
  BotPerms,                  \* those of the bot's role on Stoat
  MayGive,                   \* by role, the overwrites Discord may have for it
  Positions, MayDelete,      \* positions of a role; roles that may be deleted
  Name,                      \* of a role or a channel (with its kind), on Discord
  NewRank,                   \* Stoat's rank for a role that was just created
  Empty,                     \* the canonical state "{}"
  Worlds,                    \* Discord, rows and Stoat as a start may find them
  Early,                     \* whether events come before startup is over
  MaxEvents, MaxFaults       \* bounds on events, and on requests that fail

Overwrite == [allow : SUBSET Perms, deny : SUBSET Perms]

ASSUME AccessAssumption ==
  /\ Everyone \in Roles /\ Privileged \subseteq Roles \ {Everyone}
  /\ IsFiniteSet(Channels) /\ Messages = {}
  /\ View \in Reachable \cap BotPerms /\ Reachable \cup BotPerms \subseteq Perms
  /\ MayGive \in [Roles -> SUBSET Overwrite] /\ MayDelete \subseteq Roles \ {Everyone}
  /\ Positions \subseteq Nat /\ NewRank \in Nat \ {0} /\ Early \in BOOLEAN

(* PermissionsFromBits and StoatBits drop what has no equivalent.           *)
ToStoat(ow) == [allow |-> ow.allow \cap Reachable, deny |-> ow.deny \cap Reachable]

(* What Discord may say of a channel, and what a start may find.            *)
ChannelStates ==
  {s \in UNION {[rs -> Overwrite] : rs \in SUBSET Roles} : \A r \in DOMAIN s : s[r] \in MayGive[r]}

ASSUME EmptyAssumption == Empty \notin ChannelStates

Partial(f, S, T) == DOMAIN f \subseteq S /\ f \in [DOMAIN f -> T]

IsRow(row) ==
  /\ row = [status |-> row.status, id |-> row.id, state |-> row.state, channel |-> row.channel]
  /\ row.id \in Nat

Ids(w) == DOMAIN w.ranks \cup DOMAIN w.over \cup {w.rows[e].id : e \in Roles \cup Channels}

ASSUME WorldsAssumption ==
  \A w \in Worlds :
    /\ Partial(w.position, Roles, Nat) /\ Partial(w.guild, Channels, ChannelStates)
    /\ DOMAIN w.rows = Roles \cup Channels /\ \A e \in DOMAIN w.rows : IsRow(w.rows[e])
    /\ \A r \in Roles : Active(w.rows[r]) => w.rows[r].id # NoId
    /\ Partial(w.ranks, Nat \ {0}, Nat) /\ w.worn \subseteq Nat /\ DOMAIN w.over \subseteq Nat \ {0}
    /\ DOMAIN w.names = DOMAIN w.ranks \cup DOMAIN w.over
    /\ \A c \in DOMAIN w.over :
         NoId \in DOMAIN w.over[c] => \E ow \in MayGive[Everyone] : w.over[c][NoId] = ToStoat(ow)
    /\ \E last \in Ids(w) : \A id \in Ids(w) : id <= last

VARIABLES
  position, guild, gone, events,  \* Discord: roles; overwrites, by channel; deleted roles
  rows,                           \* the mapping tables
  ranks, worn, over,              \* Stoat: roles; the bot's; overrides, by channel;
  names, nextId,                  \* the names of what was ever created; next id
  elevation, adminRoles,          \* what the client caches
  boot, signalled,                \* the main goroutine
  queue, worker, waiters,         \* the engine; ops set aside, by role and channel,
  woken,                          \* and those a role's worker is putting back
  faults

discord == <<position, guild, gone, events>>
remote  == <<ranks, worn, over, names, nextId>>
client  == <<elevation, adminRoles>>
main    == <<boot, signalled>>
engine  == <<queue, worker, waiters, woken>>
avars   == <<discord, rows, remote, client, main, engine, faults>>

Entity == Roles \cup Channels

Down == [pc |-> "down", todo |-> {}, position |-> <<>>, guild |-> <<>>, role |-> Null, id |-> NoId,
         roles |-> {}, channels |-> {}, seen |-> {}]
Idle == [pc |-> "idle", kind |-> "none", state |-> Null, todo |-> {}, sets |-> {}, id |-> NoId]

NoOps  == [e \in Entity |-> <<>>]
NoWork == [e \in Entity |-> Idle]
NobodyWaits == [e \in Entity |-> NoOps]

(* f with v at i.                                                           *)
With(f, i, v) == [x \in DOMAIN f \cup {i} |-> IF x = i THEN v ELSE f[x]]

AInit ==
  /\ \E w \in Worlds :
       /\ position = w.position /\ guild = w.guild /\ rows = w.rows
       /\ ranks = w.ranks /\ worn = w.worn /\ over = w.over
       /\ names = w.names /\ nextId = 1 + Max(Ids(w))
  /\ gone = {} /\ events = 0 /\ elevation = NoId /\ adminRoles = {}
  /\ boot = Down /\ signalled = FALSE
  /\ queue = NoOps /\ worker = NoWork /\ waiters = NobodyWaits /\ woken = NobodyWaits
  /\ faults = 0

-----------------------------------------------------------------------------
(* Mutant: the position is taken as it is.                                  *)
RankUnclamped(at) == at

(* Rank 0 is the bot's own.                                                 *)
Rank(at) == IF at < 1 THEN 1 ELSE at

Shape(state) == [r \in DOMAIN state |-> ToStoat(state[r])]

(* Diff of a channel is by what Stoat would be told, that of a role by all  *)
(* of its fields.                                                           *)
Same(e, stored, state) ==
  /\ stored # Empty
  /\ IF e \in Channels THEN Shape(stored) = Shape(state) ELSE stored = state

(* An empty role id means the default override to SetChannelPermissions.    *)
Default == NoId

(* Stoat: the default override, then those of the bot's roles from junior   *)
(* to senior, each over what the bot's role gives it on the server.         *)
Decides(ow) == View \in ow.allow \cup ow.deny

CanView(c) ==
  LET own    == {t \in worn \cap DOMAIN over[c] : Decides(over[c][t])}
      senior == {t \in own : \A u \in own : ranks[t] <= ranks[u]}
  IN IF own # {} THEN \A t \in senior : View \notin over[c][t].deny
     ELSE Default \in DOMAIN over[c] => View \notin over[c][Default].deny

(* There is such a channel, and the bot sees it.                            *)
InSight(c) == c \in DOMAIN over /\ CanView(c)

-----------------------------------------------------------------------------
(* main.  An error ends the program.                                        *)
At(label) == boot.pc = label
GoTo(label) == boot' = [boot EXCEPT !.pc = label] /\ UNCHANGED engine

(* The end of the process is the end of its goroutines.                     *)
Exits ==
  /\ boot' = [Down EXCEPT !.pc = "ended"]
  /\ queue' = NoOps /\ worker' = NoWork /\ waiters' = NobodyWaits /\ woken' = NobodyWaits

Connect ==
  /\ At("down") /\ GoTo("connected")
  /\ UNCHANGED <<discord, rows, remote, client, signalled, faults>>

(* A wait for Discord or Stoat times out, or a request or a write fails.    *)
StartupFails ==
  /\ boot.pc \notin {"down", "elevated", "converge", "up", "ended"} /\ Exits
  /\ UNCHANGED <<discord, rows, remote, client, signalled, faults>>

(* The one role of rank 0, which the bot wears ...                          *)
Elevates(r) == ranks[r] = 0 /\ r \in worn /\ \A s \in DOMAIN ranks \ {r} : ranks[s] # 0

ResolveElevationRole ==
  /\ At("connected")
  /\ \E r \in DOMAIN ranks : Elevates(r) /\ elevation' = r
  /\ GoTo("elevated")
  /\ UNCHANGED <<discord, rows, remote, adminRoles, signalled, faults>>

RefuseToStart ==
  /\ At("connected") /\ ~\E r \in DOMAIN ranks : Elevates(r)
  /\ Exits
  /\ UNCHANGED <<discord, rows, remote, client, signalled, faults>>

(* ... then StructureFromState, which must have an administrator's role.    *)
ReadStructure ==
  /\ At("elevated")
  /\ IF Privileged \cap DOMAIN position = {}
     THEN Exits
     ELSE /\ boot' = [boot EXCEPT !.pc = "admin", !.todo = Privileged \cap DOMAIN position,
                                  !.position = position, !.guild = guild]
          /\ UNCHANGED engine
  /\ UNCHANGED <<discord, rows, remote, client, signalled, faults>>

Mapped(r) == Active(rows[r]) /\ rows[r].id # NoId

(* resolveAdminRoles: one that is not mapped is created on Stoat, with a    *)
(* name only ...                                                            *)
SkipAdminRole(r) ==
  /\ At("admin") /\ r \in boot.todo /\ Mapped(r)
  /\ boot' = [boot EXCEPT !.todo = @ \ {r}]
  /\ UNCHANGED <<discord, rows, remote, client, signalled, engine, faults>>

(* Stoat creates a role or a channel.                                       *)
NewRole    == ranks' = With(ranks, nextId, NewRank) /\ UNCHANGED <<worn, over>>
NewChannel == over' = With(over, nextId, <<>>) /\ UNCHANGED <<ranks, worn>>
Named(e)   == names' = With(names, nextId, Name[e]) /\ nextId' = nextId + 1

CreateAdminRole(r) ==
  /\ At("admin") /\ r \in boot.todo /\ ~Mapped(r)
  /\ NewRole /\ Named(r)
  /\ boot' = [boot EXCEPT !.pc = "rank", !.role = r, !.id = nextId]
  /\ UNCHANGED <<discord, rows, client, signalled, engine, faults>>

(* The bot's role is not written to; one that is gone cannot be.            *)
Writable(id) == id # elevation /\ id \in DOMAIN ranks

(* ... is given its rank ...                                                *)
RankAdminRole ==
  /\ At("rank") /\ Writable(boot.id) /\ GoTo("permit")
  /\ ranks' = [ranks EXCEPT ![boot.id] = Rank(boot.position[boot.role])]
  /\ UNCHANGED <<discord, rows, worn, over, names, nextId, client, signalled, faults>>

(* ... and its permissions, of which nothing is said here, and is entered   *)
(* into the table, first as pending.                                        *)
EnterAdminRole ==
  /\ At("permit") /\ boot.id \in DOMAIN ranks /\ GoTo("confirm")
  /\ rows' = [rows EXCEPT ![boot.role] = PendingStructureRow(@, boot.position[boot.role])]
  /\ UNCHANGED <<discord, remote, client, signalled, faults>>

ConfirmAdminRole ==
  /\ At("confirm")
  /\ rows' = [rows EXCEPT ![boot.role] = ConfirmedRow(@, boot.id)]
  /\ boot' = [boot EXCEPT !.pc = "admin", !.todo = @ \ {boot.role}, !.role = Null, !.id = NoId]
  /\ UNCHANGED <<discord, remote, client, signalled, engine, faults>>

AdminRoles == Privileged \cap DOMAIN boot.position
FirstAdmin == CHOOSE r \in AdminRoles : \A s \in AdminRoles : boot.position[r] <= boot.position[s]
AdminIds   == {rows[r].id : r \in AdminRoles}

(* Refused if there is no such role.                                        *)
AddSelfToRole(id) == id \in DOMAIN ranks /\ worn' = worn \cup {id}

(* The bot wears one of them, of the lowest position unless it has one; a   *)
(* mapping that is dead cannot be worn.                                     *)
WearAdminRole ==
  /\ At("admin") /\ boot.todo = {}
  /\ \/ /\ AdminIds \cap worn # {} /\ UNCHANGED worn
        /\ GoTo("bind") /\ adminRoles' = AdminIds
     \/ /\ AdminIds \cap worn = {} /\ AddSelfToRole(rows[FirstAdmin].id)
        /\ GoTo("bind") /\ adminRoles' = AdminIds
     \/ /\ AdminIds \cap worn = {} /\ rows[FirstAdmin].id \notin DOMAIN ranks
        /\ Exits /\ UNCHANGED <<worn, adminRoles>>
  /\ UNCHANGED <<discord, rows, ranks, over, names, nextId, elevation, signalled, faults>>

(* Bind reads the server, and then each channel that it may see, unless the *)
(* request fails.                                                           *)
ReadServer ==
  /\ At("bind")
  /\ \E seen \in SUBSET {c \in DOMAIN over : InSight(c)} :
       boot' = [boot EXCEPT !.pc = "channels", !.roles = DOMAIN ranks,
                            !.channels = DOMAIN over, !.seen = seen]
  /\ UNCHANGED <<discord, rows, remote, client, signalled, engine, faults>>

(* bindEntities: of the entities es, those whose object is listed hold it;  *)
(* the rest have none.                                                      *)
Held(es, listed) == {e \in es : Active(rows[e]) /\ rows[e].id \in listed}

(* Of the objects fetched that nobody holds, one whose name no other has    *)
(* goes to an entity of that name that has none; ...                        *)
Free(es, listed, fetched) == fetched \ {rows[e].id : e \in Held(es, listed)}

Wanted(es, listed, fetched) ==
  LET free == Free(es, listed, fetched)
  IN {id \in free : /\ \A other \in free \ {id} : names[other] # names[id]
                    /\ \E e \in es \ Held(es, listed) : Name[e] = names[id]}

Bound(row, dead, ids) ==
  LET cleared == IF dead /\ Active(row) THEN Absent ELSE row
  IN IF ids = {} THEN cleared
     ELSE ConfirmedRow(PendingStructureRow(cleared, Empty), CHOOSE id \in ids : TRUE)

(* ... what is left over, and not spared, is to be deleted.                 *)
BindEntities(es, listed, fetched, spared, next) ==
  LET dead   == es \ Held(es, listed)
      wanted == Wanted(es, listed, fetched)
  IN \E to \in [wanted -> dead] :
       /\ \A id \in wanted : Name[to[id]] = names[id]
       /\ rows' = [e \in Entity |-> Bound(rows[e], e \in dead, {id \in wanted : to[id] = e})]
       /\ boot' = [boot EXCEPT !.pc = next,
                      !.todo = Free(es, listed, fetched) \ (wanted \cup spared)]

BindChannels ==
  /\ At("channels")
  /\ BindEntities(DOMAIN boot.guild, boot.channels, boot.seen, {}, "reapchannels")
  /\ UNCHANGED <<discord, remote, client, signalled, engine, faults>>

(* Deleting fails at times, and is not tried in a dry run.                  *)
ReapChannel(id) ==
  /\ At("reapchannels") /\ id \in boot.todo
  /\ boot' = [boot EXCEPT !.todo = @ \ {id}]
  /\ over' \in {over, Restrict(over, DOMAIN over \ {id})}
  /\ UNCHANGED <<discord, rows, ranks, worn, names, nextId, client, signalled, engine, faults>>

(* verifyElevationRoleUnmapped, and then the roles.                         *)
BindRoles ==
  /\ At("reapchannels") /\ boot.todo = {}
  /\ IF \E r \in DOMAIN boot.position : Active(rows[r]) /\ rows[r].id = elevation
     THEN Exits /\ UNCHANGED rows
     ELSE /\ BindEntities(DOMAIN boot.position, boot.roles, boot.roles, {elevation}, "reaproles")
          /\ UNCHANGED engine
  /\ UNCHANGED <<discord, remote, client, signalled, faults>>

(* Stoat takes a role that is deleted from its members and channels.        *)
StoatDeletes(id) ==
  /\ ranks' = Restrict(ranks, DOMAIN ranks \ {id}) /\ worn' = worn \ {id}
  /\ over' = [c \in DOMAIN over |-> Restrict(over[c], DOMAIN over[c] \ {id})]

ReapRole(id) ==
  /\ At("reaproles") /\ id \in boot.todo
  /\ boot' = [boot EXCEPT !.todo = @ \ {id}]
  /\ (Writable(id) /\ StoatDeletes(id)) \/ UNCHANGED <<ranks, worn, over>>
  /\ UNCHANGED <<discord, rows, names, nextId, client, signalled, engine, faults>>

(* reconcileChannelLive's comparison: overrides of roles that are mapped,   *)
(* the admin roles among them, by Discord's ids.                            *)
LiveShape(c) ==
  LET live  == over[rows[c].id]
      Id(r) == IF r = Everyone THEN Default ELSE rows[r].id
      shown == {r \in DOMAIN boot.position : (r = Everyone \/ Active(rows[r])) /\ Id(r) \in DOMAIN live}
  IN [r \in shown |-> live[Id(r)]]

Matches(e) ==
  IF e \in Channels THEN LiveShape(e) = Shape(boot.guild[e])
                    ELSE ranks[rows[e].id] = boot.position[e]

Verified(e) ==
  [rows[e] EXCEPT !.state =
     IF Matches(e) THEN (IF e \in Channels THEN boot.guild[e] ELSE boot.position[e]) ELSE Empty]

(* A row that is active and whose object is there, and can be fetched.      *)
Fetchable(e) ==
  Active(rows[e]) /\ IF e \in Channels THEN InSight(rows[e].id) ELSE rows[e].id \in DOMAIN ranks

(* It marks the rows that differ, and leaves what it cannot fetch as it is. *)
ReconcileLive ==
  /\ At("reaproles") /\ boot.todo = {} /\ GoTo("converge")
  /\ \E failed \in SUBSET {c \in DOMAIN boot.guild : Fetchable(c)} :
       /\ faults' = faults + Cardinality(failed) /\ faults' <= MaxFaults
       /\ rows' = [e \in Entity |->
            IF e \in (DOMAIN boot.position \cup DOMAIN boot.guild) \ failed /\ Fetchable(e)
            THEN Verified(e) ELSE rows[e]]
  /\ UNCHANGED <<discord, remote, client, signalled>>

Put(state) == [kind |-> "put", state |-> state]
Delete     == [kind |-> "delete", state |-> Null]

ConvergeAll ==
  /\ At("converge") /\ boot' = [Down EXCEPT !.pc = "up"]
  /\ queue' = [e \in Entity |->
                 IF e \in DOMAIN position THEN Append(queue[e], Put(position[e]))
                 ELSE IF e \in DOMAIN guild THEN Append(queue[e], Put(guild[e])) ELSE queue[e]]
  /\ UNCHANGED <<discord, rows, remote, client, signalled, worker, waiters, woken, faults>>

(* SIGTERM ends a startup by the context of its calls ...                   *)
Signal ==
  /\ ~At("down") /\ ~At("ended") /\ ~signalled /\ signalled' = TRUE
  /\ UNCHANGED <<discord, rows, remote, client, boot, engine, faults>>

Interrupted ==
  /\ signalled /\ boot.pc \notin {"down", "up", "ended"} /\ Exits
  /\ UNCHANGED <<discord, rows, remote, client, signalled, faults>>

Taken(e) ==
  /\ queue[e] = <<>> /\ worker[e].pc # "defer"
  /\ \A r \in Roles : waiters[r][e] = <<>> /\ woken[r][e] = <<>>

Still(e) == Taken(e) /\ worker[e] = Idle

(* ... and afterwards makes main wait for the ops ...                       *)
Drained ==
  /\ At("up") /\ signalled /\ (\A e \in Entity : Still(e)) /\ Exits
  /\ UNCHANGED <<discord, rows, remote, client, signalled, faults>>

(* Mutant: the drain has no timeout.                                        *)
GiveUpNever == Drained

(* ... but not for ever: drainEngine has a timeout.                         *)
GiveUp ==
  /\ At("up") /\ signalled /\ (\E e \in Entity : ~Still(e)) /\ Exits
  /\ UNCHANGED <<discord, rows, remote, client, signalled, faults>>

Main ==
  \/ Connect \/ StartupFails \/ ResolveElevationRole \/ RefuseToStart \/ ReadStructure
  \/ \E r \in Privileged : SkipAdminRole(r) \/ CreateAdminRole(r)
  \/ RankAdminRole \/ EnterAdminRole \/ ConfirmAdminRole \/ WearAdminRole
  \/ ReadServer \/ BindChannels \/ BindRoles \/ (\E id \in boot.todo : ReapChannel(id) \/ ReapRole(id))
  \/ ReconcileLive \/ ConvergeAll \/ Interrupted \/ Drained \/ GiveUp

-----------------------------------------------------------------------------
(* Discord.  No op of an entity waits when the next comes, so that none can  *)
(* be deferred to after it (Engine has that).                               *)
MayHappen == events < MaxEvents /\ (At("up") \/ (Early /\ ~At("down") /\ ~At("ended")))

Submit(e, op) == queue' = [queue EXCEPT ![e] = Append(@, op)]

ChangeChannel(c) ==
  /\ MayHappen /\ Taken(c)
  /\ \E r \in DOMAIN position :
       \/ \E ow \in MayGive[r] : guild' = [guild EXCEPT ![c] = With(@, r, ow)]
       \/ r \in DOMAIN guild[c] /\ guild' = [guild EXCEPT ![c] = Restrict(@, DOMAIN @ \ {r})]
  /\ guild' # guild /\ Submit(c, Put(guild'[c])) /\ events' = events + 1
  /\ UNCHANGED <<position, gone, rows, remote, client, main, worker, waiters, woken, faults>>

ChangeRole(r) ==
  /\ MayHappen /\ Taken(r) /\ r \notin gone
  /\ \E at \in Positions :
       /\ r \in DOMAIN position => position[r] # at
       /\ position' = With(position, r, at) /\ Submit(r, Put(at))
  /\ events' = events + 1
  /\ UNCHANGED <<guild, gone, rows, remote, client, main, worker, waiters, woken, faults>>

(* Its overwrites go with it.                                               *)
DeleteRole(r) ==
  LET with == {c \in DOMAIN guild : r \in DOMAIN guild[c]} IN
  /\ MayHappen /\ r \in MayDelete \cap DOMAIN position /\ \A e \in with \cup {r} : Taken(e)
  /\ position' = Restrict(position, DOMAIN position \ {r}) /\ gone' = gone \cup {r}
  /\ guild' = [c \in DOMAIN guild |-> Restrict(guild[c], DOMAIN guild[c] \ {r})]
  /\ queue' = [e \in Entity |-> IF e = r THEN Append(queue[e], Delete)
                                ELSE IF e \in with THEN Append(queue[e], Put(guild'[e])) ELSE queue[e]]
  /\ events' = events + 1
  /\ UNCHANGED <<rows, remote, client, main, worker, waiters, woken, faults>>

-----------------------------------------------------------------------------
(* The engine.  Mutant: a dependency is met once it has a row.              *)
UnmetIfAbsent(op) == {r \in DOMAIN op.state : ~Found(rows[r])}

(* A channel depends on the roles of its overwrites.                        *)
Unmet(op) == {r \in DOMAIN op.state : ~Active(rows[r])}

Ready(e) == worker[e] = Idle /\ queue[e] # <<>>

Step(e, w) == worker' = [worker EXCEPT ![e] = w]
Took(e)    == queue' = [queue EXCEPT ![e] = Tail(@)]

(* firstUnmetDependency finds a role that is not mapped ...                 *)
MissRole(c) ==
  LET op == Head(queue[c]) IN
  /\ Ready(c) /\ op.kind = "put" /\ Took(c)
  /\ \E r \in Unmet(op) : Step(c, [Idle EXCEPT !.pc = "defer", !.state = op.state, !.todo = {r}])
  /\ UNCHANGED <<discord, rows, remote, client, main, waiters, woken, faults>>

(* ... and deferOp adds the op to those that wait for it, even if it has    *)
(* come meanwhile.                                                          *)
Defer(c) ==
  /\ worker[c].pc = "defer"
  /\ \E r \in worker[c].todo :
       waiters' = [waiters EXCEPT ![r][c] = Append(@, Put(worker[c].state))]
  /\ Step(c, Idle)
  /\ UNCHANGED <<discord, rows, remote, client, main, queue, woken, faults>>

Skip(e) ==
  LET op == Head(queue[e]) IN
  /\ Ready(e) /\ op.kind = "put" /\ Took(e)
  /\ e \in Channels => Unmet(op) = {}
  /\ Found(rows[e]) /\ Same(e, rows[e].state, op.state)
  /\ UNCHANGED <<discord, rows, remote, client, main, worker, waiters, woken, faults>>

WritePending(e) ==
  LET op == Head(queue[e]) IN
  /\ Ready(e) /\ op.kind = "put" /\ Took(e)
  /\ e \in Channels => Unmet(op) = {}
  /\ ~(Found(rows[e]) /\ Same(e, rows[e].state, op.state))
  /\ rows' = [rows EXCEPT ![e] = PendingStructureRow(@, op.state)]
  /\ Step(e, [Idle EXCEPT !.pc = "apply", !.kind = "put", !.state = op.state,
                          !.todo = IF e \in Channels THEN DOMAIN op.state ELSE {}])
  /\ UNCHANGED <<discord, remote, client, main, waiters, woken, faults>>

BeginDelete(r) ==
  /\ Ready(r) /\ Head(queue[r]).kind = "delete" /\ Took(r)
  /\ Step(r, [Idle EXCEPT !.pc = "apply", !.kind = "delete"])
  /\ UNCHANGED <<discord, rows, remote, client, main, waiters, woken, faults>>

Applies(e, kind) == worker[e].pc = "apply" /\ worker[e].kind = kind

(* A role, which is created with a name only ...                            *)
CreateRole(r) ==
  /\ Applies(r, "put") /\ ~HasStoatEntity(rows[r])
  /\ NewRole /\ Named(r)
  /\ Step(r, [worker[r] EXCEPT !.pc = "rank", !.id = nextId])
  /\ UNCHANGED <<discord, rows, client, main, queue, waiters, woken, faults>>

(* ... and then edited as one that is mapped is.                            *)
Edits(r, id) ==
  \/ Applies(r, "put") /\ HasStoatEntity(rows[r]) /\ id = rows[r].id
  \/ worker[r].pc = "rank" /\ id = worker[r].id

EditRole(r) ==
  /\ \E id \in DOMAIN ranks :
       /\ Edits(r, id) /\ Writable(id)
       /\ ranks' = [ranks EXCEPT ![id] = Rank(worker[r].state)]
       /\ Step(r, [worker[r] EXCEPT !.pc = "permit", !.id = id])
  /\ UNCHANGED <<discord, rows, worn, over, names, nextId, client, main, queue, waiters, woken, faults>>

DeleteStoatRole(r) ==
  /\ Applies(r, "delete")
  /\ IF Active(rows[r]) THEN Writable(rows[r].id) /\ StoatDeletes(rows[r].id)
                        ELSE UNCHANGED <<ranks, worn, over>>
  /\ Step(r, [worker[r] EXCEPT !.pc = "remove"])
  /\ UNCHANGED <<discord, rows, names, nextId, client, main, queue, waiters, woken, faults>>

Remove(r) ==
  /\ worker[r].pc = "remove"
  /\ rows' = [rows EXCEPT ![r] = Absent] /\ Step(r, Idle)
  /\ UNCHANGED <<discord, remote, client, main, queue, waiters, woken, faults>>

(* A channel.  Mutant: a role whose update is under way is passed over.     *)
ResolvedIfActive(r) ==
  IF r = Everyone THEN {Default} ELSE IF Active(rows[r]) THEN {rows[r].id} ELSE {}

(* resolveOverwriteRoleIDs, for one role: a role without a row is left out. *)
Resolved(r) ==
  IF r = Everyone THEN {Default} ELSE IF Found(rows[r]) THEN {rows[r].id} ELSE {}

ResolveRole(c, r) ==
  /\ Applies(c, "put") /\ r \in worker[c].todo
  /\ Step(c, [worker[c] EXCEPT !.todo = @ \ {r},
                !.sets = @ \cup {[target |-> t, ow |-> ToStoat(worker[c].state[r])] : t \in Resolved(r)}])
  /\ UNCHANGED <<discord, rows, remote, client, main, queue, waiters, woken, faults>>

Granting(c, id) == Step(c, [worker[c] EXCEPT !.pc = "grant", !.todo = adminRoles, !.id = id])

CreateChannel(c) ==
  /\ Applies(c, "put") /\ worker[c].todo = {} /\ ~HasStoatEntity(rows[c])
  /\ NewChannel /\ Named(c)
  /\ Granting(c, nextId)
  /\ UNCHANGED <<discord, rows, client, main, queue, waiters, woken, faults>>

EditChannel(c) ==
  /\ Applies(c, "put") /\ worker[c].todo = {} /\ HasStoatEntity(rows[c])
  /\ InSight(rows[c].id) /\ Granting(c, rows[c].id)
  /\ UNCHANGED <<discord, rows, remote, client, main, queue, waiters, woken, faults>>

(* SetChannelPermissions: the role must be there, unless it is the default. *)
Accepted(c, target) == InSight(worker[c].id) /\ target \in DOMAIN ranks \cup {Default}

SetPermissions(c, target, ow) ==
  over' = [over EXCEPT ![worker[c].id] = With(@, target, ow)]

Grant(c) ==
  /\ worker[c].pc = "grant"
  /\ \E t \in worker[c].todo :
       /\ Accepted(c, t) /\ SetPermissions(c, t, [allow |-> BotPerms, deny |-> {}])
       /\ Step(c, [worker[c] EXCEPT !.todo = @ \ {t}])
  /\ UNCHANGED <<discord, rows, ranks, worn, names, nextId, client, main, queue, waiters, woken, faults>>

(* Mutant: what Discord says goes first.                                    *)
GrantedLast(c) == TRUE

Granted(c) == worker[c].todo = {}

(* A map, in any order.                                                     *)
SetOverwrite(c) ==
  /\ worker[c].pc = "grant" /\ Granted(c)
  /\ \E s \in worker[c].sets :
       /\ Accepted(c, s.target) /\ SetPermissions(c, s.target, s.ow)
       /\ Step(c, [worker[c] EXCEPT !.sets = @ \ {s}])
  /\ UNCHANGED <<discord, rows, ranks, worn, names, nextId, client, main, queue, waiters, woken, faults>>

(* A request is refused because of its target or the bot's standing, or     *)
(* fails; the row stays as it is, and so does a role that was just created. *)
Refused(e) ==
  \/ /\ e \in Roles
     /\ \/ \E id \in {rows[e].id, worker[e].id} : Edits(e, id) /\ ~Writable(id)
        \/ worker[e].pc = "permit" /\ worker[e].id \notin DOMAIN ranks
        \/ Applies(e, "delete") /\ Active(rows[e]) /\ ~Writable(rows[e].id)
  \/ /\ Applies(e, "put") /\ e \in Channels /\ worker[e].todo = {}
     /\ HasStoatEntity(rows[e]) /\ ~InSight(rows[e].id)
  \/ /\ worker[e].pc = "grant"
     /\ \/ \E t \in worker[e].todo : ~Accepted(e, t)
        \/ Granted(e) /\ \E s \in worker[e].sets : ~Accepted(e, s.target)

OpFails(e) ==
  /\ \/ Refused(e) /\ UNCHANGED faults
     \/ worker[e].pc \in {"apply", "rank", "permit", "grant"} /\ faults < MaxFaults /\ faults' = faults + 1
  /\ Step(e, Idle)
  /\ UNCHANGED <<discord, rows, remote, client, main, queue, waiters, woken>>

(* The last request sets a role's permissions, of which nothing is said     *)
(* here, or the last of a channel's overwrites.                             *)
Done(e) ==
  \/ worker[e].pc = "permit" /\ worker[e].id \in DOMAIN ranks
  \/ worker[e].pc = "grant" /\ worker[e].todo = {} /\ worker[e].sets = {}

(* Nothing here waits for a channel; ...                                    *)
Confirm(e) ==
  /\ Done(e)
  /\ rows' = [rows EXCEPT ![e] = ConfirmedRow(@, worker[e].id)]
  /\ Step(e, IF e \in Roles THEN [Idle EXCEPT !.pc = "notify"] ELSE Idle)
  /\ UNCHANGED <<discord, remote, client, main, queue, waiters, woken, faults>>

(* ... but notifyWaiters takes what waits for a role, ...                   *)
TakeWaiters(r) ==
  /\ worker[r].pc = "notify"
  /\ woken' = [woken EXCEPT ![r] = waiters[r]] /\ waiters' = [waiters EXCEPT ![r] = NoOps]
  /\ Step(r, IF waiters[r] = NoOps THEN Idle ELSE [Idle EXCEPT !.pc = "push"])
  /\ UNCHANGED <<discord, rows, remote, client, main, queue, faults>>

(* ... and puts one after the other back into its channel's queue.          *)
PushWaiter(r, c) ==
  /\ worker[r].pc = "push" /\ woken[r][c] # <<>>
  /\ queue' = [queue EXCEPT ![c] = Append(@, Head(woken[r][c]))]
  /\ woken' = [woken EXCEPT ![r][c] = Tail(@)]
  /\ Step(r, IF woken'[r] = NoOps THEN Idle ELSE worker[r])
  /\ UNCHANGED <<discord, rows, remote, client, main, waiters, faults>>

Work(e) ==
  \/ Skip(e) \/ WritePending(e) \/ Confirm(e)
  \/ /\ e \in Roles
     /\ \/ BeginDelete(e) \/ CreateRole(e) \/ EditRole(e)
        \/ DeleteStoatRole(e) \/ Remove(e) \/ TakeWaiters(e)
        \/ \E c \in Channels : PushWaiter(e, c)
  \/ /\ e \in Channels
     /\ \/ MissRole(e) \/ Defer(e) \/ CreateChannel(e) \/ EditChannel(e) \/ Grant(e) \/ SetOverwrite(e)
        \/ \E r \in Roles : ResolveRole(e, r)

Happens ==
  \/ Signal
  \/ \E c \in DOMAIN guild : ChangeChannel(c)
  \/ \E r \in Roles : ChangeRole(r) \/ DeleteRole(r)

ANext == Main \/ Happens \/ \E e \in Entity : Work(e) \/ OpFails(e)
-----------------------------------------------------------------------------
RoleOps    == {Delete} \cup [kind : {"put"}, state : Nat]
ChannelOps == [kind : {"put"}, state : ChannelStates]

RoleWork ==
  {w \in [pc : {"idle", "apply", "rank", "permit", "notify", "push", "remove"},
           kind : {"none", "put", "delete"}, state : {Null} \cup Nat, todo : {{}}, sets : {{}}, id : Nat] :
     w.pc = "rank" => w.kind = "put"}

ChannelWork ==
  {w \in [pc : {"idle", "defer", "apply", "grant"}, kind : {"none", "put"}, state : {Null} \cup ChannelStates,
           todo : SUBSET (Roles \cup Nat), sets : SUBSET [target : Nat, ow : Overwrite], id : Nat] :
     w.pc \in {"apply", "defer"} => w.state \in ChannelStates /\ w.todo \subseteq DOMAIN w.state}

DiscordTypeOK ==
  /\ Partial(position, Roles, Nat) /\ Partial(guild, Channels, ChannelStates)
  /\ gone \subseteq Roles /\ events \in Nat

StoatTypeOK ==
  /\ DOMAIN rows = Entity /\ \A e \in Entity : IsRow(rows[e])
  /\ nextId \in Nat \ {0} /\ Partial(ranks, 1..(nextId - 1), Nat) /\ worn \subseteq Nat
  /\ DOMAIN ranks \subseteq DOMAIN names /\ DOMAIN over \subseteq Nat
  /\ elevation \in Nat /\ adminRoles \subseteq Nat

MainTypeOK ==
  /\ boot = [pc |-> boot.pc, todo |-> boot.todo, position |-> boot.position, guild |-> boot.guild,
             role |-> boot.role, id |-> boot.id,
             roles |-> boot.roles, channels |-> boot.channels, seen |-> boot.seen]
  /\ boot.pc \in {"down", "connected", "elevated", "admin", "rank", "permit", "confirm", "bind",
                 "channels", "reapchannels", "reaproles", "converge", "up", "ended"}
  /\ boot.todo \subseteq AdminRoles \cup boot.seen \cup boot.roles
  /\ boot.role \in AdminRoles \cup {Null} /\ boot.id \in Nat
  /\ boot.roles \cup boot.seen \subseteq Nat /\ boot.seen \subseteq boot.channels
  /\ Partial(boot.position, Roles, Nat) /\ Partial(boot.guild, Channels, ChannelStates)
  /\ signalled \in BOOLEAN /\ faults \in Nat

EngineTypeOK ==
  /\ DOMAIN queue = Entity /\ DOMAIN worker = Entity
  /\ \A r \in Roles :
       /\ queue[r] \in Seq(RoleOps) /\ worker[r] \in RoleWork
       /\ worker[r].kind = "put" => worker[r].state \in Nat
  /\ \A c \in Channels : queue[c] \in Seq(ChannelOps) /\ worker[c] \in ChannelWork
  /\ \A lists \in {waiters, woken} :
       /\ DOMAIN lists = Entity
       /\ \A e \in Entity :
            /\ DOMAIN lists[e] = Entity
            /\ \A r \in Roles : lists[e][r] = <<>>
            /\ \A c \in Channels : lists[e][c] \in Seq(ChannelOps)

ATypeOK == DiscordTypeOK /\ StoatTypeOK /\ MainTypeOK /\ EngineTypeOK

Quiet == \A e \in Entity : Still(e)

(* The bot never locks itself out of a channel: whatever order the grants   *)
(* and Discord's denials are written in, and whichever request is the last  *)
(* to succeed.                                                              *)
NeverLockedOut == \A c \in DOMAIN over : CanView(c)

(* Once everything is done, every overwrite on Discord is in effect on its  *)
(* channel's mirror, for the role's mirror, unless a request failed.        *)
AccessMirrored ==
  At("up") /\ Quiet /\ faults = 0 =>
    \A c \in DOMAIN guild : \A r \in DOMAIN guild[c] :
      LET target == IF r = Everyone THEN Default ELSE rows[r].id
      IN /\ Active(rows[c]) /\ Active(rows[r])
         /\ rows[c].id \in DOMAIN over /\ target \in DOMAIN over[rows[c].id]
         /\ over[rows[c].id][target] = ToStoat(guild[c][r])

(* What Discord says of one role is never told to everyone, whose override  *)
(* Stoat takes an empty role id for.                                        *)
EveryoneKeepsOwn ==
  \A c \in DOMAIN over :
    Default \in DOMAIN over[c] =>
      over[c][Default] \in {ToStoat(ow) : ow \in MayGive[Everyone]}

(* Once found, the bot's role stays the only one of rank 0 and on the bot.  *)
ElevationSafe ==
  elevation # NoId => elevation \in worn /\ {r \in DOMAIN ranks : ranks[r] = 0} = {elevation}

-----------------------------------------------------------------------------
(* Where NeverLockedOut holds; it does not of every Discord server.         *)

Ordinary == Roles \ Privileged

(* What Discord says of administrators, if anything, lets them see; and they *)
(* are not deleted.                                                         *)
AdminsSee  == \A p \in Privileged : \A ow \in MayGive[p] : View \in ow.allow /\ View \notin ow.deny
AdminsStay == MayDelete \cap Privileged = {}

(* On Stoat, t mirrors an administrators' role, which holds it.             *)
Claimed(w, t) ==
  \E p \in Privileged \cap DOMAIN w.position : Active(w.rows[p]) /\ w.rows[p].id = t

(* A start finds the bot in sight of every channel, wearing administrators' *)
(* roles and its own; none of them denies it a channel, nor does one that   *)
(* it may yet put on; and what lets it see is not a role that Bind deletes. *)
(* No other role of Discord's is mapped to one of them, unless it has       *)
(* adopted the bot's own and Bind is there to see it; nor has one its name, *)
(* lest Bind map it.                                                        *)
StartsInSight ==
  \A w \in Worlds :
    /\ w.worn \subseteq DOMAIN w.ranks
    /\ \A c \in DOMAIN w.over :
         /\ DOMAIN w.over[c] \subseteq DOMAIN w.ranks \cup {Default}
         /\ \A t \in DOMAIN w.over[c] \ {Default} :
              t \in w.worn \/ (\E p \in Privileged : w.rows[p].id = t) => View \notin w.over[c][t].deny
         /\ Default \in DOMAIN w.over[c] /\ View \in w.over[c][Default].deny =>
              \E t \in w.worn \cap DOMAIN w.over[c] :
                View \in w.over[c][t].allow /\ (w.ranks[t] = 0 \/ Claimed(w, t))
    /\ \A r \in Ordinary :
         /\ \A p \in Privileged : w.rows[r].id = w.rows[p].id => w.rows[r].id = NoId
         /\ w.rows[r].id \in w.worn =>
              w.ranks[w.rows[r].id] = 0 /\ Active(w.rows[r]) /\ r \in DOMAIN w.position
         /\ \A t \in w.worn : r \in DOMAIN w.position /\ Name[r] = w.names[t] => Claimed(w, t)
=============================================================================
