---------------------------- MODULE DaemonProofs ----------------------------
(***************************************************************************)
(* What holds of who may see what, from the launch of the program to its   *)
(* end, for every guild, every state of Stoat and of the database that a   *)
(* start may find, and every number of events and of requests that fail.   *)
(*                                                                         *)
(* ElevationSafe is inductive once every variable has its type (TInv): a   *)
(* role that is created gets an id that no role has, and a rank that is    *)
(* not 0; an edit and a delete spare the bot's role.                       *)
(*                                                                         *)
(* EveryoneKeepsOwn needs more (IInv).  An override reaches everyone by the *)
(* empty role id.  A channel's worker looks its roles up one at a time,    *)
(* while their own workers go on: each row had an id when the op began, as *)
(* the op depends on it, and keeps it, unless the role is deleted; then    *)
(* the row goes for good (RoleOrderly), and the look-up leaves it out.     *)
(*                                                                         *)
(* NeverLockedOut needs to know what the bot wears (SInv): its own role    *)
(* and administrators', none of which denies it a channel, and of which one *)
(* allows it each channel that everyone is denied.                         *)
(***************************************************************************)
EXTENDS Daemon, FiniteSetTheorems, SequenceTheorems, WellFoundedInduction, TLAPS

(* Operators on functions, overwrites and ops.                              *)
LEMMA WithFacts ==
  ASSUME NEW f, NEW i, NEW v
  PROVE  /\ DOMAIN With(f, i, v) = DOMAIN f \cup {i}
         /\ With(f, i, v)[i] = v
         /\ \A x \in DOMAIN f \ {i} : With(f, i, v)[x] = f[x]
BY DEF With

LEMMA WithPartial ==
  ASSUME NEW S, NEW T, NEW f, Partial(f, S, T), NEW i \in S, NEW v \in T
  PROVE  Partial(With(f, i, v), S, T)
BY DEF With, Partial

LEMMA RestrictPartial ==
  ASSUME NEW S, NEW T, NEW f, Partial(f, S, T), NEW D, D \subseteq DOMAIN f
  PROVE  Partial(Restrict(f, D), S, T)
BY DEF Restrict, Partial

LEMMA EmptyPartial == ASSUME NEW S, NEW T PROVE Partial(<<>>, S, T)
BY DEF Partial

LEMMA ChannelState ==
  ASSUME NEW s
  PROVE  s \in ChannelStates <=>
           Partial(s, Roles, Overwrite) /\ \A r \in DOMAIN s : s[r] \in MayGive[r]
BY DEF ChannelStates, Partial

LEMMA ChannelStateWith ==
  ASSUME NEW s \in ChannelStates, NEW r \in Roles, NEW ow \in MayGive[r]
  PROVE  With(s, r, ow) \in ChannelStates
<1>1. ow \in Overwrite  BY AccessAssumption
<1>2. Partial(With(s, r, ow), Roles, Overwrite)  BY <1>1, WithPartial, ChannelState
<1>3. \A x \in DOMAIN With(s, r, ow) : With(s, r, ow)[x] \in MayGive[x]
  BY ChannelState DEF With
<1> QED BY <1>2, <1>3, ChannelState

LEMMA ChannelStateRestrict ==
  ASSUME NEW s \in ChannelStates, NEW D, D \subseteq DOMAIN s
  PROVE  Restrict(s, D) \in ChannelStates
<1>1. Partial(Restrict(s, D), Roles, Overwrite)  BY RestrictPartial, ChannelState
<1>2. \A r \in D : Restrict(s, D)[r] = s[r]  BY DEF Restrict
<1>3. DOMAIN Restrict(s, D) = D  BY DEF Restrict
<1> QED BY <1>1, <1>2, <1>3, ChannelState

LEMMA RankIsNotZero == ASSUME NEW at \in Nat PROVE Rank(at) \in Nat \ {0}
BY DEF Rank

LEMMA MaxOfIds ==
  ASSUME NEW S, S \subseteq Nat, NEW last \in S, \A id \in S : id <= last
  PROVE  Max(S) \in Nat /\ \A id \in S : id <= Max(S)
BY DEF Max

LEMMA DistinctEntities ==
  Roles \subseteq Entity /\ Channels \subseteq Entity /\ Entity = Roles \cup Channels
  /\ \A e \in Roles : e \notin Channels
BY EntitiesAssumption DEF Entity, Entities

LEMMA IdleTyped == Idle \in RoleWork /\ Idle \in ChannelWork
BY DEF Idle, RoleWork, ChannelWork, NoId

LEMMA OpsTyped ==
  /\ Delete \in RoleOps /\ \A at \in Nat : Put(at) \in RoleOps
  /\ \A s \in ChannelStates : Put(s) \in ChannelOps
  /\ \A op \in RoleOps : op.kind \in {"put", "delete"} /\ (op.kind = "put" => op.state \in Nat)
  /\ \A op \in ChannelOps : op.kind = "put" /\ op.state \in ChannelStates
BY DEF Delete, Put, RoleOps, ChannelOps

LEMMA ProjectionsTyped ==
  /\ DOMAIN NoOps = Entity /\ DOMAIN NoWork = Entity /\ DOMAIN NobodyWaits = Entity
  /\ \A e \in Entity : NoOps[e] = <<>> /\ NoWork[e] = Idle /\ NobodyWaits[e] = NoOps
BY DEF NoOps, NoWork, NobodyWaits

LEMMA NothingTyped ==
  ASSUME queue = NoOps, worker = NoWork, waiters = NobodyWaits, woken = NobodyWaits
  PROVE  EngineTypeOK
<1>1. Idle.kind = "none"  BY DEF Idle
<1>2. \A S : <<>> \in Seq(S)  OBVIOUS
<1> QED BY <1>1, <1>2, ProjectionsTyped, DistinctEntities, IdleTyped DEF EngineTypeOK

LEMMA ExitsTyped == ASSUME Exits PROVE EngineTypeOK'
<1>1. Idle.kind = "none"  BY DEF Idle
<1>2. \A S : <<>> \in Seq(S)  OBVIOUS
<1> QED BY <1>1, <1>2, ProjectionsTyped, DistinctEntities, IdleTyped DEF EngineTypeOK, Exits

(* What a step leaves alone keeps its type.                                 *)
LEMMA DiscordSame ==
  ASSUME DiscordTypeOK, UNCHANGED discord PROVE DiscordTypeOK'
BY DEF DiscordTypeOK, discord

LEMMA StoatSame ==
  ASSUME StoatTypeOK, UNCHANGED <<rows, remote, client>> PROVE StoatTypeOK'
BY DEF StoatTypeOK, remote, client

LEMMA ElevationSame ==
  ASSUME ElevationSafe, UNCHANGED <<ranks, worn, elevation>> PROVE ElevationSafe'
BY DEF ElevationSafe

LEMMA MainSame ==
  ASSUME MainTypeOK, UNCHANGED <<main, faults>> PROVE MainTypeOK'
BY DEF MainTypeOK, main, AdminRoles

LEMMA EngineSame ==
  ASSUME EngineTypeOK, UNCHANGED engine PROVE EngineTypeOK'
BY DEF EngineTypeOK, engine

(* One worker's step, that of a role or of a channel.                       *)
LEMMA RoleStep ==
  ASSUME EngineTypeOK, NEW r \in Roles, UNCHANGED <<waiters, woken>>,
         DOMAIN queue' = Entity, DOMAIN worker' = Entity,
         \A e \in Entity \ {r} : queue'[e] = queue[e] /\ worker'[e] = worker[e],
         queue'[r] \in Seq(RoleOps), worker'[r] \in RoleWork,
         worker'[r].kind = "put" => worker'[r].state \in Nat
  PROVE  EngineTypeOK'
<1>1. \A x \in Roles :
        /\ queue'[x] \in Seq(RoleOps) /\ worker'[x] \in RoleWork
        /\ worker'[x].kind = "put" => worker'[x].state \in Nat
  BY DistinctEntities DEF EngineTypeOK
<1>2. \A c \in Channels : queue'[c] \in Seq(ChannelOps) /\ worker'[c] \in ChannelWork
  BY DistinctEntities DEF EngineTypeOK
<1> QED BY <1>1, <1>2 DEF EngineTypeOK

LEMMA ChannelStep ==
  ASSUME EngineTypeOK, NEW c \in Channels, UNCHANGED <<waiters, woken>>,
         DOMAIN queue' = Entity, DOMAIN worker' = Entity,
         \A e \in Entity \ {c} : queue'[e] = queue[e] /\ worker'[e] = worker[e],
         queue'[c] \in Seq(ChannelOps), worker'[c] \in ChannelWork
  PROVE  EngineTypeOK'
<1>1. \A x \in Channels : queue'[x] \in Seq(ChannelOps) /\ worker'[x] \in ChannelWork
  BY DistinctEntities DEF EngineTypeOK
<1>2. \A r \in Roles :
        /\ queue'[r] \in Seq(RoleOps) /\ worker'[r] \in RoleWork
        /\ worker'[r].kind = "put" => worker'[r].state \in Nat
  BY DistinctEntities DEF EngineTypeOK
<1> QED BY <1>1, <1>2 DEF EngineTypeOK

-----------------------------------------------------------------------------
(* What main has at hand, by the place where it is.                         *)
RoleAtHand ==
  /\ boot.pc \in {"down", "connected", "elevated", "admin", "rank", "permit", "confirm"} =>
       boot.roles = {} /\ boot.seen = {}
  /\ boot.pc \in {"down", "connected", "elevated"} => boot.role = Null
  /\ boot.pc \in {"rank", "permit", "confirm"} => boot.role \in AdminRoles
  /\ boot.pc \in {"bind", "channels"} => boot.todo = {}

(* The types, and with them the bot's role, are kept from startup to the    *)
(* end.                                                                     *)
TInv == ATypeOK /\ RoleAtHand /\ ElevationSafe

LEMMA RoleAtHandSame == ASSUME RoleAtHand, UNCHANGED main PROVE RoleAtHand'
BY DEF RoleAtHand, AdminRoles, main

LEMMA InitTInv == ASSUME AInit PROVE TInv
<1>1. PICK w \in Worlds :
        /\ position = w.position /\ guild = w.guild /\ rows = w.rows
        /\ ranks = w.ranks /\ worn = w.worn /\ over = w.over
        /\ names = w.names /\ nextId = 1 + Max(Ids(w))
  BY DEF AInit
<1>2. /\ Partial(w.position, Roles, Nat) /\ Partial(w.guild, Channels, ChannelStates)
      /\ DOMAIN w.rows = Entity /\ \A e \in Entity : IsRow(w.rows[e])
      /\ Partial(w.ranks, Nat \ {0}, Nat) /\ w.worn \subseteq Nat
      /\ DOMAIN w.over \subseteq Nat \ {0} /\ DOMAIN w.ranks \subseteq DOMAIN w.names
  BY WorldsAssumption DEF Entity
<1>3. Ids(w) \subseteq Nat
  BY <1>2 DEF Ids, Partial, IsRow, Entity
<1>4. PICK last \in Ids(w) : \A id \in Ids(w) : id <= last
  BY WorldsAssumption
<1>5. Max(Ids(w)) \in Nat /\ \A id \in Ids(w) : id <= Max(Ids(w))
  BY <1>3, <1>4, MaxOfIds
<1>6. \A id \in DOMAIN ranks : id \in Ids(w)
  BY <1>1 DEF Ids
<1>7. StoatTypeOK
  <2>1. nextId \in Nat \ {0} /\ nextId - 1 = Max(Ids(w))  BY <1>1, <1>5
  <2>2. DOMAIN ranks \subseteq 1..(nextId - 1)  BY <1>1, <1>2, <1>3, <1>5, <1>6, <2>1 DEF Partial
  <2>3. elevation \in Nat /\ adminRoles \subseteq Nat  BY DEF AInit, NoId
  <2> QED BY <1>1, <1>2, <2>1, <2>2, <2>3 DEF StoatTypeOK, Partial
<1>8. DiscordTypeOK  BY <1>1, <1>2 DEF AInit, DiscordTypeOK
<1>9. MainTypeOK  BY EmptyPartial DEF AInit, MainTypeOK, Down, AdminRoles, NoId
<1>10. EngineTypeOK  BY NothingTyped DEF AInit
<1>11. ElevationSafe  BY DEF AInit, ElevationSafe
<1>12. RoleAtHand  BY DEF AInit, RoleAtHand, Down
<1> QED BY <1>7, <1>8, <1>9, <1>10, <1>11, <1>12 DEF TInv, ATypeOK

LEMMA ExitStep ==
  ASSUME TInv, Exits, UNCHANGED <<discord, rows, remote, client, signalled, faults>>
  PROVE  TInv'
<1>1. MainTypeOK'
  BY EmptyPartial DEF TInv, ATypeOK, MainTypeOK, Exits, Down, AdminRoles, NoId
<1>2. ElevationSafe'  BY ElevationSame DEF TInv, remote, client
<1>3. RoleAtHand'  BY DEF Exits, Down, RoleAtHand
<1> QED BY <1>1, <1>2, <1>3, ExitsTyped, DiscordSame, StoatSame DEF TInv, ATypeOK

(* main's record keeps its fields.                                          *)
LEMMA BootTyped ==
  ASSUME MainTypeOK
  PROVE  /\ \A label : [boot EXCEPT !.pc = label] =
              [pc |-> label, todo |-> boot.todo, position |-> boot.position, guild |-> boot.guild,
               role |-> boot.role, id |-> boot.id, roles |-> boot.roles, channels |-> boot.channels, seen |-> boot.seen]
         /\ \A todo : [boot EXCEPT !.todo = todo] =
              [pc |-> boot.pc, todo |-> todo, position |-> boot.position, guild |-> boot.guild,
               role |-> boot.role, id |-> boot.id, roles |-> boot.roles, channels |-> boot.channels, seen |-> boot.seen]
         /\ \A label, todo : [boot EXCEPT !.pc = label, !.todo = todo] =
              [pc |-> label, todo |-> todo, position |-> boot.position, guild |-> boot.guild,
               role |-> boot.role, id |-> boot.id, roles |-> boot.roles, channels |-> boot.channels, seen |-> boot.seen]
         /\ \A label, role, id : [boot EXCEPT !.pc = label, !.role = role, !.id = id] =
              [pc |-> label, todo |-> boot.todo, position |-> boot.position, guild |-> boot.guild,
               role |-> role, id |-> id, roles |-> boot.roles, channels |-> boot.channels, seen |-> boot.seen]
         /\ \A label, todo, role, id : [boot EXCEPT !.pc = label, !.todo = todo, !.role = role, !.id = id] =
              [pc |-> label, todo |-> todo, position |-> boot.position, guild |-> boot.guild,
               role |-> role, id |-> id, roles |-> boot.roles, channels |-> boot.channels, seen |-> boot.seen]
         /\ \A label, roles, channels, seen : [boot EXCEPT !.pc = label, !.roles = roles, !.channels = channels, !.seen = seen] =
              [pc |-> label, todo |-> boot.todo, position |-> boot.position, guild |-> boot.guild,
               role |-> boot.role, id |-> boot.id, roles |-> roles, channels |-> channels, seen |-> seen]
<1> DEFINE rec == [pc |-> boot.pc, todo |-> boot.todo, position |-> boot.position, guild |-> boot.guild,
                   role |-> boot.role, id |-> boot.id, roles |-> boot.roles, channels |-> boot.channels, seen |-> boot.seen]
<1>0. boot = rec  BY DEF MainTypeOK
<1>1. ASSUME NEW label
      PROVE  [boot EXCEPT !.pc = label] =
               [pc |-> label, todo |-> boot.todo, position |-> boot.position, guild |-> boot.guild,
                role |-> boot.role, id |-> boot.id, roles |-> boot.roles, channels |-> boot.channels, seen |-> boot.seen]
  BY <1>0
<1>2. ASSUME NEW todo
      PROVE  [boot EXCEPT !.todo = todo] =
               [pc |-> boot.pc, todo |-> todo, position |-> boot.position, guild |-> boot.guild,
                role |-> boot.role, id |-> boot.id, roles |-> boot.roles, channels |-> boot.channels, seen |-> boot.seen]
  BY <1>0
<1>3. ASSUME NEW label, NEW todo
      PROVE  [boot EXCEPT !.pc = label, !.todo = todo] =
               [pc |-> label, todo |-> todo, position |-> boot.position, guild |-> boot.guild,
                role |-> boot.role, id |-> boot.id, roles |-> boot.roles, channels |-> boot.channels, seen |-> boot.seen]
  <2> DEFINE r1 == [pc |-> label, todo |-> boot.todo, position |-> boot.position, guild |-> boot.guild,
                    role |-> boot.role, id |-> boot.id, roles |-> boot.roles, channels |-> boot.channels, seen |-> boot.seen]
             r2 == [pc |-> label, todo |-> todo, position |-> boot.position, guild |-> boot.guild,
                    role |-> boot.role, id |-> boot.id, roles |-> boot.roles, channels |-> boot.channels, seen |-> boot.seen]
  <2>1. [rec EXCEPT !.pc = label] = r1  OBVIOUS
  <2>2. [r1 EXCEPT !.todo = todo] = r2  OBVIOUS
  <2>3. [rec EXCEPT !.pc = label, !.todo = todo] =
         [[rec EXCEPT !.pc = label] EXCEPT !.todo = todo]
    OBVIOUS
  <2>4. [rec EXCEPT !.pc = label, !.todo = todo] = r2
    <3> HIDE DEF rec, r1, r2
    <3> QED BY <2>1, <2>2, <2>3
  <2> QED BY <1>0, <2>4
<1>4. ASSUME NEW label, NEW role, NEW id
      PROVE  [boot EXCEPT !.pc = label, !.role = role, !.id = id] =
               [pc |-> label, todo |-> boot.todo, position |-> boot.position, guild |-> boot.guild,
                role |-> role, id |-> id, roles |-> boot.roles, channels |-> boot.channels, seen |-> boot.seen]
  <2> DEFINE r1 == [pc |-> label, todo |-> boot.todo, position |-> boot.position, guild |-> boot.guild,
                    role |-> boot.role, id |-> boot.id, roles |-> boot.roles, channels |-> boot.channels, seen |-> boot.seen]
             r2 == [pc |-> label, todo |-> boot.todo, position |-> boot.position, guild |-> boot.guild,
                    role |-> role, id |-> boot.id, roles |-> boot.roles, channels |-> boot.channels, seen |-> boot.seen]
             r3 == [pc |-> label, todo |-> boot.todo, position |-> boot.position, guild |-> boot.guild,
                    role |-> role, id |-> id, roles |-> boot.roles, channels |-> boot.channels, seen |-> boot.seen]
  <2>1. [rec EXCEPT !.pc = label] = r1  OBVIOUS
  <2>2. [r1 EXCEPT !.role = role] = r2  OBVIOUS
  <2>3. [r2 EXCEPT !.id = id] = r3  OBVIOUS
  <2>4. [rec EXCEPT !.pc = label, !.role = role, !.id = id] =
         [[[rec EXCEPT !.pc = label] EXCEPT !.role = role] EXCEPT !.id = id]
    OBVIOUS
  <2>5. [rec EXCEPT !.pc = label, !.role = role, !.id = id] = r3
    <3> HIDE DEF rec, r1, r2, r3
    <3> QED BY <2>1, <2>2, <2>3, <2>4
  <2> QED BY <1>0, <2>5
<1>5. ASSUME NEW label, NEW todo, NEW role, NEW id
      PROVE  [boot EXCEPT !.pc = label, !.todo = todo, !.role = role, !.id = id] =
               [pc |-> label, todo |-> todo, position |-> boot.position, guild |-> boot.guild,
                role |-> role, id |-> id, roles |-> boot.roles, channels |-> boot.channels, seen |-> boot.seen]
  <2> DEFINE r1 == [pc |-> label, todo |-> boot.todo, position |-> boot.position, guild |-> boot.guild,
                    role |-> boot.role, id |-> boot.id, roles |-> boot.roles, channels |-> boot.channels, seen |-> boot.seen]
             r2 == [pc |-> label, todo |-> todo, position |-> boot.position, guild |-> boot.guild,
                    role |-> boot.role, id |-> boot.id, roles |-> boot.roles, channels |-> boot.channels, seen |-> boot.seen]
             r3 == [pc |-> label, todo |-> todo, position |-> boot.position, guild |-> boot.guild,
                    role |-> role, id |-> boot.id, roles |-> boot.roles, channels |-> boot.channels, seen |-> boot.seen]
             r4 == [pc |-> label, todo |-> todo, position |-> boot.position, guild |-> boot.guild,
                    role |-> role, id |-> id, roles |-> boot.roles, channels |-> boot.channels, seen |-> boot.seen]
  <2>1. [rec EXCEPT !.pc = label] = r1  OBVIOUS
  <2>2. [r1 EXCEPT !.todo = todo] = r2  OBVIOUS
  <2>3. [r2 EXCEPT !.role = role] = r3  OBVIOUS
  <2>4. [r3 EXCEPT !.id = id] = r4  OBVIOUS
  <2>5. [rec EXCEPT !.pc = label, !.todo = todo, !.role = role, !.id = id] =
         [[[[rec EXCEPT !.pc = label] EXCEPT !.todo = todo] EXCEPT !.role = role] EXCEPT !.id = id]
    OBVIOUS
  <2>6. [rec EXCEPT !.pc = label, !.todo = todo, !.role = role, !.id = id] = r4
    <3> HIDE DEF rec, r1, r2, r3, r4
    <3> QED BY <2>1, <2>2, <2>3, <2>4, <2>5
  <2> QED BY <1>0, <2>6
<1>6. ASSUME NEW label, NEW roles, NEW channels, NEW seen
      PROVE  [boot EXCEPT !.pc = label, !.roles = roles, !.channels = channels, !.seen = seen] =
               [pc |-> label, todo |-> boot.todo, position |-> boot.position, guild |-> boot.guild,
                role |-> boot.role, id |-> boot.id, roles |-> roles, channels |-> channels, seen |-> seen]
  <2> DEFINE r1 == [pc |-> label, todo |-> boot.todo, position |-> boot.position, guild |-> boot.guild,
                    role |-> boot.role, id |-> boot.id, roles |-> boot.roles, channels |-> boot.channels, seen |-> boot.seen]
             r2 == [pc |-> label, todo |-> boot.todo, position |-> boot.position, guild |-> boot.guild,
                    role |-> boot.role, id |-> boot.id, roles |-> roles, channels |-> boot.channels, seen |-> boot.seen]
             r3 == [pc |-> label, todo |-> boot.todo, position |-> boot.position, guild |-> boot.guild,
                    role |-> boot.role, id |-> boot.id, roles |-> roles, channels |-> channels, seen |-> boot.seen]
             r4 == [pc |-> label, todo |-> boot.todo, position |-> boot.position, guild |-> boot.guild,
                    role |-> boot.role, id |-> boot.id, roles |-> roles, channels |-> channels, seen |-> seen]
  <2>1. [rec EXCEPT !.pc = label] = r1  OBVIOUS
  <2>2. [r1 EXCEPT !.roles = roles] = r2  OBVIOUS
  <2>3. [r2 EXCEPT !.channels = channels] = r3  OBVIOUS
  <2>4. [r3 EXCEPT !.seen = seen] = r4  OBVIOUS
  <2>5. [rec EXCEPT !.pc = label, !.roles = roles, !.channels = channels, !.seen = seen] =
         [[[[rec EXCEPT !.pc = label] EXCEPT !.roles = roles] EXCEPT !.channels = channels] EXCEPT !.seen = seen]
    OBVIOUS
  <2>6. [rec EXCEPT !.pc = label, !.roles = roles, !.channels = channels, !.seen = seen] = r4
    <3> HIDE DEF rec, r1, r2, r3, r4
    <3> QED BY <2>1, <2>2, <2>3, <2>4, <2>5
  <2> QED BY <1>0, <2>6
<1> QED BY <1>1, <1>2, <1>3, <1>4, <1>5, <1>6

LEMMA GoToTyped ==
  ASSUME MainTypeOK, NEW label \in {"connected", "elevated", "permit", "confirm", "bind", "converge"}, GoTo(label),
         UNCHANGED <<signalled, faults>>
  PROVE  MainTypeOK'
BY BootTyped DEF MainTypeOK, GoTo, AdminRoles

LEMMA StartupSteps ==
  ASSUME TInv, Connect \/ StartupFails \/ RefuseToStart \/ Interrupted \/ Drained \/ GiveUp
  PROVE  TInv'
<1>1. CASE Connect
  <2>1. MainTypeOK'  BY <1>1, GoToTyped DEF Connect, TInv, ATypeOK
  <2>2. ElevationSafe'  BY <1>1, ElevationSame DEF Connect, TInv, remote, client
  <2>3. UNCHANGED engine  BY <1>1 DEF Connect, GoTo
  <2>4. RoleAtHand'
    BY <1>1, BootTyped DEF Connect, GoTo, At, TInv, ATypeOK, RoleAtHand
  <2> QED BY <1>1, <2>1, <2>2, <2>3, <2>4, DiscordSame, StoatSame, EngineSame DEF Connect, TInv, ATypeOK
<1>2. CASE StartupFails   BY <1>2, ExitStep DEF StartupFails
<1>3. CASE RefuseToStart  BY <1>3, ExitStep DEF RefuseToStart
<1>4. CASE Interrupted    BY <1>4, ExitStep DEF Interrupted
<1>5. CASE Drained        BY <1>5, ExitStep DEF Drained
<1>6. CASE GiveUp         BY <1>6, ExitStep DEF GiveUp
<1> QED BY <1>1, <1>2, <1>3, <1>4, <1>5, <1>6

LEMMA ResolveStep == ASSUME TInv, ResolveElevationRole PROVE TInv'
<1>1. MainTypeOK' /\ UNCHANGED engine
  BY GoToTyped DEF ResolveElevationRole, GoTo, TInv, ATypeOK
<1>2. PICK r \in DOMAIN ranks : Elevates(r) /\ elevation' = r
  BY DEF ResolveElevationRole
<1>3. UNCHANGED <<rows, ranks, worn, over, names, nextId, adminRoles>>
  BY DEF ResolveElevationRole, remote
<1>4. StoatTypeOK'
  <2>1. elevation' \in Nat  BY <1>2 DEF TInv, ATypeOK, StoatTypeOK, Partial
  <2> QED BY <2>1, <1>3 DEF TInv, ATypeOK, StoatTypeOK
<1>5. ElevationSafe'
  BY <1>2, <1>3 DEF ElevationSafe, Elevates
<1>6. RoleAtHand'
  BY BootTyped DEF ResolveElevationRole, GoTo, At, TInv, ATypeOK, RoleAtHand
<1> QED BY <1>1, <1>4, <1>5, <1>6, DiscordSame, EngineSame DEF ResolveElevationRole, TInv, ATypeOK

LEMMA ReadStep == ASSUME TInv, ReadStructure PROVE TInv'
<1>1. CASE Exits
  BY <1>1, ExitStep DEF ReadStructure
<1>2. CASE ~Exits
  <2>1. /\ boot' = [boot EXCEPT !.pc = "admin", !.todo = Privileged \cap DOMAIN position,
                                !.position = position, !.guild = guild]
        /\ UNCHANGED <<engine, discord, rows, remote, client, signalled, faults>>
    BY <1>2 DEF ReadStructure
  <2>2. MainTypeOK'
    <3>1. boot.role = Null  BY DEF ReadStructure, At, TInv, RoleAtHand
    <3> QED BY <2>1, <3>1 DEF MainTypeOK, AdminRoles, TInv, ATypeOK, DiscordTypeOK
  <2>3. ElevationSafe'  BY <2>1, ElevationSame DEF TInv, remote, client
  <2>4. RoleAtHand'
    BY <2>1 DEF ReadStructure, At, TInv, ATypeOK, MainTypeOK, RoleAtHand
  <2> QED BY <2>1, <2>2, <2>3, <2>4, DiscordSame, StoatSame, EngineSame DEF TInv, ATypeOK
<1> QED BY <1>1, <1>2

(* A new role takes the next id and is not of rank 0.                       *)
LEMMA NewRoleFacts ==
  ASSUME StoatTypeOK, ElevationSafe, NEW e, NewRole, Named(e), UNCHANGED elevation
  PROVE  /\ Partial(ranks', 1..(nextId' - 1), Nat) /\ nextId' \in Nat \ {0}
         /\ DOMAIN ranks' \subseteq DOMAIN names' /\ ElevationSafe'
<1>1. NewRank \in Nat \ {0}  BY AccessAssumption
<1>2. nextId \in Nat \ {0} /\ nextId' \in Nat \ {0} /\ nextId' - 1 = nextId
  BY DEF StoatTypeOK, Named
<1>3. Partial(ranks, 1..(nextId' - 1), Nat)
  BY <1>2 DEF StoatTypeOK, Partial
<1>4. Partial(ranks', 1..(nextId' - 1), Nat)
  <2>1. NewRank \in Nat  BY <1>1
  <2>2. nextId \in 1..nextId  BY <1>2
  <2> QED BY <1>2, <2>1, <2>2, <1>3, WithPartial DEF NewRole
<1>5. nextId \notin DOMAIN ranks
  BY <1>2 DEF StoatTypeOK, Partial
<1>6. {r \in DOMAIN ranks' : ranks'[r] = 0} = {r \in DOMAIN ranks : ranks[r] = 0}
  BY <1>1, <1>5 DEF With, NewRole
<1>7. ElevationSafe'
  BY <1>6 DEF ElevationSafe, NewRole
<1>8. DOMAIN ranks' \subseteq DOMAIN names'
  BY DEF NewRole, Named, With, StoatTypeOK
<1> QED BY <1>2, <1>4, <1>7, <1>8

(* A new rank that is not 0, for a role that is not the bot's ...           *)
LEMMA RankFacts ==
  ASSUME StoatTypeOK, ElevationSafe, NEW id, NEW at \in Nat, Writable(id),
         ranks' = [ranks EXCEPT ![id] = Rank(at)], UNCHANGED <<worn, names, nextId, elevation>>
  PROVE  /\ Partial(ranks', 1..(nextId' - 1), Nat) /\ DOMAIN ranks' \subseteq DOMAIN names'
         /\ ElevationSafe'
<1>1. Rank(at) \in Nat \ {0}  BY RankIsNotZero
<1>2. Partial(ranks', 1..(nextId' - 1), Nat) /\ DOMAIN ranks' \subseteq DOMAIN names'
  BY <1>1 DEF StoatTypeOK, Partial
<1>3. DOMAIN ranks' = DOMAIN ranks  OBVIOUS
<1>4. \A s \in DOMAIN ranks \ {id} : ranks'[s] = ranks[s]  OBVIOUS
<1>5. id \in DOMAIN ranks => ranks'[id] # 0  BY <1>1
<1>6. ElevationSafe'  BY <1>3, <1>4, <1>5 DEF ElevationSafe, Writable
<1> QED BY <1>2, <1>6

(* ... or its end.                                                          *)
LEMMA DeletesFacts ==
  ASSUME StoatTypeOK, ElevationSafe, NEW id, Writable(id), StoatDeletes(id),
         UNCHANGED <<rows, names, nextId, client>>
  PROVE  StoatTypeOK' /\ ElevationSafe'
<1>1. ranks' = Restrict(ranks, DOMAIN ranks \ {id}) /\ worn' = worn \ {id} /\ id # elevation
  BY DEF StoatDeletes, Writable
<1>2. Partial(ranks', 1..(nextId - 1), Nat)
  BY <1>1, RestrictPartial DEF StoatTypeOK
<1>3. DOMAIN ranks' \subseteq DOMAIN names' /\ DOMAIN over' = DOMAIN over
  BY <1>1 DEF StoatTypeOK, StoatDeletes, Restrict
<1>4. StoatTypeOK'  BY <1>1, <1>2, <1>3 DEF StoatTypeOK, client
<1>5. ElevationSafe'  BY <1>1 DEF ElevationSafe, client, Restrict
<1> QED BY <1>4, <1>5

LEMMA RowsTyped ==
  /\ \A row, state : IsRow(row) => IsRow(PendingStructureRow(row, state))
  /\ \A row, id : IsRow(row) /\ id \in Nat => IsRow(ConfirmedRow(row, id))
  /\ \A row, state : IsRow(row) => IsRow([row EXCEPT !.state = state])
  /\ IsRow(Absent)
<1>1. \A row, state : IsRow(row) => IsRow(PendingStructureRow(row, state))
  BY DEF IsRow, PendingStructureRow
<1>2. \A row, id : IsRow(row) /\ id \in Nat => IsRow(ConfirmedRow(row, id))
  <2>1. ASSUME NEW row, NEW id \in Nat, IsRow(row), Found(row) PROVE IsRow(ConfirmedRow(row, id))
    <3> DEFINE rec == [status |-> row.status, id |-> row.id, state |-> row.state, channel |-> row.channel]
    <3>1. row = rec  BY <2>1 DEF IsRow
    <3> DEFINE act == [status |-> "active", id |-> row.id, state |-> row.state, channel |-> row.channel]
               new == [status |-> "active", id |-> id, state |-> row.state, channel |-> row.channel]
    <3>2. [rec EXCEPT !.status = "active"] = act  OBVIOUS
    <3>3. [act EXCEPT !.id = id] = new  OBVIOUS
    <3>4. [rec EXCEPT !.status = "active", !.id = id] = [[rec EXCEPT !.status = "active"] EXCEPT !.id = id]
      OBVIOUS
    <3>5. ConfirmedRow(row, id) = new
      <4> HIDE DEF rec, act, new
      <4> QED BY <2>1, <3>1, <3>2, <3>3, <3>4 DEF ConfirmedRow
    <3> QED BY <2>1, <3>5 DEF IsRow
  <2> QED BY <2>1 DEF ConfirmedRow
<1>3. \A row, state : IsRow(row) => IsRow([row EXCEPT !.state = state])
  <2>1. ASSUME NEW row, NEW state, IsRow(row) PROVE IsRow([row EXCEPT !.state = state])
    <3> DEFINE rec == [status |-> row.status, id |-> row.id, state |-> row.state, channel |-> row.channel]
    <3>1. row = rec  BY <2>1 DEF IsRow
    <3>2. [rec EXCEPT !.state = state] =
            [status |-> row.status, id |-> row.id, state |-> state, channel |-> row.channel]
      OBVIOUS
    <3> QED BY <2>1, <3>1, <3>2 DEF IsRow
  <2> QED BY <2>1
<1>4. IsRow(Absent)  BY DEF IsRow, Absent, NoId
<1> QED BY <1>1, <1>2, <1>3, <1>4

(* The steps that mirror an administrators' role.                           *)
LEMMA SkipAdminStep == ASSUME TInv, NEW r \in Privileged, SkipAdminRole(r) PROVE TInv'
<1>1. MainTypeOK'
  BY BootTyped DEF SkipAdminRole, TInv, ATypeOK, MainTypeOK, AdminRoles
<1>2. ElevationSafe'  BY ElevationSame DEF SkipAdminRole, TInv, remote, client
<1>3. RoleAtHand'  BY BootTyped DEF SkipAdminRole, TInv, ATypeOK, RoleAtHand, At
<1> QED BY <1>1, <1>2, <1>3, DiscordSame, StoatSame, EngineSame DEF SkipAdminRole, TInv, ATypeOK

LEMMA CreateAdminStep == ASSUME TInv, NEW r \in Privileged, CreateAdminRole(r) PROVE TInv'
<1>1. /\ r \in boot.todo /\ At("admin") /\ NewRole /\ Named(r)
      /\ boot' = [boot EXCEPT !.pc = "rank", !.role = r, !.id = nextId]
      /\ UNCHANGED <<discord, rows, client, signalled, engine, faults>>
  BY DEF CreateAdminRole
<1>2. r \in AdminRoles /\ nextId \in Nat
  BY <1>1 DEF TInv, ATypeOK, StoatTypeOK, MainTypeOK, RoleAtHand, At
<1>3. MainTypeOK'
  BY <1>1, <1>2, BootTyped DEF TInv, ATypeOK, MainTypeOK, AdminRoles
<1>4. RoleAtHand'
  BY <1>1, <1>2, BootTyped DEF TInv, ATypeOK, RoleAtHand, At, AdminRoles
<1>5. /\ Partial(ranks', 1..(nextId' - 1), Nat) /\ nextId' \in Nat \ {0}
      /\ DOMAIN ranks' \subseteq DOMAIN names' /\ ElevationSafe'
  BY <1>1, NewRoleFacts DEF TInv, ATypeOK, client
<1>6. StoatTypeOK'  BY <1>1, <1>5 DEF TInv, ATypeOK, StoatTypeOK, client, NewRole
<1> QED BY <1>1, <1>3, <1>4, <1>5, <1>6, DiscordSame, EngineSame DEF TInv, ATypeOK

LEMMA RankAdminStep == ASSUME TInv, RankAdminRole PROVE TInv'
<1>1. /\ At("rank") /\ Writable(boot.id) /\ GoTo("permit")
      /\ ranks' = [ranks EXCEPT ![boot.id] = Rank(boot.position[boot.role])]
      /\ UNCHANGED <<discord, rows, worn, over, names, nextId, client, signalled, faults>>
  BY DEF RankAdminRole
<1>2. MainTypeOK' /\ UNCHANGED engine
  BY <1>1, GoToTyped DEF TInv, ATypeOK, GoTo
<1>3. boot.position[boot.role] \in Nat
  BY <1>1 DEF TInv, ATypeOK, MainTypeOK, RoleAtHand, At, AdminRoles, Partial
<1>4. RoleAtHand'
  BY <1>1, BootTyped DEF GoTo, TInv, ATypeOK, RoleAtHand, At, AdminRoles
<1>5. /\ Partial(ranks', 1..(nextId' - 1), Nat) /\ DOMAIN ranks' \subseteq DOMAIN names'
      /\ ElevationSafe'
  BY <1>1, <1>3, RankFacts DEF TInv, ATypeOK, client
<1>6. StoatTypeOK'  BY <1>1, <1>5 DEF TInv, ATypeOK, StoatTypeOK, client
<1> QED BY <1>1, <1>2, <1>4, <1>5, <1>6, DiscordSame, EngineSame DEF TInv, ATypeOK

LEMMA EnterAdminStep == ASSUME TInv, EnterAdminRole PROVE TInv'
<1>1. MainTypeOK' /\ UNCHANGED engine
  BY GoToTyped DEF EnterAdminRole, TInv, ATypeOK, GoTo
<1>2. StoatTypeOK'
  BY RowsTyped DEF EnterAdminRole, TInv, ATypeOK, StoatTypeOK, remote, client
<1>3. RoleAtHand'
  BY BootTyped DEF EnterAdminRole, GoTo, TInv, ATypeOK, RoleAtHand, At, AdminRoles
<1>4. ElevationSafe'  BY ElevationSame DEF EnterAdminRole, TInv, remote, client
<1> QED BY <1>1, <1>2, <1>3, <1>4, DiscordSame, EngineSame DEF EnterAdminRole, TInv, ATypeOK

LEMMA ConfirmAdminStep == ASSUME TInv, ConfirmAdminRole PROVE TInv'
<1>1. boot' = [boot EXCEPT !.pc = "admin", !.todo = boot.todo \ {boot.role}, !.role = Null, !.id = NoId]
  BY DEF ConfirmAdminRole
<1>2. MainTypeOK'
  <2>1. boot' = [pc |-> "admin", todo |-> boot.todo \ {boot.role}, position |-> boot.position,
                 guild |-> boot.guild, role |-> Null, id |-> NoId,
                 roles |-> boot.roles, channels |-> boot.channels, seen |-> boot.seen]
    <3> DEFINE rec == [pc |-> boot.pc, todo |-> boot.todo, position |-> boot.position, guild |-> boot.guild,
                       role |-> boot.role, id |-> boot.id, roles |-> boot.roles, channels |-> boot.channels, seen |-> boot.seen]
               r1 == [pc |-> "admin", todo |-> boot.todo, position |-> boot.position, guild |-> boot.guild,
                      role |-> boot.role, id |-> boot.id, roles |-> boot.roles, channels |-> boot.channels, seen |-> boot.seen]
               r2 == [pc |-> "admin", todo |-> boot.todo \ {boot.role}, position |-> boot.position, guild |-> boot.guild,
                      role |-> boot.role, id |-> boot.id, roles |-> boot.roles, channels |-> boot.channels, seen |-> boot.seen]
               r3 == [pc |-> "admin", todo |-> boot.todo \ {boot.role}, position |-> boot.position, guild |-> boot.guild,
                      role |-> Null, id |-> boot.id, roles |-> boot.roles, channels |-> boot.channels, seen |-> boot.seen]
               r4 == [pc |-> "admin", todo |-> boot.todo \ {boot.role}, position |-> boot.position, guild |-> boot.guild,
                      role |-> Null, id |-> NoId, roles |-> boot.roles, channels |-> boot.channels, seen |-> boot.seen]
    <3>1. [rec EXCEPT !.pc = "admin"] = r1  OBVIOUS
    <3>2. [r1 EXCEPT !.todo = boot.todo \ {boot.role}] = r2  OBVIOUS
    <3>3. [r2 EXCEPT !.role = Null] = r3  OBVIOUS
    <3>4. [r3 EXCEPT !.id = NoId] = r4  OBVIOUS
    <3>5. [rec EXCEPT !.pc = "admin", !.todo = boot.todo \ {boot.role}, !.role = Null, !.id = NoId] =
           [[[[rec EXCEPT !.pc = "admin"] EXCEPT !.todo = boot.todo \ {boot.role}] EXCEPT !.role = Null] EXCEPT !.id = NoId]
      OBVIOUS
    <3>6. boot = rec  BY DEF TInv, ATypeOK, MainTypeOK
    <3>7. boot' = r4
      <4> HIDE DEF rec, r1, r2, r3, r4
      <4> QED BY <1>1, <3>1, <3>2, <3>3, <3>4, <3>5, <3>6
    <3> QED BY <3>7
  <2>2. /\ boot.todo \subseteq AdminRoles \cup boot.seen \cup boot.roles
        /\ boot.roles \cup boot.seen \subseteq Nat /\ boot.seen \subseteq boot.channels
        /\ Partial(boot.position, Roles, Nat) /\ Partial(boot.guild, Channels, ChannelStates)
        /\ signalled' \in BOOLEAN /\ faults' \in Nat
    BY DEF ConfirmAdminRole, TInv, ATypeOK, MainTypeOK
  <2> QED BY <2>1, <2>2 DEF MainTypeOK, AdminRoles, NoId
<1>3. RoleAtHand'
  BY <1>1, BootTyped DEF ConfirmAdminRole, TInv, ATypeOK, MainTypeOK, RoleAtHand, At, AdminRoles
<1>4. boot.id \in Nat  BY DEF TInv, ATypeOK, MainTypeOK
<1>5. StoatTypeOK'
  BY <1>4, RowsTyped DEF ConfirmAdminRole, TInv, ATypeOK, StoatTypeOK, remote, client
<1>6. ElevationSafe'  BY ElevationSame DEF ConfirmAdminRole, TInv, remote, client
<1> QED BY <1>2, <1>3, <1>5, <1>6, DiscordSame, EngineSame DEF ConfirmAdminRole, TInv, ATypeOK

LEMMA WearStep == ASSUME TInv, WearAdminRole PROVE TInv'
<1>1. CASE Exits /\ UNCHANGED <<worn, adminRoles>>
  BY <1>1, ExitStep DEF WearAdminRole, remote, client, discord
<1>2. CASE GoTo("bind") /\ adminRoles' = AdminIds
  <2>1. UNCHANGED <<discord, rows, ranks, over, names, nextId, elevation, signalled, faults, engine>>
    BY <1>2 DEF WearAdminRole, GoTo
  <2>2. MainTypeOK'  BY <1>2, <2>1, GoToTyped DEF TInv, ATypeOK
  <2>3. worn \subseteq worn' /\ worn' \subseteq worn \cup DOMAIN ranks
    BY <1>2 DEF WearAdminRole, AddSelfToRole, GoTo, Exits
  <2>4. AdminIds \subseteq Nat
    BY AccessAssumption, DistinctEntities
       DEF AdminIds, AdminRoles, TInv, ATypeOK, StoatTypeOK, IsRow
  <2>5. worn' \subseteq Nat  BY <2>3 DEF TInv, ATypeOK, StoatTypeOK, Partial
  <2>6. StoatTypeOK'
    BY <1>2, <2>1, <2>4, <2>5 DEF TInv, ATypeOK, StoatTypeOK
  <2>7. ElevationSafe'
    BY <2>1, <2>3 DEF TInv, ElevationSafe
  <2>8. RoleAtHand'
    BY <1>2, BootTyped DEF WearAdminRole, GoTo, TInv, ATypeOK, RoleAtHand
  <2> QED BY <2>1, <2>2, <2>6, <2>7, <2>8, DiscordSame, EngineSame DEF TInv, ATypeOK
<1> QED BY <1>1, <1>2 DEF WearAdminRole

(* Bind pairs rows with ids that it fetched.                                *)
LEMMA BoundTyped ==
  ASSUME NEW row, IsRow(row), NEW dead, NEW ids, ids \subseteq Nat
  PROVE  IsRow(Bound(row, dead, ids))
<1> DEFINE cleared == IF dead /\ Active(row) THEN Absent ELSE row
           id      == CHOOSE i \in ids : TRUE
<1>1. IsRow(cleared)  BY RowsTyped
<1>2. CASE ids = {}  BY <1>1, <1>2 DEF Bound
<1>3. CASE ids # {}
  <2>1. id \in Nat  BY <1>3
  <2>2. Bound(row, dead, ids) = ConfirmedRow(PendingStructureRow(cleared, Empty), id)
    BY <1>3 DEF Bound
  <2> HIDE DEF cleared, id
  <2>3. IsRow(PendingStructureRow(cleared, Empty))  BY <1>1, RowsTyped
  <2> QED BY <2>1, <2>2, <2>3, RowsTyped
<1> QED BY <1>2, <1>3

LEMMA BindEntitiesTyped ==
  ASSUME TInv, NEW es, NEW listed, NEW fetched \in SUBSET (boot.seen \cup boot.roles),
         fetched \subseteq Nat, NEW spared, NEW next \in {"reapchannels", "reaproles"},
         BindEntities(es, listed, fetched, spared, next),
         UNCHANGED <<discord, remote, client, signalled, engine, faults>>
  PROVE  TInv'
<1> DEFINE wanted == Wanted(es, listed, fetched)
           todo   == Free(es, listed, fetched) \ (wanted \cup spared)
<1>1. wanted \subseteq Nat /\ todo \subseteq boot.seen \cup boot.roles
  BY DEF Wanted, Free
<1>2. boot' = [boot EXCEPT !.pc = next, !.todo = todo]
  BY DEF BindEntities
<1> HIDE DEF todo
<1>3. MainTypeOK'
  BY <1>1, <1>2, BootTyped DEF TInv, ATypeOK, MainTypeOK, AdminRoles
<1>4. RoleAtHand'
  BY <1>2, BootTyped DEF TInv, ATypeOK, RoleAtHand, At
<1>5. \A e \in Entity : IsRow(rows[e])  BY DEF TInv, ATypeOK, StoatTypeOK
<1>6. PICK to :
        rows' = [e \in Entity |-> Bound(rows[e], e \in es \ Held(es, listed), {id \in wanted : to[id] = e})]
  BY DEF BindEntities
<1>7. DOMAIN rows' = Entity /\ \A e \in Entity : IsRow(rows'[e])
  <2> HIDE DEF wanted
  <2>1. ASSUME NEW e \in Entity PROVE IsRow(rows'[e])
    <3>1. {id \in wanted : to[id] = e} \subseteq Nat  BY <1>1
    <3> QED BY <1>5, <1>6, <3>1, BoundTyped
  <2> QED BY <1>6, <2>1
<1>8. StoatTypeOK'  BY <1>7 DEF TInv, ATypeOK, StoatTypeOK, remote, client
<1>9. ElevationSafe'  BY ElevationSame DEF TInv, remote, client
<1> QED BY <1>3, <1>4, <1>8, <1>9, DiscordSame, EngineSame DEF TInv, ATypeOK

LEMMA ReadServerStep == ASSUME TInv, ReadServer PROVE TInv'
<1>1. PICK seen \in SUBSET DOMAIN over :
        boot' = [boot EXCEPT !.pc = "channels", !.roles = DOMAIN ranks, !.channels = DOMAIN over, !.seen = seen]
  BY DEF ReadServer
<1>2. DOMAIN ranks \subseteq Nat  BY DEF TInv, ATypeOK, StoatTypeOK, Partial
<1>3. boot.todo = {}  BY DEF ReadServer, At, TInv, RoleAtHand
<1>4. MainTypeOK' /\ RoleAtHand'
  <2>1. boot' = [pc |-> "channels", todo |-> boot.todo, position |-> boot.position, guild |-> boot.guild,
                 role |-> boot.role, id |-> boot.id,
                 roles |-> DOMAIN ranks, channels |-> DOMAIN over, seen |-> seen]
    <3> DEFINE rec == [pc |-> boot.pc, todo |-> boot.todo, position |-> boot.position, guild |-> boot.guild,
                       role |-> boot.role, id |-> boot.id, roles |-> boot.roles, channels |-> boot.channels, seen |-> boot.seen]
               r1 == [pc |-> "channels", todo |-> boot.todo, position |-> boot.position, guild |-> boot.guild,
                      role |-> boot.role, id |-> boot.id, roles |-> boot.roles, channels |-> boot.channels, seen |-> boot.seen]
               r2 == [pc |-> "channels", todo |-> boot.todo, position |-> boot.position, guild |-> boot.guild,
                      role |-> boot.role, id |-> boot.id, roles |-> DOMAIN ranks, channels |-> boot.channels, seen |-> boot.seen]
               r3 == [pc |-> "channels", todo |-> boot.todo, position |-> boot.position, guild |-> boot.guild,
                      role |-> boot.role, id |-> boot.id, roles |-> DOMAIN ranks, channels |-> DOMAIN over, seen |-> boot.seen]
               r4 == [pc |-> "channels", todo |-> boot.todo, position |-> boot.position, guild |-> boot.guild,
                      role |-> boot.role, id |-> boot.id, roles |-> DOMAIN ranks, channels |-> DOMAIN over, seen |-> seen]
    <3>1. [rec EXCEPT !.pc = "channels"] = r1  OBVIOUS
    <3>2. [r1 EXCEPT !.roles = DOMAIN ranks] = r2  OBVIOUS
    <3>3. [r2 EXCEPT !.channels = DOMAIN over] = r3  OBVIOUS
    <3>4. [r3 EXCEPT !.seen = seen] = r4  OBVIOUS
    <3>5. [rec EXCEPT !.pc = "channels", !.roles = DOMAIN ranks, !.channels = DOMAIN over, !.seen = seen] =
           [[[[rec EXCEPT !.pc = "channels"] EXCEPT !.roles = DOMAIN ranks] EXCEPT !.channels = DOMAIN over] EXCEPT !.seen = seen]
      OBVIOUS
    <3>6. boot = rec  BY DEF TInv, ATypeOK, MainTypeOK
    <3>7. boot' = r4
      <4> HIDE DEF rec, r1, r2, r3, r4
      <4> QED BY <1>1, <3>1, <3>2, <3>3, <3>4, <3>5, <3>6
    <3> QED BY <3>7
  <2>2. seen \subseteq Nat  BY DEF TInv, ATypeOK, StoatTypeOK
  <2> QED BY <1>2, <1>3, <2>1, <2>2 DEF ReadServer, TInv, ATypeOK, MainTypeOK, RoleAtHand, AdminRoles
<1>5. ElevationSafe'  BY ElevationSame DEF ReadServer, TInv, remote, client
<1> QED BY <1>4, <1>5, DiscordSame, StoatSame, EngineSame DEF ReadServer, TInv, ATypeOK

LEMMA BindChannelsStep == ASSUME TInv, BindChannels PROVE TInv'
<1>1. boot.seen \subseteq Nat  BY DEF TInv, ATypeOK, MainTypeOK
<1>2. BindEntities(DOMAIN boot.guild, boot.channels, boot.seen, {}, "reapchannels")
  BY DEF BindChannels
<1>3. UNCHANGED <<discord, remote, client, signalled, engine, faults>>  BY DEF BindChannels
<1> QED BY <1>1, <1>2, <1>3, BindEntitiesTyped

LEMMA BindRolesStep == ASSUME TInv, BindRoles PROVE TInv'
<1>1. CASE Exits /\ UNCHANGED rows  BY <1>1, ExitStep DEF BindRoles
<1>2. CASE /\ BindEntities(DOMAIN boot.position, boot.roles, boot.roles, {elevation}, "reaproles")
           /\ UNCHANGED engine
  <2>1. boot.roles \subseteq Nat  BY DEF TInv, ATypeOK, MainTypeOK
  <2>2. UNCHANGED <<discord, remote, client, signalled, engine, faults>>  BY <1>2 DEF BindRoles
  <2> QED BY <1>2, <2>1, <2>2, BindEntitiesTyped
<1> QED BY <1>1, <1>2 DEF BindRoles

LEMMA ReapStep ==
  ASSUME TInv, NEW id, boot' = [boot EXCEPT !.todo = @ \ {id}], boot.pc \in {"reapchannels", "reaproles"},
         UNCHANGED <<signalled, faults>>
  PROVE  MainTypeOK' /\ RoleAtHand'
<1>1. boot' = [boot EXCEPT !.todo = boot.todo \ {id}]  OBVIOUS
<1>2. MainTypeOK'  BY <1>1, BootTyped DEF TInv, ATypeOK, MainTypeOK, AdminRoles
<1>3. RoleAtHand'  BY <1>1, BootTyped DEF TInv, ATypeOK, RoleAtHand
<1> QED BY <1>2, <1>3

LEMMA ReapChannelStep == ASSUME TInv, NEW id, ReapChannel(id) PROVE TInv'
<1>1. MainTypeOK' /\ RoleAtHand'  BY ReapStep DEF ReapChannel, At
<1>2. DOMAIN over' \subseteq DOMAIN over  BY DEF ReapChannel, Restrict
<1>3. StoatTypeOK'  BY <1>2 DEF ReapChannel, TInv, ATypeOK, StoatTypeOK, client
<1>4. ElevationSafe'  BY ElevationSame DEF ReapChannel, TInv, client
<1> QED BY <1>1, <1>3, <1>4, DiscordSame, EngineSame DEF ReapChannel, TInv, ATypeOK

LEMMA ReapRoleStep == ASSUME TInv, NEW id, ReapRole(id) PROVE TInv'
<1>1. MainTypeOK' /\ RoleAtHand'  BY ReapStep DEF ReapRole, At
<1>2. UNCHANGED <<discord, rows, names, nextId, client, engine>>  BY DEF ReapRole
<1>3. CASE Writable(id) /\ StoatDeletes(id)
  BY <1>1, <1>2, <1>3, DeletesFacts, DiscordSame, EngineSame DEF TInv, ATypeOK
<1>4. CASE UNCHANGED <<ranks, worn, over>>
  <2>1. UNCHANGED <<rows, remote, client>> /\ UNCHANGED <<ranks, worn, elevation>>
    BY <1>2, <1>4 DEF remote, client
  <2> QED BY <1>1, <1>2, <2>1, StoatSame, ElevationSame, DiscordSame, EngineSame DEF TInv, ATypeOK
<1> QED BY <1>3, <1>4 DEF ReapRole

LEMMA ReconcileLiveStep == ASSUME TInv, ReconcileLive PROVE TInv'
<1>1. PICK failed \in SUBSET {c \in DOMAIN boot.guild : Fetchable(c)} :
        /\ faults' = faults + Cardinality(failed) /\ faults' <= MaxFaults
        /\ rows' = [e \in Entity |->
             IF e \in (DOMAIN boot.position \cup DOMAIN boot.guild) \ failed /\ Fetchable(e)
             THEN Verified(e) ELSE rows[e]]
  BY DEF ReconcileLive
<1>2. UNCHANGED <<discord, remote, client, signalled, engine>> /\ GoTo("converge")
  BY DEF ReconcileLive, GoTo
<1>3. faults' \in Nat
  <2>1. IsFiniteSet(Channels)  BY AccessAssumption
  <2>2. DOMAIN boot.guild \subseteq Channels  BY DEF TInv, ATypeOK, MainTypeOK, Partial
  <2>3. IsFiniteSet(failed)  BY <2>1, <2>2, FS_Subset
  <2>4. Cardinality(failed) \in Nat  BY <2>3, FS_CardinalityType
  <2> QED BY <1>1, <2>4 DEF TInv, ATypeOK, MainTypeOK
<1>4. MainTypeOK'
  BY <1>2, <1>3, BootTyped DEF GoTo, TInv, ATypeOK, MainTypeOK, AdminRoles
<1>5. RoleAtHand'  BY <1>2, BootTyped DEF GoTo, TInv, ATypeOK, RoleAtHand
<1>6. \A e \in Entity : IsRow(rows[e])  BY DEF TInv, ATypeOK, StoatTypeOK
<1>7. \A e \in Entity : IsRow(Verified(e))  BY <1>6, RowsTyped DEF Verified
<1>8. DOMAIN rows' = Entity /\ \A e \in Entity : IsRow(rows'[e])  BY <1>1, <1>6, <1>7
<1>9. StoatTypeOK'  BY <1>2, <1>8 DEF TInv, ATypeOK, StoatTypeOK, remote, client
<1>10. ElevationSafe'  BY <1>2, ElevationSame DEF TInv, remote, client
<1> QED BY <1>2, <1>4, <1>5, <1>9, <1>10, DiscordSame, EngineSame DEF TInv, ATypeOK

LEMMA SignalStep == ASSUME TInv, Signal PROVE TInv'
<1>1. MainTypeOK' /\ RoleAtHand'
  BY DEF Signal, TInv, ATypeOK, MainTypeOK, RoleAtHand, AdminRoles
<1>2. ElevationSafe'  BY ElevationSame DEF Signal, TInv, remote, client
<1> QED BY <1>1, <1>2, DiscordSame, StoatSame, EngineSame DEF Signal, TInv, ATypeOK

(* An op that a handler submits is of its entity's kind.                    *)
LEMMA QueuesTyped ==
  ASSUME EngineTypeOK, UNCHANGED <<worker, waiters, woken>>, DOMAIN queue' = Entity,
         \A r \in Roles : queue'[r] = queue[r] \/ \E op \in RoleOps : queue'[r] = Append(queue[r], op),
         \A c \in Channels : queue'[c] = queue[c] \/ \E op \in ChannelOps : queue'[c] = Append(queue[c], op)
  PROVE  EngineTypeOK'
<1>1. ASSUME NEW r \in Roles PROVE queue'[r] \in Seq(RoleOps)
  <2>1. queue[r] \in Seq(RoleOps)  BY DEF EngineTypeOK
  <2>2. CASE queue'[r] = queue[r]  BY <2>1, <2>2
  <2>3. ASSUME NEW op \in RoleOps, queue'[r] = Append(queue[r], op)
        PROVE  queue'[r] \in Seq(RoleOps)
    BY <2>1, <2>3
  <2> QED BY <2>2, <2>3
<1>2. ASSUME NEW c \in Channels PROVE queue'[c] \in Seq(ChannelOps)
  <2>1. queue[c] \in Seq(ChannelOps)  BY DEF EngineTypeOK
  <2>2. CASE queue'[c] = queue[c]  BY <2>1, <2>2
  <2>3. ASSUME NEW op \in ChannelOps, queue'[c] = Append(queue[c], op)
        PROVE  queue'[c] \in Seq(ChannelOps)
    BY <2>1, <2>3
  <2> QED BY <2>2, <2>3
<1> QED BY <1>1, <1>2 DEF EngineTypeOK

LEMMA ConvergeStep == ASSUME TInv, ConvergeAll PROVE TInv'
<1>1. MainTypeOK'
  BY EmptyPartial DEF ConvergeAll, Down, AdminRoles, NoId, TInv, ATypeOK, MainTypeOK
<1>2. \A r \in Roles : queue'[r] = queue[r] \/ \E op \in RoleOps : queue'[r] = Append(queue[r], op)
  BY DistinctEntities, OpsTyped DEF ConvergeAll, TInv, ATypeOK, DiscordTypeOK, Partial
<1>3. \A c \in Channels : queue'[c] = queue[c] \/ \E op \in ChannelOps : queue'[c] = Append(queue[c], op)
  BY DistinctEntities, OpsTyped DEF ConvergeAll, TInv, ATypeOK, DiscordTypeOK, Partial
<1>4. EngineTypeOK'
  BY <1>2, <1>3, QueuesTyped DEF ConvergeAll, TInv, ATypeOK
<1>5. ElevationSafe'  BY ElevationSame DEF ConvergeAll, TInv, remote, client
<1>6. RoleAtHand'  BY DEF ConvergeAll, Down, RoleAtHand
<1> QED BY <1>1, <1>4, <1>5, <1>6, DiscordSame, StoatSame DEF ConvergeAll, TInv, ATypeOK

LEMMA ChangeChannelStep == ASSUME TInv, NEW c \in DOMAIN guild, ChangeChannel(c) PROVE TInv'
<1>1. c \in Channels /\ guild[c] \in ChannelStates
  BY DEF TInv, ATypeOK, DiscordTypeOK, Partial
<1>2. PICK state \in ChannelStates : guild' = [guild EXCEPT ![c] = state]
  <2>1. PICK r \in DOMAIN position :
          \/ \E ow \in MayGive[r] : guild' = [guild EXCEPT ![c] = With(@, r, ow)]
          \/ r \in DOMAIN guild[c] /\ guild' = [guild EXCEPT ![c] = Restrict(@, DOMAIN @ \ {r})]
    BY DEF ChangeChannel
  <2>2. r \in Roles  BY <2>1 DEF TInv, ATypeOK, DiscordTypeOK, Partial
  <2>3. \A ow \in MayGive[r] : With(guild[c], r, ow) \in ChannelStates
    BY <1>1, <2>2, ChannelStateWith
  <2>4. Restrict(guild[c], DOMAIN guild[c] \ {r}) \in ChannelStates
    BY <1>1, ChannelStateRestrict
  <2> QED BY <2>1, <2>3, <2>4
<1>3. DiscordTypeOK'
  BY <1>1, <1>2 DEF ChangeChannel, TInv, ATypeOK, DiscordTypeOK, Partial
<1>4. EngineTypeOK'
  <2>1. guild'[c] \in ChannelStates  BY <1>2
  <2>2. queue' = [queue EXCEPT ![c] = Append(@, Put(guild'[c]))]  BY DEF ChangeChannel, Submit
  <2>3. Put(guild'[c]) \in ChannelOps  BY <2>1, OpsTyped
  <2>4. UNCHANGED <<worker, waiters, woken>>  BY DEF ChangeChannel
  <2> QED BY <1>1, <2>2, <2>3, <2>4, DistinctEntities, QueuesTyped DEF TInv, ATypeOK, EngineTypeOK
<1>5. ElevationSafe'  BY ElevationSame DEF ChangeChannel, TInv, remote, client
<1> QED BY <1>3, <1>4, <1>5, StoatSame, MainSame, RoleAtHandSame DEF ChangeChannel, TInv, ATypeOK

LEMMA ChangeRoleStep == ASSUME TInv, NEW r \in Roles, ChangeRole(r) PROVE TInv'
<1>1. PICK at \in Nat : position' = With(position, r, at) /\ Submit(r, Put(at))
  BY AccessAssumption DEF ChangeRole
<1>2. Partial(position', Roles, Nat)
  BY <1>1, WithPartial DEF TInv, ATypeOK, DiscordTypeOK
<1>3. DiscordTypeOK'  BY <1>2 DEF ChangeRole, TInv, ATypeOK, DiscordTypeOK
<1>4. EngineTypeOK'
  BY <1>1, OpsTyped, DistinctEntities, QueuesTyped
     DEF ChangeRole, Submit, TInv, ATypeOK, EngineTypeOK
<1>5. ElevationSafe'  BY ElevationSame DEF ChangeRole, TInv, remote, client
<1> QED BY <1>3, <1>4, <1>5, StoatSame, MainSame, RoleAtHandSame DEF ChangeRole, TInv, ATypeOK

LEMMA DeleteRoleStep == ASSUME TInv, NEW r \in Roles, DeleteRole(r) PROVE TInv'
<1> DEFINE with == {c \in DOMAIN guild : r \in DOMAIN guild[c]}
<1>1. /\ position' = Restrict(position, DOMAIN position \ {r}) /\ gone' = gone \cup {r}
      /\ guild' = [c \in DOMAIN guild |-> Restrict(guild[c], DOMAIN guild[c] \ {r})]
      /\ queue' = [e \in Entity |-> IF e = r THEN Append(queue[e], Delete)
                                    ELSE IF e \in with THEN Append(queue[e], Put(guild'[e])) ELSE queue[e]]
      /\ events' = events + 1
      /\ UNCHANGED <<rows, remote, client, main, worker, waiters, woken, faults>>
  BY DEF DeleteRole
<1>2. \A c \in DOMAIN guild : c \in Channels /\ guild'[c] \in ChannelStates
  BY <1>1, ChannelStateRestrict DEF TInv, ATypeOK, DiscordTypeOK, Partial
<1>3. Partial(position', Roles, Nat)
  BY <1>1, RestrictPartial DEF TInv, ATypeOK, DiscordTypeOK
<1>4. DiscordTypeOK'
  <2>1. DOMAIN guild' = DOMAIN guild /\ guild' = [c \in DOMAIN guild' |-> guild'[c]]  BY <1>1
  <2>2. Partial(guild', Channels, ChannelStates)  BY <1>2, <2>1 DEF Partial
  <2>3. gone' \subseteq Roles /\ events' \in Nat  BY <1>1 DEF TInv, ATypeOK, DiscordTypeOK
  <2> QED BY <1>3, <2>2, <2>3 DEF DiscordTypeOK
<1>5. EngineTypeOK'
  BY <1>1, <1>2, OpsTyped, DistinctEntities, QueuesTyped DEF TInv, ATypeOK
<1>6. ElevationSafe'  BY <1>1, ElevationSame DEF TInv, remote, client
<1> QED BY <1>1, <1>4, <1>5, <1>6, StoatSame, MainSame, RoleAtHandSame DEF TInv, ATypeOK

-----------------------------------------------------------------------------
(* The steps of the engine.                                                 *)
LEMMA RoleWorkTyped ==
  /\ \A at \in Nat : [Idle EXCEPT !.pc = "apply", !.kind = "put", !.state = at, !.todo = {}] \in RoleWork
  /\ [Idle EXCEPT !.pc = "apply", !.kind = "delete"] \in RoleWork
  /\ \A w \in RoleWork : [w EXCEPT !.pc = "remove"] \in RoleWork
  /\ \A w \in RoleWork, id \in Nat : w.kind = "put" => [w EXCEPT !.pc = "rank", !.id = id] \in RoleWork
  /\ \A w \in RoleWork, id \in Nat : [w EXCEPT !.pc = "permit", !.id = id] \in RoleWork
  /\ [Idle EXCEPT !.pc = "notify"] \in RoleWork /\ [Idle EXCEPT !.pc = "push"] \in RoleWork
BY DEF Idle, RoleWork, NoId

LEMMA ChannelWorkTyped ==
  /\ \A s \in ChannelStates :
       [Idle EXCEPT !.pc = "apply", !.kind = "put", !.state = s, !.todo = DOMAIN s] \in ChannelWork
  /\ \A w \in ChannelWork, sets \in SUBSET [target : Nat, ow : Overwrite] :
       \A r : [w EXCEPT !.todo = @ \ {r}, !.sets = @ \cup sets] \in ChannelWork
  /\ \A w \in ChannelWork, ids \in SUBSET Nat, id \in Nat :
       [w EXCEPT !.pc = "grant", !.todo = ids, !.id = id] \in ChannelWork
  /\ \A w \in ChannelWork : \A x :
       [w EXCEPT !.todo = @ \ {x}] \in ChannelWork /\ [w EXCEPT !.sets = @ \ {x}] \in ChannelWork
  /\ \A s \in ChannelStates : \A r \in DOMAIN s :
       [Idle EXCEPT !.pc = "defer", !.state = s, !.todo = {r}] \in ChannelWork
<1>1. \A s \in ChannelStates : DOMAIN s \subseteq Roles  BY ChannelState DEF Partial
<1>2. ASSUME NEW s \in ChannelStates
      PROVE  [Idle EXCEPT !.pc = "apply", !.kind = "put", !.state = s, !.todo = DOMAIN s] \in ChannelWork
  BY <1>1 DEF Idle, ChannelWork, NoId
<1>3. ASSUME NEW w \in ChannelWork, NEW r, NEW sets \in SUBSET [target : Nat, ow : Overwrite]
      PROVE  [w EXCEPT !.todo = @ \ {r}, !.sets = @ \cup sets] \in ChannelWork
  BY DEF ChannelWork
<1>4. ASSUME NEW w \in ChannelWork, NEW ids \in SUBSET Nat, NEW id \in Nat
      PROVE  [w EXCEPT !.pc = "grant", !.todo = ids, !.id = id] \in ChannelWork
  BY DEF ChannelWork
<1>5. ASSUME NEW w \in ChannelWork, NEW x
      PROVE  [w EXCEPT !.todo = @ \ {x}] \in ChannelWork /\ [w EXCEPT !.sets = @ \ {x}] \in ChannelWork
  BY DEF ChannelWork
<1>6. ASSUME NEW s \in ChannelStates, NEW r \in DOMAIN s
      PROVE  [Idle EXCEPT !.pc = "defer", !.state = s, !.todo = {r}] \in ChannelWork
  BY <1>1 DEF Idle, ChannelWork, NoId
<1> QED BY <1>2, <1>3, <1>4, <1>5, <1>6

LEMMA RoleWorkFields ==
  ASSUME NEW w \in RoleWork
  PROVE  /\ \A label, id : [w EXCEPT !.pc = label, !.id = id].state = w.state
         /\ \A label : [w EXCEPT !.pc = label].kind = w.kind
BY DEF RoleWork

LEMMA EngineFacts ==
  ASSUME EngineTypeOK
  PROVE  /\ DOMAIN queue = Entity /\ DOMAIN worker = Entity
         /\ \A r \in Roles :
              /\ queue[r] \in Seq(RoleOps) /\ worker[r] \in RoleWork
              /\ worker[r].kind = "put" => worker[r].state \in Nat
         /\ \A c \in Channels : queue[c] \in Seq(ChannelOps) /\ worker[c] \in ChannelWork
BY DEF EngineTypeOK

LEMMA HeadsTyped ==
  ASSUME EngineTypeOK, NEW e \in Entity, queue[e] # <<>>
  PROVE  /\ e \in Roles => Head(queue[e]) \in RoleOps /\ Tail(queue[e]) \in Seq(RoleOps)
         /\ e \in Channels => Head(queue[e]) \in ChannelOps /\ Tail(queue[e]) \in Seq(ChannelOps)
BY EngineFacts

LEMMA SkipStep == ASSUME TInv, NEW e \in Entity, Skip(e) PROVE TInv'
<1>1. queue[e] # <<>> /\ queue' = [queue EXCEPT ![e] = Tail(@)] /\ UNCHANGED <<worker, waiters, woken>>
  BY DEF Skip, Ready, Took
<1>2. EngineTypeOK
  BY DEF TInv, ATypeOK
<1>3. EngineTypeOK'
  <2>1. CASE e \in Roles
    BY <1>1, <1>2, <2>1, EngineFacts, HeadsTyped, RoleStep
  <2>2. CASE e \in Channels
    BY <1>1, <1>2, <2>2, EngineFacts, HeadsTyped, ChannelStep
  <2> QED BY <2>1, <2>2, DistinctEntities
<1>4. ElevationSafe'  BY ElevationSame DEF Skip, TInv, remote, client
<1> QED BY <1>3, <1>4, DiscordSame, StoatSame, MainSame, RoleAtHandSame DEF Skip, TInv, ATypeOK

LEMMA WritePendingStep == ASSUME TInv, NEW e \in Entity, WritePending(e) PROVE TInv'
<1> DEFINE op == Head(queue[e])
<1>1. /\ queue[e] # <<>> /\ queue' = [queue EXCEPT ![e] = Tail(@)] /\ UNCHANGED <<waiters, woken>>
      /\ op.kind = "put"
      /\ rows' = [rows EXCEPT ![e] = PendingStructureRow(@, op.state)]
      /\ worker' = [worker EXCEPT ![e] =
                      [Idle EXCEPT !.pc = "apply", !.kind = "put", !.state = op.state,
                                   !.todo = IF e \in Channels THEN DOMAIN op.state ELSE {}]]
  BY DEF WritePending, Ready, Took, Step
<1>2. EngineTypeOK  BY DEF TInv, ATypeOK
<1>3. EngineTypeOK'
  <2>1. CASE e \in Roles
    <3>1. op.state \in Nat  BY <1>1, <1>2, <2>1, HeadsTyped, OpsTyped
    <3>2. worker'[e] = [Idle EXCEPT !.pc = "apply", !.kind = "put", !.state = op.state, !.todo = {}]
      BY <1>1, <1>2, <2>1, EngineFacts, DistinctEntities
    <3>3. worker'[e] \in RoleWork  BY <3>1, <3>2, RoleWorkTyped
    <3>4. worker'[e].state = op.state  BY <3>2 DEF Idle
    <3> QED BY <1>1, <1>2, <2>1, <3>1, <3>3, <3>4, EngineFacts, HeadsTyped, RoleStep
  <2>2. CASE e \in Channels
    <3>1. op.state \in ChannelStates  BY <1>1, <1>2, <2>2, HeadsTyped, OpsTyped
    <3>2. worker'[e] = [Idle EXCEPT !.pc = "apply", !.kind = "put", !.state = op.state,
                                    !.todo = DOMAIN op.state]
      BY <1>1, <1>2, <2>2, EngineFacts
    <3>3. worker'[e] \in ChannelWork  BY <3>1, <3>2, ChannelWorkTyped
    <3> QED BY <1>1, <1>2, <2>2, <3>3, EngineFacts, HeadsTyped, ChannelStep
  <2> QED BY <2>1, <2>2, DistinctEntities
<1>4. StoatTypeOK'
  BY <1>1, RowsTyped DEF WritePending, TInv, ATypeOK, StoatTypeOK, remote, client
<1>5. ElevationSafe'  BY ElevationSame DEF WritePending, TInv, remote, client
<1> QED BY <1>3, <1>4, <1>5, DiscordSame, MainSame, RoleAtHandSame DEF WritePending, TInv, ATypeOK

LEMMA BeginDeleteStep == ASSUME TInv, NEW r \in Roles, BeginDelete(r) PROVE TInv'
<1>1. /\ queue[r] # <<>> /\ queue' = [queue EXCEPT ![r] = Tail(@)] /\ UNCHANGED <<waiters, woken>>
      /\ worker' = [worker EXCEPT ![r] = [Idle EXCEPT !.pc = "apply", !.kind = "delete"]]
  BY DEF BeginDelete, Ready, Took, Step
<1>2. EngineTypeOK  BY DEF TInv, ATypeOK
<1>3. worker'[r] = [Idle EXCEPT !.pc = "apply", !.kind = "delete"]
  BY <1>1, <1>2, EngineFacts, DistinctEntities
<1>4. worker'[r] \in RoleWork /\ worker'[r].kind = "delete"
  BY <1>3, RoleWorkTyped DEF Idle
<1>5. EngineTypeOK'
  BY <1>1, <1>2, <1>4, EngineFacts, HeadsTyped, RoleStep, DistinctEntities
<1>6. ElevationSafe'  BY ElevationSame DEF BeginDelete, TInv, remote, client
<1> QED BY <1>5, <1>6, DiscordSame, StoatSame, MainSame, RoleAtHandSame DEF BeginDelete, TInv, ATypeOK

(* A worker goes on with a role.                                            *)
LEMMA RoleGoesOn ==
  ASSUME EngineTypeOK, NEW r \in Roles, NEW w \in RoleWork, Step(r, w), UNCHANGED <<queue, waiters, woken>>,
         w.kind = "put" => w.state \in Nat
  PROVE  EngineTypeOK'
BY EngineFacts, RoleStep, DistinctEntities DEF Step

LEMMA ChannelGoesOn ==
  ASSUME EngineTypeOK, NEW c \in Channels, NEW w \in ChannelWork, Step(c, w),
         UNCHANGED <<queue, waiters, woken>>
  PROVE  EngineTypeOK'
BY EngineFacts, ChannelStep, DistinctEntities DEF Step

LEMMA CreateRoleStep == ASSUME TInv, NEW r \in Roles, CreateRole(r) PROVE TInv'
<1> DEFINE w == [worker[r] EXCEPT !.pc = "rank", !.id = nextId]
<1>1. nextId \in Nat /\ worker[r] \in RoleWork /\ worker[r].kind = "put" /\ worker[r].state \in Nat
  BY EngineFacts DEF CreateRole, Applies, TInv, ATypeOK, StoatTypeOK
<1>2. w \in RoleWork /\ w.state \in Nat
  <2>1. w.state = worker[r].state  BY <1>1, RoleWorkFields
  <2> QED BY <1>1, <2>1, RoleWorkTyped
<1>3. EngineTypeOK'
  BY <1>2, RoleGoesOn DEF CreateRole, TInv, ATypeOK
<1>4. NewRole /\ Named(r) /\ UNCHANGED <<discord, rows, worn, over, client, main, faults>>
  BY DEF CreateRole, NewRole
<1>5. /\ Partial(ranks', 1..(nextId' - 1), Nat) /\ nextId' \in Nat \ {0}
      /\ DOMAIN ranks' \subseteq DOMAIN names' /\ ElevationSafe'
  BY <1>4, NewRoleFacts DEF TInv, ATypeOK, client
<1>6. StoatTypeOK'  BY <1>4, <1>5 DEF TInv, ATypeOK, StoatTypeOK, client
<1> QED BY <1>3, <1>4, <1>5, <1>6, DiscordSame, MainSame, RoleAtHandSame DEF TInv, ATypeOK

LEMMA EditRoleStep == ASSUME TInv, NEW r \in Roles, EditRole(r) PROVE TInv'
<1>1. PICK id \in DOMAIN ranks :
        /\ Edits(r, id) /\ Writable(id)
        /\ ranks' = [ranks EXCEPT ![id] = Rank(worker[r].state)]
        /\ Step(r, [worker[r] EXCEPT !.pc = "permit", !.id = id])
  BY DEF EditRole
<1> DEFINE w == [worker[r] EXCEPT !.pc = "permit", !.id = id]
<1>2. id \in Nat /\ worker[r] \in RoleWork /\ worker[r].state \in Nat
  BY <1>1, EngineFacts DEF Edits, Applies, RoleWork, TInv, ATypeOK, StoatTypeOK, Partial
<1>3. w \in RoleWork /\ w.state \in Nat
  <2>1. w.state = worker[r].state  BY <1>2, RoleWorkFields
  <2>2. w \in RoleWork  BY <1>2, RoleWorkTyped
  <2> QED BY <1>2, <2>1, <2>2
<1>4. EngineTypeOK'
  BY <1>1, <1>3, RoleGoesOn DEF EditRole, TInv, ATypeOK
<1>5. UNCHANGED <<discord, rows, worn, over, names, nextId, client, main, faults>>
  BY DEF EditRole
<1>6. /\ Partial(ranks', 1..(nextId' - 1), Nat) /\ DOMAIN ranks' \subseteq DOMAIN names'
      /\ ElevationSafe'
  BY <1>1, <1>2, <1>5, RankFacts DEF TInv, ATypeOK, client
<1>7. StoatTypeOK'
  BY <1>5, <1>6 DEF TInv, ATypeOK, StoatTypeOK, client
<1> QED BY <1>4, <1>5, <1>6, <1>7, DiscordSame, MainSame, RoleAtHandSame DEF TInv, ATypeOK

LEMMA DeleteStoatRoleStep == ASSUME TInv, NEW r \in Roles, DeleteStoatRole(r) PROVE TInv'
<1> DEFINE w == [worker[r] EXCEPT !.pc = "remove"]
<1>1. worker[r] \in RoleWork /\ worker[r].kind = "delete"
  BY EngineFacts DEF DeleteStoatRole, Applies, TInv, ATypeOK
<1>2. w \in RoleWork /\ w.kind = "delete"
  BY <1>1, RoleWorkTyped, RoleWorkFields
<1>3. EngineTypeOK'
  BY <1>2, RoleGoesOn DEF DeleteStoatRole, TInv, ATypeOK
<1>4. UNCHANGED <<discord, rows, names, nextId, client, main, faults>>
  BY DEF DeleteStoatRole
<1>5. StoatTypeOK' /\ ElevationSafe'
  <2>1. CASE UNCHANGED <<ranks, worn, over>>
    BY <2>1, <1>4, ElevationSame DEF TInv, ATypeOK, StoatTypeOK, client
  <2>2. CASE Writable(rows[r].id) /\ StoatDeletes(rows[r].id)
    BY <1>4, <2>2, DeletesFacts DEF TInv, ATypeOK
  <2> QED BY <2>1, <2>2 DEF DeleteStoatRole
<1> QED BY <1>3, <1>4, <1>5, DiscordSame, MainSame, RoleAtHandSame DEF TInv, ATypeOK

LEMMA RemoveStep == ASSUME TInv, NEW r \in Roles, Remove(r) PROVE TInv'
<1>1. Idle \in RoleWork /\ Idle.kind = "none"  BY IdleTyped DEF Idle
<1>2. EngineTypeOK'
  BY <1>1, RoleGoesOn DEF Remove, TInv, ATypeOK
<1>3. StoatTypeOK'
  BY RowsTyped DEF Remove, TInv, ATypeOK, StoatTypeOK, remote, client
<1>4. ElevationSafe'  BY ElevationSame DEF Remove, TInv, remote, client
<1> QED BY <1>2, <1>3, <1>4, DiscordSame, MainSame, RoleAtHandSame DEF Remove, TInv, ATypeOK

LEMMA OpFailsStep == ASSUME TInv, NEW e \in Entity, OpFails(e) PROVE TInv'
<1>1. Idle \in RoleWork /\ Idle \in ChannelWork /\ Idle.kind = "none"  BY IdleTyped DEF Idle
<1>2. EngineTypeOK'
  BY <1>1, RoleGoesOn, ChannelGoesOn, DistinctEntities DEF OpFails, TInv, ATypeOK
<1>3. MainTypeOK'
  BY DEF OpFails, TInv, ATypeOK, MainTypeOK, main, AdminRoles
<1>4. ElevationSafe'  BY ElevationSame DEF OpFails, TInv, remote, client
<1>5. RoleAtHand'  BY RoleAtHandSame DEF OpFails, TInv
<1> QED BY <1>2, <1>3, <1>4, <1>5, DiscordSame, StoatSame DEF OpFails, TInv, ATypeOK

LEMMA ConfirmStep == ASSUME TInv, NEW e \in Entity, Confirm(e) PROVE TInv'
<1>1. /\ rows' = [rows EXCEPT ![e] = ConfirmedRow(@, worker[e].id)]
      /\ UNCHANGED <<discord, remote, client, main, queue, waiters, woken, faults>>
      /\ e \in Roles => Step(e, [Idle EXCEPT !.pc = "notify"])
      /\ e \in Channels => Step(e, Idle)
  BY DistinctEntities DEF Confirm
<1>2. EngineTypeOK  BY DEF TInv, ATypeOK
<1>3. worker[e].id \in Nat
  BY <1>2, EngineFacts, DistinctEntities DEF RoleWork, ChannelWork
<1>4. StoatTypeOK'
  BY <1>1, <1>3, RowsTyped DEF TInv, ATypeOK, StoatTypeOK, remote, client
<1>5. EngineTypeOK'
  <2>1. CASE e \in Roles
    <3>1. [Idle EXCEPT !.pc = "notify"] \in RoleWork /\ [Idle EXCEPT !.pc = "notify"].kind = "none"
      BY RoleWorkTyped DEF Idle
    <3> QED BY <1>1, <1>2, <2>1, <3>1, RoleGoesOn
  <2>2. CASE e \in Channels  BY <1>1, <1>2, <2>2, IdleTyped, ChannelGoesOn
  <2> QED BY <2>1, <2>2, DistinctEntities
<1>6. ElevationSafe'  BY <1>1, ElevationSame DEF TInv, remote, client
<1> QED BY <1>1, <1>4, <1>5, <1>6, DiscordSame, MainSame, RoleAtHandSame DEF TInv, ATypeOK

(* The lists of ops that wait, by role and by channel.                      *)
ListsOK(lists) ==
  /\ DOMAIN lists = Entity
  /\ \A e \in Entity :
       /\ DOMAIN lists[e] = Entity
       /\ \A r \in Roles : lists[e][r] = <<>>
       /\ \A c \in Channels : lists[e][c] \in Seq(ChannelOps)

LEMMA ListsTyped == EngineTypeOK => ListsOK(waiters) /\ ListsOK(woken)
BY DEF EngineTypeOK, ListsOK

LEMMA ListsOKWith ==
  ASSUME NEW lists, ListsOK(lists), NEW r \in Entity, NEW c \in Channels, NEW ops \in Seq(ChannelOps)
  PROVE  ListsOK([lists EXCEPT ![r][c] = ops])
<1> DEFINE new == [lists EXCEPT ![r][c] = ops]
<1>1. new[r] = [lists[r] EXCEPT ![c] = ops]  BY DEF ListsOK
<1>2. DOMAIN new = Entity /\ \A x \in Entity \ {r} : new[x] = lists[x]  BY DEF ListsOK
<1>3. /\ DOMAIN new[r] = Entity
      /\ \A x \in Roles : new[r][x] = <<>>
      /\ \A x \in Channels : new[r][x] \in Seq(ChannelOps)
  BY <1>1, DistinctEntities DEF ListsOK
<1> HIDE DEF new
<1>4. ASSUME NEW x \in Entity
      PROVE  /\ DOMAIN new[x] = Entity
             /\ \A y \in Roles : new[x][y] = <<>>
             /\ \A y \in Channels : new[x][y] \in Seq(ChannelOps)
  <2>1. CASE x = r  BY <1>3, <2>1
  <2>2. CASE x # r  BY <1>2, <2>2 DEF ListsOK
  <2> QED BY <2>1, <2>2
<1>5. ListsOK(new)  BY <1>2, <1>4 DEF ListsOK
<1> QED BY <1>5 DEF new

(* Of the engine, a step that changes the lists.                            *)
LEMMA ListsStep ==
  ASSUME EngineTypeOK, ListsOK(waiters'), ListsOK(woken'), DOMAIN queue' = Entity, DOMAIN worker' = Entity,
         \A r \in Roles :
           /\ queue'[r] \in Seq(RoleOps) /\ worker'[r] \in RoleWork
           /\ worker'[r].kind = "put" => worker'[r].state \in Nat,
         \A c \in Channels : queue'[c] \in Seq(ChannelOps) /\ worker'[c] \in ChannelWork
  PROVE  EngineTypeOK'
BY DEF EngineTypeOK, ListsOK

(* A list goes from those that wait to those that are put back ...          *)
LEMMA TakeWaitersStep == ASSUME TInv, NEW r \in Roles, TakeWaiters(r) PROVE TInv'
<1>1. EngineTypeOK /\ r \in Entity  BY DistinctEntities DEF TInv, ATypeOK
<1>2. /\ woken' = [woken EXCEPT ![r] = waiters[r]] /\ waiters' = [waiters EXCEPT ![r] = NoOps]
      /\ worker' = [worker EXCEPT ![r] = IF waiters[r] = NoOps THEN Idle ELSE [Idle EXCEPT !.pc = "push"]]
      /\ UNCHANGED <<discord, rows, remote, client, main, queue, faults>>
  BY DEF TakeWaiters, Step
<1>3. ListsOK(woken')  BY <1>1, <1>2, ListsTyped DEF ListsOK
<1>4. ListsOK(waiters')
  <2>1. \A S : <<>> \in Seq(S)  OBVIOUS
  <2>2. DOMAIN NoOps = Entity /\ \A x \in Entity : NoOps[x] = <<>>  BY ProjectionsTyped
  <2>3. /\ \A x \in Roles : NoOps[x] = <<>>
        /\ \A x \in Channels : NoOps[x] \in Seq(ChannelOps)
    BY <2>1, <2>2, DistinctEntities
  <2> QED BY <1>1, <1>2, <2>2, <2>3, ListsTyped DEF ListsOK
<1>5. /\ Idle \in RoleWork /\ [Idle EXCEPT !.pc = "push"] \in RoleWork
      /\ Idle.kind = "none" /\ [Idle EXCEPT !.pc = "push"].kind = "none"
  BY IdleTyped, RoleWorkTyped DEF Idle
<1>6. \A x \in Roles :
        worker'[x] \in RoleWork /\ (worker'[x].kind = "put" => worker'[x].state \in Nat)
  BY <1>1, <1>2, <1>5, EngineFacts
<1>7. \A c \in Channels : worker'[c] = worker[c]  BY <1>1, <1>2, EngineFacts, DistinctEntities
<1>8. EngineTypeOK'
  BY <1>1, <1>2, <1>3, <1>4, <1>6, <1>7, EngineFacts, ListsStep
<1>9. ElevationSafe'  BY <1>2, ElevationSame DEF TInv, remote, client
<1> QED BY <1>2, <1>8, <1>9, DiscordSame, StoatSame, MainSame, RoleAtHandSame DEF TInv, ATypeOK

(* ... and from there, op by op, into the channels' queues.                 *)
LEMMA PushWaiterStep == ASSUME TInv, NEW r \in Roles, NEW c \in Channels, PushWaiter(r, c) PROVE TInv'
<1>1. EngineTypeOK /\ r \in Entity /\ c \in Entity  BY DistinctEntities DEF TInv, ATypeOK
<1>2. PICK ops \in Seq(ChannelOps) : ops = woken[r][c]  BY <1>1, ListsTyped DEF ListsOK
<1>3. PICK line \in Seq(ChannelOps) : line = queue[c]  BY <1>1, EngineFacts
<1>4. /\ ops # <<>> /\ queue' = [queue EXCEPT ![c] = Append(line, Head(ops))]
      /\ woken' = [woken EXCEPT ![r][c] = Tail(ops)]
      /\ worker' = [worker EXCEPT ![r] = IF woken'[r] = NoOps THEN Idle ELSE worker[r]]
      /\ UNCHANGED <<discord, rows, remote, client, main, waiters, faults>>
  BY <1>2, <1>3 DEF PushWaiter, Step
<1>5. Head(ops) \in ChannelOps /\ Tail(ops) \in Seq(ChannelOps)  BY <1>2, <1>4
<1>6. ListsOK(woken') /\ ListsOK(waiters')  BY <1>1, <1>4, <1>5, ListsTyped, ListsOKWith
<1>7. Append(line, Head(ops)) \in Seq(ChannelOps)  BY <1>3, <1>5
<1>8. \A x \in Roles :
        worker'[x] \in RoleWork /\ (worker'[x].kind = "put" => worker'[x].state \in Nat)
  <2>1. Idle \in RoleWork /\ Idle.kind = "none"  BY IdleTyped DEF Idle
  <2> QED BY <1>1, <1>4, <2>1, EngineFacts
<1>9. \A x \in Channels : worker'[x] = worker[x] /\ queue'[x] \in Seq(ChannelOps)
  BY <1>1, <1>4, <1>7, EngineFacts, DistinctEntities
<1>10. \A x \in Roles : queue'[x] = queue[x]  BY <1>1, <1>4, EngineFacts, DistinctEntities
<1>11. EngineTypeOK'
  BY <1>1, <1>4, <1>6, <1>8, <1>9, <1>10, EngineFacts, ListsStep
<1>12. ElevationSafe'  BY <1>4, ElevationSame DEF TInv, remote, client
<1> QED BY <1>4, <1>11, <1>12, DiscordSame, StoatSame, MainSame, RoleAtHandSame DEF TInv, ATypeOK

LEMMA MissRoleStep == ASSUME TInv, NEW c \in Channels, MissRole(c) PROVE TInv'
<1> DEFINE op == Head(queue[c])
<1>1. /\ queue[c] # <<>> /\ queue' = [queue EXCEPT ![c] = Tail(@)]
      /\ UNCHANGED <<discord, rows, remote, client, main, waiters, woken, faults>>
  BY DEF MissRole, Ready, Took
<1>2. PICK r \in Unmet(op) :
        worker' = [worker EXCEPT ![c] = [Idle EXCEPT !.pc = "defer", !.state = op.state, !.todo = {r}]]
  BY DEF MissRole, Step
<1>3. EngineTypeOK /\ c \in Entity  BY DistinctEntities DEF TInv, ATypeOK
<1>4. op.state \in ChannelStates  BY <1>1, <1>3, HeadsTyped, OpsTyped
<1>5. r \in DOMAIN op.state  BY <1>2 DEF Unmet
<1>6. worker'[c] \in ChannelWork
  <2>1. worker'[c] = [Idle EXCEPT !.pc = "defer", !.state = op.state, !.todo = {r}]
    BY <1>2, <1>3, EngineFacts
  <2> HIDE DEF op
  <2> QED BY <1>4, <1>5, <2>1, ChannelWorkTyped
<1>7. EngineTypeOK'
  BY <1>1, <1>2, <1>3, <1>6, EngineFacts, HeadsTyped, ChannelStep
<1>8. ElevationSafe'  BY <1>1, ElevationSame DEF TInv, remote, client
<1> QED BY <1>1, <1>7, <1>8, DiscordSame, StoatSame, MainSame, RoleAtHandSame DEF TInv, ATypeOK

LEMMA DeferStep == ASSUME TInv, NEW c \in Channels, Defer(c) PROVE TInv'
<1>1. PICK r \in worker[c].todo :
        waiters' = [waiters EXCEPT ![r][c] = Append(@, Put(worker[c].state))]
  BY DEF Defer
<1>2. Step(c, Idle) /\ UNCHANGED <<discord, rows, remote, client, main, queue, woken, faults>>
  BY DEF Defer
<1>3. EngineTypeOK /\ c \in Entity  BY DistinctEntities DEF TInv, ATypeOK
<1>4. worker[c].state \in ChannelStates /\ r \in DOMAIN worker[c].state
  BY <1>1, <1>3, EngineFacts DEF Defer, ChannelWork
<1>5. r \in Entity  BY <1>4, ChannelState, DistinctEntities DEF Partial
<1>6. waiters[r][c] \in Seq(ChannelOps)  BY <1>3, <1>5, ListsTyped DEF ListsOK
<1>7. Append(waiters[r][c], Put(worker[c].state)) \in Seq(ChannelOps)
  BY <1>4, <1>6, OpsTyped
<1>8. ListsOK(waiters') /\ ListsOK(woken')
  <2>1. waiters' = [waiters EXCEPT ![r][c] = Append(waiters[r][c], Put(worker[c].state))]  BY <1>1
  <2> QED BY <1>2, <1>3, <1>5, <1>7, <2>1, ListsTyped, ListsOKWith
<1>9. \A x \in Channels : worker'[x] \in ChannelWork
  BY <1>2, <1>3, EngineFacts, IdleTyped DEF Step
<1>10. \A x \in Roles : worker'[x] = worker[x]
  BY <1>2, <1>3, EngineFacts, DistinctEntities DEF Step
<1>11. EngineTypeOK'
  <2>1. DOMAIN worker' = Entity /\ queue' = queue  BY <1>2, <1>3, EngineFacts DEF Step
  <2> QED BY <1>3, <1>8, <1>9, <1>10, <2>1, EngineFacts, ListsStep
<1>12. ElevationSafe'  BY <1>2, ElevationSame DEF TInv, remote, client
<1> QED BY <1>2, <1>11, <1>12, DiscordSame, StoatSame, MainSame, RoleAtHandSame DEF TInv, ATypeOK

LEMMA ToStoatTyped == ASSUME NEW ow \in Overwrite PROVE ToStoat(ow) \in Overwrite
BY DEF ToStoat, Overwrite

LEMMA ResolveRoleStep == ASSUME TInv, NEW c \in Channels, NEW r \in Roles, ResolveRole(c, r) PROVE TInv'
<1> DEFINE sets == {[target |-> t, ow |-> ToStoat(worker[c].state[r])] : t \in Resolved(r)}
           w    == [worker[c] EXCEPT !.todo = @ \ {r}, !.sets = @ \cup sets]
<1>1. Resolved(r) \subseteq Nat
  <2>1. rows[r].id \in Nat  BY DistinctEntities DEF TInv, ATypeOK, StoatTypeOK, IsRow
  <2> QED BY <2>1 DEF Resolved, Default, NoId
<1>2. ToStoat(worker[c].state[r]) \in Overwrite
  <2>1. worker[c].state \in ChannelStates /\ r \in DOMAIN worker[c].state
    BY EngineFacts DEF ResolveRole, Applies, TInv, ATypeOK, ChannelWork
  <2> QED BY <2>1, ToStoatTyped, ChannelState DEF Partial
<1>3. sets \in SUBSET [target : Nat, ow : Overwrite]  BY <1>1, <1>2
<1>4. w \in ChannelWork
  <2>1. worker[c] \in ChannelWork  BY EngineFacts DEF TInv, ATypeOK
  <2> HIDE DEF sets
  <2> QED BY <1>3, <2>1, ChannelWorkTyped
<1>5. EngineTypeOK'
  BY <1>4, ChannelGoesOn DEF ResolveRole, TInv, ATypeOK
<1>6. ElevationSafe'  BY ElevationSame DEF ResolveRole, TInv, remote, client
<1> QED BY <1>5, <1>6, DiscordSame, StoatSame, MainSame, RoleAtHandSame DEF ResolveRole, TInv, ATypeOK

(* A write to a channel goes on to the grants.                              *)
LEMMA GrantingStep ==
  ASSUME TInv, NEW c \in Channels, NEW id \in Nat, Granting(c, id), UNCHANGED <<queue, waiters, woken>>
  PROVE  EngineTypeOK'
<1> DEFINE w == [worker[c] EXCEPT !.pc = "grant", !.todo = adminRoles, !.id = id]
<1>1. worker[c] \in ChannelWork /\ adminRoles \in SUBSET Nat
  BY EngineFacts DEF TInv, ATypeOK, StoatTypeOK
<1>2. w \in ChannelWork  BY <1>1, ChannelWorkTyped
<1>3. Step(c, w)  BY DEF Granting
<1> QED BY <1>2, <1>3, ChannelGoesOn DEF TInv, ATypeOK

LEMMA CreateChannelStep == ASSUME TInv, NEW c \in Channels, CreateChannel(c) PROVE TInv'
<1>1. /\ Granting(c, nextId) /\ NewChannel /\ Named(c)
      /\ UNCHANGED <<discord, rows, ranks, worn, client, main, queue, waiters, woken, faults>>
  BY DEF CreateChannel, NewChannel
<1>2. nextId \in Nat  BY DEF TInv, ATypeOK, StoatTypeOK
<1>3. EngineTypeOK'  BY <1>1, <1>2, GrantingStep
<1>4. StoatTypeOK'
  <2>1. DOMAIN over' = DOMAIN over \cup {nextId} /\ DOMAIN names \subseteq DOMAIN names' /\ nextId' = nextId + 1
    BY <1>1 DEF NewChannel, Named, With
  <2> QED BY <1>1, <1>2, <2>1 DEF TInv, ATypeOK, StoatTypeOK, client, Partial
<1>5. ElevationSafe'  BY <1>1, ElevationSame DEF TInv, client
<1> QED BY <1>1, <1>3, <1>4, <1>5, DiscordSame, MainSame, RoleAtHandSame DEF TInv, ATypeOK

LEMMA EditChannelStep == ASSUME TInv, NEW c \in Channels, EditChannel(c) PROVE TInv'
<1>1. /\ Granting(c, rows[c].id)
      /\ UNCHANGED <<discord, rows, remote, client, main, queue, waiters, woken, faults>>
  BY DEF EditChannel
<1>2. rows[c].id \in Nat  BY DistinctEntities DEF TInv, ATypeOK, StoatTypeOK, IsRow
<1>3. EngineTypeOK'  BY <1>1, <1>2, GrantingStep
<1>4. ElevationSafe'  BY <1>1, ElevationSame DEF TInv, remote, client
<1> QED BY <1>1, <1>3, <1>4, DiscordSame, StoatSame, MainSame, RoleAtHandSame DEF TInv, ATypeOK

(* An override set changes neither the roles nor who wears them.            *)
LEMMA OverrideStep ==
  ASSUME TInv, NEW c \in Channels, NEW w \in ChannelWork, Step(c, w),
         UNCHANGED <<discord, rows, ranks, worn, names, nextId, client, main, queue, waiters, woken, faults>>,
         DOMAIN over' = DOMAIN over
  PROVE  TInv'
<1>1. EngineTypeOK'  BY ChannelGoesOn DEF TInv, ATypeOK
<1>2. StoatTypeOK'  BY DEF TInv, ATypeOK, StoatTypeOK, client
<1>3. ElevationSafe'  BY ElevationSame DEF TInv, client
<1> QED BY <1>1, <1>2, <1>3, DiscordSame, MainSame, RoleAtHandSame DEF TInv, ATypeOK

LEMMA GrantStep == ASSUME TInv, NEW c \in Channels, Grant(c) PROVE TInv'
<1>1. worker[c] \in ChannelWork  BY EngineFacts DEF TInv, ATypeOK
<1>2. PICK t \in worker[c].todo : Step(c, [worker[c] EXCEPT !.todo = @ \ {t}])
  BY DEF Grant
<1>3. [worker[c] EXCEPT !.todo = @ \ {t}] \in ChannelWork  BY <1>1, ChannelWorkTyped
<1> QED BY <1>2, <1>3, OverrideStep DEF Grant, SetPermissions

LEMMA SetOverwriteStep == ASSUME TInv, NEW c \in Channels, SetOverwrite(c) PROVE TInv'
<1>1. worker[c] \in ChannelWork  BY EngineFacts DEF TInv, ATypeOK
<1>2. PICK s \in worker[c].sets : Step(c, [worker[c] EXCEPT !.sets = @ \ {s}])
  BY DEF SetOverwrite
<1>3. [worker[c] EXCEPT !.sets = @ \ {s}] \in ChannelWork  BY <1>1, ChannelWorkTyped
<1> QED BY <1>2, <1>3, OverrideStep DEF SetOverwrite, SetPermissions

-----------------------------------------------------------------------------
LEMMA MainStep == ASSUME TInv, Main PROVE TInv'
<1>1. CASE Connect \/ StartupFails \/ RefuseToStart \/ Interrupted \/ Drained \/ GiveUp
  BY <1>1, StartupSteps
<1>2. CASE ResolveElevationRole \/ ReadStructure  BY <1>2, ResolveStep, ReadStep
<1>3. CASE \E r \in Privileged : SkipAdminRole(r) \/ CreateAdminRole(r)
  BY <1>3, SkipAdminStep, CreateAdminStep
<1>4. CASE RankAdminRole \/ EnterAdminRole \/ ConfirmAdminRole \/ WearAdminRole
  BY <1>4, RankAdminStep, EnterAdminStep, ConfirmAdminStep, WearStep
<1>5. CASE ReadServer \/ BindChannels \/ BindRoles \/ \E id \in boot.todo : ReapChannel(id) \/ ReapRole(id)
  BY <1>5, ReadServerStep, BindChannelsStep, BindRolesStep, ReapChannelStep, ReapRoleStep
<1>6. CASE ReconcileLive \/ ConvergeAll  BY <1>6, ReconcileLiveStep, ConvergeStep
<1> QED BY <1>1, <1>2, <1>3, <1>4, <1>5, <1>6 DEF Main

LEMMA HappensStep == ASSUME TInv, Happens PROVE TInv'
BY SignalStep, ChangeChannelStep, ChangeRoleStep, DeleteRoleStep DEF Happens

LEMMA WorkStep == ASSUME TInv, NEW e \in Entity, Work(e) PROVE TInv'
<1>1. CASE Skip(e) \/ WritePending(e) \/ Confirm(e)
  BY <1>1, SkipStep, WritePendingStep, ConfirmStep
<1>2. CASE e \in Roles /\ (BeginDelete(e) \/ CreateRole(e) \/ EditRole(e) \/ DeleteStoatRole(e)
                           \/ Remove(e) \/ TakeWaiters(e))
  BY <1>2, BeginDeleteStep, CreateRoleStep, EditRoleStep, DeleteStoatRoleStep, RemoveStep, TakeWaitersStep
<1>3. CASE e \in Roles /\ \E c \in Channels : PushWaiter(e, c)  BY <1>3, PushWaiterStep
<1>4. CASE e \in Channels /\ (MissRole(e) \/ Defer(e) \/ CreateChannel(e) \/ EditChannel(e)
                              \/ Grant(e) \/ SetOverwrite(e))
  BY <1>4, MissRoleStep, DeferStep, CreateChannelStep, EditChannelStep, GrantStep, SetOverwriteStep
<1>5. CASE e \in Channels /\ \E r \in Roles : ResolveRole(e, r)  BY <1>5, ResolveRoleStep
<1> QED BY <1>1, <1>2, <1>3, <1>4, <1>5 DEF Work

LEMMA NextTInv == ASSUME TInv, [Next]_vars PROVE TInv'
<1>1. CASE UNCHANGED avars
  <2>1. UNCHANGED <<discord, rows, remote, client, main, engine, faults>>
    BY <1>1 DEF avars
  <2>2. UNCHANGED <<ranks, worn, elevation>>  BY <2>1 DEF remote, client
  <2> QED BY <2>1, <2>2, DiscordSame, StoatSame, MainSame, RoleAtHandSame, EngineSame, ElevationSame DEF TInv, ATypeOK
<1>2. CASE RunMain  BY <1>2, MainStep DEF RunMain
<1>3. CASE DiscordOrUser  BY <1>3, HappensStep DEF DiscordOrUser
<1>4. CASE \E e \in Entity : RunOp(e)  BY <1>4, WorkStep, OpFailsStep DEF RunOp
<1>5. CASE Deploying \/ \E p \in Procs : OpenStore(p) \/ Refusal(p) \/ Leave(p)
  BY <1>1, <1>5 DEF Deploying, OpenStore, Refusal, Leave
<1> QED BY <1>1, <1>2, <1>3, <1>4, <1>5 DEF Next, vars

(* Every variable of the mirror has its type: ids are numbers below the     *)
(* next one, queues hold ops of their entity, workers are where they can be.*)
THEOREM TypeIsKept == Spec => []ATypeOK
<1>1. Init => TInv  BY InitTInv DEF Init
<1>2. TInv /\ [Next]_vars => TInv'  BY NextTInv
<1>3. TInv => ATypeOK  BY DEF TInv
<1> QED BY <1>1, <1>2, <1>3, PTL DEF Spec

(* Once main has found the role that gives the bot its power, no op and no  *)
(* step of a startup takes it from the bot, moves it from rank 0 or puts a  *)
(* second role there, whatever order Discord's events come in, before       *)
(* startup is over or after it (ResolveElevationRole, CreateRole, EditRole  *)
(* and DeleteRole of the Stoat client).                                     *)
THEOREM ElevationIsSafe == Spec => []ElevationSafe
<1>1. Init => TInv  BY InitTInv DEF Init
<1>2. TInv /\ [Next]_vars => TInv'  BY NextTInv
<1>3. TInv => ElevationSafe  BY DEF TInv
<1> QED BY <1>1, <1>2, <1>3, PTL DEF Spec

-----------------------------------------------------------------------------
(* What everyone may see: no id that a channel's worker looks up for a role *)
(* is the empty one.                                                        *)
EngineOff == queue = NoOps /\ worker = NoWork /\ waiters = NobodyWaits /\ woken = NobodyWaits

(* Startup has the engine to itself, and mirrors every administrators' role. *)
StartupAlone ==
  /\ ~At("up") => EngineOff
  /\ boot.pc \notin {"up", "ended"} => gone = {}
  /\ NoId \notin adminRoles \cup boot.roles
  /\ boot.pc \in {"admin", "rank", "permit", "confirm"} => \A r \in AdminRoles \ boot.todo : rows[r].id # NoId
  /\ boot.pc \in {"rank", "permit", "confirm"} => boot.id # NoId
  /\ At("confirm") => Found(rows[boot.role])

Deletes(ops) == ops # <<>> /\ Head(ops).kind = "delete"

(* A role's delete is the last of its ops, and of a role that is gone; a row *)
(* that has been active has an id, until it is removed.                     *)
RoleOrderly(r) ==
  /\ Len(queue[r]) <= 1
  /\ r \in gone => r \notin DOMAIN position /\ (queue[r] = <<>> \/ Deletes(queue[r]))
  /\ Deletes(queue[r]) => r \in gone
  /\ worker[r].kind = "delete" => r \in gone /\ queue[r] = <<>>
  /\ worker[r].pc = "remove" => worker[r].kind = "delete"
  /\ Active(rows[r]) => rows[r].id # NoId
  /\ worker[r].pc \in {"rank", "permit"} => worker[r].id # NoId

(* A role has an id, or no row for good.                                    *)
Buried(r) == ~Found(rows[r]) /\ r \in gone /\ queue[r] = <<>> /\ worker[r] = Idle
Known(r)  == rows[r].id # NoId \/ Buried(r)

Own == {ToStoat(ow) : ow \in MayGive[Everyone]}

(* So is what a channel's worker will look up, and what it has looked up.   *)
ChannelFair(c) ==
  /\ worker[c].pc = "apply" => \A r \in worker[c].todo \ {Everyone} : Known(r)
  /\ \A s \in worker[c].sets : s.target = Default => s.ow \in Own
  /\ worker[c].pc = "grant" => NoId \notin worker[c].todo

Fair ==
  /\ StartupAlone /\ EveryoneKeepsOwn
  /\ \A r \in Roles : RoleOrderly(r)
  /\ \A c \in Channels : ChannelFair(c)

IInv == TInv /\ Fair

LEMMA IdleFields ==
  /\ Idle.kind = "none" /\ Idle.pc = "idle" /\ Idle.sets = {} /\ Idle.todo = {}
  /\ ~Deletes(<<>>)
BY DEF Idle, Deletes

(* An engine that is off is fair.                                           *)
LEMMA OffIsFair ==
  ASSUME EngineOff', StartupAlone', EveryoneKeepsOwn', UNCHANGED <<gone, position>>,
         \A r \in Roles : RoleOrderly(r), \A r \in Roles : Active(rows'[r]) => rows'[r].id # NoId
  PROVE  Fair'
<1>1. \A e \in Entity : queue'[e] = <<>> /\ worker'[e] = Idle
  BY ProjectionsTyped DEF EngineOff
<1>2. ASSUME NEW r \in Roles PROVE RoleOrderly(r)'
  BY <1>1, <1>2, IdleFields, DistinctEntities DEF RoleOrderly
<1>3. ASSUME NEW c \in Channels PROVE ChannelFair(c)'
  BY <1>1, <1>3, IdleFields, DistinctEntities DEF ChannelFair
<1> QED BY <1>2, <1>3 DEF Fair

LEMMA InitFair == ASSUME AInit PROVE IInv
<1>1. PICK w \in Worlds : rows = w.rows /\ over = w.over  BY DEF AInit
<1>2. TInv  BY InitTInv
<1>3. StartupAlone  BY DEF AInit, StartupAlone, EngineOff, At, Down, NoId
<1>4. EveryoneKeepsOwn
  BY <1>1, WorldsAssumption DEF EveryoneKeepsOwn, Default
<1>5. \A e \in Entity : queue[e] = <<>> /\ worker[e] = Idle
  BY ProjectionsTyped DEF AInit
<1>6. ASSUME NEW r \in Roles PROVE RoleOrderly(r)
  <2>1. Active(rows[r]) => rows[r].id # NoId  BY <1>1, WorldsAssumption
  <2>2. gone = {}  BY DEF AInit
  <2> QED BY <1>5, <2>1, <2>2, IdleFields, DistinctEntities DEF RoleOrderly
<1>7. ASSUME NEW c \in Channels PROVE ChannelFair(c)
  BY <1>5, IdleFields, DistinctEntities DEF ChannelFair
<1> QED BY <1>2, <1>3, <1>4, <1>6, <1>7 DEF IInv, Fair

-----------------------------------------------------------------------------
(* Startup.                                                                 *)
LEMMA ExitFair ==
  ASSUME Fair, Exits, UNCHANGED <<discord, rows, over, client>>
  PROVE  Fair'
<1>1. EngineOff'  BY DEF Exits, EngineOff
<1>2. boot'.pc = "ended" /\ boot'.roles = {} /\ UNCHANGED <<gone, position, rows, over, adminRoles>>
  BY DEF Exits, Down, discord, client
<1>3. StartupAlone'  BY <1>1, <1>2 DEF Fair, StartupAlone, At
<1>4. EveryoneKeepsOwn'  BY <1>2 DEF Fair, EveryoneKeepsOwn
<1>5. \A r \in Roles : Active(rows'[r]) => rows'[r].id # NoId  BY <1>2 DEF Fair, RoleOrderly
<1> QED BY <1>1, <1>2, <1>3, <1>4, <1>5, OffIsFair DEF Fair

LEMMA StartupFair ==
  ASSUME Fair, ~At("up"), ~At("ended"), UNCHANGED <<discord, engine>>, EveryoneKeepsOwn',
         boot'.pc \notin {"up", "ended"},
         boot'.pc \in {"admin", "rank", "permit", "confirm"} =>
           \A r \in AdminRoles' \ boot'.todo : rows'[r].id # NoId,
         boot'.pc \in {"rank", "permit", "confirm"} => boot'.id # NoId,
         boot'.pc = "confirm" => Found(rows'[boot'.role]),
         NoId \notin adminRoles', NoId \notin boot'.roles,
         \A r \in Roles : Active(rows'[r]) => rows'[r].id # NoId
  PROVE  Fair'
<1>1. EngineOff'  BY DEF Fair, StartupAlone, EngineOff, engine
<1>2. UNCHANGED <<gone, position>>  BY DEF discord
<1>3. StartupAlone'  BY <1>1, <1>2 DEF Fair, StartupAlone, At
<1> QED BY <1>1, <1>2, <1>3, OffIsFair DEF Fair

LEMMA OwnSame == ASSUME EveryoneKeepsOwn, UNCHANGED over PROVE EveryoneKeepsOwn'
BY DEF EveryoneKeepsOwn

LEMMA ExitsFair ==
  ASSUME Fair, StartupFails \/ RefuseToStart \/ Interrupted \/ Drained \/ GiveUp
  PROVE  Fair'
<1>1. Exits /\ UNCHANGED <<discord, rows, over, client>>
  BY DEF StartupFails, RefuseToStart, Interrupted, Drained, GiveUp, remote
<1> QED BY <1>1, ExitFair

LEMMA ConnectFair == ASSUME TInv, Fair, Connect \/ ResolveElevationRole PROVE Fair'
<1>1. /\ boot.pc \in {"down", "connected"} /\ boot'.pc \in {"connected", "elevated"}
      /\ boot'.roles = boot.roles
      /\ UNCHANGED <<discord, rows, over, adminRoles, engine>>
  BY BootTyped DEF Connect, ResolveElevationRole, At, GoTo, client, remote, TInv, ATypeOK
<1>2. \A r \in Roles : Active(rows'[r]) => rows'[r].id # NoId  BY <1>1 DEF Fair, RoleOrderly
<1>3. EveryoneKeepsOwn'  BY <1>1, OwnSame DEF Fair
<1> QED BY <1>1, <1>2, <1>3, StartupFair DEF Fair, StartupAlone, At

LEMMA ReadFair == ASSUME TInv, Fair, ReadStructure PROVE Fair'
<1>1. CASE Exits  BY <1>1, ExitFair DEF ReadStructure, remote
<1>2. CASE ~Exits
  <2>1. /\ At("elevated") /\ UNCHANGED <<discord, rows, over, adminRoles, engine>>
        /\ boot' = [boot EXCEPT !.pc = "admin", !.todo = Privileged \cap DOMAIN position,
                                !.position = position, !.guild = guild]
    BY <1>2 DEF ReadStructure, client, remote
  <2>2. /\ boot'.pc = "admin" /\ boot'.roles = boot.roles
        /\ boot'.position = position /\ boot'.todo = Privileged \cap DOMAIN position
    BY <2>1 DEF TInv, ATypeOK, MainTypeOK
  <2>3. AdminRoles' \ boot'.todo = {}  BY <2>2 DEF AdminRoles
  <2>4. \A r \in Roles : Active(rows'[r]) => rows'[r].id # NoId  BY <2>1 DEF Fair, RoleOrderly
  <2>5. EveryoneKeepsOwn'  BY <2>1, OwnSame DEF Fair
  <2> QED BY <2>1, <2>2, <2>3, <2>4, <2>5, StartupFair DEF Fair, StartupAlone, At
<1> QED BY <1>1, <1>2

(* The steps that mirror an administrators' role.                           *)
LEMMA AdminRowsFair ==
  ASSUME TInv, Fair, boot.pc \in {"admin", "rank", "permit", "confirm"},
         boot'.pc \in {"admin", "rank", "permit", "confirm"},
         boot'.position = boot.position, boot'.roles = boot.roles,
         boot'.pc \in {"rank", "permit", "confirm"} => boot'.id # NoId,
         boot'.pc = "confirm" => Found(rows'[boot'.role]),
         UNCHANGED <<discord, over, adminRoles, engine>>,
         \A r \in AdminRoles \ boot'.todo : rows'[r].id # NoId,
         \A r \in Roles : Active(rows'[r]) => rows'[r].id # NoId
  PROVE  Fair'
<1>1. AdminRoles' = AdminRoles  BY DEF AdminRoles
<1>2. EveryoneKeepsOwn'  BY OwnSame DEF Fair
<1> QED BY <1>1, <1>2, StartupFair DEF Fair, StartupAlone, At

LEMMA SkipAdminFair == ASSUME TInv, Fair, NEW r \in Privileged, SkipAdminRole(r) PROVE Fair'
<1>1. /\ boot.pc = "admin" /\ boot' = [boot EXCEPT !.todo = boot.todo \ {r}] /\ rows[r].id # NoId
      /\ UNCHANGED <<discord, rows, over, adminRoles, engine>>
  BY DEF SkipAdminRole, At, Mapped, client, remote
<1>2. /\ boot'.pc = "admin" /\ boot'.todo = boot.todo \ {r} /\ boot'.position = boot.position
      /\ boot'.roles = boot.roles /\ boot'.id = boot.id
  BY <1>1 DEF TInv, ATypeOK, MainTypeOK
<1>3. \A x \in AdminRoles \ boot'.todo : rows'[x].id # NoId
  BY <1>1, <1>2 DEF Fair, StartupAlone
<1>4. \A x \in Roles : Active(rows'[x]) => rows'[x].id # NoId  BY <1>1 DEF Fair, RoleOrderly
<1> QED BY <1>1, <1>2, <1>3, <1>4, AdminRowsFair

LEMMA CreateAdminFair == ASSUME TInv, Fair, NEW r \in Privileged, CreateAdminRole(r) PROVE Fair'
<1>1. /\ boot.pc = "admin" /\ boot' = [boot EXCEPT !.pc = "rank", !.role = r, !.id = nextId]
      /\ UNCHANGED <<discord, rows, over, adminRoles, engine>>
  BY DEF CreateAdminRole, NewRole, At, client
<1>2. nextId # NoId  BY DEF TInv, ATypeOK, StoatTypeOK, NoId
<1>3. /\ boot'.pc = "rank" /\ boot'.todo = boot.todo /\ boot'.position = boot.position
      /\ boot'.roles = boot.roles /\ boot'.id = nextId
  BY <1>1, BootTyped DEF TInv, ATypeOK
<1>4. \A x \in AdminRoles \ boot'.todo : rows'[x].id # NoId
  BY <1>1, <1>3 DEF Fair, StartupAlone
<1>5. \A x \in Roles : Active(rows'[x]) => rows'[x].id # NoId  BY <1>1 DEF Fair, RoleOrderly
<1> QED BY <1>1, <1>2, <1>3, <1>4, <1>5, AdminRowsFair

LEMMA RankAdminFair == ASSUME TInv, Fair, RankAdminRole PROVE Fair'
<1>1. /\ boot.pc = "rank" /\ boot' = [boot EXCEPT !.pc = "permit"]
      /\ UNCHANGED <<discord, rows, over, adminRoles, engine>>
  BY DEF RankAdminRole, GoTo, At, client
<1>2. /\ boot'.pc = "permit" /\ boot'.todo = boot.todo /\ boot'.position = boot.position
      /\ boot'.roles = boot.roles /\ boot'.id = boot.id
  BY <1>1, BootTyped DEF TInv, ATypeOK
<1>3. \A x \in AdminRoles \ boot'.todo : rows'[x].id # NoId
  BY <1>1, <1>2 DEF Fair, StartupAlone
<1>4. \A x \in Roles : Active(rows'[x]) => rows'[x].id # NoId  BY <1>1 DEF Fair, RoleOrderly
<1>5. boot.id # NoId  BY <1>1 DEF Fair, StartupAlone
<1> QED BY <1>1, <1>2, <1>3, <1>4, <1>5, AdminRowsFair

(* An entry of an administrators' role into the table.                      *)
LEMMA AdminRow ==
  ASSUME TInv, NEW r \in AdminRoles, NEW row, rows' = [rows EXCEPT ![r] = row]
  PROVE  r \in Roles /\ rows'[r] = row /\ \A x \in Roles \ {r} : rows'[x] = rows[x]
BY AccessAssumption, DistinctEntities DEF TInv, ATypeOK, StoatTypeOK, AdminRoles

LEMMA EnterAdminFair == ASSUME TInv, Fair, EnterAdminRole PROVE Fair'
<1>1. /\ boot.pc = "permit" /\ boot' = [boot EXCEPT !.pc = "confirm"]
      /\ UNCHANGED <<discord, over, adminRoles, engine>>
  BY DEF EnterAdminRole, GoTo, At, client, remote
<1>2. /\ boot'.pc = "confirm" /\ boot'.todo = boot.todo /\ boot'.position = boot.position
      /\ boot'.roles = boot.roles /\ boot'.id = boot.id /\ boot'.role = boot.role
  BY <1>1, BootTyped DEF TInv, ATypeOK
<1>3. PICK r \in AdminRoles : r = boot.role  BY <1>1 DEF TInv, RoleAtHand
<1>4. PICK row : row = PendingStructureRow(rows[r], boot.position[boot.role])  OBVIOUS
<1>5. rows' = [rows EXCEPT ![r] = row]  BY <1>3, <1>4 DEF EnterAdminRole
<1>6. r \in Roles /\ rows'[r] = row /\ \A x \in Roles \ {r} : rows'[x] = rows[x]
  BY <1>5, AdminRow
<1>7. row.id = rows[r].id /\ ~Active(row) /\ Found(row)  BY <1>4 DEF PendingStructureRow, Active, Found
<1>8. AdminRoles \subseteq Roles  BY AccessAssumption DEF AdminRoles
<1>9. \A x \in AdminRoles \ boot'.todo : rows'[x].id # NoId
  BY <1>1, <1>2, <1>6, <1>7, <1>8 DEF Fair, StartupAlone
<1>10. \A x \in Roles : Active(rows'[x]) => rows'[x].id # NoId  BY <1>6, <1>7 DEF Fair, RoleOrderly
<1>11. boot.id # NoId  BY <1>1 DEF Fair, StartupAlone
<1>12. Found(rows'[boot'.role])  BY <1>2, <1>3, <1>6, <1>7
<1> QED BY <1>1, <1>2, <1>9, <1>10, <1>11, <1>12, AdminRowsFair

LEMMA ConfirmAdminFair == ASSUME TInv, Fair, ConfirmAdminRole PROVE Fair'
<1>1. /\ boot.pc = "confirm" /\ UNCHANGED <<discord, over, adminRoles, engine>>
      /\ boot' = [boot EXCEPT !.pc = "admin", !.todo = boot.todo \ {boot.role}, !.role = Null, !.id = NoId]
  BY DEF ConfirmAdminRole, At, client, remote
<1>2. PICK r \in AdminRoles : r = boot.role  BY <1>1 DEF TInv, RoleAtHand
<1>3. /\ boot'.pc = "admin" /\ boot'.todo = boot.todo \ {r} /\ boot'.position = boot.position
      /\ boot'.roles = boot.roles /\ boot'.id = NoId
  BY <1>1, <1>2 DEF TInv, ATypeOK, MainTypeOK
<1>4. PICK row : row = ConfirmedRow(rows[r], boot.id)  OBVIOUS
<1>5. rows' = [rows EXCEPT ![r] = row]  BY <1>2, <1>4 DEF ConfirmAdminRole
<1>6. r \in Roles /\ rows'[r] = row /\ \A x \in Roles \ {r} : rows'[x] = rows[x]
  BY <1>5, AdminRow
<1>7. Found(rows[r]) => row.id # NoId
  BY <1>1, <1>4, <1>6, DistinctEntities
     DEF ConfirmedRow, Fair, StartupAlone, TInv, ATypeOK, StoatTypeOK, IsRow
<1>8. Found(rows[r])  BY <1>1, <1>2 DEF Fair, StartupAlone, At
<1>9. AdminRoles \subseteq Roles  BY AccessAssumption DEF AdminRoles
<1>10. \A x \in AdminRoles \ boot'.todo : rows'[x].id # NoId
  BY <1>1, <1>3, <1>6, <1>7, <1>8, <1>9 DEF Fair, StartupAlone
<1>11. \A x \in Roles : Active(rows'[x]) => rows'[x].id # NoId
  BY <1>6, <1>7, <1>8 DEF Fair, RoleOrderly
<1> QED BY <1>1, <1>3, <1>10, <1>11, AdminRowsFair

LEMMA WearFair == ASSUME TInv, Fair, WearAdminRole PROVE Fair'
<1>1. At("admin") /\ boot.todo = {} /\ UNCHANGED <<discord, rows, over>>
  BY DEF WearAdminRole
<1>2. CASE Exits /\ UNCHANGED adminRoles
  BY <1>1, <1>2, ExitFair DEF WearAdminRole, client
<1>3. CASE GoTo("bind") /\ adminRoles' = AdminIds
  <2>1. NoId \notin AdminIds  BY <1>1 DEF Fair, StartupAlone, AdminIds, At
  <2>2. boot'.pc = "bind" /\ boot'.roles = boot.roles /\ UNCHANGED engine
    BY <1>3, BootTyped DEF GoTo, TInv, ATypeOK
  <2>3. \A r \in Roles : Active(rows'[r]) => rows'[r].id # NoId  BY <1>1 DEF Fair, RoleOrderly
  <2>4. EveryoneKeepsOwn'  BY <1>1, OwnSame DEF Fair
  <2> QED BY <1>1, <1>3, <2>1, <2>2, <2>3, <2>4, StartupFair DEF At, Fair, StartupAlone
<1> QED BY <1>2, <1>3 DEF WearAdminRole

-----------------------------------------------------------------------------
(* Bind and Reconcile.                                                      *)
LEMMA ReadServerFair == ASSUME TInv, Fair, ReadServer PROVE Fair'
<1>1. PICK seen \in SUBSET DOMAIN over :
        boot' = [boot EXCEPT !.pc = "channels", !.roles = DOMAIN ranks, !.channels = DOMAIN over, !.seen = seen]
  BY DEF ReadServer
<1>2. boot'.pc = "channels" /\ boot'.roles = DOMAIN ranks
  BY <1>1 DEF TInv, ATypeOK, MainTypeOK
<1>3. At("bind") /\ UNCHANGED <<discord, rows, over, adminRoles, engine>>
  BY DEF ReadServer, remote, client
<1>4. NoId \notin DOMAIN ranks  BY DEF TInv, ATypeOK, StoatTypeOK, Partial, NoId
<1>5. \A r \in Roles : Active(rows'[r]) => rows'[r].id # NoId  BY <1>3 DEF Fair, RoleOrderly
<1>6. EveryoneKeepsOwn'  BY <1>3, OwnSame DEF Fair
<1> QED BY <1>2, <1>3, <1>4, <1>5, <1>6, StartupFair DEF At, Fair, StartupAlone

(* What Bind says of a row.                                                 *)
LEMMA BoundFacts ==
  ASSUME NEW row, NEW dead, NEW ids
  PROVE  /\ ids # {} => /\ Active(Bound(row, dead, ids)) /\ Bound(row, dead, ids).state = Empty
                        /\ Bound(row, dead, ids).id = (CHOOSE id \in ids : TRUE)
         /\ ids = {} => Bound(row, dead, ids) = IF dead /\ Active(row) THEN Absent ELSE row
<1> DEFINE cleared == IF dead /\ Active(row) THEN Absent ELSE row
           id      == CHOOSE i \in ids : TRUE
<1>1. CASE ids = {}  BY <1>1 DEF Bound
<1>2. CASE ids # {}
  <2>1. Bound(row, dead, ids) = ConfirmedRow(PendingStructureRow(cleared, Empty), id)
    BY <1>2 DEF Bound
  <2> HIDE DEF cleared, id
  <2>2. /\ ConfirmedRow(PendingStructureRow(cleared, Empty), id).status = "active"
        /\ ConfirmedRow(PendingStructureRow(cleared, Empty), id).id = id
        /\ ConfirmedRow(PendingStructureRow(cleared, Empty), id).state = Empty
    BY DEF ConfirmedRow, PendingStructureRow, Found
  <2> QED BY <1>2, <2>1, <2>2 DEF Active, id
<1> QED BY <1>1, <1>2

LEMMA BindEntitiesFair ==
  ASSUME TInv, Fair, NEW es, NEW listed, NEW fetched, NoId \in fetched => es \cap Roles = {},
         NEW spared, NEW next \in {"reapchannels", "reaproles"},
         BindEntities(es, listed, fetched, spared, next), boot.pc \in {"channels", "reapchannels"},
         UNCHANGED <<discord, over, adminRoles, engine>>
  PROVE  Fair'
<1> DEFINE wanted == Wanted(es, listed, fetched)
           dead   == es \ Held(es, listed)
<1>1. wanted \subseteq fetched  BY DEF Wanted, Free
<1>2. boot'.pc = next /\ boot'.roles = boot.roles
  BY DEF BindEntities, TInv, ATypeOK, MainTypeOK
<1>3. PICK to \in [wanted -> dead] :
        rows' = [e \in Entity |-> Bound(rows[e], e \in dead, {id \in wanted : to[id] = e})]
  BY DEF BindEntities
<1> HIDE DEF wanted
<1>4. ASSUME NEW r \in Roles, Active(rows'[r]) PROVE rows'[r].id # NoId
  <2> DEFINE ids == {id \in wanted : to[id] = r}
  <2>1. rows'[r] = Bound(rows[r], r \in dead, ids)  BY <1>3, DistinctEntities
  <2>2. ids \subseteq wanted  OBVIOUS
  <2>3. ids # {} => r \in es  BY <1>3
  <2> HIDE DEF ids
  <2>4. CASE ids = {}
    <3>1. Active(rows[r]) => rows[r].id # NoId  BY DEF Fair, RoleOrderly
    <3> QED BY <1>4, <2>1, <2>4, <3>1, BoundFacts DEF Absent, Active
  <2>5. CASE ids # {}  BY <1>1, <2>1, <2>2, <2>3, <2>5, BoundFacts
  <2> QED BY <2>4, <2>5
<1>5. EveryoneKeepsOwn'  BY OwnSame DEF Fair
<1> QED BY <1>2, <1>4, <1>5, StartupFair DEF At, Fair, StartupAlone

LEMMA BindChannelsFair == ASSUME TInv, Fair, BindChannels PROVE Fair'
<1>1. DOMAIN boot.guild \cap Roles = {}
  BY DistinctEntities DEF TInv, ATypeOK, MainTypeOK, Partial
<1>2. /\ BindEntities(DOMAIN boot.guild, boot.channels, boot.seen, {}, "reapchannels")
      /\ boot.pc = "channels" /\ UNCHANGED <<discord, over, adminRoles, engine>>
  BY DEF BindChannels, At, remote, client
<1> QED BY <1>1, <1>2, BindEntitiesFair

LEMMA BindRolesFair == ASSUME TInv, Fair, BindRoles PROVE Fair'
<1>1. CASE Exits /\ UNCHANGED rows  BY <1>1, ExitFair DEF BindRoles, remote
<1>2. CASE ~(Exits /\ UNCHANGED rows)
  <2>1. NoId \notin boot.roles  BY DEF Fair, StartupAlone
  <2>2. /\ BindEntities(DOMAIN boot.position, boot.roles, boot.roles, {elevation}, "reaproles")
        /\ boot.pc = "reapchannels" /\ UNCHANGED <<discord, over, adminRoles, engine>>
    BY <1>2 DEF BindRoles, At, remote, client
  <2> QED BY <2>1, <2>2, BindEntitiesFair
<1> QED BY <1>1, <1>2

(* A reap takes overrides away.                                             *)
LEMMA FewerOwn ==
  ASSUME EveryoneKeepsOwn, DOMAIN over' \subseteq DOMAIN over,
         \A c \in DOMAIN over' : over'[c] = Restrict(over[c], DOMAIN over'[c]) /\ DOMAIN over'[c] \subseteq DOMAIN over[c]
  PROVE  EveryoneKeepsOwn'
BY DEF EveryoneKeepsOwn, Restrict

LEMMA ReapFair ==
  ASSUME TInv, Fair, NEW id, ReapChannel(id) \/ ReapRole(id) PROVE Fair'
<1>1. /\ boot.pc \in {"reapchannels", "reaproles"} /\ boot' = [boot EXCEPT !.todo = boot.todo \ {id}]
      /\ UNCHANGED <<discord, rows, adminRoles, engine>>
  BY DEF ReapChannel, ReapRole, At, client
<1>2. boot'.pc = boot.pc /\ boot'.roles = boot.roles
  BY <1>1 DEF TInv, ATypeOK, MainTypeOK
<1>6. EveryoneKeepsOwn'
  <2>1. \/ UNCHANGED over
        \/ over' = Restrict(over, DOMAIN over \ {id})
        \/ over' = [c \in DOMAIN over |-> Restrict(over[c], DOMAIN over[c] \ {id})]
    BY DEF ReapChannel, ReapRole, StoatDeletes
  <2>2. CASE UNCHANGED over  BY <2>2, OwnSame DEF Fair
  <2>3. CASE over' = Restrict(over, DOMAIN over \ {id})
    BY <2>3 DEF Restrict, Fair, EveryoneKeepsOwn
  <2>4. CASE over' = [c \in DOMAIN over |-> Restrict(over[c], DOMAIN over[c] \ {id})]
    BY <2>4 DEF Restrict, Fair, EveryoneKeepsOwn
  <2> QED BY <2>1, <2>2, <2>3, <2>4
<1>7. \A r \in Roles : Active(rows'[r]) => rows'[r].id # NoId  BY <1>1 DEF Fair, RoleOrderly
<1> QED BY <1>1, <1>2, <1>6, <1>7, StartupFair DEF At, Fair, StartupAlone

(* A row that ReconcileLive marks stays what it is.                         *)
LEMMA VerifiedKeeps ==
  ASSUME TInv, NEW e \in Entity
  PROVE  /\ Verified(e).status = rows[e].status /\ Verified(e).id = rows[e].id
         /\ Active(Verified(e)) <=> Active(rows[e])
BY DEF TInv, ATypeOK, StoatTypeOK, IsRow, Verified, Active

LEMMA ReconcileLiveFair == ASSUME TInv, Fair, ReconcileLive PROVE Fair'
<1>1. /\ boot.pc = "reaproles" /\ UNCHANGED <<discord, over, adminRoles, engine>>
      /\ boot' = [boot EXCEPT !.pc = "converge"]
  BY DEF ReconcileLive, At, GoTo, remote, client
<1>2. boot'.pc = "converge" /\ boot'.roles = boot.roles
  BY <1>1, BootTyped DEF TInv, ATypeOK
<1>3. PICK failed : rows' = [e \in Entity |->
             IF e \in (DOMAIN boot.position \cup DOMAIN boot.guild) \ failed /\ Fetchable(e)
             THEN Verified(e) ELSE rows[e]]
  BY DEF ReconcileLive
<1>4. \A r \in Roles : rows'[r] \in {Verified(r), rows[r]}  BY <1>3, DistinctEntities
<1>5. \A r \in Roles : Active(rows'[r]) => rows'[r].id # NoId
  BY <1>4, VerifiedKeeps, DistinctEntities DEF Fair, RoleOrderly
<1>6. EveryoneKeepsOwn'  BY <1>1, OwnSame DEF Fair
<1> QED BY <1>1, <1>2, <1>5, <1>6, StartupFair DEF At, Fair, StartupAlone

LEMMA FirstOp ==
  ASSUME NEW op
  PROVE  /\ Append(<<>>, op) = <<op>> /\ Len(<<op>>) <= 1
         /\ Deletes(<<op>>) <=> op.kind = "delete"
BY DEF Deletes

LEMMA ConvergeFair == ASSUME TInv, Fair, ConvergeAll PROVE Fair'
<1>1. /\ At("converge") /\ boot'.pc = "up" /\ boot'.roles = {}
      /\ queue' = [e \in Entity |->
                     IF e \in DOMAIN position THEN Append(queue[e], Put(position[e]))
                     ELSE IF e \in DOMAIN guild THEN Append(queue[e], Put(guild[e])) ELSE queue[e]]
      /\ UNCHANGED <<gone, position, rows, over, adminRoles, worker>>
  BY DEF ConvergeAll, Down, discord, remote, client
<1>2. gone = {} /\ \A e \in Entity : queue[e] = <<>> /\ worker[e] = Idle
  BY <1>1, ProjectionsTyped DEF Fair, StartupAlone, EngineOff, At
<1>3. StartupAlone'  BY <1>1 DEF Fair, StartupAlone, At
<1>4. EveryoneKeepsOwn'  BY <1>1 DEF Fair, EveryoneKeepsOwn
<1>5. ASSUME NEW r \in Roles PROVE RoleOrderly(r)'
  <2>1. DOMAIN guild \subseteq Channels  BY DEF TInv, ATypeOK, DiscordTypeOK, Partial
  <2>2. queue'[r] = <<>> \/ queue'[r] = Append(<<>>, Put(position[r]))
    BY <1>1, <1>2, <2>1, DistinctEntities
  <2>3. Put(position[r]).kind = "put" /\ Len(<<>>) <= 1  BY DEF Put
  <2>4. Len(queue'[r]) <= 1 /\ ~Deletes(queue'[r])
    BY <2>2, <2>3, IdleFields, FirstOp
  <2>5. Active(rows[r]) => rows[r].id # NoId  BY DEF Fair, RoleOrderly
  <2> QED BY <1>1, <1>2, <2>4, <2>5, IdleFields, DistinctEntities DEF RoleOrderly
<1>6. ASSUME NEW c \in Channels PROVE ChannelFair(c)'
  BY <1>1, <1>2, IdleFields, DistinctEntities DEF ChannelFair
<1> QED BY <1>3, <1>4, <1>5, <1>6 DEF Fair

LEMMA MainFair == ASSUME TInv, Fair, Main PROVE Fair'
<1>1. CASE StartupFails \/ RefuseToStart \/ Interrupted \/ Drained \/ GiveUp  BY <1>1, ExitsFair
<1>2. CASE Connect \/ ResolveElevationRole \/ ReadStructure  BY <1>2, ConnectFair, ReadFair
<1>3. CASE \E r \in Privileged : SkipAdminRole(r) \/ CreateAdminRole(r)
  BY <1>3, SkipAdminFair, CreateAdminFair
<1>4. CASE RankAdminRole \/ EnterAdminRole \/ ConfirmAdminRole \/ WearAdminRole
  BY <1>4, RankAdminFair, EnterAdminFair, ConfirmAdminFair, WearFair
<1>5. CASE ReadServer \/ BindChannels \/ BindRoles \/ \E id \in boot.todo : ReapChannel(id) \/ ReapRole(id)
  BY <1>5, ReadServerFair, BindChannelsFair, BindRolesFair, ReapFair
<1>6. CASE ReconcileLive \/ ConvergeAll  BY <1>6, ReconcileLiveFair, ConvergeFair
<1> QED BY <1>1, <1>2, <1>3, <1>4, <1>5, <1>6 DEF Main

-----------------------------------------------------------------------------
(* Once main is up, one role's turn or one channel's keeps what is fair     *)
(* about the others.                                                        *)
LEMMA UpIsFair ==
  ASSUME Fair, At("up"), UNCHANGED <<boot, adminRoles>>
  PROVE  StartupAlone'
BY DEF Fair, StartupAlone, At

LEMMA Looked ==
  ASSUME TInv, NEW c \in Channels, worker[c].pc = "apply"
  PROVE  worker[c].todo \subseteq DOMAIN worker[c].state /\ worker[c].state \in ChannelStates
         /\ worker[c].todo \subseteq Roles
<1>1. worker[c].todo \subseteq DOMAIN worker[c].state /\ worker[c].state \in ChannelStates
  BY EngineFacts DEF TInv, ATypeOK, ChannelWork
<1> QED BY <1>1, ChannelState DEF Partial

LEMMA RoleTurn ==
  ASSUME TInv, Fair, At("up"), UNCHANGED <<boot, adminRoles>>, NEW r \in Roles,
         \A x \in Roles \ {r} : /\ queue'[x] = queue[x] /\ worker'[x] = worker[x]
                                /\ rows'[x] = rows[x] /\ (x \in gone <=> x \in gone'),
         DOMAIN position' \ {r} \subseteq DOMAIN position,
         \A c \in Channels : worker'[c] = worker[c],
         RoleOrderly(r)', Known(r) => Known(r)', EveryoneKeepsOwn'
  PROVE  Fair'
<1>1. StartupAlone'  BY UpIsFair
<1>2. ASSUME NEW x \in Roles \ {r} PROVE RoleOrderly(x)' /\ (Known(x) => Known(x)')
  BY <1>2 DEF Fair, RoleOrderly, Known, Buried
<1>3. ASSUME NEW c \in Channels PROVE ChannelFair(c)'
  <2>1. ChannelFair(c)  BY DEF Fair
  <2>2. \A x \in Roles : Known(x) => Known(x)'  BY <1>2
  <2>3. worker[c].pc = "apply" => worker[c].todo \subseteq Roles  BY Looked
  <2> QED BY <2>1, <2>2, <2>3 DEF ChannelFair
<1> QED BY <1>1, <1>2, <1>3 DEF Fair

LEMMA ChannelTurn ==
  ASSUME TInv, Fair, At("up"), UNCHANGED <<boot, adminRoles, gone, position>>, NEW c \in Channels,
         \A r \in Roles : queue'[r] = queue[r] /\ worker'[r] = worker[r] /\ rows'[r] = rows[r],
         \A d \in Channels \ {c} : worker'[d] = worker[d],
         ChannelFair(c)', EveryoneKeepsOwn'
  PROVE  Fair'
<1>1. StartupAlone'  BY UpIsFair
<1>2. ASSUME NEW x \in Roles PROVE RoleOrderly(x)' /\ (Known(x) => Known(x)')
  BY <1>2 DEF Fair, RoleOrderly, Known, Buried
<1>3. ASSUME NEW d \in Channels \ {c} PROVE ChannelFair(d)'
  <2>1. ChannelFair(d)  BY DEF Fair
  <2>2. worker[d].pc = "apply" => worker[d].todo \subseteq Roles  BY Looked
  <2> QED BY <1>2, <2>1, <2>2 DEF ChannelFair
<1> QED BY <1>1, <1>2, <1>3 DEF Fair

-----------------------------------------------------------------------------
(* Discord.                                                                 *)
LEMMA SignalFair == ASSUME TInv, Fair, Signal PROVE Fair'
<1>1. UNCHANGED <<gone, position, rows, over, adminRoles, boot, queue, worker, waiters, woken>>
  BY DEF Signal, discord, remote, client, engine
<1>2. StartupAlone'  BY <1>1 DEF Fair, StartupAlone, At, EngineOff, AdminRoles
<1>3. EveryoneKeepsOwn'  BY <1>1, OwnSame DEF Fair
<1>4. ASSUME NEW r \in Roles PROVE RoleOrderly(r)'  BY <1>1, <1>4 DEF Fair, RoleOrderly
<1>5. ASSUME NEW c \in Channels PROVE ChannelFair(c)'
  BY <1>1, <1>5 DEF Fair, ChannelFair, Known, Buried
<1> QED BY <1>2, <1>3, <1>4, <1>5 DEF Fair

LEMMA ChangeChannelFair ==
  ASSUME TInv, Fair, At("up"), NEW c \in DOMAIN guild, ChangeChannel(c) PROVE Fair'
<1>1. /\ queue' = [queue EXCEPT ![c] = Append(@, Put(guild'[c]))]
      /\ UNCHANGED <<position, gone, rows, over, adminRoles, boot, worker>>
  BY DEF ChangeChannel, Submit, remote, client, main
<1>2. c \in Channels  BY DEF TInv, ATypeOK, DiscordTypeOK, Partial
<1>3. \A r \in Roles : queue'[r] = queue[r]  BY <1>1, <1>2, DistinctEntities
<1>4. EveryoneKeepsOwn'  BY <1>1, OwnSame DEF Fair
<1>5. ChannelFair(c)'
  <2>1. worker[c].pc = "apply" => worker[c].todo \subseteq Roles  BY <1>2, Looked
  <2> QED BY <1>1, <1>2, <1>3, <2>1 DEF Fair, ChannelFair, Known, Buried
<1> QED BY <1>1, <1>2, <1>3, <1>4, <1>5, ChannelTurn

LEMMA ChangeRoleFair ==
  ASSUME TInv, Fair, At("up"), NEW r \in Roles, ChangeRole(r) PROVE Fair'
<1>1. PICK at \in Positions :
        position' = With(position, r, at) /\ queue' = [queue EXCEPT ![r] = Append(@, Put(at))]
  BY DEF ChangeRole, Submit
<1>2. /\ r \notin gone /\ queue[r] = <<>>
      /\ UNCHANGED <<gone, rows, over, adminRoles, boot, worker>>
  BY DEF ChangeRole, Taken, remote, client, main
<1>3. DOMAIN queue = Entity  BY EngineFacts DEF TInv, ATypeOK
<1>4. queue'[r] = <<Put(at)>> /\ \A x \in Roles \ {r} : queue'[x] = queue[x]
  BY <1>1, <1>2, <1>3, DistinctEntities
<1>5. RoleOrderly(r)'
  <2>1. Len(queue'[r]) <= 1 /\ ~Deletes(queue'[r])  BY <1>4 DEF Deletes, Put
  <2> QED BY <1>2, <2>1 DEF Fair, RoleOrderly
<1>6. Known(r) => Known(r)'  BY <1>2 DEF Known, Buried
<1>7. DOMAIN position' \ {r} \subseteq DOMAIN position
  BY <1>1 DEF With
<1>8. EveryoneKeepsOwn'  BY <1>2, OwnSame DEF Fair
<1> QED BY <1>2, <1>4, <1>5, <1>6, <1>7, <1>8, RoleTurn

LEMMA DeleteRoleFair ==
  ASSUME TInv, Fair, At("up"), NEW r \in Roles, DeleteRole(r) PROVE Fair'
<1>1. /\ position' = Restrict(position, DOMAIN position \ {r}) /\ gone' = gone \cup {r}
      /\ r \in DOMAIN position /\ queue[r] = <<>>
      /\ UNCHANGED <<rows, over, adminRoles, boot, worker>>
  BY DEF DeleteRole, Taken, remote, client, main
<1>2. DOMAIN guild \subseteq Channels  BY DEF TInv, ATypeOK, DiscordTypeOK, Partial
<1>3. queue'[r] = Append(<<>>, Delete) /\ \A x \in Roles \ {r} : queue'[x] = queue[x]
  <2>1. PICK with \in SUBSET DOMAIN guild :
          queue' = [e \in Entity |-> IF e = r THEN Append(queue[e], Delete)
                                    ELSE IF e \in with THEN Append(queue[e], Put(guild'[e])) ELSE queue[e]]
    BY DEF DeleteRole
  <2> QED BY <1>1, <1>2, <2>1, DistinctEntities
<1>4. DOMAIN position' = DOMAIN position \ {r}  BY <1>1 DEF Restrict
<1>5. r \notin gone  BY <1>1 DEF Fair, RoleOrderly
<1>6. RoleOrderly(r)'
  <2>1. Delete.kind = "delete"  BY DEF Delete
  <2>2. Len(queue'[r]) <= 1 /\ Deletes(queue'[r])  BY <1>3, <2>1, FirstOp
  <2> QED BY <1>1, <1>4, <1>5, <2>2 DEF Fair, RoleOrderly
<1>7. Known(r) => Known(r)'  BY <1>1, <1>5 DEF Known, Buried
<1>8. EveryoneKeepsOwn'  BY <1>1, OwnSame DEF Fair
<1> QED BY <1>1, <1>3, <1>4, <1>6, <1>7, <1>8, RoleTurn

LEMMA HappensFair == ASSUME Early = FALSE, TInv, Fair, Happens PROVE Fair'
<1>1. CASE Signal  BY <1>1, SignalFair
<1>2. CASE MayHappen
  <2>1. At("up")  BY <1>2 DEF MayHappen
  <2> QED BY <1>1, <2>1, ChangeChannelFair, ChangeRoleFair, DeleteRoleFair DEF Happens
<1> QED BY <1>1, <1>2 DEF Happens, ChangeChannel, ChangeRole, DeleteRole

-----------------------------------------------------------------------------
(* The engine works only once main is up.                                   *)
LEMMA NoWorkBefore ==
  ASSUME Fair, ~At("up"), NEW e \in Entity
  PROVE  queue[e] = <<>> /\ worker[e] = Idle
BY ProjectionsTyped DEF Fair, StartupAlone, EngineOff

LEMMA WorkIsUp ==
  ASSUME Fair, NEW e \in Entity, worker[e].pc # "idle" \/ queue[e] # <<>>
  PROVE  At("up")
BY NoWorkBefore, IdleFields

(* The op a role's worker takes is its last.                                *)
LEMMA TookLast ==
  ASSUME TInv, Fair, NEW r \in Roles, queue[r] # <<>>, Took(r)
  PROVE  queue'[r] = <<>> /\ \A x \in Entity \ {r} : queue'[x] = queue[x]
<1>1. Len(queue[r]) <= 1  BY DEF Fair, RoleOrderly
<1>2. queue[r] \in Seq(RoleOps) /\ DOMAIN queue = Entity  BY EngineFacts DEF TInv, ATypeOK
<1>3. Tail(queue[r]) = <<>>  BY <1>1, <1>2
<1> QED BY <1>2, <1>3, DistinctEntities DEF Took

LEMMA Stepped ==
  ASSUME TInv, NEW e \in Entity, NEW w, Step(e, w)
  PROVE  worker'[e] = w /\ \A x \in Entity \ {e} : worker'[x] = worker[x]
BY EngineFacts DEF Step, TInv, ATypeOK

LEMMA SkipFair == ASSUME TInv, Fair, NEW e \in Entity, Skip(e) PROVE Fair'
<1>1. /\ queue[e] # <<>> /\ Took(e) /\ worker[e] = Idle
      /\ UNCHANGED <<gone, position, rows, over, adminRoles, boot, worker>>
  BY DEF Skip, Ready, discord, remote, client, main
<1>2. At("up")  BY <1>1, WorkIsUp
<1>3. EveryoneKeepsOwn'  BY <1>1, OwnSame DEF Fair
<1>4. CASE e \in Roles
  <2>1. queue'[e] = <<>> /\ \A x \in Roles \ {e} : queue'[x] = queue[x]
    BY <1>1, <1>4, TookLast, DistinctEntities
  <2>2. RoleOrderly(e)'
    <3>1. Len(<<>>) <= 1  OBVIOUS
    <3>2. RoleOrderly(e)  BY <1>4 DEF Fair
    <3> QED BY <1>1, <2>1, <3>1, <3>2, IdleFields DEF RoleOrderly
  <2>3. Known(e) => Known(e)'  BY <1>1 DEF Known, Buried
  <2> QED BY <1>1, <1>2, <1>3, <1>4, <2>1, <2>2, <2>3, RoleTurn, DistinctEntities
<1>5. CASE e \in Channels
  <2>1. \A x \in Roles : queue'[x] = queue[x]
    BY <1>1, <1>5, EngineFacts, DistinctEntities DEF Took, TInv, ATypeOK
  <2>2. ChannelFair(e)'  BY <1>1, IdleFields DEF ChannelFair
  <2> QED BY <1>1, <1>2, <1>3, <1>5, <2>1, <2>2, ChannelTurn, DistinctEntities
<1> QED BY <1>4, <1>5, DistinctEntities

LEMMA WritePendingFair == ASSUME TInv, Fair, NEW e \in Entity, WritePending(e) PROVE Fair'
<1> DEFINE op == Head(queue[e])
           w  == [Idle EXCEPT !.pc = "apply", !.kind = "put", !.state = op.state,
                              !.todo = IF e \in Channels THEN DOMAIN op.state ELSE {}]
<1>1. /\ queue[e] # <<>> /\ Took(e) /\ worker[e] = Idle /\ op.kind = "put"
      /\ e \in Channels => Unmet(op) = {}
      /\ rows' = [rows EXCEPT ![e] = PendingStructureRow(@, op.state)]
      /\ Step(e, w)
      /\ UNCHANGED <<gone, position, over, adminRoles, boot>>
  BY DEF WritePending, Ready, discord, remote, client, main
<1>2. At("up")  BY <1>1, WorkIsUp
<1>3. EveryoneKeepsOwn'  BY <1>1, OwnSame DEF Fair
<1>4. worker'[e] = w /\ \A x \in Entity \ {e} : worker'[x] = worker[x]  BY <1>1, Stepped
<1>5. w.pc = "apply" /\ w.kind = "put" /\ w.sets = {}  BY DEF Idle
<1>6. /\ rows'[e] = PendingStructureRow(rows[e], op.state)
      /\ \A x \in Entity \ {e} : rows'[x] = rows[x]
  BY <1>1 DEF TInv, ATypeOK, StoatTypeOK
<1>7. CASE e \in Roles
  <2>1. queue'[e] = <<>> /\ \A x \in Roles \ {e} : queue'[x] = queue[x]
    BY <1>1, <1>7, TookLast, DistinctEntities
  <2>2. RoleOrderly(e)'
    <3>1. Len(<<>>) <= 1  OBVIOUS
    <3>2. RoleOrderly(e)  BY <1>7 DEF Fair
    <3>3. ~Active(rows'[e])  BY <1>6 DEF PendingStructureRow, Active
    <3>4. e \notin gone  BY <1>1, <3>2 DEF RoleOrderly, Deletes
    <3> QED BY <1>1, <1>4, <1>5, <2>1, <3>1, <3>3, <3>4, IdleFields DEF RoleOrderly
  <2>3. Known(e) => Known(e)'
    BY <1>1, <1>6 DEF Known, Buried, PendingStructureRow
  <2> QED BY <1>1, <1>2, <1>3, <1>4, <1>6, <1>7, <2>1, <2>2, <2>3, RoleTurn, DistinctEntities
<1>8. CASE e \in Channels
  <2>1. \A x \in Roles : queue'[x] = queue[x] /\ rows'[x] = rows[x] /\ worker'[x] = worker[x]
    BY <1>1, <1>4, <1>6, <1>8, EngineFacts, DistinctEntities DEF Took, TInv, ATypeOK
  <2>2. op \in ChannelOps  BY <1>1, <1>8, HeadsTyped DEF TInv, ATypeOK
  <2>3. DOMAIN op.state \subseteq Roles  BY <2>2, OpsTyped, ChannelState DEF Partial
  <2>4. w.todo = DOMAIN op.state  BY <1>8 DEF Idle
  <2>5. \A r \in DOMAIN op.state : Known(r)'
    BY <1>1, <1>8, <2>1, <2>3 DEF Unmet, Known, Fair, RoleOrderly
  <2>6. ChannelFair(e)'  BY <1>4, <1>5, <2>4, <2>5 DEF ChannelFair
  <2> QED BY <1>1, <1>2, <1>3, <1>4, <1>8, <2>1, <2>6, ChannelTurn, DistinctEntities
<1> QED BY <1>7, <1>8, DistinctEntities

LEMMA BeginDeleteFair == ASSUME TInv, Fair, NEW r \in Roles, BeginDelete(r) PROVE Fair'
<1> DEFINE w == [Idle EXCEPT !.pc = "apply", !.kind = "delete"]
<1>1. /\ queue[r] # <<>> /\ Took(r) /\ Head(queue[r]).kind = "delete" /\ Step(r, w)
      /\ UNCHANGED <<gone, position, rows, over, adminRoles, boot>>
  BY DEF BeginDelete, Ready, discord, remote, client, main
<1>2. At("up")  BY <1>1, WorkIsUp, DistinctEntities
<1>3. EveryoneKeepsOwn'  BY <1>1, OwnSame DEF Fair
<1>4. worker'[r] = w /\ \A x \in Entity \ {r} : worker'[x] = worker[x]
  BY <1>1, Stepped, DistinctEntities
<1>5. w.pc = "apply" /\ w.kind = "delete"  BY DEF Idle
<1>6. queue'[r] = <<>> /\ \A x \in Entity \ {r} : queue'[x] = queue[x]
  BY <1>1, TookLast
<1>7. RoleOrderly(r)'
  <2>1. Len(<<>>) <= 1  OBVIOUS
  <2>2. RoleOrderly(r)  BY DEF Fair
  <2>3. r \in gone  BY <1>1, <2>2 DEF RoleOrderly, Deletes
  <2> QED BY <1>1, <1>4, <1>5, <1>6, <2>1, <2>2, <2>3, IdleFields DEF RoleOrderly
<1>8. Known(r) => Known(r)'  BY <1>1 DEF Known, Buried
<1> QED BY <1>1, <1>2, <1>3, <1>4, <1>6, <1>7, <1>8, RoleTurn, DistinctEntities

(* A role's worker goes on with its op.                                     *)
LEMMA RoleGoesOnFair ==
  ASSUME TInv, Fair, NEW r \in Roles, NEW w, Step(r, w), worker[r].pc # "idle",
         w.kind \in {"none", worker[r].kind}, w.pc \in {"rank", "permit"} => w.id # NoId,
         w.pc = "remove" => w.kind = "delete",
         UNCHANGED <<gone, position, rows, adminRoles, boot, queue>>, EveryoneKeepsOwn'
  PROVE  Fair'
<1>1. At("up")  BY WorkIsUp, DistinctEntities
<1>2. worker'[r] = w /\ \A x \in Entity \ {r} : worker'[x] = worker[x]
  BY Stepped, DistinctEntities
<1>3. RoleOrderly(r)'  BY <1>2 DEF Fair, RoleOrderly
<1>4. Known(r) => Known(r)'  BY IdleFields DEF Known, Buried
<1> QED BY <1>1, <1>2, <1>3, <1>4, RoleTurn, DistinctEntities

LEMMA CreateRoleFair == ASSUME TInv, Fair, NEW r \in Roles, CreateRole(r) PROVE Fair'
<1> DEFINE w == [worker[r] EXCEPT !.pc = "rank", !.id = nextId]
<1>1. /\ Step(r, w) /\ worker[r].pc = "apply"
      /\ UNCHANGED <<gone, position, rows, over, adminRoles, boot, queue>>
  BY DEF CreateRole, NewRole, Applies, discord, client, main
<1>2. worker[r] \in RoleWork /\ nextId # NoId
  BY EngineFacts DEF TInv, ATypeOK, StoatTypeOK, NoId
<1>3. w.kind = worker[r].kind /\ w.pc = "rank" /\ w.id # NoId  BY <1>2 DEF RoleWork
<1>4. EveryoneKeepsOwn'  BY <1>1, OwnSame DEF Fair
<1> QED BY <1>1, <1>3, <1>4, RoleGoesOnFair

LEMMA EditRoleFair == ASSUME TInv, Fair, NEW r \in Roles, EditRole(r) PROVE Fair'
<1>1. PICK id \in DOMAIN ranks : Edits(r, id) /\ Step(r, [worker[r] EXCEPT !.pc = "permit", !.id = id])
  BY DEF EditRole
<1> DEFINE w == [worker[r] EXCEPT !.pc = "permit", !.id = id]
<1>2. /\ Step(r, w) /\ worker[r].pc \in {"apply", "rank"}
      /\ UNCHANGED <<gone, position, rows, over, adminRoles, boot, queue>>
  BY <1>1 DEF EditRole, Edits, Applies, discord, client, main
<1>3. worker[r] \in RoleWork /\ id # NoId
  BY EngineFacts DEF TInv, ATypeOK, StoatTypeOK, Partial, NoId
<1>4. w.kind = worker[r].kind /\ w.pc = "permit" /\ w.id # NoId  BY <1>3 DEF RoleWork
<1>5. EveryoneKeepsOwn'  BY <1>2, OwnSame DEF Fair
<1> QED BY <1>2, <1>4, <1>5, RoleGoesOnFair

LEMMA DeleteStoatRoleFair == ASSUME TInv, Fair, NEW r \in Roles, DeleteStoatRole(r) PROVE Fair'
<1> DEFINE w  == [worker[r] EXCEPT !.pc = "remove"]
           id == rows[r].id
<1>1. /\ Step(r, w) /\ worker[r].pc = "apply" /\ worker[r].kind = "delete"
      /\ UNCHANGED <<gone, position, rows, adminRoles, boot, queue>>
      /\ \/ UNCHANGED over
         \/ over' = [c \in DOMAIN over |-> Restrict(over[c], DOMAIN over[c] \ {id})]
  BY DEF DeleteStoatRole, StoatDeletes, Applies, discord, client, main
<1>2. worker[r] \in RoleWork  BY EngineFacts DEF TInv, ATypeOK
<1>3. w.kind = worker[r].kind /\ w.pc = "remove"  BY <1>2 DEF RoleWork
<1>4. EveryoneKeepsOwn'
  <2>1. CASE over' = [c \in DOMAIN over |-> Restrict(over[c], DOMAIN over[c] \ {id})]
    BY <2>1 DEF Fair, EveryoneKeepsOwn, Restrict
  <2> QED BY <1>1, <2>1, OwnSame DEF Fair
<1> QED BY <1>1, <1>3, <1>4, RoleGoesOnFair

LEMMA RemoveFair == ASSUME TInv, Fair, NEW r \in Roles, Remove(r) PROVE Fair'
<1>1. /\ Step(r, Idle) /\ worker[r].pc = "remove" /\ rows' = [rows EXCEPT ![r] = Absent]
      /\ UNCHANGED <<gone, position, over, adminRoles, boot, queue>>
  BY DEF Remove, discord, remote, client, main
<1>2. At("up")  BY <1>1, WorkIsUp, DistinctEntities
<1>3. worker'[r] = Idle /\ \A x \in Entity \ {r} : worker'[x] = worker[x]
  BY <1>1, Stepped, DistinctEntities
<1>4. rows'[r] = Absent /\ \A x \in Entity \ {r} : rows'[x] = rows[x]
  BY <1>1, DistinctEntities DEF TInv, ATypeOK, StoatTypeOK
<1>5. r \in gone /\ queue[r] = <<>>  BY <1>1 DEF Fair, RoleOrderly
<1>6. RoleOrderly(r)'
  BY <1>1, <1>3, <1>4, <1>5, IdleFields DEF Fair, RoleOrderly, Absent, Active
<1>7. Known(r)'  BY <1>1, <1>3, <1>4, <1>5 DEF Known, Buried, Absent, Found
<1>8. EveryoneKeepsOwn'  BY <1>1, OwnSame DEF Fair
<1> QED BY <1>1, <1>2, <1>3, <1>4, <1>6, <1>7, <1>8, RoleTurn, DistinctEntities

(* A channel's worker goes on with its op.                                  *)
LEMMA ChannelGoesOnFair ==
  ASSUME TInv, Fair, NEW c \in Channels, NEW w, Step(c, w), worker[c].pc # "idle",
         w.pc = "apply" => \A r \in w.todo \ {Everyone} : r \in Roles /\ Known(r),
         \A s \in w.sets : s.target = Default => s.ow \in Own,
         w.pc = "grant" => NoId \notin w.todo,
         UNCHANGED <<gone, position, rows, adminRoles, boot, queue>>, EveryoneKeepsOwn'
  PROVE  Fair'
<1>1. At("up")  BY WorkIsUp, DistinctEntities
<1>2. worker'[c] = w /\ \A x \in Entity \ {c} : worker'[x] = worker[x]
  BY Stepped, DistinctEntities
<1>3. \A r \in Roles : Known(r) => Known(r)'
  BY <1>2, DistinctEntities DEF Known, Buried
<1>4. ChannelFair(c)'  BY <1>2, <1>3 DEF ChannelFair, Own
<1> QED BY <1>1, <1>2, <1>4, ChannelTurn, DistinctEntities

(* What is looked up for a role is its own id, never the empty one.         *)
LEMMA ResolveRoleFair ==
  ASSUME TInv, Fair, NEW c \in Channels, NEW r \in Roles, ResolveRole(c, r) PROVE Fair'
<1> DEFINE sets == {[target |-> t, ow |-> ToStoat(worker[c].state[r])] : t \in Resolved(r)}
           w    == [worker[c] EXCEPT !.todo = @ \ {r}, !.sets = @ \cup sets]
<1>1. /\ Step(c, w) /\ worker[c].pc = "apply" /\ r \in worker[c].todo
      /\ UNCHANGED <<gone, position, rows, over, adminRoles, boot, queue>>
  BY DEF ResolveRole, Applies, discord, remote, client, main
<1>2. worker[c] \in ChannelWork  BY EngineFacts DEF TInv, ATypeOK
<1>3. w.pc = "apply" /\ w.todo = worker[c].todo \ {r} /\ w.sets = worker[c].sets \cup sets
  <2> HIDE DEF sets
  <2> QED BY <1>1, <1>2 DEF ChannelWork
<1>4. ChannelFair(c)  BY DEF Fair
<1>5. \A x \in w.todo \ {Everyone} : x \in Roles /\ Known(x)
  BY <1>1, <1>3, <1>4, Looked DEF ChannelFair
<1>6. ASSUME NEW s \in sets, s.target = Default PROVE s.ow \in Own
  <2>1. PICK t \in Resolved(r) : s = [target |-> t, ow |-> ToStoat(worker[c].state[r])]
    OBVIOUS
  <2>2. r = Everyone
    <3>1. SUFFICES ASSUME r # Everyone PROVE FALSE  OBVIOUS
    <3>2. Found(rows[r]) /\ rows[r].id = NoId
      BY <1>6, <2>1, <3>1 DEF Resolved, Default
    <3>3. Known(r)  BY <1>1, <1>4, <3>1 DEF ChannelFair
    <3> QED BY <3>2, <3>3 DEF Known, Buried
  <2>3. worker[c].state[r] \in MayGive[Everyone]
    BY <1>1, <2>2, Looked, ChannelState
  <2> QED BY <2>1, <2>3 DEF Own
<1>7. \A s \in w.sets : s.target = Default => s.ow \in Own
  <2> HIDE DEF sets, w
  <2> QED BY <1>3, <1>4, <1>6 DEF ChannelFair
<1>8. EveryoneKeepsOwn'  BY <1>1, OwnSame DEF Fair
<1> HIDE DEF w
<1> QED BY <1>1, <1>3, <1>5, <1>7, <1>8, ChannelGoesOnFair

LEMMA GrantingFair ==
  ASSUME TInv, Fair, NEW c \in Channels, NEW id, Granting(c, id), worker[c].pc = "apply",
         UNCHANGED <<gone, position, rows, adminRoles, boot, queue>>, EveryoneKeepsOwn'
  PROVE  Fair'
<1> DEFINE w == [worker[c] EXCEPT !.pc = "grant", !.todo = adminRoles, !.id = id]
<1>1. worker[c] \in ChannelWork  BY EngineFacts DEF TInv, ATypeOK
<1>2. w.pc = "grant" /\ w.todo = adminRoles /\ w.sets = worker[c].sets  BY <1>1 DEF ChannelWork
<1>3. Step(c, w)  BY DEF Granting
<1>4. NoId \notin adminRoles /\ ChannelFair(c)  BY DEF Fair, StartupAlone
<1>5. \A s \in w.sets : s.target = Default => s.ow \in Own  BY <1>2, <1>4 DEF ChannelFair
<1> HIDE DEF w
<1> QED BY <1>2, <1>3, <1>4, <1>5, ChannelGoesOnFair

LEMMA CreateChannelFair == ASSUME TInv, Fair, NEW c \in Channels, CreateChannel(c) PROVE Fair'
<1>1. /\ over' = With(over, nextId, <<>>) /\ Granting(c, nextId) /\ worker[c].pc = "apply"
      /\ UNCHANGED <<gone, position, rows, adminRoles, boot, queue>>
  BY DEF CreateChannel, NewChannel, Applies, discord, client, main
<1>2. DOMAIN <<>> = {}  OBVIOUS
<1>3. EveryoneKeepsOwn'  BY <1>1, <1>2 DEF Fair, EveryoneKeepsOwn, With
<1> QED BY <1>1, <1>3, GrantingFair

LEMMA EditChannelFair == ASSUME TInv, Fair, NEW c \in Channels, EditChannel(c) PROVE Fair'
<1>1. /\ Granting(c, rows[c].id) /\ worker[c].pc = "apply"
      /\ UNCHANGED <<gone, position, rows, over, adminRoles, boot, queue>>
  BY DEF EditChannel, Applies, discord, remote, client, main
<1>2. EveryoneKeepsOwn'  BY <1>1, OwnSame DEF Fair
<1> QED BY <1>1, <1>2, GrantingFair

LEMMA SetPermissionsOwn ==
  ASSUME EveryoneKeepsOwn, NEW c, NEW target, NEW ow, SetPermissions(c, target, ow),
         target = Default => ow \in Own
  PROVE  EveryoneKeepsOwn'
<1> DEFINE id == worker[c].id
<1>1. SUFFICES ASSUME NEW x \in DOMAIN over', Default \in DOMAIN over'[x]
               PROVE  over'[x][Default] \in Own
  BY DEF EveryoneKeepsOwn, Own
<1>2. DOMAIN over' = DOMAIN over  BY DEF SetPermissions
<1>3. CASE x # id
  BY <1>1, <1>2, <1>3 DEF SetPermissions, EveryoneKeepsOwn, Own
<1>4. CASE x = id
  <2>1. over'[x] = With(over[x], target, ow)  BY <1>1, <1>2, <1>4 DEF SetPermissions
  <2>2. CASE target = Default  BY <2>1, <2>2 DEF With
  <2>3. CASE target # Default
    <3>1. Default \in DOMAIN over[x] /\ over'[x][Default] = over[x][Default]
      BY <1>1, <2>1, <2>3 DEF With
    <3> QED BY <1>1, <1>2, <3>1 DEF EveryoneKeepsOwn, Own
  <2> QED BY <2>2, <2>3
<1> QED BY <1>3, <1>4

LEMMA GrantFair == ASSUME TInv, Fair, NEW c \in Channels, Grant(c) PROVE Fair'
<1>1. PICK t \in worker[c].todo :
        /\ SetPermissions(c, t, [allow |-> BotPerms, deny |-> {}])
        /\ Step(c, [worker[c] EXCEPT !.todo = @ \ {t}])
  BY DEF Grant
<1> DEFINE w == [worker[c] EXCEPT !.todo = @ \ {t}]
<1>2. worker[c].pc = "grant" /\ UNCHANGED <<gone, position, rows, adminRoles, boot, queue>>
  BY DEF Grant, discord, client, main
<1>3. worker[c] \in ChannelWork /\ ChannelFair(c)  BY EngineFacts DEF TInv, ATypeOK, Fair
<1>4. w.pc = "grant" /\ w.todo = worker[c].todo \ {t} /\ w.sets = worker[c].sets
  BY <1>2, <1>3 DEF ChannelWork
<1>5. NoId \notin w.todo /\ t # Default  BY <1>2, <1>3, <1>4 DEF ChannelFair, Default
<1>6. EveryoneKeepsOwn'  BY <1>1, <1>5, SetPermissionsOwn DEF Fair
<1>7. \A s \in w.sets : s.target = Default => s.ow \in Own  BY <1>3, <1>4 DEF ChannelFair
<1>8. Step(c, w)  BY <1>1
<1> HIDE DEF w
<1> QED BY <1>2, <1>4, <1>5, <1>6, <1>7, <1>8, ChannelGoesOnFair

LEMMA SetOverwriteFair == ASSUME TInv, Fair, NEW c \in Channels, SetOverwrite(c) PROVE Fair'
<1>1. PICK s \in worker[c].sets :
        /\ SetPermissions(c, s.target, s.ow)
        /\ Step(c, [worker[c] EXCEPT !.sets = @ \ {s}])
  BY DEF SetOverwrite
<1> DEFINE w == [worker[c] EXCEPT !.sets = @ \ {s}]
<1>2. worker[c].pc = "grant" /\ UNCHANGED <<gone, position, rows, adminRoles, boot, queue>>
  BY DEF SetOverwrite, discord, client, main
<1>3. worker[c] \in ChannelWork /\ ChannelFair(c)  BY EngineFacts DEF TInv, ATypeOK, Fair
<1>4. w.pc = "grant" /\ w.todo = worker[c].todo /\ w.sets = worker[c].sets \ {s}
  BY <1>2, <1>3 DEF ChannelWork
<1>5. NoId \notin w.todo  BY <1>2, <1>3, <1>4 DEF ChannelFair
<1>6. s.target = Default => s.ow \in Own  BY <1>3 DEF ChannelFair
<1>7. EveryoneKeepsOwn'  BY <1>1, <1>6, SetPermissionsOwn DEF Fair
<1>8. \A x \in w.sets : x.target = Default => x.ow \in Own  BY <1>3, <1>4 DEF ChannelFair
<1>9. Step(c, w)  BY <1>1
<1> HIDE DEF w
<1> QED BY <1>2, <1>4, <1>5, <1>7, <1>8, <1>9, ChannelGoesOnFair

LEMMA MissRoleFair == ASSUME TInv, Fair, NEW c \in Channels, MissRole(c) PROVE Fair'
<1>1. PICK r : Step(c, [Idle EXCEPT !.pc = "defer", !.state = Head(queue[c]).state, !.todo = {r}])
  BY DEF MissRole
<1> DEFINE w == [Idle EXCEPT !.pc = "defer", !.state = Head(queue[c]).state, !.todo = {r}]
<1>2. /\ queue[c] # <<>> /\ Took(c) /\ UNCHANGED <<gone, position, rows, over, adminRoles, boot>>
  BY DEF MissRole, Ready, discord, remote, client, main
<1>3. At("up")  BY <1>2, WorkIsUp, DistinctEntities
<1>4. EveryoneKeepsOwn'  BY <1>2, OwnSame DEF Fair
<1>5. \A x \in Roles : queue'[x] = queue[x]
  BY <1>2, EngineFacts, DistinctEntities DEF Took, TInv, ATypeOK
<1>6. Step(c, w) /\ w.pc = "defer" /\ w.sets = {}  BY <1>1 DEF Idle
<1> HIDE DEF w
<1>7. worker'[c] = w /\ \A x \in Entity \ {c} : worker'[x] = worker[x]
  BY <1>6, Stepped, DistinctEntities
<1>8. ChannelFair(c)'  BY <1>6, <1>7 DEF ChannelFair
<1> QED BY <1>2, <1>3, <1>4, <1>5, <1>7, <1>8, ChannelTurn, DistinctEntities

LEMMA DeferFair == ASSUME TInv, Fair, NEW c \in Channels, Defer(c) PROVE Fair'
<1>1. /\ worker[c].pc = "defer" /\ Step(c, Idle)
      /\ UNCHANGED <<gone, position, rows, over, adminRoles, boot, queue>>
  BY DEF Defer, discord, remote, client, main
<1>2. EveryoneKeepsOwn'  BY <1>1, OwnSame DEF Fair
<1>3. Idle.pc = "idle" /\ Idle.sets = {}  BY IdleFields
<1> QED BY <1>1, <1>2, <1>3, ChannelGoesOnFair

LEMMA OpFailsFair == ASSUME TInv, Fair, NEW e \in Entity, OpFails(e) PROVE Fair'
<1>1. /\ Step(e, Idle) /\ UNCHANGED <<gone, position, rows, over, adminRoles, boot, queue>>
  BY DEF OpFails, discord, remote, client, main
<1>2. worker'[e] = Idle /\ \A x \in Entity \ {e} : worker'[x] = worker[x]  BY <1>1, Stepped
<1>3. worker[e].pc # "idle"
  BY DEF OpFails, Refused, Edits, Applies
<1>4. At("up")  BY <1>3, WorkIsUp
<1>5. EveryoneKeepsOwn'  BY <1>1, OwnSame DEF Fair
<1>6. CASE e \in Roles
  <2>1. RoleOrderly(e)'  BY <1>1, <1>2, <1>6, IdleFields DEF Fair, RoleOrderly
  <2>2. Known(e) => Known(e)'  BY <1>1, <1>2 DEF Known, Buried
  <2> QED BY <1>1, <1>2, <1>4, <1>5, <1>6, <2>1, <2>2, RoleTurn, DistinctEntities
<1>7. CASE e \in Channels
  <2>1. ChannelFair(e)'  BY <1>2, IdleFields DEF ChannelFair
  <2> QED BY <1>1, <1>2, <1>4, <1>5, <1>7, <2>1, ChannelTurn, DistinctEntities
<1> QED BY <1>6, <1>7, DistinctEntities

LEMMA ConfirmFair == ASSUME TInv, Fair, NEW e \in Entity, Confirm(e) PROVE Fair'
<1> DEFINE w == IF e \in Roles THEN [Idle EXCEPT !.pc = "notify"] ELSE Idle
<1>1. /\ Step(e, w) /\ worker[e].pc \in {"permit", "grant"}
      /\ rows' = [rows EXCEPT ![e] = ConfirmedRow(@, worker[e].id)]
      /\ UNCHANGED <<gone, position, over, adminRoles, boot, queue>>
  BY DEF Confirm, Done, discord, remote, client, main
<1>2. worker'[e] = w /\ \A x \in Entity \ {e} : worker'[x] = worker[x]  BY <1>1, Stepped
<1>3. /\ rows'[e] = ConfirmedRow(rows[e], worker[e].id)
      /\ \A x \in Entity \ {e} : rows'[x] = rows[x]
  BY <1>1 DEF TInv, ATypeOK, StoatTypeOK
<1>4. At("up")  BY <1>1, WorkIsUp
<1>5. EveryoneKeepsOwn'  BY <1>1, OwnSame DEF Fair
<1>6. w.kind = "none" /\ w.pc \in {"idle", "notify"} /\ w.sets = {}  BY DEF Idle
<1> HIDE DEF w
<1>7. CASE e \in Roles
  <2>1. worker[e] \in RoleWork /\ RoleOrderly(e)
    BY <1>7, EngineFacts DEF TInv, ATypeOK, Fair
  <2>2. worker[e].pc = "permit" /\ worker[e].id # NoId
    BY <1>1, <2>1 DEF RoleWork, RoleOrderly
  <2>3. RoleOrderly(e)'
    <3>1. Active(rows'[e]) => rows'[e].id # NoId
      BY <1>3, <2>1, <2>2 DEF ConfirmedRow, RoleOrderly, Active, Found, TInv, ATypeOK, StoatTypeOK, IsRow
    <3> QED BY <1>1, <1>2, <1>6, <1>7, <2>1, <3>1 DEF RoleOrderly
  <2>4. Known(e) => Known(e)'
    <3>1. ~Buried(e)  BY <2>2, IdleFields DEF Buried
    <3>2. rows[e].id # NoId => rows'[e].id # NoId
      BY <1>3, <2>2 DEF ConfirmedRow, TInv, ATypeOK, StoatTypeOK, IsRow
    <3> QED BY <3>1, <3>2 DEF Known
  <2> QED BY <1>1, <1>2, <1>3, <1>4, <1>5, <1>7, <2>3, <2>4, RoleTurn, DistinctEntities
<1>8. CASE e \in Channels
  <2>1. ChannelFair(e)'  BY <1>2, <1>6 DEF ChannelFair
  <2> QED BY <1>1, <1>2, <1>3, <1>4, <1>5, <1>8, <2>1, ChannelTurn, DistinctEntities
<1> QED BY <1>7, <1>8, DistinctEntities

LEMMA TakeWaitersFair == ASSUME TInv, Fair, NEW r \in Roles, TakeWaiters(r) PROVE Fair'
<1> DEFINE w == IF waiters[r] = NoOps THEN Idle ELSE [Idle EXCEPT !.pc = "push"]
<1>1. /\ Step(r, w) /\ worker[r].pc = "notify"
      /\ UNCHANGED <<gone, position, rows, over, adminRoles, boot, queue>>
  BY DEF TakeWaiters, discord, remote, client, main
<1>2. w.kind = "none" /\ w.pc \in {"idle", "push"}  BY DEF Idle
<1>3. EveryoneKeepsOwn'  BY <1>1, OwnSame DEF Fair
<1> HIDE DEF w
<1> QED BY <1>1, <1>2, <1>3, RoleGoesOnFair

LEMMA PushWaiterFair ==
  ASSUME TInv, Fair, NEW r \in Roles, NEW c \in Channels, PushWaiter(r, c) PROVE Fair'
<1>1. PICK w \in {Idle, worker[r]} : Step(r, w)  BY DEF PushWaiter
<1>2. /\ worker[r].pc = "push" /\ queue' = [queue EXCEPT ![c] = Append(@, Head(woken[r][c]))]
      /\ UNCHANGED <<gone, position, rows, over, adminRoles, boot>>
  BY DEF PushWaiter, discord, remote, client, main
<1>3. At("up")  BY <1>2, WorkIsUp, DistinctEntities
<1>4. worker'[r] = w /\ \A x \in Entity \ {r} : worker'[x] = worker[x]
  BY <1>1, Stepped, DistinctEntities
<1>5. \A x \in Roles : queue'[x] = queue[x]
  BY <1>2, EngineFacts, DistinctEntities DEF TInv, ATypeOK
<1>6. EveryoneKeepsOwn'  BY <1>2, OwnSame DEF Fair
<1>7. RoleOrderly(r)'  BY <1>2, <1>4, <1>5, IdleFields DEF Fair, RoleOrderly
<1>8. Known(r) => Known(r)'  BY <1>2, IdleFields DEF Known, Buried
<1> QED BY <1>2, <1>3, <1>4, <1>5, <1>6, <1>7, <1>8, RoleTurn, DistinctEntities

-----------------------------------------------------------------------------
LEMMA WorkFair == ASSUME TInv, Fair, NEW e \in Entity, Work(e) PROVE Fair'
<1>1. CASE Skip(e) \/ WritePending(e) \/ Confirm(e)
  BY <1>1, SkipFair, WritePendingFair, ConfirmFair
<1>2. CASE e \in Roles /\ (BeginDelete(e) \/ CreateRole(e) \/ EditRole(e) \/ DeleteStoatRole(e)
                           \/ Remove(e) \/ TakeWaiters(e))
  BY <1>2, BeginDeleteFair, CreateRoleFair, EditRoleFair, DeleteStoatRoleFair, RemoveFair, TakeWaitersFair
<1>3. CASE e \in Roles /\ \E c \in Channels : PushWaiter(e, c)  BY <1>3, PushWaiterFair
<1>4. CASE e \in Channels /\ (MissRole(e) \/ Defer(e) \/ CreateChannel(e) \/ EditChannel(e)
                              \/ Grant(e) \/ SetOverwrite(e))
  BY <1>4, MissRoleFair, DeferFair, CreateChannelFair, EditChannelFair, GrantFair, SetOverwriteFair
<1>5. CASE e \in Channels /\ \E r \in Roles : ResolveRole(e, r)  BY <1>5, ResolveRoleFair
<1> QED BY <1>1, <1>2, <1>3, <1>4, <1>5 DEF Work

LEMMA NextFair == ASSUME Early = FALSE, IInv, [Next]_vars PROVE IInv'
<1>1. TInv'  BY NextTInv DEF IInv
<1>2. CASE UNCHANGED avars
  <2>1. UNCHANGED <<gone, position, rows, over, adminRoles, boot, queue, worker, waiters, woken>>
    BY <1>2 DEF avars, discord, remote, client, main, engine
  <2>2. StartupAlone'  BY <2>1 DEF IInv, Fair, StartupAlone, At, EngineOff, AdminRoles
  <2>3. EveryoneKeepsOwn'  BY <2>1, OwnSame DEF IInv, Fair
  <2>4. ASSUME NEW r \in Roles PROVE RoleOrderly(r)'  BY <2>1, <2>4 DEF IInv, Fair, RoleOrderly
  <2>5. ASSUME NEW c \in Channels PROVE ChannelFair(c)'
    BY <2>1, <2>5 DEF IInv, Fair, ChannelFair, Known, Buried
  <2> QED BY <1>1, <2>2, <2>3, <2>4, <2>5 DEF IInv, Fair
<1>3. CASE RunMain  BY <1>1, <1>3, MainFair DEF RunMain, IInv
<1>4. CASE DiscordOrUser  BY <1>1, <1>4, HappensFair DEF DiscordOrUser, IInv
<1>5. CASE \E e \in Entity : RunOp(e)  BY <1>1, <1>5, WorkFair, OpFailsFair DEF RunOp, IInv
<1>6. CASE Deploying \/ \E p \in Procs : OpenStore(p) \/ Refusal(p) \/ Leave(p)
  BY <1>2, <1>6 DEF Deploying, OpenStore, Refusal, Leave
<1> QED BY <1>2, <1>3, <1>4, <1>5, <1>6 DEF Next, vars

(* As long as events wait for startup to be over, what Discord says of one  *)
(* role is never told to everyone: every role a channel depends on had an   *)
(* id when the op began, and no edit or delete of a role takes the id from  *)
(* a row that is still there (resolveOverwriteRoleIDs, WritePending,        *)
(* SetChannelPermissions with an empty role id).                            *)
THEOREM EveryoneIsSafe == ASSUME Early = FALSE PROVE Spec => []EveryoneKeepsOwn
<1>1. Init => IInv  BY InitFair DEF Init
<1>2. IInv /\ [Next]_vars => IInv'  BY NextFair
<1>3. IInv => EveryoneKeepsOwn  BY DEF IInv, Fair
<1> QED BY <1>1, <1>2, <1>3, PTL DEF Spec

-----------------------------------------------------------------------------
(* What the bot sees.  No role that it wears denies it a channel, and where *)
(* everyone is denied one, a role that it wears allows it.                  *)
Allowed(c, t) == t \in DOMAIN over[c] /\ View \in over[c][t].allow
Denied(c)     == Default \in DOMAIN over[c] /\ View \in over[c][Default].deny

InView(c) ==
  /\ DOMAIN over[c] \subseteq DOMAIN ranks \cup {Default}
  /\ \A t \in worn \cap DOMAIN over[c] : View \notin over[c][t].deny
  /\ Denied(c) => \E t \in worn : Allowed(c, t)

Sighted ==
  /\ worn \subseteq DOMAIN ranks
  /\ \A c \in DOMAIN over : c \in Nat /\ c < nextId /\ InView(c)

Mirroring == {"admin", "rank", "permit", "confirm"}
Binding   == {"bind", "channels", "reapchannels"}
Before    == {"down", "connected", "elevated"} \cup Mirroring \cup Binding

(* Until main has read Discord's roles, those there are now.                *)
Shown == IF boot.pc \in Mirroring \cup Binding \cup {"reaproles"} THEN boot.position ELSE position

(* t mirrors an administrators' role, so that Bind leaves it alone.         *)
Claims(t) == \E p \in Privileged \cap DOMAIN Shown : Active(rows[p]) /\ rows[p].id = t

(* While it starts, an ordinary role is mapped to none the bot wears but    *)
(* its own, ...                                                             *)
OrdinaryApart ==
  \A r \in Ordinary :
    /\ rows[r].id < nextId
    /\ \A p \in Privileged : rows[r].id = rows[p].id => rows[r].id = NoId
    /\ rows[r].id \in worn => ranks[rows[r].id] = 0 /\ Active(rows[r]) /\ r \in DOMAIN Shown

(* ... and has the name of none that Bind may map it to; ...                *)
NamedApart == \A r \in Ordinary, t \in worn : r \in DOMAIN Shown /\ Name[r] = names[t] => Claims(t)

(* ... what the bot may yet put on does not deny it a channel; ...          *)
AdminsOpen ==
  \A p \in Privileged, c \in DOMAIN over :
    rows[p].id \in DOMAIN over[c] \ {Default} => View \notin over[c][rows[p].id].deny

(* ... and what lets it see one is not deleted.                             *)
Anchored ==
  \A c \in DOMAIN over :
    Denied(c) => \E t \in worn : Allowed(c, t) /\ (ranks[t] = 0 \/ Claims(t))

(* A role that main has created is in no override, and no other row's.      *)
NewApart ==
  /\ boot.role \in boot.todo /\ ~Active(rows[boot.role])
  /\ \A r \in Ordinary : rows[r].id # boot.id
  /\ \A c \in DOMAIN over : boot.id \notin DOMAIN over[c]

Starting ==
  /\ boot.pc \in Before => OrdinaryApart /\ NamedApart /\ AdminsOpen
  /\ boot.pc \in Before \cup {"reaproles"} => Anchored
  /\ boot.pc \in Mirroring => \A r \in AdminRoles \ boot.todo : Active(rows[r])
  /\ boot.pc \in Mirroring \ {"admin"} => NewApart
  /\ boot.pc \in Binding \cup {"reaproles"} => \A t \in adminRoles \cap worn : Claims(t)
  /\ boot.pc \in {"channels", "reapchannels"} => boot.roles = DOMAIN ranks
  /\ boot.pc = "reaproles" => \A t \in boot.todo : ~Claims(t)

(* It knows its own role, then the administrators', of which it wears one.  *)
Knows ==
  /\ boot.pc \in {"elevated", "reaproles"} \cup Mirroring \cup Binding => elevation # NoId
  /\ boot.pc \in Mirroring => AdminRoles # {}
  /\ boot.pc \in Binding \cup {"reaproles", "converge", "up"} => adminRoles \cap worn # {}

(* A channel's worker has granted what it no longer has to, and what it is  *)
(* about to set for a role that the bot wears lets it see.                  *)
ChannelSighted(c) ==
  /\ worker[c].pc = "grant" =>
       /\ worker[c].id \in DOMAIN over
       /\ \A a \in (adminRoles \cap worn) \ worker[c].todo : Allowed(worker[c].id, a)
  /\ \A s \in worker[c].sets : s.target \in worn => View \in s.ow.allow /\ View \notin s.ow.deny

(* Once it has started, an ordinary role is mapped to none the bot wears.   *)
NotWorn(r) ==
  /\ rows[r].id \notin worn
  /\ worker[r].pc \in {"rank", "permit"} => worker[r].id \notin worn

Working ==
  boot.pc \in {"reaproles", "converge", "up"} =>
    /\ \A r \in Ordinary : NotWorn(r)
    /\ gone \subseteq MayDelete
    /\ \A c \in Channels : ChannelSighted(c)

Sees == Sighted /\ Starting /\ Knows /\ Working

SInv == IInv /\ Sees

(* To wear no role that denies it, and one that allows it, is to see.       *)
LEMMA InViewSees ==
  ASSUME NEW c \in DOMAIN over, InView(c)
  PROVE  CanView(c)
<1> DEFINE own    == {t \in worn \cap DOMAIN over[c] : Decides(over[c][t])}
           senior == {t \in own : \A u \in own : ranks[t] <= ranks[u]}
<1>1. \A t \in senior : View \notin over[c][t].deny  BY DEF InView
<1>2. own = {} => (Default \in DOMAIN over[c] => View \notin over[c][Default].deny)
  BY DEF InView, Denied, Allowed, Decides
<1> HIDE DEF own, senior
<1>3. IF own # {} THEN \A t \in senior : View \notin over[c][t].deny
                  ELSE Default \in DOMAIN over[c] => View \notin over[c][Default].deny
  BY <1>1, <1>2
<1> QED BY <1>3 DEF CanView, own, senior

LEMMA SightedSame ==
  ASSUME Sighted, UNCHANGED <<ranks, worn, over, nextId>>
  PROVE  Sighted'
BY DEF Sighted, InView, Denied, Allowed

LEMMA SightedMore ==
  ASSUME Sighted, DOMAIN ranks \subseteq DOMAIN ranks', nextId \in Nat,
         nextId' = nextId \/ nextId' = nextId + 1, UNCHANGED <<worn, over>>
  PROVE  Sighted'
<1>1. worn' \subseteq DOMAIN ranks'  BY DEF Sighted
<1>2. ASSUME NEW c \in DOMAIN over' PROVE c \in Nat /\ c < nextId' /\ InView(c)'
  BY DEF Sighted, InView, Denied, Allowed
<1> QED BY <1>1, <1>2 DEF Sighted

(* A role that is not the only one to allow the bot a channel may go.       *)
LEMMA SightedLess ==
  ASSUME Sighted, NEW id, StoatDeletes(id), UNCHANGED nextId,
         \A c \in DOMAIN over : Denied(c) => \E t \in worn \ {id} : Allowed(c, t)
  PROVE  /\ Sighted' /\ DOMAIN over' = DOMAIN over /\ worn' = worn \ {id}
         /\ \A c \in DOMAIN over : Denied(c)' => Denied(c)
         /\ \A c \in DOMAIN over, t \in worn \ {id} : Allowed(c, t) => Allowed(c, t)'
         /\ \A t \in worn \ {id} : ranks'[t] = ranks[t]
<1>1. worn' = worn \ {id} /\ DOMAIN ranks' = DOMAIN ranks \ {id} /\ DOMAIN over' = DOMAIN over
  BY DEF StoatDeletes, Restrict
<1>2. \A c \in DOMAIN over : /\ DOMAIN over'[c] = DOMAIN over[c] \ {id}
                             /\ \A t \in DOMAIN over'[c] : over'[c][t] = over[c][t]
  BY DEF StoatDeletes, Restrict
<1>3. \A c \in DOMAIN over, t \in worn \ {id} : Allowed(c, t) => Allowed(c, t)'
  BY <1>2 DEF Allowed
<1>4. \A c \in DOMAIN over : Denied(c)' => Denied(c)  BY <1>2 DEF Denied
<1>5. ASSUME NEW c \in DOMAIN over PROVE InView(c)'
  <2>1. InView(c)  BY DEF Sighted
  <2> QED BY <1>1, <1>2, <1>3, <1>4, <2>1 DEF InView
<1>6. \A t \in worn \ {id} : ranks'[t] = ranks[t]  BY DEF Sighted, StoatDeletes, Restrict
<1> QED BY <1>1, <1>3, <1>4, <1>5, <1>6 DEF Sighted

LEMMA WornAreRoles ==
  ASSUME TInv, Sighted
  PROVE  /\ worn \subseteq DOMAIN ranks /\ DOMAIN ranks \subseteq Nat /\ nextId \in Nat
         /\ \A t \in DOMAIN ranks : t < nextId /\ t # NoId
         /\ NoId \notin worn /\ nextId \notin DOMAIN ranks
<1>1. nextId \in Nat \ {0} /\ DOMAIN ranks \subseteq 1..(nextId - 1)
  BY DEF TInv, ATypeOK, StoatTypeOK, Partial
<1>2. \A t \in 1..(nextId - 1) : t \in Nat /\ t < nextId /\ t # 0  BY <1>1
<1> QED BY <1>1, <1>2 DEF Sighted, NoId

LEMMA InitSees == ASSUME StartsInSight, AInit PROVE Sees
<1>1. PICK w \in Worlds :
        /\ position = w.position /\ rows = w.rows /\ ranks = w.ranks /\ worn = w.worn
        /\ over = w.over /\ names = w.names /\ nextId = 1 + Max(Ids(w))
  BY DEF AInit
<1>2. boot.pc = "down" /\ gone = {}  BY DEF AInit, Down
<1>3. \A id \in Ids(w) : id \in Nat /\ id < nextId
  <2>1. /\ \A e \in Roles \cup Channels : IsRow(w.rows[e])
        /\ Partial(w.ranks, Nat \ {0}, Nat) /\ DOMAIN w.over \subseteq Nat \ {0}
    BY WorldsAssumption
  <2>2. Ids(w) \subseteq Nat  BY <2>1 DEF Ids, IsRow, Partial
  <2>3. PICK last \in Ids(w) : \A id \in Ids(w) : id <= last  BY WorldsAssumption
  <2>4. Max(Ids(w)) \in Nat /\ \A id \in Ids(w) : id <= Max(Ids(w))
    BY <2>2, <2>3, MaxOfIds
  <2> HIDE DEF Ids
  <2> QED BY <1>1, <2>2, <2>4
<1>4. \A t : Claims(t) <=> Claimed(w, t)  BY <1>1, <1>2 DEF Claims, Claimed, Shown, Mirroring, Binding
<1>5. Sighted
  <2>1. worn \subseteq DOMAIN ranks  BY <1>1 DEF StartsInSight
  <2>2. ASSUME NEW c \in DOMAIN over PROVE InView(c)
    <3>1. DOMAIN over[c] \subseteq DOMAIN ranks \cup {Default}
      BY <1>1, <2>2 DEF StartsInSight
    <3>2. NoId \notin worn
      BY <2>1, <1>1, WorldsAssumption DEF Partial, NoId
    <3>3. \A t \in worn \cap DOMAIN over[c] : View \notin over[c][t].deny
      BY <1>1, <2>2, <3>2 DEF StartsInSight, Default
    <3>4. Denied(c) => \E t \in worn : Allowed(c, t)
      BY <1>1, <2>2 DEF StartsInSight, Allowed, Denied
    <3> QED BY <3>1, <3>3, <3>4 DEF InView
  <2>3. \A c \in DOMAIN over : c \in Nat /\ c < nextId  BY <1>1, <1>3 DEF Ids
  <2> QED BY <2>1, <2>2, <2>3 DEF Sighted
<1>6. OrdinaryApart
  <2>1. ASSUME NEW r \in Ordinary PROVE rows[r].id < nextId
    <3>1. rows[r].id \in Ids(w)  BY <1>1, <2>1 DEF Ids, Ordinary
    <3> QED BY <1>3, <3>1
  <2>2. ASSUME NEW r \in Ordinary
        PROVE  /\ \A p \in Privileged : rows[r].id = rows[p].id => rows[r].id = NoId
               /\ rows[r].id \in worn =>
                    ranks[rows[r].id] = 0 /\ Active(rows[r]) /\ r \in DOMAIN Shown
    BY <1>1, <1>2, <2>2 DEF StartsInSight, Shown, Mirroring, Binding
  <2> QED BY <2>1, <2>2 DEF OrdinaryApart
<1>7. NamedApart
  BY <1>1, <1>2, <1>4 DEF StartsInSight, NamedApart, Shown, Mirroring, Binding
<1>8. AdminsOpen  BY <1>1 DEF StartsInSight, AdminsOpen
<1>9. Anchored  BY <1>1, <1>4 DEF StartsInSight, Anchored, Denied, Allowed
<1> QED
  BY <1>2, <1>5, <1>6, <1>7, <1>8, <1>9 DEF Sees, Starting, Knows, Working, Mirroring, Binding

-----------------------------------------------------------------------------
(* Startup.                                                                 *)
LEMMA EndSees ==
  ASSUME Sees, Exits, UNCHANGED <<ranks, worn, over, nextId>>
  PROVE  Sees'
<1>1. boot'.pc = "ended"  BY DEF Exits, Down
<1>2. Sighted'  BY SightedSame DEF Sees
<1> QED BY <1>1, <1>2 DEF Sees, Starting, Knows, Working, Before, Mirroring, Binding

LEMMA ExitsSees ==
  ASSUME Sees, StartupFails \/ RefuseToStart \/ Interrupted \/ Drained \/ GiveUp
  PROVE  Sees'
<1>1. Exits /\ UNCHANGED <<ranks, worn, over, nextId>>
  BY DEF StartupFails, RefuseToStart, Interrupted, Drained, GiveUp, remote
<1> QED BY <1>1, EndSees

(* What a step of startup keeps that writes to no row but administrators'.  *)
LEMMA StaysApart ==
  ASSUME TInv, Sighted, OrdinaryApart, NamedApart, AdminsOpen, Anchored,
         UNCHANGED worn, Shown' = Shown, nextId' = nextId \/ nextId' = nextId + 1,
         DOMAIN over' \subseteq DOMAIN over, \A c \in DOMAIN over' : over'[c] = over[c],
         \A t \in worn : names'[t] = names[t] /\ (ranks[t] = 0 => ranks'[t] = 0),
         \A r \in Ordinary : rows'[r] = rows[r], \A t : Claims(t) => Claims(t)',
         \A p \in Privileged :
           \/ rows'[p].id = rows[p].id
           \/ /\ \A r \in Ordinary : rows[r].id # rows'[p].id
              /\ \A c \in DOMAIN over : rows'[p].id \notin DOMAIN over[c]
  PROVE  OrdinaryApart' /\ NamedApart' /\ AdminsOpen' /\ Anchored'
<1>1. nextId \in Nat  BY DEF TInv, ATypeOK, StoatTypeOK
<1>2. ASSUME NEW r \in Ordinary
      PROVE  /\ rows'[r].id < nextId'
             /\ \A p \in Privileged : rows'[r].id = rows'[p].id => rows'[r].id = NoId
             /\ rows'[r].id \in worn' =>
                  ranks'[rows'[r].id] = 0 /\ Active(rows'[r]) /\ r \in DOMAIN Shown'
  <2>1. rows[r].id \in Nat
    BY DistinctEntities DEF Ordinary, TInv, ATypeOK, StoatTypeOK, IsRow
  <2>2. rows'[r].id < nextId'  BY <1>1, <2>1 DEF OrdinaryApart
  <2>3. ASSUME NEW p \in Privileged, rows'[r].id = rows'[p].id PROVE rows'[r].id = NoId
    BY <2>3 DEF OrdinaryApart
  <2>4. rows'[r].id \in worn' =>
          ranks'[rows'[r].id] = 0 /\ Active(rows'[r]) /\ r \in DOMAIN Shown'
    BY DEF OrdinaryApart
  <2> QED BY <2>2, <2>3, <2>4
<1>3. OrdinaryApart'  BY <1>2 DEF OrdinaryApart
<1>4. NamedApart'  BY DEF NamedApart
<1>5. AdminsOpen'
  <2>1. SUFFICES ASSUME NEW p \in Privileged, NEW c \in DOMAIN over', rows'[p].id \in DOMAIN over'[c] \ {Default}
                 PROVE  View \notin over'[c][rows'[p].id].deny
    BY DEF AdminsOpen
  <2>2. rows'[p].id = rows[p].id  BY <2>1
  <2> QED BY <2>1, <2>2 DEF AdminsOpen
<1>6. ASSUME NEW c \in DOMAIN over', Denied(c)'
      PROVE  \E t \in worn' : Allowed(c, t)' /\ (ranks'[t] = 0 \/ Claims(t)')
  <2>1. c \in DOMAIN over /\ Denied(c)  BY <1>6 DEF Denied
  <2>2. PICK t \in worn : Allowed(c, t) /\ (ranks[t] = 0 \/ Claims(t))  BY <2>1 DEF Anchored
  <2> QED BY <1>6, <2>2 DEF Allowed
<1> QED BY <1>3, <1>4, <1>5, <1>6 DEF Anchored

LEMMA StaysSame ==
  ASSUME TInv, Sees, boot.pc \in Before, Shown' = Shown, \A r \in Roles : rows'[r] = rows[r],
         UNCHANGED <<ranks, worn, over, names, nextId>>
  PROVE  /\ Sighted' /\ OrdinaryApart' /\ NamedApart' /\ AdminsOpen' /\ Anchored'
         /\ \A t : Claims(t)' <=> Claims(t)
<1>1. Sighted'  BY SightedSame DEF Sees
<1>2. \A r \in Ordinary \cup Privileged : rows'[r] = rows[r]  BY AccessAssumption DEF Ordinary
<1>3. \A t : Claims(t)' <=> Claims(t)  BY <1>2 DEF Claims
<1>4. Sighted /\ OrdinaryApart /\ NamedApart /\ AdminsOpen /\ Anchored  BY DEF Sees, Starting
<1>5. OrdinaryApart' /\ NamedApart' /\ AdminsOpen' /\ Anchored'
  BY <1>2, <1>3, <1>4, StaysApart
<1> QED BY <1>1, <1>3, <1>5

LEMMA ConnectSees == ASSUME TInv, Sees, Connect PROVE Sees'
<1>1. /\ At("down") /\ boot'.pc = "connected"
      /\ UNCHANGED <<position, rows, ranks, worn, over, names, nextId, adminRoles>>
  BY DEF Connect, GoTo, At, TInv, ATypeOK, MainTypeOK, discord, remote, client
<1>2. Shown' = Shown /\ boot.pc \in Before  BY <1>1 DEF Shown, At, Before, Mirroring, Binding
<1>3. Sighted' /\ OrdinaryApart' /\ NamedApart' /\ AdminsOpen' /\ Anchored'
  BY <1>1, <1>2, StaysSame
<1> QED BY <1>1, <1>3 DEF Sees, Starting, Knows, Working, Mirroring, Binding

LEMMA ResolveSees == ASSUME TInv, Sees, ResolveElevationRole PROVE Sees'
<1>1. /\ At("connected") /\ boot'.pc = "elevated" /\ elevation' \in DOMAIN ranks
      /\ UNCHANGED <<position, rows, ranks, worn, over, names, nextId, adminRoles>>
  BY DEF ResolveElevationRole, GoTo, At, TInv, ATypeOK, MainTypeOK, discord, remote
<1>2. Shown' = Shown /\ boot.pc \in Before  BY <1>1 DEF Shown, At, Before, Mirroring, Binding
<1>3. Sighted' /\ OrdinaryApart' /\ NamedApart' /\ AdminsOpen' /\ Anchored'
  BY <1>1, <1>2, StaysSame
<1>4. elevation' # NoId  BY <1>1, WornAreRoles DEF Sees
<1> QED BY <1>1, <1>3, <1>4 DEF Sees, Starting, Knows, Working, Mirroring, Binding

LEMMA ReadSees == ASSUME TInv, Sees, ReadStructure PROVE Sees'
<1>1. CASE Exits  BY <1>1, EndSees DEF ReadStructure, remote
<1>2. CASE ~Exits
  <2>1. /\ At("elevated") /\ boot' = [boot EXCEPT !.pc = "admin", !.todo = Privileged \cap DOMAIN position,
                                                  !.position = position, !.guild = guild]
        /\ Privileged \cap DOMAIN position # {}
        /\ UNCHANGED <<position, rows, ranks, worn, over, names, nextId, adminRoles, elevation>>
    BY <1>2 DEF ReadStructure, discord, remote, client
  <2>2. boot'.pc = "admin" /\ boot'.position = position /\ boot'.todo = Privileged \cap DOMAIN position
    BY <2>1 DEF TInv, ATypeOK, MainTypeOK
  <2>3. Shown' = Shown /\ boot.pc \in Before
    BY <2>1, <2>2 DEF Shown, At, Before, Mirroring, Binding
  <2>4. Sighted' /\ OrdinaryApart' /\ NamedApart' /\ AdminsOpen' /\ Anchored'
    BY <2>1, <2>3, StaysSame
  <2>5. AdminRoles' # {} /\ AdminRoles' \ boot'.todo = {}  BY <2>1, <2>2 DEF AdminRoles
  <2>6. elevation' # NoId  BY <2>1 DEF Sees, Knows, At
  <2> QED BY <2>2, <2>4, <2>5, <2>6 DEF Sees, Starting, Knows, Working, Mirroring, Binding
<1> QED BY <1>1, <1>2

(* The steps that mirror an administrators' role keep those that are done.  *)
LEMMA MirroringSees ==
  ASSUME TInv, Sees, boot.pc \in Mirroring, boot'.pc \in Mirroring, boot'.position = boot.position,
         UNCHANGED <<worn, over, elevation>>, DOMAIN ranks \subseteq DOMAIN ranks',
         nextId' = nextId \/ nextId' = nextId + 1,
         \A t \in worn : names'[t] = names[t] /\ (ranks[t] = 0 => ranks'[t] = 0),
         \A r \in Ordinary : rows'[r] = rows[r],
         \A p \in AdminRoles : Active(rows[p]) => rows'[p] = rows[p],
         \A p \in Privileged :
           \/ rows'[p].id = rows[p].id
           \/ /\ \A r \in Ordinary : rows[r].id # rows'[p].id
              /\ \A c \in DOMAIN over : rows'[p].id \notin DOMAIN over[c],
         \A r \in AdminRoles \ boot'.todo : Active(rows'[r]),
         boot'.pc # "admin" => NewApart'
  PROVE  Sees'
<1>1. Shown' = Shown /\ Shown = boot.position  BY DEF Shown
<1>2. \A t : Claims(t) => Claims(t)'  BY <1>1 DEF Claims, AdminRoles
<1>3. Sighted /\ OrdinaryApart /\ NamedApart /\ AdminsOpen /\ Anchored  BY DEF Sees, Starting, Before
<1>4. OrdinaryApart' /\ NamedApart' /\ AdminsOpen' /\ Anchored'
  BY <1>1, <1>2, <1>3, StaysApart
<1>5. Sighted'  BY WornAreRoles, SightedMore DEF Sees
<1>6. AdminRoles' = AdminRoles /\ AdminRoles # {} /\ elevation' # NoId
  BY DEF AdminRoles, Sees, Knows
<1>7. Starting'  BY <1>4, <1>6 DEF Starting, Mirroring, Binding
<1>8. Knows' /\ Working'  BY <1>6 DEF Knows, Working, Mirroring, Binding
<1> QED BY <1>5, <1>7, <1>8 DEF Sees

LEMMA SkipAdminSees == ASSUME TInv, Sees, NEW r \in Privileged, SkipAdminRole(r) PROVE Sees'
<1>1. /\ boot.pc = "admin" /\ boot' = [boot EXCEPT !.todo = boot.todo \ {r}] /\ Active(rows[r])
      /\ UNCHANGED <<rows, ranks, worn, over, names, nextId, elevation>>
  BY DEF SkipAdminRole, At, Mapped, remote, client
<1>2. boot'.pc = "admin" /\ boot'.todo = boot.todo \ {r} /\ boot'.position = boot.position
  BY <1>1 DEF TInv, ATypeOK, MainTypeOK
<1>3. \A x \in AdminRoles \ boot'.todo : Active(rows'[x])
  BY <1>1, <1>2 DEF Sees, Starting, Mirroring
<1> QED BY <1>1, <1>2, <1>3, MirroringSees DEF Mirroring

LEMMA CreateAdminSees == ASSUME TInv, Fair, Sees, NEW p \in Privileged, CreateAdminRole(p) PROVE Sees'
<1>1. /\ boot.pc = "admin" /\ boot' = [boot EXCEPT !.pc = "rank", !.role = p, !.id = nextId]
      /\ ranks' = With(ranks, nextId, NewRank) /\ names' = With(names, nextId, Name[p])
      /\ nextId' = nextId + 1 /\ p \in boot.todo /\ ~Mapped(p)
      /\ UNCHANGED <<rows, worn, over, elevation>>
  BY DEF CreateAdminRole, NewRole, Named, At, client
<1>2. /\ boot'.pc = "rank" /\ boot'.todo = boot.todo /\ boot'.position = boot.position
      /\ boot'.role = p /\ boot'.id = nextId
  BY <1>1, BootTyped DEF TInv, ATypeOK
<1>3. worn \subseteq DOMAIN ranks /\ nextId \notin DOMAIN ranks /\ nextId \in Nat
  BY WornAreRoles DEF Sees
<1>4. DOMAIN ranks \subseteq DOMAIN ranks' /\ worn \subseteq DOMAIN names
  BY <1>1, <1>3 DEF With, TInv, ATypeOK, StoatTypeOK
<1>5. \A t \in worn : names'[t] = names[t] /\ ranks'[t] = ranks[t]
  <2>1. \A t \in worn : t # nextId  BY <1>3
  <2> QED BY <1>1, <1>3, <1>4, <2>1 DEF With
<1>6. \A x \in AdminRoles \ boot'.todo : Active(rows'[x])
  BY <1>1, <1>2 DEF Sees, Starting, Mirroring
<1>7. NewApart'
  <2>1. p \in Roles  BY AccessAssumption
  <2>2. ~Active(rows[p])  BY <1>1, <2>1 DEF Mapped, Fair, RoleOrderly
  <2>3. ASSUME NEW r \in Ordinary PROVE rows[r].id # nextId
    <3>1. rows[r].id < nextId  BY <1>1 DEF Sees, Starting, Before, Mirroring, OrdinaryApart
    <3> QED BY <1>3, <3>1
  <2>4. ASSUME NEW c \in DOMAIN over PROVE nextId \notin DOMAIN over[c]
    <3>1. DOMAIN over[c] \subseteq DOMAIN ranks \cup {Default}  BY DEF Sees, Sighted, InView
    <3>2. nextId # Default  BY DEF TInv, ATypeOK, StoatTypeOK, Default, NoId
    <3> QED BY <1>3, <3>1, <3>2
  <2> QED BY <1>1, <1>2, <2>2, <2>3, <2>4 DEF NewApart
<1> QED BY <1>1, <1>2, <1>4, <1>5, <1>6, <1>7, MirroringSees DEF Mirroring

LEMMA RankAdminSees == ASSUME TInv, Sees, RankAdminRole PROVE Sees'
<1>1. /\ boot.pc = "rank" /\ boot' = [boot EXCEPT !.pc = "permit"] /\ boot.id # elevation
      /\ ranks' = [ranks EXCEPT ![boot.id] = Rank(boot.position[boot.role])]
      /\ UNCHANGED <<rows, worn, over, names, nextId, elevation>>
  BY DEF RankAdminRole, GoTo, At, Writable, client
<1>2. /\ boot'.pc = "permit" /\ boot'.todo = boot.todo /\ boot'.position = boot.position
      /\ boot'.role = boot.role /\ boot'.id = boot.id
  BY <1>1, BootTyped DEF TInv, ATypeOK
<1>3. ASSUME NEW t \in worn, ranks[t] = 0 PROVE ranks'[t] = 0
  <2>1. elevation # NoId  BY <1>1 DEF Sees, Knows, Mirroring
  <2>2. t \in DOMAIN ranks  BY WornAreRoles DEF Sees
  <2>3. t = elevation  BY <1>3, <2>1, <2>2 DEF TInv, ElevationSafe
  <2> QED BY <1>1, <1>3, <2>2, <2>3
<1>4. DOMAIN ranks' = DOMAIN ranks  BY <1>1
<1>5. \A x \in AdminRoles \ boot'.todo : Active(rows'[x])
  BY <1>1, <1>2 DEF Sees, Starting, Mirroring
<1>6. NewApart'  BY <1>1, <1>2 DEF Sees, Starting, Mirroring, NewApart
<1> QED BY <1>1, <1>2, <1>3, <1>4, <1>5, <1>6, MirroringSees DEF Mirroring

LEMMA EnterAdminSees == ASSUME TInv, Sees, EnterAdminRole PROVE Sees'
<1>1. /\ boot.pc = "permit" /\ boot' = [boot EXCEPT !.pc = "confirm"]
      /\ UNCHANGED <<ranks, worn, over, names, nextId, elevation>>
  BY DEF EnterAdminRole, GoTo, At, client, remote
<1>2. /\ boot'.pc = "confirm" /\ boot'.todo = boot.todo /\ boot'.position = boot.position
      /\ boot'.role = boot.role /\ boot'.id = boot.id
  BY <1>1, BootTyped DEF TInv, ATypeOK
<1>3. PICK p \in AdminRoles : p = boot.role  BY <1>1 DEF TInv, RoleAtHand
<1>4. PICK row : row = PendingStructureRow(rows[p], boot.position[boot.role])  OBVIOUS
<1>5. rows' = [rows EXCEPT ![p] = row]  BY <1>3, <1>4 DEF EnterAdminRole
<1>6. p \in Roles /\ rows'[p] = row /\ \A x \in Roles \ {p} : rows'[x] = rows[x]
  BY <1>5, AdminRow
<1>7. row.id = rows[p].id /\ ~Active(row)  BY <1>4 DEF PendingStructureRow, Active
<1>8. NewApart  BY <1>1 DEF Sees, Starting, Mirroring
<1>9. AdminRoles \subseteq Privileged /\ Privileged \subseteq Roles /\ Ordinary = Roles \ Privileged
  BY AccessAssumption DEF AdminRoles, Ordinary
<1>10. \A r \in Ordinary : rows'[r] = rows[r]  BY <1>6, <1>9
<1>11. \A x \in Privileged : rows'[x].id = rows[x].id  BY <1>6, <1>7, <1>9
<1>12. \A x \in AdminRoles : Active(rows[x]) => rows'[x] = rows[x]
  BY <1>3, <1>6, <1>8, <1>9 DEF NewApart
<1>13. \A x \in AdminRoles \ boot'.todo : Active(rows'[x])
  BY <1>1, <1>2, <1>3, <1>8, <1>12 DEF Sees, Starting, Mirroring, NewApart
<1>14. NewApart'  BY <1>1, <1>2, <1>3, <1>6, <1>7, <1>8, <1>10 DEF NewApart
<1> QED
  BY <1>1, <1>2, <1>10, <1>11, <1>12, <1>13, <1>14, MirroringSees DEF Mirroring

LEMMA ConfirmAdminSees == ASSUME TInv, Fair, Sees, ConfirmAdminRole PROVE Sees'
<1>1. /\ boot.pc = "confirm" /\ UNCHANGED <<ranks, worn, over, names, nextId, elevation>>
      /\ boot' = [boot EXCEPT !.pc = "admin", !.todo = boot.todo \ {boot.role}, !.role = Null, !.id = NoId]
  BY DEF ConfirmAdminRole, At, client, remote
<1>2. PICK p \in AdminRoles : p = boot.role  BY <1>1 DEF TInv, RoleAtHand
<1>3. boot'.pc = "admin" /\ boot'.todo = boot.todo \ {p} /\ boot'.position = boot.position
  BY <1>1, <1>2 DEF TInv, ATypeOK, MainTypeOK
<1>4. PICK row : row = ConfirmedRow(rows[p], boot.id)  OBVIOUS
<1>5. rows' = [rows EXCEPT ![p] = row]  BY <1>2, <1>4 DEF ConfirmAdminRole
<1>6. p \in Roles /\ rows'[p] = row /\ \A x \in Roles \ {p} : rows'[x] = rows[x]
  BY <1>5, AdminRow
<1>7. Found(rows[p])  BY <1>1, <1>2 DEF Fair, StartupAlone, At
<1>8. row.id = boot.id /\ Active(row)
  BY <1>4, <1>6, <1>7, DistinctEntities DEF ConfirmedRow, Active, TInv, ATypeOK, StoatTypeOK, IsRow
<1>9. NewApart  BY <1>1 DEF Sees, Starting, Mirroring
<1>10. AdminRoles \subseteq Privileged /\ Privileged \subseteq Roles /\ Ordinary = Roles \ Privileged
  BY AccessAssumption DEF AdminRoles, Ordinary
<1>11. \A r \in Ordinary : rows'[r] = rows[r]  BY <1>6, <1>10
<1>12. \A x \in Privileged :
         \/ rows'[x].id = rows[x].id
         \/ /\ \A r \in Ordinary : rows[r].id # rows'[x].id
            /\ \A c \in DOMAIN over : rows'[x].id \notin DOMAIN over[c]
  BY <1>6, <1>8, <1>9, <1>10 DEF NewApart
<1>13. \A x \in AdminRoles : Active(rows[x]) => rows'[x] = rows[x]
  BY <1>2, <1>6, <1>9, <1>10 DEF NewApart
<1>14. \A x \in AdminRoles \ boot'.todo : Active(rows'[x])
  BY <1>1, <1>3, <1>6, <1>8, <1>13 DEF Sees, Starting, Mirroring
<1> QED BY <1>1, <1>3, <1>11, <1>12, <1>13, <1>14, MirroringSees DEF Mirroring

LEMMA LeastPosition ==
  ASSUME NEW T, T \subseteq Nat, T # {}
  PROVE  \E x \in T : \A y \in T : x <= y
<1> DEFINE R == {p \in Nat \X Nat : p[1] < p[2]}
<1>1. IsWellFoundedOn(R, Nat)
  BY NatLessThanWellFounded, Zenon DEF OpToRel
<1>2. \A a, b \in Nat : a < b => <<a, b>> \in R  OBVIOUS
<1> HIDE DEF R
<1>3. PICK x \in T : \A y \in T : ~(<<y, x>> \in R)
  BY <1>1, WFMin, Zenon
<1>4. ASSUME NEW y \in T PROVE x <= y
  <2>1. x \in Nat /\ y \in Nat /\ ~(y < x)  BY <1>2, <1>3
  <2> QED BY <2>1
<1> QED BY <1>4

LEMMA FirstAdminIsOne ==
  ASSUME TInv, AdminRoles # {}
  PROVE  FirstAdmin \in AdminRoles
<1> DEFINE T == {boot.position[r] : r \in AdminRoles}
<1>1. \A r \in AdminRoles : boot.position[r] \in Nat
  BY DEF TInv, ATypeOK, MainTypeOK, AdminRoles, Partial
<1>2. T \subseteq Nat /\ T # {}  BY <1>1
<1> HIDE DEF T
<1>3. PICK x \in T : \A y \in T : x <= y  BY <1>2, LeastPosition
<1>4. \E r \in AdminRoles : \A s \in AdminRoles : boot.position[r] <= boot.position[s]
  BY <1>3 DEF T
<1> QED BY <1>4 DEF FirstAdmin

(* What the bot puts on is an administrators' role, which no other role of  *)
(* Discord's is mapped to.                                                  *)
LEMMA WearSees == ASSUME TInv, Sees, WearAdminRole PROVE Sees'
<1>1. /\ At("admin") /\ boot.todo = {}
      /\ UNCHANGED <<position, rows, ranks, over, names, nextId, elevation>>
  BY DEF WearAdminRole, discord
<1>2. CASE Exits /\ UNCHANGED worn  BY <1>1, <1>2, EndSees
<1>3. ASSUME GoTo("bind"), adminRoles' = AdminIds, NEW T \in SUBSET AdminIds, worn' = worn \cup T,
             T \subseteq DOMAIN ranks, AdminIds \cap worn' # {}
      PROVE  Sees'
  <2>1. boot'.pc = "bind" /\ boot'.position = boot.position
    BY <1>3 DEF GoTo, TInv, ATypeOK, MainTypeOK
  <2>2. Shown' = Shown /\ Shown = boot.position  BY <1>1, <2>1 DEF Shown, At, Mirroring, Binding
  <2>3. \A t : Claims(t)' <=> Claims(t)  BY <1>1, <2>2 DEF Claims
  <2>4. \A t \in AdminIds : Claims(t)
    BY <1>1, <2>2 DEF AdminIds, AdminRoles, Claims, Sees, Starting, At, Mirroring
  <2>5. OrdinaryApart /\ NamedApart /\ AdminsOpen /\ Anchored /\ Sighted
    BY <1>1 DEF Sees, Starting, At, Before, Mirroring
  <2>6. T \subseteq DOMAIN ranks /\ NoId \notin T
    BY <1>3, WornAreRoles DEF Sees
  <2>7. \A t \in T : \E p \in Privileged : rows[p].id = t  BY DEF AdminIds, AdminRoles
  <2>8. \A c \in DOMAIN over, t \in T : t \in DOMAIN over[c] => View \notin over[c][t].deny
    BY <2>5, <2>6, <2>7 DEF AdminsOpen, Default
  <2>9. Sighted'
    BY <1>1, <1>3, <2>5, <2>6, <2>8 DEF Sighted, InView, Allowed, Denied
  <2>10. OrdinaryApart'
    BY <1>1, <1>3, <2>2, <2>5, <2>6, <2>7 DEF OrdinaryApart
  <2>11. NamedApart'  BY <1>1, <1>3, <2>2, <2>3, <2>4, <2>5 DEF NamedApart
  <2>12. AdminsOpen'  BY <1>1, <2>5 DEF AdminsOpen
  <2>13. Anchored'  BY <1>1, <1>3, <2>3, <2>5 DEF Anchored, Allowed, Denied
  <2>14. elevation' # NoId  BY <1>1 DEF Sees, Knows, At, Mirroring
  <2> QED
    BY <1>3, <2>1, <2>3, <2>4, <2>9, <2>10, <2>11, <2>12, <2>13, <2>14
       DEF Sees, Starting, Knows, Working, Mirroring, Binding
<1>4. CASE GoTo("bind") /\ adminRoles' = AdminIds /\ UNCHANGED worn /\ AdminIds \cap worn # {}
  <2>1. worn' = worn \cup {} /\ {} \in SUBSET AdminIds /\ {} \subseteq DOMAIN ranks
        /\ AdminIds \cap worn' # {}
    BY <1>4
  <2> HIDE DEF AdminIds
  <2> QED BY <1>3, <1>4, <2>1
<1>5. CASE GoTo("bind") /\ adminRoles' = AdminIds /\ AddSelfToRole(rows[FirstAdmin].id)
  <2>1. PICK t : t = rows[FirstAdmin].id  OBVIOUS
  <2>2. FirstAdmin \in AdminRoles  BY <1>1, FirstAdminIsOne DEF Sees, Knows, At, Mirroring
  <2>3. t \in AdminIds /\ t \in DOMAIN ranks /\ worn' = worn \cup {t}
    BY <1>5, <2>1, <2>2 DEF AdminIds, AddSelfToRole
  <2>4. {t} \in SUBSET AdminIds /\ {t} \subseteq DOMAIN ranks /\ AdminIds \cap worn' # {}  BY <2>3
  <2> QED BY <1>3, <1>5, <2>3, <2>4
<1> QED BY <1>2, <1>4, <1>5 DEF WearAdminRole

-----------------------------------------------------------------------------
(* Bind and Reconcile.                                                      *)
LEMMA BindingSees ==
  ASSUME TInv, Sees, boot.pc \in Binding, boot'.pc \in Binding, boot'.position = boot.position,
         boot'.pc # "bind" => boot'.roles = DOMAIN ranks, \A r \in Roles : rows'[r] = rows[r],
         DOMAIN over' \subseteq DOMAIN over, \A c \in DOMAIN over' : over'[c] = over[c],
         UNCHANGED <<ranks, worn, names, nextId, elevation, adminRoles>>
  PROVE  Sees'
<1>1. Shown' = Shown  BY DEF Shown
<1>2. \A r \in Ordinary \cup Privileged : rows'[r] = rows[r]  BY AccessAssumption DEF Ordinary
<1>3. \A t : Claims(t)' <=> Claims(t)  BY <1>1, <1>2 DEF Claims
<1>4. Sighted /\ OrdinaryApart /\ NamedApart /\ AdminsOpen /\ Anchored  BY DEF Sees, Starting, Before
<1>5. OrdinaryApart' /\ NamedApart' /\ AdminsOpen' /\ Anchored'
  BY <1>1, <1>2, <1>3, <1>4, StaysApart
<1>6. Sighted'  BY <1>4 DEF Sighted, InView, Denied, Allowed
<1>7. elevation' # NoId /\ adminRoles' \cap worn' # {} /\ \A t \in (adminRoles \cap worn)' : Claims(t)'
  BY <1>3 DEF Sees, Starting, Knows
<1> QED BY <1>5, <1>6, <1>7 DEF Sees, Starting, Knows, Working, Mirroring, Binding

LEMMA ReadServerSees == ASSUME TInv, Sees, ReadServer PROVE Sees'
<1>1. PICK seen \in SUBSET DOMAIN over :
        boot' = [boot EXCEPT !.pc = "channels", !.roles = DOMAIN ranks, !.channels = DOMAIN over, !.seen = seen]
  BY DEF ReadServer
<1>2. boot'.pc = "channels" /\ boot'.roles = DOMAIN ranks /\ boot'.position = boot.position
  BY <1>1 DEF TInv, ATypeOK, MainTypeOK
<1>3. boot.pc = "bind" /\ UNCHANGED <<rows, ranks, worn, over, names, nextId, elevation, adminRoles>>
  BY DEF ReadServer, At, remote, client
<1> QED BY <1>2, <1>3, BindingSees DEF Binding

(* A row of no entity that is bound stays, and so does one that is held.    *)
LEMMA BoundStays ==
  ASSUME NEW es, NEW listed, NEW fetched, NEW spared, NEW next,
         BindEntities(es, listed, fetched, spared, next), NEW e \in Entity,
         e \notin es \ Held(es, listed)
  PROVE  rows'[e] = rows[e]
<1>1. PICK to \in [Wanted(es, listed, fetched) -> es \ Held(es, listed)] :
        rows'[e] = Bound(rows[e], e \in es \ Held(es, listed), {id \in Wanted(es, listed, fetched) : to[id] = e})
  BY DEF BindEntities
<1>2. {id \in Wanted(es, listed, fetched) : to[id] = e} = {}
  <2> DEFINE wanted == Wanted(es, listed, fetched)
             dead   == es \ Held(es, listed)
  <2> HIDE DEF wanted, dead
  <2> QED BY DEF wanted, dead
<1>3. Bound(rows[e], e \in es \ Held(es, listed), {}) = rows[e]  BY DEF Bound
<1> QED BY <1>1, <1>2, <1>3

LEMMA BindChannelsSees == ASSUME TInv, Sees, BindChannels PROVE Sees'
<1>1. /\ BindEntities(DOMAIN boot.guild, boot.channels, boot.seen, {}, "reapchannels")
      /\ boot.pc = "channels" /\ UNCHANGED <<ranks, worn, over, names, nextId, elevation, adminRoles>>
  BY DEF BindChannels, At, remote, client
<1>2. DOMAIN boot.guild \cap Roles = {}
  BY DistinctEntities DEF TInv, ATypeOK, MainTypeOK, Partial
<1>3. \A r \in Roles : rows'[r] = rows[r]  BY <1>1, <1>2, BoundStays, DistinctEntities
<1>4. boot'.pc = "reapchannels" /\ boot'.roles = boot.roles /\ boot'.position = boot.position
  BY <1>1 DEF BindEntities, TInv, ATypeOK, MainTypeOK
<1>5. boot.roles = DOMAIN ranks  BY <1>1 DEF Sees, Starting
<1> QED BY <1>1, <1>3, <1>4, <1>5, BindingSees DEF Binding

LEMMA ReapChannelSees == ASSUME TInv, Sees, NEW id, ReapChannel(id) PROVE Sees'
<1>1. /\ boot.pc = "reapchannels" /\ boot' = [boot EXCEPT !.todo = boot.todo \ {id}]
      /\ over' \in {over, Restrict(over, DOMAIN over \ {id})}
      /\ UNCHANGED <<rows, ranks, worn, names, nextId, elevation, adminRoles>>
  BY DEF ReapChannel, At, client
<1>2. boot'.pc = "reapchannels" /\ boot'.roles = boot.roles /\ boot'.position = boot.position
  BY <1>1 DEF TInv, ATypeOK, MainTypeOK
<1>3. boot.roles = DOMAIN ranks  BY <1>1 DEF Sees, Starting
<1>4. DOMAIN over' \subseteq DOMAIN over /\ \A c \in DOMAIN over' : over'[c] = over[c]
  BY <1>1 DEF Restrict
<1> QED BY <1>1, <1>2, <1>3, <1>4, BindingSees DEF Binding

(* Bind ends the program if a role has adopted the bot's.  It keeps the     *)
(* administrators' roles that are there, and gives no other one of them.    *)
LEMMA BindRolesSees == ASSUME TInv, Fair, Sees, BindRoles PROVE Sees'
<1>1. CASE Exits  BY <1>1, EndSees DEF BindRoles, remote
<1>2. CASE ~Exits
  <2> DEFINE es == DOMAIN boot.position
             listed == boot.roles
  <2>1. /\ ~\E r \in es : Active(rows[r]) /\ rows[r].id = elevation
        /\ BindEntities(es, listed, listed, {elevation}, "reaproles")
        /\ boot.pc = "reapchannels"
        /\ UNCHANGED <<position, gone, ranks, worn, over, names, nextId, elevation, adminRoles, worker>>
    BY <1>2 DEF BindRoles, At, discord, remote, client, engine
  <2>2. boot'.pc = "reaproles" /\ boot'.position = boot.position
    BY <2>1 DEF BindEntities, TInv, ATypeOK, MainTypeOK
  <2>3. boot'.todo = Free(es, listed, listed) \ (Wanted(es, listed, listed) \cup {elevation})
    BY <2>1 DEF BindEntities, TInv, ATypeOK, MainTypeOK
  <2>4. /\ OrdinaryApart /\ NamedApart /\ Anchored /\ Sighted /\ listed = DOMAIN ranks
        /\ \A t \in adminRoles \cap worn : Claims(t)
    BY <2>1 DEF Sees, Starting, Before, Binding
  <2>5. es \subseteq Roles /\ es = DOMAIN Shown /\ Shown' = Shown
    BY <2>1, <2>2 DEF Shown, Binding, TInv, ATypeOK, MainTypeOK, Partial
  <2> HIDE DEF es, listed
  <2>6. ASSUME NEW p \in Privileged \cap es, Active(rows[p]), rows[p].id \in listed
        PROVE  p \in Held(es, listed) /\ rows'[p] = rows[p] /\ rows[p].id \notin Free(es, listed, listed)
    <3>1. p \in Held(es, listed)  BY <2>6 DEF Held
    <3>2. p \in Entity  BY <2>5, DistinctEntities
    <3> QED BY <2>1, <3>1, <3>2, BoundStays DEF Free
  <2>7. ASSUME NEW t \in listed, Claims(t) PROVE Claims(t)' /\ t \notin Free(es, listed, listed)
    <3>1. PICK p \in Privileged \cap es : Active(rows[p]) /\ rows[p].id = t  BY <2>5, <2>7 DEF Claims
    <3> QED BY <2>5, <2>6, <2>7, <3>1 DEF Claims
  <2>8. \A e \in Entity : worker[e] = Idle
    BY <2>1, ProjectionsTyped DEF Fair, StartupAlone, EngineOff, At
  <2>9. ASSUME NEW r \in Ordinary PROVE NotWorn(r)'
    <3>1. r \in Entity /\ r \in Roles  BY DistinctEntities DEF Ordinary
    <3>2. NoId \notin worn /\ worn \subseteq listed  BY <2>4, WornAreRoles DEF Sees
    <3>3. rows[r].id \in worn => FALSE
      <4>1. SUFFICES ASSUME rows[r].id \in worn PROVE FALSE  OBVIOUS
      <4>2. ranks[rows[r].id] = 0 /\ Active(rows[r]) /\ r \in es
        BY <2>4, <2>5, <4>1 DEF OrdinaryApart
      <4>3. rows[r].id \in DOMAIN ranks /\ elevation # NoId
        BY <2>1, <2>4, <4>1 DEF Sees, Sighted, Knows, Binding
      <4>4. rows[r].id \in {x \in DOMAIN ranks : ranks[x] = 0}  BY <4>2, <4>3
      <4>5. rows[r].id = elevation  BY <4>3, <4>4 DEF TInv, ElevationSafe
      <4> QED BY <2>1, <4>2, <4>5
    <3>4. rows'[r].id \notin worn
      <4> DEFINE wanted == Wanted(es, listed, listed)
                 dead   == es \ Held(es, listed)
      <4>1. PICK to \in [wanted -> dead] :
              /\ \A id \in wanted : Name[to[id]] = names[id]
              /\ rows'[r] = Bound(rows[r], r \in dead, {id \in wanted : to[id] = r})
        BY <2>1, <3>1 DEF BindEntities
      <4>2. wanted \subseteq Free(es, listed, listed)  BY DEF Wanted
      <4> HIDE DEF wanted, dead
      <4> DEFINE ids == {id \in wanted : to[id] = r}
      <4>5. rows'[r] = Bound(rows[r], r \in dead, ids)  BY <4>1
      <4>6. \A id \in ids : id \in wanted /\ to[id] = r  OBVIOUS
      <4> HIDE DEF ids
      <4>3. CASE ids = {}
        BY <3>2, <3>3, <4>3, <4>5, BoundFacts DEF Absent
      <4>4. CASE ids # {}
        <5>1. PICK id \in ids : rows'[r].id = id  BY <4>4, <4>5, BoundFacts
        <5>2. r \in es /\ Name[r] = names[id] /\ id \in Free(es, listed, listed)
          BY <4>1, <4>2, <4>6, <5>1 DEF dead
        <5>3. id \notin worn  BY <2>4, <2>5, <2>7, <3>2, <5>2 DEF NamedApart
        <5> QED BY <5>1, <5>3
      <4> QED BY <4>3, <4>4
    <3> QED BY <2>1, <2>8, <3>1, <3>4, IdleFields DEF NotWorn
  <2>10. ASSUME NEW c \in Channels PROVE ChannelSighted(c)'
    BY <2>1, <2>8, IdleFields, DistinctEntities DEF ChannelSighted
  <2>11. gone = {}  BY <2>1 DEF Fair, StartupAlone
  <2>12. Sighted'  BY <2>1, <2>4, SightedSame
  <2>13. Working'  BY <2>1, <2>9, <2>10, <2>11 DEF Working
  <2>14. \A t \in worn : Claims(t) => Claims(t)'
    BY <2>4, <2>7, WornAreRoles DEF Sees
  <2>15. Anchored'  BY <2>1, <2>4, <2>14 DEF Anchored, Denied, Allowed
  <2>16. \A t \in boot'.todo : ~Claims(t)'
    <3>1. ASSUME NEW t \in boot'.todo, Claims(t)' PROVE FALSE
      <4>1. PICK p \in Privileged \cap es : Active(rows'[p]) /\ rows'[p].id = t
        BY <2>5, <3>1 DEF Claims
      <4>2. p \in Entity /\ t \in Free(es, listed, listed) /\ t \notin Wanted(es, listed, listed)
        BY <2>3, <2>5, <3>1, DistinctEntities
      <4>3. CASE p \in Held(es, listed)
        <5>1. rows'[p] = rows[p]  BY <2>1, <4>2, <4>3, BoundStays
        <5>2. t \notin Free(es, listed, listed)  BY <4>1, <4>3, <5>1 DEF Free
        <5> QED BY <4>2, <5>2
      <4>4. CASE p \notin Held(es, listed)
        <5> DEFINE wanted == Wanted(es, listed, listed)
                   dead   == es \ Held(es, listed)
        <5>1. PICK to \in [wanted -> dead] :
                rows'[p] = Bound(rows[p], p \in dead, {id \in wanted : to[id] = p})
          BY <2>1, <4>2 DEF BindEntities
        <5>2. p \in dead  BY <4>4
        <5> HIDE DEF wanted, dead
        <5> DEFINE ids == {id \in wanted : to[id] = p}
        <5>5. rows'[p] = Bound(rows[p], p \in dead, ids) /\ ids \subseteq wanted  BY <5>1
        <5> HIDE DEF ids
        <5>3. CASE ids = {}
          <6>1. rows'[p] = Absent \/ (rows'[p] = rows[p] /\ ~Active(rows[p]))
            BY <5>2, <5>3, <5>5 DEF Bound
          <6> QED BY <4>1, <6>1 DEF Absent, Active
        <5>4. CASE ids # {}  BY <4>1, <4>2, <5>4, <5>5, BoundFacts DEF wanted
        <5> QED BY <5>3, <5>4
      <4> QED BY <4>3, <4>4
    <3> QED BY <3>1
  <2>17. Starting'
    BY <2>1, <2>2, <2>4, <2>14, <2>15, <2>16 DEF Starting, Before, Mirroring, Binding
  <2>18. Knows'
    BY <2>1, <2>2 DEF Sees, Knows, Binding, Mirroring
  <2> QED BY <2>12, <2>13, <2>17, <2>18 DEF Sees
<1> QED BY <1>1, <1>2

LEMMA ReapRoleSees == ASSUME TInv, Fair, Sees, NEW id, ReapRole(id) PROVE Sees'
<1>1. /\ boot.pc = "reaproles" /\ boot' = [boot EXCEPT !.todo = boot.todo \ {id}] /\ id \in boot.todo
      /\ UNCHANGED <<position, gone, rows, nextId, elevation, adminRoles, worker>>
  BY DEF ReapRole, At, discord, client, engine
<1>2. boot'.pc = "reaproles" /\ boot'.todo = boot.todo \ {id} /\ boot'.position = boot.position
  BY <1>1 DEF TInv, ATypeOK, MainTypeOK
<1>3. \A t : Claims(t)' <=> Claims(t)  BY <1>1, <1>2 DEF Claims, Shown
<1>4. /\ Sighted /\ Anchored /\ elevation # NoId /\ ~Claims(id) /\ adminRoles \cap worn # {}
      /\ (\A t \in boot.todo : ~Claims(t)) /\ \A t \in adminRoles \cap worn : Claims(t)
  BY <1>1 DEF Sees, Starting, Knows
<1>5. /\ Sighted' /\ worn' \subseteq worn /\ worn \ {id} \subseteq worn'
      /\ Anchored'
  <2>1. CASE UNCHANGED <<ranks, worn, over>>
    BY <1>1, <1>3, <1>4, <2>1, SightedSame DEF Anchored, Denied, Allowed
  <2>2. CASE Writable(id) /\ StoatDeletes(id)
    <3>1. ASSUME NEW t \in worn, ranks[t] = 0 \/ Claims(t) PROVE t # id
      <4>1. worn \subseteq DOMAIN ranks  BY <1>4 DEF Sighted
      <4>2. ranks[t] = 0 => t = elevation  BY <1>4, <4>1 DEF TInv, ElevationSafe
      <4> QED BY <1>4, <2>2, <3>1, <4>2 DEF Writable
    <3>2. \A c \in DOMAIN over : Denied(c) =>
            \E t \in worn \ {id} : Allowed(c, t) /\ (ranks[t] = 0 \/ Claims(t))
      BY <1>4, <3>1 DEF Anchored
    <3>3. \A c \in DOMAIN over : Denied(c) => \E t \in worn \ {id} : Allowed(c, t)  BY <3>2
    <3>4. /\ Sighted' /\ DOMAIN over' = DOMAIN over /\ worn' = worn \ {id}
          /\ \A c \in DOMAIN over : Denied(c)' => Denied(c)
          /\ \A c \in DOMAIN over, t \in worn \ {id} : Allowed(c, t) => Allowed(c, t)'
          /\ \A t \in worn \ {id} : ranks'[t] = ranks[t]
      BY <1>1, <1>4, <2>2, <3>3, SightedLess
    <3>5. ASSUME NEW c \in DOMAIN over', Denied(c)'
          PROVE  \E t \in worn' : Allowed(c, t)' /\ (ranks'[t] = 0 \/ Claims(t)')
      <4>1. PICK t \in worn \ {id} : Allowed(c, t) /\ (ranks[t] = 0 \/ Claims(t))
        BY <3>2, <3>4, <3>5
      <4> QED BY <1>3, <3>4, <3>5, <4>1
    <3> QED BY <3>4, <3>5 DEF Anchored
  <2> QED BY <2>1, <2>2 DEF ReapRole
<1>6. adminRoles' \cap worn' # {} /\ \A t \in (adminRoles \cap worn)' : Claims(t)'
  BY <1>1, <1>3, <1>4, <1>5
<1>7. \A r \in Ordinary : NotWorn(r)'  BY <1>1, <1>5 DEF Sees, Working, NotWorn
<1>8. \A c \in Channels : worker'[c] = Idle
  BY <1>1, DistinctEntities, ProjectionsTyped DEF Fair, StartupAlone, EngineOff, At
<1>9. \A c \in Channels : ChannelSighted(c)'  BY <1>8, IdleFields DEF ChannelSighted
<1>10. Working'  BY <1>1, <1>7, <1>9 DEF Working, Sees
<1>11. Starting'
  BY <1>2, <1>3, <1>4, <1>5, <1>6 DEF Starting, Before, Mirroring, Binding
<1>12. Knows'  BY <1>1, <1>2, <1>4, <1>6 DEF Knows, Binding, Mirroring
<1> QED BY <1>5, <1>10, <1>11, <1>12 DEF Sees

LEMMA ReconcileLiveSees == ASSUME TInv, Fair, Sees, ReconcileLive PROVE Sees'
<1>1. /\ boot.pc = "reaproles" /\ boot' = [boot EXCEPT !.pc = "converge"]
      /\ UNCHANGED <<position, gone, ranks, worn, over, nextId, elevation, adminRoles, worker>>
  BY DEF ReconcileLive, At, GoTo, discord, remote, client, engine
<1>2. boot'.pc = "converge"  BY <1>1, BootTyped DEF TInv, ATypeOK
<1>3. PICK failed : rows' = [e \in Entity |->
             IF e \in (DOMAIN boot.position \cup DOMAIN boot.guild) \ failed /\ Fetchable(e)
             THEN Verified(e) ELSE rows[e]]
  BY DEF ReconcileLive
<1>4. \A e \in Entity : rows'[e].id = rows[e].id  BY <1>3, VerifiedKeeps
<1>5. \A r \in Ordinary : NotWorn(r)'
  BY <1>1, <1>4, DistinctEntities DEF Sees, Working, NotWorn, Ordinary
<1>6. \A c \in Channels : ChannelSighted(c)'
  BY <1>1 DEF Sees, Working, ChannelSighted, Allowed
<1>7. Sighted'  BY <1>1, SightedSame DEF Sees
<1>8. Working'  BY <1>1, <1>5, <1>6 DEF Working, Sees
<1>9. Knows'  BY <1>1, <1>2 DEF Sees, Knows, Mirroring, Binding
<1> QED BY <1>2, <1>7, <1>8, <1>9 DEF Sees, Starting, Before, Mirroring, Binding

LEMMA ConvergeSees == ASSUME TInv, Sees, ConvergeAll PROVE Sees'
<1>1. /\ At("converge") /\ boot'.pc = "up"
      /\ UNCHANGED <<gone, rows, ranks, worn, over, nextId, adminRoles, worker>>
  BY DEF ConvergeAll, Down, discord, remote, client
<1>2. Sighted'  BY <1>1, SightedSame DEF Sees
<1>3. Working'  BY <1>1 DEF Sees, Working, NotWorn, ChannelSighted, Allowed, At
<1> QED BY <1>1, <1>2, <1>3 DEF Sees, Starting, Knows, At, Before, Mirroring, Binding

LEMMA MainSees == ASSUME TInv, Fair, Sees, Main PROVE Sees'
<1>1. CASE StartupFails \/ RefuseToStart \/ Interrupted \/ Drained \/ GiveUp  BY <1>1, ExitsSees
<1>2. CASE Connect \/ ResolveElevationRole \/ ReadStructure
  BY <1>2, ConnectSees, ResolveSees, ReadSees
<1>3. CASE \E r \in Privileged : SkipAdminRole(r) \/ CreateAdminRole(r)
  BY <1>3, SkipAdminSees, CreateAdminSees
<1>4. CASE RankAdminRole \/ EnterAdminRole \/ ConfirmAdminRole \/ WearAdminRole
  BY <1>4, RankAdminSees, EnterAdminSees, ConfirmAdminSees, WearSees
<1>5. CASE ReadServer \/ BindChannels \/ BindRoles \/ \E id \in boot.todo : ReapChannel(id) \/ ReapRole(id)
  BY <1>5, ReadServerSees, BindChannelsSees, BindRolesSees, ReapChannelSees, ReapRoleSees
<1>6. CASE ReconcileLive \/ ConvergeAll  BY <1>6, ReconcileLiveSees, ConvergeSees
<1> QED BY <1>1, <1>2, <1>3, <1>4, <1>5, <1>6 DEF Main

-----------------------------------------------------------------------------

(* Once main is up the bot's roles stay, and so does what allows it to see. *)
LEMMA SeesSame ==
  ASSUME Sees, UNCHANGED <<position, gone, rows, ranks, worn, over, names, nextId, elevation, adminRoles, boot, worker>>
  PROVE  Sees'
<1>1. Sighted'  BY SightedSame DEF Sees
<1>2. Starting'
  <2>1. \A t : Claims(t)' <=> Claims(t)  BY DEF Claims, Shown
  <2>2. Shown' = Shown  BY DEF Shown
  <2>3. (OrdinaryApart => OrdinaryApart') /\ (NewApart => NewApart')
    BY <2>2 DEF OrdinaryApart, NewApart
  <2>4. (NamedApart => NamedApart') /\ (AdminsOpen => AdminsOpen') /\ (Anchored => Anchored')
    BY <2>1, <2>2 DEF NamedApart, AdminsOpen, Anchored, Denied, Allowed
  <2> QED BY <2>1, <2>3, <2>4 DEF Sees, Starting, AdminRoles
<1>3. Knows'  BY DEF Sees, Knows, At, AdminRoles
<1>4. Working'  BY DEF Sees, Working, NotWorn, ChannelSighted, Allowed
<1> QED BY <1>1, <1>2, <1>3, <1>4 DEF Sees

LEMMA UpSees ==
  ASSUME Sees, At("up"), UNCHANGED <<boot, adminRoles, worn>>, Sighted', gone' \subseteq MayDelete,
         \A r \in Ordinary : NotWorn(r)', \A c \in Channels : ChannelSighted(c)'
  PROVE  Sees'
BY DEF Sees, Starting, Knows, Working, At, Before, Mirroring, Binding

StaysAllowed ==
  \A c \in DOMAIN over : c \in DOMAIN over' /\ \A t \in worn : Allowed(c, t) => Allowed(c, t)'

LEMMA AllowedSame == ASSUME UNCHANGED over PROVE StaysAllowed
BY DEF StaysAllowed, Allowed

LEMMA OthersSighted ==
  ASSUME NEW c, ChannelSighted(c), UNCHANGED <<adminRoles, worn>>, worker'[c] = worker[c], StaysAllowed
  PROVE  ChannelSighted(c)'
BY DEF ChannelSighted, StaysAllowed

LEMMA RoleSees ==
  ASSUME TInv, Sees, At("up"), UNCHANGED <<boot, adminRoles, worn>>, NEW r \in Roles,
         \A x \in Entity \ {r} : worker'[x] = worker[x] /\ rows'[x] = rows[x],
         gone' \subseteq MayDelete, Sighted', StaysAllowed, r \in Ordinary => NotWorn(r)'
  PROVE  Sees'
<1>1. ASSUME NEW x \in Ordinary PROVE NotWorn(x)'
  <2>1. CASE x = r  BY <1>1, <2>1
  <2>2. CASE x # r
    <3>1. worker'[x] = worker[x] /\ rows'[x] = rows[x]  BY <2>2, DistinctEntities DEF Ordinary
    <3> QED BY <3>1 DEF Sees, Working, At, NotWorn
  <2> QED BY <2>1, <2>2
<1>2. ASSUME NEW c \in Channels PROVE ChannelSighted(c)'
  <2>1. worker'[c] = worker[c]  BY DistinctEntities
  <2> QED BY <2>1, OthersSighted DEF Sees, Working, At
<1> QED BY <1>1, <1>2, UpSees

LEMMA ChannelSees ==
  ASSUME TInv, Sees, At("up"), UNCHANGED <<boot, adminRoles, worn, gone>>, NEW c \in Channels,
         \A x \in Entity \ {c} : worker'[x] = worker[x] /\ rows'[x] = rows[x],
         Sighted', StaysAllowed, ChannelSighted(c)'
  PROVE  Sees'
<1>1. ASSUME NEW x \in Ordinary PROVE NotWorn(x)'
  <2>1. worker'[x] = worker[x] /\ rows'[x] = rows[x]  BY DistinctEntities DEF Ordinary
  <2> QED BY <2>1 DEF Sees, Working, At, NotWorn
<1>2. ASSUME NEW d \in Channels PROVE ChannelSighted(d)'
  <2>1. CASE d = c  BY <2>1
  <2>2. CASE d # c
    <3>1. worker'[d] = worker[d]  BY <2>2, DistinctEntities
    <3> QED BY <3>1, OthersSighted DEF Sees, Working, At
  <2> QED BY <2>1, <2>2
<1> QED BY <1>1, <1>2, UpSees DEF Sees, Working, At

(* Discord.                                                                 *)
LEMMA HappensSees == ASSUME Early = FALSE, Sees, Happens PROVE Sees'
<1>1. CASE Signal
  <2>1. UNCHANGED <<position, gone, rows, ranks, worn, over, names, nextId, elevation, adminRoles, boot, worker>>
    BY <1>1 DEF Signal, discord, remote, client, engine
  <2> QED BY <2>1, SeesSame
<1>2. CASE MayHappen
  <2>1. At("up")  BY <1>2 DEF MayHappen
  <2>2. /\ UNCHANGED <<rows, ranks, worn, over, nextId, adminRoles, boot, worker>>
        /\ gone' = gone \/ \E r \in MayDelete : gone' = gone \cup {r}
    BY <2>1 DEF Happens, Signal, ChangeChannel, ChangeRole, DeleteRole, discord, remote, client, main, engine
  <2>3. gone' \subseteq MayDelete  BY <2>1, <2>2 DEF Sees, Working, At
  <2>4. Sighted'  BY <2>2, SightedSame DEF Sees
  <2>5. \A r \in Ordinary : NotWorn(r)'  BY <2>1, <2>2 DEF Sees, Working, At, NotWorn
  <2>6. \A c \in Channels : ChannelSighted(c)'
    BY <2>1, <2>2, AllowedSame, OthersSighted DEF Sees, Working, At
  <2> QED BY <2>1, <2>2, <2>3, <2>4, <2>5, <2>6, UpSees
<1> QED BY <1>1, <1>2 DEF Happens, ChangeChannel, ChangeRole, DeleteRole

-----------------------------------------------------------------------------
(* The engine.                                                              *)
LEMMA OrdinaryNotWorn ==
  ASSUME Sees, At("up"), NEW r \in Ordinary
  PROVE  NotWorn(r)
BY DEF Sees, Working, At

LEMMA SkipSees == ASSUME Sees, NEW e \in Entity, Skip(e) PROVE Sees'
<1>1. UNCHANGED <<position, gone, rows, ranks, worn, over, names, nextId, elevation, adminRoles, boot, worker>>
  BY DEF Skip, discord, remote, client, main
<1> QED BY <1>1, SeesSame

LEMMA WritePendingSees == ASSUME TInv, Fair, Sees, NEW e \in Entity, WritePending(e) PROVE Sees'
<1> DEFINE op == Head(queue[e])
           w  == [Idle EXCEPT !.pc = "apply", !.kind = "put", !.state = op.state,
                              !.todo = IF e \in Channels THEN DOMAIN op.state ELSE {}]
<1>1. /\ queue[e] # <<>> /\ Step(e, w)
      /\ rows' = [rows EXCEPT ![e] = PendingStructureRow(@, op.state)]
      /\ UNCHANGED <<gone, ranks, worn, over, nextId, adminRoles, boot>>
  BY DEF WritePending, Ready, discord, remote, client, main
<1>2. At("up")  BY <1>1, WorkIsUp
<1>3. w.pc = "apply" /\ w.sets = {}  BY DEF Idle
<1> HIDE DEF w
<1>4. worker'[e] = w /\ \A x \in Entity \ {e} : worker'[x] = worker[x]  BY <1>1, Stepped
<1>5. rows'[e].id = rows[e].id /\ \A x \in Entity \ {e} : rows'[x] = rows[x]
  BY <1>1 DEF TInv, ATypeOK, StoatTypeOK, PendingStructureRow
<1>6. Sighted'  BY <1>1, SightedSame DEF Sees
<1>7. CASE e \in Roles
  <2>1. e \in Ordinary => NotWorn(e)'  BY <1>1, <1>2, <1>3, <1>4, <1>5, OrdinaryNotWorn DEF NotWorn
  <2> QED BY <1>1, <1>2, <1>4, <1>5, <1>6, <1>7, <2>1, AllowedSame, RoleSees DEF Sees, Working, At
<1>8. CASE e \in Channels
  <2>1. ChannelSighted(e)'  BY <1>3, <1>4 DEF ChannelSighted
  <2> QED BY <1>1, <1>2, <1>4, <1>5, <1>6, <1>8, <2>1, AllowedSame, ChannelSees
<1> QED BY <1>7, <1>8, DistinctEntities

LEMMA OpFailsSees == ASSUME TInv, Fair, Sees, NEW e \in Entity, OpFails(e) PROVE Sees'
<1>1. Step(e, Idle) /\ UNCHANGED <<gone, rows, ranks, worn, over, nextId, adminRoles, boot>>
  BY DEF OpFails, discord, remote, client, main
<1>2. worker'[e] = Idle /\ \A x \in Entity \ {e} : worker'[x] = worker[x]  BY <1>1, Stepped
<1>3. worker[e].pc # "idle"  BY DEF OpFails, Refused, Edits, Applies
<1>4. At("up")  BY <1>3, WorkIsUp
<1>5. Sighted'  BY <1>1, SightedSame DEF Sees
<1>6. CASE e \in Roles
  <2>1. e \in Ordinary => NotWorn(e)'  BY <1>1, <1>2, <1>4, IdleFields, OrdinaryNotWorn DEF NotWorn
  <2> QED BY <1>1, <1>2, <1>4, <1>5, <1>6, <2>1, AllowedSame, RoleSees DEF Sees, Working, At
<1>7. CASE e \in Channels
  <2>1. ChannelSighted(e)'  BY <1>2, IdleFields DEF ChannelSighted
  <2> QED BY <1>1, <1>2, <1>4, <1>5, <1>7, <2>1, AllowedSame, ChannelSees
<1> QED BY <1>6, <1>7, DistinctEntities

LEMMA ConfirmSees == ASSUME TInv, Fair, Sees, NEW e \in Entity, Confirm(e) PROVE Sees'
<1> DEFINE w == IF e \in Roles THEN [Idle EXCEPT !.pc = "notify"] ELSE Idle
<1>1. /\ Step(e, w) /\ worker[e].pc \in {"permit", "grant"}
      /\ rows' = [rows EXCEPT ![e] = ConfirmedRow(@, worker[e].id)]
      /\ UNCHANGED <<gone, ranks, worn, over, nextId, adminRoles, boot>>
  BY DEF Confirm, Done, discord, remote, client, main
<1>2. worker'[e] = w /\ \A x \in Entity \ {e} : worker'[x] = worker[x]  BY <1>1, Stepped
<1>3. rows'[e] = ConfirmedRow(rows[e], worker[e].id) /\ \A x \in Entity \ {e} : rows'[x] = rows[x]
  BY <1>1 DEF TInv, ATypeOK, StoatTypeOK
<1>4. At("up")  BY <1>1, WorkIsUp
<1>5. Sighted'  BY <1>1, SightedSame DEF Sees
<1>8. w.pc \in {"idle", "notify"} /\ w.sets = {}  BY DEF Idle
<1> HIDE DEF w
<1>6. CASE e \in Roles
  <2>1. worker[e].pc = "permit"  BY <1>1, <1>6, EngineFacts DEF TInv, ATypeOK, RoleWork
  <2>2. rows'[e].id \in {rows[e].id, worker[e].id}
    BY <1>3 DEF ConfirmedRow, TInv, ATypeOK, StoatTypeOK, IsRow
  <2>3. e \in Ordinary => NotWorn(e)'
    BY <1>1, <1>2, <1>4, <1>8, <2>1, <2>2, OrdinaryNotWorn DEF NotWorn
  <2> QED BY <1>1, <1>2, <1>3, <1>4, <1>5, <1>6, <2>3, AllowedSame, RoleSees DEF Sees, Working, At
<1>7. CASE e \in Channels
  <2>1. ChannelSighted(e)'  BY <1>2, <1>8 DEF ChannelSighted
  <2> QED BY <1>1, <1>2, <1>3, <1>4, <1>5, <1>7, <2>1, AllowedSame, ChannelSees
<1> QED BY <1>6, <1>7, DistinctEntities

-----------------------------------------------------------------------------
(* A role's worker.  The role it creates is new, and what it deletes is not *)
(* one that the bot wears, since administrators stay.                       *)
LEMMA BeginDeleteSees ==
  ASSUME TInv, Fair, Sees, NEW r \in Roles, BeginDelete(r) PROVE Sees'
<1> DEFINE w == [Idle EXCEPT !.pc = "apply", !.kind = "delete"]
<1>1. queue[r] # <<>> /\ Step(r, w) /\ UNCHANGED <<gone, rows, ranks, worn, over, nextId, adminRoles, boot>>
  BY DEF BeginDelete, Ready, discord, remote, client, main
<1>2. At("up")  BY <1>1, WorkIsUp, DistinctEntities
<1>3. w.pc = "apply"  BY DEF Idle
<1> HIDE DEF w
<1>4. worker'[r] = w /\ \A x \in Entity \ {r} : worker'[x] = worker[x]
  BY <1>1, Stepped, DistinctEntities
<1>5. Sighted'  BY <1>1, SightedSame DEF Sees
<1>6. r \in Ordinary => NotWorn(r)'  BY <1>1, <1>2, <1>3, <1>4, OrdinaryNotWorn DEF NotWorn
<1> QED BY <1>1, <1>2, <1>4, <1>5, <1>6, AllowedSame, RoleSees DEF Sees, Working, At

LEMMA CreateRoleSees ==
  ASSUME TInv, Fair, Sees, NEW r \in Roles, CreateRole(r) PROVE Sees'
<1> DEFINE w == [worker[r] EXCEPT !.pc = "rank", !.id = nextId]
<1>1. /\ worker[r].pc = "apply" /\ Step(r, w)
      /\ ranks' = With(ranks, nextId, NewRank) /\ nextId' = nextId + 1
      /\ UNCHANGED <<gone, rows, worn, over, adminRoles, boot>>
  BY DEF CreateRole, NewRole, Named, Applies, discord, client, main
<1>2. At("up")  BY <1>1, WorkIsUp, DistinctEntities
<1>3. w.id = nextId  BY EngineFacts DEF TInv, ATypeOK, RoleWork
<1>4. nextId \notin worn  BY WornAreRoles DEF Sees
<1> HIDE DEF w
<1>5. worker'[r] = w /\ \A x \in Entity \ {r} : worker'[x] = worker[x]
  BY <1>1, Stepped, DistinctEntities
<1>6. DOMAIN ranks \subseteq DOMAIN ranks'  BY <1>1 DEF With
<1>7. Sighted'  BY <1>1, <1>6, WornAreRoles, SightedMore DEF Sees
<1>8. r \in Ordinary => NotWorn(r)'  BY <1>1, <1>2, <1>3, <1>4, <1>5, OrdinaryNotWorn DEF NotWorn
<1> QED BY <1>1, <1>2, <1>5, <1>7, <1>8, AllowedSame, RoleSees DEF Sees, Working, At

LEMMA EditRoleSees ==
  ASSUME TInv, Fair, Sees, NEW r \in Roles, EditRole(r) PROVE Sees'
<1>9. PICK id \in DOMAIN ranks :
        /\ Edits(r, id) /\ ranks' = [ranks EXCEPT ![id] = Rank(worker[r].state)]
        /\ Step(r, [worker[r] EXCEPT !.pc = "permit", !.id = id])
  BY DEF EditRole
<1> DEFINE w == [worker[r] EXCEPT !.pc = "permit", !.id = id]
<1>1. /\ worker[r].pc \in {"apply", "rank"} /\ Step(r, w)
      /\ id = rows[r].id \/ (worker[r].pc = "rank" /\ id = worker[r].id)
      /\ UNCHANGED <<gone, rows, worn, over, nextId, adminRoles, boot>>
  BY <1>9 DEF EditRole, Edits, Applies, discord, client, main
<1>2. At("up")  BY <1>1, WorkIsUp, DistinctEntities
<1>3. w.id = id  BY EngineFacts DEF TInv, ATypeOK, RoleWork
<1> HIDE DEF w
<1>4. worker'[r] = w /\ \A x \in Entity \ {r} : worker'[x] = worker[x]
  BY <1>1, Stepped, DistinctEntities
<1>5. DOMAIN ranks' = DOMAIN ranks  BY <1>9
<1>6. Sighted'  BY <1>1, <1>5, WornAreRoles, SightedMore DEF Sees
<1>7. r \in Ordinary => NotWorn(r)'  BY <1>1, <1>2, <1>3, <1>4, OrdinaryNotWorn DEF NotWorn
<1> QED BY <1>1, <1>2, <1>4, <1>6, <1>7, AllowedSame, RoleSees DEF Sees, Working, At

LEMMA DeletedAreOrdinary ==
  ASSUME AdminsStay, TInv, Fair, Sees, At("up"), NEW r \in Roles, worker[r].kind = "delete"
  PROVE  r \in Ordinary
<1>1. r \in MayDelete  BY DEF Fair, RoleOrderly, Sees, Working, At
<1> QED BY <1>1 DEF AdminsStay, Ordinary

LEMMA DeleteStoatRoleSees ==
  ASSUME AdminsStay, TInv, Fair, Sees, NEW r \in Roles, DeleteStoatRole(r) PROVE Sees'
<1> DEFINE w == [worker[r] EXCEPT !.pc = "remove"]
<1>1. /\ worker[r].pc = "apply" /\ worker[r].kind = "delete" /\ Step(r, w)
      /\ UNCHANGED <<gone, rows, nextId, adminRoles, boot>>
      /\ UNCHANGED <<ranks, worn, over>> \/ StoatDeletes(rows[r].id)
  BY DEF DeleteStoatRole, Applies, discord, client, main
<1>2. At("up")  BY <1>1, WorkIsUp, DistinctEntities
<1>3. r \in Ordinary /\ NotWorn(r)  BY <1>1, <1>2, DeletedAreOrdinary, OrdinaryNotWorn
<1>4. w.pc = "remove"  BY EngineFacts DEF TInv, ATypeOK, RoleWork
<1> HIDE DEF w
<1>5. worker'[r] = w /\ \A x \in Entity \ {r} : worker'[x] = worker[x]
  BY <1>1, Stepped, DistinctEntities
<1>6. Sighted' /\ StaysAllowed /\ UNCHANGED worn
  <2>1. CASE UNCHANGED <<ranks, worn, over>>  BY <1>1, <2>1, SightedSame, AllowedSame DEF Sees
  <2>2. CASE StoatDeletes(rows[r].id)
    <3>1. PICK id : id = rows[r].id  OBVIOUS
    <3>2. id \notin worn /\ worn \ {id} = worn  BY <1>3, <3>1 DEF NotWorn
    <3>3. \A c \in DOMAIN over : Denied(c) => \E t \in worn \ {id} : Allowed(c, t)
      BY <3>2 DEF Sees, Sighted, InView
    <3>4. /\ Sighted' /\ DOMAIN over' = DOMAIN over /\ worn' = worn \ {id}
          /\ \A c \in DOMAIN over, t \in worn \ {id} : Allowed(c, t) => Allowed(c, t)'
      BY <1>1, <2>2, <3>1, <3>3, SightedLess DEF Sees
    <3> QED BY <3>2, <3>4 DEF StaysAllowed
  <2> QED BY <1>1, <2>1, <2>2
<1>7. NotWorn(r)'  BY <1>1, <1>3, <1>4, <1>5, <1>6 DEF NotWorn
<1> QED BY <1>1, <1>2, <1>3, <1>5, <1>6, <1>7, RoleSees DEF Sees, Working, At

LEMMA RemoveSees ==
  ASSUME TInv, Fair, Sees, NEW r \in Roles, Remove(r) PROVE Sees'
<1>1. /\ worker[r].pc = "remove" /\ Step(r, Idle) /\ rows' = [rows EXCEPT ![r] = Absent]
      /\ UNCHANGED <<gone, ranks, worn, over, nextId, adminRoles, boot>>
  BY DEF Remove, discord, remote, client, main
<1>2. At("up")  BY <1>1, WorkIsUp, DistinctEntities
<1>3. worker'[r] = Idle /\ \A x \in Entity \ {r} : worker'[x] = worker[x]
  BY <1>1, Stepped, DistinctEntities
<1>4. rows'[r] = Absent /\ \A x \in Entity \ {r} : rows'[x] = rows[x]
  BY <1>1, DistinctEntities DEF TInv, ATypeOK, StoatTypeOK
<1>5. NotWorn(r)'
  <2>1. NoId \notin worn  BY WornAreRoles DEF Sees
  <2> QED BY <1>1, <1>3, <1>4, <2>1, IdleFields DEF NotWorn, Absent
<1>6. Sighted'  BY <1>1, SightedSame DEF Sees
<1> QED BY <1>1, <1>2, <1>3, <1>4, <1>5, <1>6, AllowedSame, RoleSees DEF Sees, Working, At

(* What becomes of the ops that waited is nothing to the bot's sight.       *)
LEMMA RoleRestsSees ==
  ASSUME TInv, Fair, Sees, NEW r \in Roles, NEW w, Step(r, w), worker[r].pc # "idle",
         w.pc \notin {"rank", "permit"},
         UNCHANGED <<gone, rows, ranks, worn, over, nextId, adminRoles, boot>>
  PROVE  Sees'
<1>1. At("up")  BY WorkIsUp, DistinctEntities
<1>2. worker'[r] = w /\ \A x \in Entity \ {r} : worker'[x] = worker[x]
  BY Stepped, DistinctEntities
<1>3. Sighted'  BY SightedSame DEF Sees
<1>4. r \in Ordinary => NotWorn(r)'  BY <1>1, <1>2, OrdinaryNotWorn DEF NotWorn
<1> QED BY <1>1, <1>2, <1>3, <1>4, AllowedSame, RoleSees DEF Sees, Working, At

LEMMA TakeWaitersSees == ASSUME TInv, Fair, Sees, NEW r \in Roles, TakeWaiters(r) PROVE Sees'
<1> DEFINE w == IF waiters[r] = NoOps THEN Idle ELSE [Idle EXCEPT !.pc = "push"]
<1>1. /\ Step(r, w) /\ worker[r].pc = "notify"
      /\ UNCHANGED <<gone, rows, ranks, worn, over, nextId, adminRoles, boot>>
  BY DEF TakeWaiters, discord, remote, client, main
<1>2. w.pc \in {"idle", "push"}  BY DEF Idle
<1> HIDE DEF w
<1> QED BY <1>1, <1>2, RoleRestsSees

LEMMA PushWaiterSees ==
  ASSUME TInv, Fair, Sees, NEW r \in Roles, NEW c \in Channels, PushWaiter(r, c) PROVE Sees'
<1>1. PICK w \in {Idle, worker[r]} : Step(r, w)  BY DEF PushWaiter
<1>2. worker[r].pc = "push" /\ UNCHANGED <<gone, rows, ranks, worn, over, nextId, adminRoles, boot>>
  BY DEF PushWaiter, discord, remote, client, main
<1>3. w.pc \in {"idle", "push"}  BY <1>2, IdleFields
<1> QED BY <1>1, <1>2, <1>3, RoleRestsSees

-----------------------------------------------------------------------------
(* A channel's worker.                                                      *)
LEMMA DefersSees ==
  ASSUME TInv, Fair, Sees, NEW c \in Channels, MissRole(c) \/ Defer(c) PROVE Sees'
<1>1. PICK w : Step(c, w) /\ w.pc \in {"idle", "defer"} /\ w.sets = {}
  <2>1. CASE Defer(c)  BY <2>1, IdleFields DEF Defer
  <2>2. CASE MissRole(c)
    <3>1. PICK r : Step(c, [Idle EXCEPT !.pc = "defer", !.state = Head(queue[c]).state, !.todo = {r}])
      BY <2>2 DEF MissRole
    <3> DEFINE w == [Idle EXCEPT !.pc = "defer", !.state = Head(queue[c]).state, !.todo = {r}]
    <3>2. Step(c, w) /\ w.pc = "defer" /\ w.sets = {}  BY <3>1 DEF Idle
    <3> HIDE DEF w
    <3> QED BY <3>2
  <2> QED BY <2>1, <2>2
<1>2. /\ worker[c].pc # "idle" \/ queue[c] # <<>>
      /\ UNCHANGED <<gone, rows, ranks, worn, over, nextId, adminRoles, boot>>
  BY DEF MissRole, Defer, Ready, discord, remote, client, main
<1>3. At("up")  BY <1>2, WorkIsUp, DistinctEntities
<1>4. worker'[c] = w /\ \A x \in Entity \ {c} : worker'[x] = worker[x]
  BY <1>1, Stepped, DistinctEntities
<1>5. ChannelSighted(c)'  BY <1>1, <1>4 DEF ChannelSighted
<1>6. Sighted'  BY <1>2, SightedSame DEF Sees
<1> QED BY <1>2, <1>3, <1>4, <1>5, <1>6, AllowedSame, ChannelSees

LEMMA ResolveRoleSees ==
  ASSUME AdminsSee, TInv, Fair, Sees, NEW c \in Channels, NEW r \in Roles, ResolveRole(c, r)
  PROVE  Sees'
<1> DEFINE sets == {[target |-> t, ow |-> ToStoat(worker[c].state[r])] : t \in Resolved(r)}
           w    == [worker[c] EXCEPT !.todo = @ \ {r}, !.sets = @ \cup sets]
<1>1. /\ Step(c, w) /\ worker[c].pc = "apply" /\ r \in worker[c].todo
      /\ UNCHANGED <<gone, rows, ranks, worn, over, nextId, adminRoles, boot>>
  BY DEF ResolveRole, Applies, discord, remote, client, main
<1>2. At("up")  BY <1>1, WorkIsUp, DistinctEntities
<1>3. w.pc = "apply" /\ w.sets = worker[c].sets \cup sets
  <2> HIDE DEF sets
  <2>1. worker[c] \in ChannelWork  BY EngineFacts DEF TInv, ATypeOK
  <2> QED BY <1>1, <2>1 DEF ChannelWork
<1>4. ASSUME NEW s \in sets, s.target \in worn PROVE View \in s.ow.allow /\ View \notin s.ow.deny
  <2>1. PICK t \in Resolved(r) : s = [target |-> t, ow |-> ToStoat(worker[c].state[r])]  OBVIOUS
  <2>2. NoId \notin worn  BY WornAreRoles DEF Sees
  <2>3. t \in worn /\ s.ow = ToStoat(worker[c].state[r])  BY <1>4, <2>1
  <2>4. r # Everyone /\ t = rows[r].id  BY <2>2, <2>3 DEF Resolved, Default
  <2>5. r \in Privileged  BY <1>2, <2>3, <2>4, OrdinaryNotWorn DEF NotWorn, Ordinary
  <2>6. worker[c].state[r] \in MayGive[r]  BY <1>1, Looked, ChannelState
  <2>7. View \in worker[c].state[r].allow /\ View \notin worker[c].state[r].deny /\ View \in Reachable
    BY <2>5, <2>6, AccessAssumption DEF AdminsSee
  <2> QED BY <2>3, <2>7 DEF ToStoat
<1> HIDE DEF sets, w
<1>5. worker'[c] = w /\ \A x \in Entity \ {c} : worker'[x] = worker[x]
  BY <1>1, Stepped, DistinctEntities
<1>6. ChannelSighted(c)'  BY <1>1, <1>2, <1>3, <1>4, <1>5 DEF ChannelSighted, Sees, Working, At
<1>7. Sighted'  BY <1>1, SightedSame DEF Sees
<1> QED BY <1>1, <1>2, <1>5, <1>6, <1>7, AllowedSame, ChannelSees

LEMMA GrantingSees ==
  ASSUME TInv, Fair, Sees, NEW c \in Channels, NEW id, Granting(c, id), worker[c].pc = "apply",
         UNCHANGED <<gone, rows, worn, adminRoles, boot>>, id \in DOMAIN over', Sighted', StaysAllowed
  PROVE  Sees'
<1> DEFINE w == [worker[c] EXCEPT !.pc = "grant", !.todo = adminRoles, !.id = id]
<1>1. Step(c, w)  BY DEF Granting
<1>2. At("up")  BY WorkIsUp, DistinctEntities
<1>3. w.pc = "grant" /\ w.todo = adminRoles /\ w.id = id /\ w.sets = worker[c].sets
  BY EngineFacts DEF TInv, ATypeOK, ChannelWork
<1> HIDE DEF w
<1>4. worker'[c] = w /\ \A x \in Entity \ {c} : worker'[x] = worker[x]
  BY <1>1, Stepped, DistinctEntities
<1>5. ChannelSighted(c)'  BY <1>2, <1>3, <1>4 DEF ChannelSighted, Sees, Working, At
<1> QED BY <1>2, <1>4, <1>5, ChannelSees

LEMMA CreateChannelSees ==
  ASSUME TInv, Fair, Sees, NEW c \in Channels, CreateChannel(c) PROVE Sees'
<1>1. /\ over' = With(over, nextId, <<>>) /\ Granting(c, nextId) /\ worker[c].pc = "apply"
      /\ UNCHANGED <<gone, rows, ranks, worn, adminRoles, boot>>
  BY DEF CreateChannel, NewChannel, Applies, discord, client, main
<1>2. DOMAIN <<>> = {}  OBVIOUS
<1>3. /\ nextId \notin DOMAIN over /\ nextId' = nextId + 1 /\ nextId \in Nat
      /\ \A d \in DOMAIN over : d \in Nat /\ d < nextId
  BY WornAreRoles DEF Sees, Sighted, CreateChannel, Named
<1>4. /\ DOMAIN over' = DOMAIN over \cup {nextId} /\ over'[nextId] = <<>>
      /\ \A d \in DOMAIN over : over'[d] = over[d]
  BY <1>1, <1>3 DEF With
<1>5. StaysAllowed  BY <1>4 DEF StaysAllowed, Allowed
<1>6. Sighted'
  <2>1. ASSUME NEW d \in DOMAIN over' PROVE InView(d)'
    <3>1. CASE d \in DOMAIN over  BY <1>1, <1>4, <3>1 DEF Sees, Sighted, InView, Denied, Allowed
    <3>2. CASE d = nextId
      <4>1. DOMAIN over'[d] = {}  BY <1>2, <1>4, <3>2
      <4> QED BY <4>1 DEF InView, Denied
    <3> QED BY <1>4, <3>1, <3>2
  <2>2. \A d \in DOMAIN over' : d \in Nat /\ d < nextId'  BY <1>3, <1>4
  <2> QED BY <1>1, <2>1, <2>2 DEF Sees, Sighted
<1> QED BY <1>1, <1>4, <1>5, <1>6, GrantingSees

LEMMA EditChannelSees ==
  ASSUME TInv, Fair, Sees, NEW c \in Channels, EditChannel(c) PROVE Sees'
<1>1. /\ Granting(c, rows[c].id) /\ worker[c].pc = "apply" /\ rows[c].id \in DOMAIN over
      /\ UNCHANGED <<gone, rows, ranks, worn, over, nextId, adminRoles, boot>>
  BY DEF EditChannel, InSight, Applies, discord, remote, client, main
<1>2. Sighted'  BY <1>1, SightedSame DEF Sees
<1> QED BY <1>1, <1>2, AllowedSame, GrantingSees

(* An override that lets a role see which the bot wears, or is for another, *)
(* or for everyone once the bot's grants are there, keeps it in sight.      *)
LEMMA SetInSight ==
  ASSUME Sighted, NEW c, NEW id, worker[c].id = id, NEW target, NEW ow, SetPermissions(c, target, ow),
         UNCHANGED <<ranks, worn, nextId>>, target \in DOMAIN ranks \cup {Default}, Default \notin worn,
         target \in worn => View \in ow.allow /\ View \notin ow.deny,
         target = Default => \E t \in worn : Allowed(id, t)
  PROVE  /\ Sighted' /\ StaysAllowed
         /\ target \in worn /\ id \in DOMAIN over => Allowed(id, target)'
<1>1. /\ DOMAIN over' = DOMAIN over
      /\ \A d \in DOMAIN over \ {id} : over'[d] = over[d]
      /\ id \in DOMAIN over => over'[id] = With(over[id], target, ow)
  BY DEF SetPermissions
<1>2. id \in DOMAIN over => /\ DOMAIN over'[id] = DOMAIN over[id] \cup {target} /\ over'[id][target] = ow
                            /\ \A t \in DOMAIN over[id] \ {target} : over'[id][t] = over[id][t]
  BY <1>1 DEF With
<1>3. ASSUME NEW d \in DOMAIN over, NEW t \in worn, Allowed(d, t) PROVE Allowed(d, t)'
  <2>1. CASE d = id  BY <1>2, <1>3, <2>1 DEF Allowed
  <2>2. CASE d # id  BY <1>1, <1>3, <2>2 DEF Allowed
  <2> QED BY <2>1, <2>2
<1>4. ASSUME NEW d \in DOMAIN over PROVE InView(d)'
  <2>1. InView(d)  BY DEF Sighted
  <2>2. CASE d # id  BY <1>1, <1>3, <2>1, <2>2 DEF InView, Denied
  <2>3. CASE d = id
    <3>1. DOMAIN over'[d] \subseteq DOMAIN ranks' \cup {Default}  BY <1>2, <2>1, <2>3 DEF InView
    <3>2. ASSUME NEW t \in worn \cap DOMAIN over'[d] PROVE View \notin over'[d][t].deny
      BY <1>2, <2>1, <2>3 DEF InView
    <3>3. ASSUME Denied(d)'
          PROVE  \E t \in worn : Allowed(d, t)
      <4>1. CASE target = Default  BY <2>3, <4>1
      <4>2. CASE target # Default  BY <1>2, <2>1, <2>3, <3>3, <4>2 DEF InView, Denied
      <4> QED BY <4>1, <4>2
    <3> QED BY <1>3, <3>1, <3>2, <3>3 DEF InView
  <2> QED BY <2>2, <2>3
<1>5. Sighted'  BY <1>1, <1>4 DEF Sighted
<1>6. StaysAllowed  BY <1>1, <1>3 DEF StaysAllowed
<1>7. target \in worn /\ id \in DOMAIN over => Allowed(id, target)'  BY <1>2 DEF Allowed
<1> QED BY <1>5, <1>6, <1>7

LEMMA GrantSees ==
  ASSUME TInv, Fair, Sees, NEW c \in Channels, Grant(c) PROVE Sees'
<1> DEFINE ow == [allow |-> BotPerms, deny |-> {}]
<1>1. PICK t \in worker[c].todo :
        /\ Accepted(c, t) /\ SetPermissions(c, t, ow)
        /\ Step(c, [worker[c] EXCEPT !.todo = @ \ {t}])
  BY DEF Grant
<1> DEFINE w == [worker[c] EXCEPT !.todo = @ \ {t}]
<1>2. worker[c].pc = "grant" /\ UNCHANGED <<gone, rows, ranks, worn, nextId, adminRoles, boot>>
  BY DEF Grant, discord, client, main
<1>3. At("up")  BY <1>2, WorkIsUp, DistinctEntities
<1>4. /\ w.pc = "grant" /\ w.todo = worker[c].todo \ {t} /\ w.id = worker[c].id
      /\ w.sets = worker[c].sets
  BY <1>2, EngineFacts DEF TInv, ATypeOK, ChannelWork
<1>5. Step(c, w)  BY <1>1
<1> HIDE DEF w
<1>6. worker'[c] = w /\ \A x \in Entity \ {c} : worker'[x] = worker[x]
  BY <1>5, Stepped, DistinctEntities
<1>7. t # Default /\ t \in DOMAIN ranks  BY <1>1, <1>2 DEF Fair, ChannelFair, Default, Accepted
<1>8. ChannelSighted(c) /\ Default \notin worn  BY <1>3, WornAreRoles DEF Sees, Working, At, Default
<1>9. View \in ow.allow /\ View \notin ow.deny  BY AccessAssumption
<1> HIDE DEF ow
<1>10. PICK i : i = worker[c].id  OBVIOUS
<1>11. Sighted' /\ StaysAllowed /\ (t \in worn /\ i \in DOMAIN over => Allowed(i, t)')
  BY <1>1, <1>2, <1>7, <1>8, <1>9, <1>10, SetInSight DEF Sees
<1>12. ChannelSighted(c)'  BY <1>2, <1>4, <1>6, <1>8, <1>10, <1>11 DEF ChannelSighted, StaysAllowed
<1> QED BY <1>2, <1>3, <1>6, <1>11, <1>12, ChannelSees

LEMMA SetOverwriteSees ==
  ASSUME TInv, Fair, Sees, NEW c \in Channels, SetOverwrite(c) PROVE Sees'
<1>1. PICK s \in worker[c].sets :
        /\ Accepted(c, s.target) /\ SetPermissions(c, s.target, s.ow)
        /\ Step(c, [worker[c] EXCEPT !.sets = @ \ {s}])
  BY DEF SetOverwrite
<1> DEFINE w == [worker[c] EXCEPT !.sets = @ \ {s}]
<1>2. /\ worker[c].pc = "grant" /\ worker[c].todo = {}
      /\ UNCHANGED <<gone, rows, ranks, worn, nextId, adminRoles, boot>>
  BY DEF SetOverwrite, Granted, discord, client, main
<1>3. At("up")  BY <1>2, WorkIsUp, DistinctEntities
<1>4. /\ w.pc = "grant" /\ w.todo = worker[c].todo /\ w.id = worker[c].id
      /\ w.sets \subseteq worker[c].sets
  BY <1>2, EngineFacts DEF TInv, ATypeOK, ChannelWork
<1>5. Step(c, w)  BY <1>1
<1> HIDE DEF w
<1>6. worker'[c] = w /\ \A x \in Entity \ {c} : worker'[x] = worker[x]
  BY <1>5, Stepped, DistinctEntities
<1>7. ChannelSighted(c) /\ Default \notin worn /\ adminRoles \cap worn # {}
  BY <1>3, WornAreRoles DEF Sees, Working, Knows, At, Default
<1>8. \E t \in worn : Allowed(worker[c].id, t)  BY <1>2, <1>7 DEF ChannelSighted
<1>9. Sighted' /\ StaysAllowed
  BY <1>1, <1>2, <1>7, <1>8, SetInSight DEF Sees, ChannelSighted, Accepted
<1>10. ChannelSighted(c)'  BY <1>2, <1>4, <1>6, <1>7, <1>9 DEF ChannelSighted, StaysAllowed
<1> QED BY <1>2, <1>3, <1>6, <1>9, <1>10, ChannelSees

-----------------------------------------------------------------------------
LEMMA WorkSees ==
  ASSUME AdminsSee, AdminsStay, TInv, Fair, Sees, NEW e \in Entity, Work(e) PROVE Sees'
<1>1. CASE Skip(e) \/ WritePending(e) \/ Confirm(e)
  BY <1>1, SkipSees, WritePendingSees, ConfirmSees
<1>2. CASE e \in Roles /\ (BeginDelete(e) \/ CreateRole(e) \/ EditRole(e) \/ DeleteStoatRole(e)
                           \/ Remove(e) \/ TakeWaiters(e))
  BY <1>2, BeginDeleteSees, CreateRoleSees, EditRoleSees, DeleteStoatRoleSees, RemoveSees, TakeWaitersSees
<1>3. CASE e \in Roles /\ \E c \in Channels : PushWaiter(e, c)  BY <1>3, PushWaiterSees
<1>4. CASE e \in Channels /\ (MissRole(e) \/ Defer(e) \/ CreateChannel(e) \/ EditChannel(e)
                              \/ Grant(e) \/ SetOverwrite(e))
  BY <1>4, DefersSees, CreateChannelSees, EditChannelSees, GrantSees, SetOverwriteSees
<1>5. CASE e \in Channels /\ \E r \in Roles : ResolveRole(e, r)  BY <1>5, ResolveRoleSees
<1> QED BY <1>1, <1>2, <1>3, <1>4, <1>5 DEF Work

LEMMA NextSees ==
  ASSUME Early = FALSE, AdminsSee, AdminsStay, SInv, [Next]_vars PROVE SInv'
<1>1. IInv' /\ TInv /\ Fair /\ Sees  BY NextFair DEF SInv, IInv
<1>2. CASE UNCHANGED avars
  <2>1. UNCHANGED <<position, gone, rows, ranks, worn, over, names, nextId, elevation, adminRoles, boot, worker>>
    BY <1>2 DEF avars, discord, remote, client, main, engine
  <2> QED BY <1>1, <2>1, SeesSame DEF SInv
<1>3. CASE RunMain  BY <1>1, <1>3, MainSees DEF RunMain, SInv
<1>4. CASE DiscordOrUser  BY <1>1, <1>4, HappensSees DEF DiscordOrUser, SInv
<1>5. CASE \E e \in Entity : RunOp(e)  BY <1>1, <1>5, WorkSees, OpFailsSees DEF RunOp, SInv
<1>6. CASE Deploying \/ \E p \in Procs : OpenStore(p) \/ Refusal(p) \/ Leave(p)
  BY <1>2, <1>6 DEF Deploying, OpenStore, Refusal, Leave
<1> QED BY <1>2, <1>3, <1>4, <1>5, <1>6 DEF Next, vars

(* The bot never locks itself out of a channel, whatever order the grants   *)
(* and Discord's denials are written in and whichever request is the last   *)
(* to succeed: it grants before it denies, and no role it wears is any      *)
(* other role's mirror (GuardElevation, resolveAdminRoles, writeChannel's   *)
(* grants).                                                                 *)
THEOREM BotStaysInSight ==
  ASSUME Early = FALSE, AdminsSee, AdminsStay, StartsInSight
  PROVE  Spec => []NeverLockedOut
<1>1. Init => SInv  BY InitFair, InitSees DEF Init, SInv
<1>2. SInv /\ [Next]_vars => SInv'  BY NextSees
<1>3. SInv => NeverLockedOut  BY InViewSees DEF SInv, Sees, Sighted, NeverLockedOut
<1> QED BY <1>1, <1>2, <1>3, PTL DEF Spec
=============================================================================
