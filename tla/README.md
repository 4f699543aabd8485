# stoatcord in TLA+

stoatcord is a daemon that mirrors one Discord guild onto one Stoat (Revolt)
server, in that direction only. This directory holds TLA+ models of its
concurrent core, TLC configurations that check them on small guilds, and proofs,
checked by TLAPS, that the main invariants hold for every guild.

Contents: [the system](#the-system) · [what is hard](#what-is-hard) ·
[modules](#modules-and-how-they-correspond-to-the-code) · [runs](#runs) ·
[proofs](#proofs) · [where code and documentation part](#where-the-code-and-its-documentation-part) ·
[not modelled](#not-modelled) · [plan](#plan).

## The system

| part | source | state | operations |
|---|---|---|---|
| engine | `internal/engine/engine.go`, `remote.go`, `op.go`, `types.go` | a bounded channel and a goroutine per key, the waiters lists, a WaitGroup | `Submit`, `Wait`, `tryRun`, `process`, `notifyWaiters` |
| rate limiter | `internal/engine/rate_limiter.go` | `nextAllowed` per bucket | `Wait`, `Backoff` |
| mapping store | `internal/store/mapping.go`, `message.go` | SQLite tables that pair Discord ids with Stoat ids, status `pending` or `active`, and the canonical state last asked for | `Get`, `WritePending`, `Confirm`, `Remove`, `Enqueue` |
| store opening, lock | `internal/store/store.go`, `internal/lock/lock.go` | `schema_migrations`, the schema, the lock file | `Open`, `applyMigrations`, `Acquire` |
| op builders | `internal/discord/gateway.go`, `role_gateway.go`, `category_gateway.go`, `message.go`, `gif.go` | closures over one event | `Build…Op`, each with `Diff` and `Apply` |
| handlers | `internal/discord/handlers.go`, `state.go` | discordgo's state cache | one handler per event kind, `submitCategoryOps`, `ConvergeAll` |
| translation | `internal/canonical/*.go`, `internal/discord/channel.go`, `role.go`, `permission.go` | none | Discord → canonical → Stoat |
| Stoat client | `internal/stoat/*.go` | elevation role, admin roles, gateway readiness | writers, readers, `ResolveElevationRole` |
| reconcile | `internal/reconcile/*.go` | none of its own | `Bind`, `ReconcileLive` |
| daemon | `cmd/stoatcord/*.go` | none of its own | startup in order, `resolveAdminRoles`, health check, `drainEngine` |
| config, log | `internal/config`, `internal/log` | none | reading an environment, writing a file |

How they interact: discordgo updates its state cache and starts a goroutine per
event; the handler builds ops from the event and the cache and hands them to
`Engine.Submit`. The engine routes each op to the worker of its key (an entity,
or for messages their channel), sets it aside while an entity it depends on is
not mapped, and otherwise checks both gateways' health, compares with the
mapping row, marks the row pending, waits for the rate limiter, calls `Apply`,
confirms the row, and wakes the ops that waited for it. `Apply` reads mapping
rows again and calls the Stoat client, one request or several. At startup
`Bind` and `ReconcileLive` rewrite the same rows while handlers already run, and
`ConvergeAll` submits an op for every entity.

## What is hard

- **Ops change hands.** channel → worker → waiters list → another worker →
  channel. None may be lost, doubled or miscounted, and workers that push to
  each other's bounded channels must not block each other.
- **Rows are read, and used later.** The dependency check, `Diff`, `Apply`'s
  lookup and `Confirm` are separate statements. The row is pending in between,
  and other workers see it so.
- **Every step can fail** after the previous one took effect: the row is
  written and the call fails; the call succeeds and the answer is lost; Stoat
  deletes and the database refuses.
- **A shared limiter** with sleepers that must see a later backoff.
- **Whole-list writes.** Categories have no edit on Stoat: each op rewrites all.
- **Restarts** over rows that a crash left pending, and migrations cut short.
- **Permissions in several requests.** A channel's overrides are set one by one,
  by a bot that may lose sight of the channel between two of them.
- **Partial events.** Discord's updates come without content, without the author,
  or only because a link has been given its preview.

`PROJECT.json` lists each of these at its line (`hazards`) with the properties
that would catch it going wrong.

What makes each part correct, in one sentence: the **engine** neither loses nor
doubles an op, runs those of a key one by one after what they depend on, and
leaves Stoat as the last op wanted it; the **store** keeps an entity's identity
until a delete; the **limiter** keeps attempts apart and honours Retry-After;
**category sync** leaves Stoat with Discord's sidebar; **reconcile** never
guesses and never deletes what is mapped; **store opening** hands out a complete
schema, to one process at a time; **access** gives everyone on Stoat what Discord
gives them, and never takes the bot's own; **messages** show what was written, to
whom it replies, and nothing that was not written; **shutdown** ends.

## Modules, and how they correspond to the code

### Engine: `MappingStore`, `Engine`, `EngineProperties`, `SerializedOps`

`MappingStore` gives each SQL statement as a function from row to row. The
database has one connection, so a statement is atomic. Two details matter
later: a message row has no status column and counts as active once it has a
Stoat id, and `message_map.channel_id` references `channel_map`.

`Engine` has one action per step of a goroutine between two points where another
may run. Variables and code:

| variable | code |
|---|---|
| `calling`, `queue` | callers blocked in `Submit`, and the workers' channels |
| `worker[k]` | the goroutine of key `k`: where it is in `tryRun`/`process`, its op, the dependencies left to check, the remote call at hand, the waiters left to push |
| `waiters` | `Engine.waiters` |
| `wg`, `submitted`, `finished` | the WaitGroup, and what it stands for |
| `rows` | the mapping tables |
| `stoat`, `nextId` | objects on Stoat (external) |
| `discordReady`, `stoatReady`, `opQueue` | the health flags and the `op_queue` table |
| `sent`, `landed`, `faults`, `outages` | history and bounds |

Actions, in order of an op's life: `Submit`, `Send`; `Take`, `CheckDependency`,
`MissDependency`, `Defer`; `Enqueue` (into `op_queue`, or nowhere if that write
fails), `LogDryRun`, `Begin`; `SkipEqual`,
`Differs`, `WritePending` (`…Refused` by the foreign key), `StoreFails`; `Apply`
(create-or-edit, or delete); `RemoteOk`, `RemoteError`, `RemoteLost` (it took
effect, the caller sees an error: also a method that fails on its second
request), `RemoteLimited`; `Remove` or `Confirm`; `TakeWaiters`, `PushWaiter`,
`Notified`. `StoatReady`, `DiscordLost`, `DiscordBack` are the gateways.
`dryRun` is the mode the process was started in, one of `DryRuns`.
`firstUnmetDependency` walks its list in order; the model checks dependencies in
any order, which includes it. `RemoteLimited` is what `runRemote` is written
for; no writer returns that error today (see below).

`SerializedOps` is the abstract promise of `Submit`: an accepted op runs at most
once, alone among the ops of its key, after all it depends on has landed.
`EngineProperties` states that the engine implements it, by a refinement mapping
that calls an op running from the end of its dependency check on.

### Rate limiter: `RateLimiter`

Time is kept as what is left: `nextAllowed[b]` counts down, and `Tick` lets a
unit pass. `Grant` and `Sleep` are the two outcomes of the critical section of
`Wait`, `Wake` its timer, `Backoff` the method, `RunRemote`, `Request`, `Fail`,
`Refused` the loop of `runRemote` around an Apply that makes `Requests[w]`
requests. Stoat's windows (`window`, `used`) are external: fixed, and a 429
carries the rest of the window as Retry-After. `Typed429` says whether that
reaches `runRemote` as a `RateLimitedError`: TRUE is the contract of `remote.go`,
FALSE what `internal/stoat` returns today. A worker never runs out of ops, which
is what the liveness property is about. Assumption `IntervalsCoverWindow` is
the comment in `main.go` that an interval is 10 s / N, rounded up.

### Categories: `CategorySync`

`guild` is discordgo's state cache; `Discord` changes one entity of it and
starts that event's handler. `HandleOwn`, `SubmitCategoryOps`, `Submit` are the
handler: its own op first, then the list derived anew (`CategoriesFromState`,
where categories of one position come in any order, since they are read out of a
Go map; channels of one position keep theirs, that of the state cache, here some
fixed one) and an op for each category with that list frozen
into it. Handler 0 is `ConvergeAll`. Workers: `Take`, or `MissChannel` and then
`Defer`, between which other workers run; `Skip` or
`WritePending`, `ResolveChannelID` once per channel in any order,
`SetCategories`, `Confirm` or `Remove`. A channel's own op is reduced to the
window in which its row is pending (`WriteChannelPending` … `ConfirmChannel`),
and to `notifyWaiters`, step by step (`TakeWaiters`, `PushWaiter`, `Notified`).
`missed` is a history variable: the events after which an op was set aside for a
channel that was mapped by then, and whose waiters had been taken. Bounded
channels and the WaitGroup are in `Engine`, and left out here.

### Startup and reconcile: `Reconcile`

One main goroutine (`boot`), one simplified worker per role or channel, and a
process that may die at any step. `want` is Discord, `rows` the tables, `stoat`
the objects on Stoat, each with a type and a look (its name, and all else that is
mirrored as one value).

| action | code |
|---|---|
| `Start`, `KeepAdminRole`, `CreateAdminRole` | `StructureFromState`, read once, and `resolveAdminRoles` |
| `FetchServer`, `FetchChannels` | the reads of `Bind`; a channel that cannot be fetched exists all the same |
| `Claim`, `ClearDead`, `FindUnmapped` | the first loop of `bindEntities` |
| `Adopt`, `SkipBind` | its second loop: one candidate, or none or too many |
| `Reap` | its third loop, with the elevation role exempt |
| `BindRoles` | the same three loops for roles, after `verifyElevationRoleUnmapped` |
| `FetchLive`, `VerifyLive`, `SkipLive` | `ReconcileLive` |
| `StampPending`, `StampConfirm` | the pair `WritePending`, `Confirm` with which all three of them enter a row |
| `ConvergeAll` | one op for each role and channel in the state cache |
| `Change`, `Vanish` | events; while the process is down they go unnoticed |
| `Skip` … `Remove` | `process`, one action per statement |
| `Crash` | the process dies: memory is gone, rows and Stoat stay |

An error that main exits on is a crash to the data. `cut` is a history variable:
the entities that no start makes up for, or whose call has failed since. It is
deliberately narrow (`LeftUndone`): a create that a crash cut short leaves a row
that looks up to date, so that the entity is never created (the same cause as in
`engine_failed_create`), and a pending row is matched only if one object bears its
entity's name: where there is a namesake Bind reaps both, and the next start finds
none. The loops of `bindEntities` take entities in any order, the code in that
of the state cache. `Edited` keeps a role's name: `EditRole` has none to set.

### The daemon: `Migrations`, `Access`, and `Daemon`, which composes them

`Migrations` is a process on its way to the database. `Launch` is
`lock.Acquire`; `SkipRecorded`, `BeginFile`, `ExecStatement`, `ExecRefused` and
`Record` are the loop of `applyMigrations`, where SQLite commits each statement
of a file by itself and refuses one whose table or column is there; `Open` is
its end, and `Exit` the end of the process, which frees the lock. `Die` may come
between any two of these. `Deploy` swaps the binary for one with more
files or fewer. `cutShort` is a history variable: the files some process died in.

`Access` is everything that decides who sees what on Stoat: permissions are sets,
roles have a rank, overrides are per channel and target, and the bot's standing
(`CanView`) is worked out as Stoat does, the default first and then the
overrides of the bot's roles.

| action | code |
|---|---|
| `Connect`, `StartupFails`, `Interrupted` | the waits of `main` with their timeouts, and `SIGTERM` during startup |
| `ResolveElevationRole`, `RefuseToStart` | `elevation.go`: the one role of rank 0 that the bot wears |
| `ReadStructure` | `StructureFromState` |
| `SkipAdminRole`, or `CreateAdminRole`, `RankAdminRole`, `EnterAdminRole`, `ConfirmAdminRole` | `resolveAdminRoles`: the requests of `CreateRole`, then the row, pending and confirmed |
| `WearAdminRole` | its end, with `AddSelfToRole` |
| `ReadServer` | the reads of `Bind`: all roles, all channels, and of these the ones that could be fetched |
| `BindChannels`, `BindRoles` | `bindEntities`: rows of what is gone are cleared, what is left is matched by name and adopted; `verifyElevationRoleUnmapped` comes before the roles |
| `ReapChannel`, `ReapRole` | its last loop, one delete at a time; with a role go its members' wearing it and its overrides |
| `ReconcileLive` | a row that differs from what is there is marked; what cannot be fetched is left |
| `ConvergeAll`, `ChangeChannel`, `ChangeRole`, `DeleteRole` | the handlers, each with the op that it submits |
| `MissRole`, `Defer`, `Skip`, `WritePending`, `BeginDelete`, `Confirm`, `TakeWaiters`, `PushWaiter`, `Remove` | the engine, with channels that wait for the roles of their overwrites; check and deferral, and confirm and each push, are steps between which others run |
| `CreateRole`, `EditRole`, `DeleteStoatRole` | `role.go`, `elevation.go`, request by request: a role is created, then ranked, then given its permissions |
| `ResolveRole` | `resolveOverwriteRoleIDs`, one lookup |
| `CreateChannel`, `EditChannel`, `Grant`, `SetOverwrite` | the requests in `channel.go`: the channel, a grant for each admin role, then each overwrite in the order of a Go map |
| `OpFails` | Stoat refuses a request (its target is gone, or the bot cannot see the channel), or it fails; what earlier requests did stays, a role that was just created included |
| `Signal`, `Drained`, `GiveUp` | `SIGTERM` and the two ends of `drainEngine` |

A channel's own attributes and colours are left out: a role is its
position, which `Rank` translates, and a channel its overwrites. Each has a name
for `Bind` to match, which does not change (`names` has those on Stoat). What
`Bind` and `ReconcileLive` write to the rows of one kind is one step here;
`Reconcile` has it row by row, with crashes in between. The requests and deletes
around it are steps of their own, and `StartupFails` or `Interrupted` may end the
program between them. An op is not
submitted while one of its entity waits, so that each entity's ops keep their
order; `Engine` has what happens otherwise.

`ATypeOK` types all of it; its part about workers, that a look-up under way is of a
role in the op's own state, is what the proofs build on. `waiters` holds the ops
set aside, and `woken` those that a role's worker is putting back, by role and
by channel.

`Daemon` puts the two together: `Main` runs only in a process that has opened the
store, and the end of `main` frees the lock.

### Messages: `Messages`

One channel, whose mirror stands. A content is a text and, maybe, a link to a
GIF. `Post`, `Edit`, `Unfurl` and `Erase` are Discord; each makes an event and
hands `BuildMessageOp`'s result (`Skipped`, `Stripped`, `Kept`, `ReplyTo`, `Op`)
to the channel's queue. `Unfurl` is the update Discord sends when it adds a
preview: with or without the content, with the member or only the user.
`Skip`, `WritePending`, `BeginDelete`, `SendMessage`, `EditMessage`,
`DeleteMessage`, `Confirm` and `Remove` are the worker; the reply's link is
looked up (`Linked`), and its parent fetched for a quote (`Quotable`), at the
moment of sending. `Fails` is any request or statement that fails, or a message
sent whose answer is lost; `Restart` loses the queue. `Racing` lets handlers'
goroutines submit out of order.

## Runs

Constants are small model values; the op sets are stories of a small guild,
submitted in every order. In the engine's runs channels hold one op where the
code has 256, so that senders do block; one retry stands for five; deadlock is
checked in all of them (`Rest` is the only state the engine may stay in). The
limiter, category, reconcile, messages and daemon runs end when their bounds are
used up, hence `CHECK_DEADLOCK FALSE`.

| run | question | answer |
|---|---|---|
| `engine_boot` | a role, its channel and two messages appear at once, one failure, one outage | no op lost, doubled or uncounted; implements `SerializedOps`; no deadlock |
| `engine_warm` | traffic whose dependencies stay mapped, six ops | Stoat shows what was sent last, in order, once; skips only what is shown |
| `engine_faults` | a channel is created, changed and deleted, two failures, one outage | ids distinct, identities kept; every orphan, every stale row and every entity that comes out otherwise than its last op says, and not in `op_queue`, has its own failure |
| `engine_reopen` | a channel is deleted and recreated under a message, in earnest and with `DryRun`; fairness, full channels, one failure | foreign key kept; every op finishes or is set aside; a dry run writes neither side |
| `limiter` | two workers of one bucket, with ops without end, 429s, an Apply of more requests than a window takes, fairness | interval, window and Retry-After kept; every op ends, unless the other worker takes its slot for ever |
| `category_spaced` | up to four events, each after all is quiet, one failed call | no empty id in any list; without a failure or a missed wakeup nothing waits, and Stoat shows Discord's sidebar; an event after a missed wakeup makes up for it |
| `reconcile_restart` | startup from 218 first states; one crash or two, at any statement, one event, one failed call | Discord is mirrored, each object mapped once, nothing foreign left, nothing reaped that a row names |
| `messages` | a message and a reply to it are sent, edited, unfurled and deleted; one failure or restart | without a mishap both are shown in full; a reply finds its parent's copy, or links to nothing; previews edit nothing |
| `daemon` | from launch to the end of the process, from seven worlds; versions come and go, a death while the store is opened, one event, one failed request, a signal at any time | the schema is complete; the bot keeps its role and sees every channel; what is said of one role is never told to everyone; overwrites arrive; a signal frees the lock |
| `engine_lost_wakeup`, `engine_failed_create`, `reconcile_pending` | see [below](#where-the-code-and-its-documentation-part) | counterexamples |

Why these bounds. Every hazard above needs at most two workers of different keys
and one dependency between them, or two messages of one channel; the stories
have three to six ops, so that each pair can overlap, and a third party can
intervene. Two failures let a failure meet the remains of an earlier one. Two
workers of one bucket and a window of two intervals let a sleeper, a grant and a
backoff meet across a window's edge; the interval and window keep the daemon's
proportion (buckets share nothing, and the proofs cover any number of them). Four single-entity events
over two categories and two channels reach every order, tie, rename, creation
and deletion of those.

`category_spaced` leaves two things out, by name: `Edits = FALSE`, so that a
channel once created is not changed again, and no channel is created or deleted
while two categories have equal positions. Both break the property:
the table of further instances below has the first, and the second is the same
loss (a re-derived list of another category is resolved while the new channel's
row is pending). With a third category ties do harm without any channel, and
startup's `ConvergeAll` alone does with two (the same table); the theorem
`SidebarArrives` is about guilds without ties that were mirrored at the start, as
392 of the run's 396 guilds are (`OneListed`).
No guild has no category at all, since what Stoat makes of an empty list
depends on the client library.

`reconcile_restart` has one admin role and two channels, the fewest in which a
name can coincide, an object can be mistaken for another's and the two passes
follow each other. Its 216 tidy worlds are all combinations of: the role and the
channel unmapped, mapped, or mapped to an object that is gone; the mapped channel
missing, right or drifted; a namesake of it; the role right or drifted; a namesake
of that. Two more worlds have mapped objects under each other's names, and no
crash. One crash is enough for the next start to find the remains of any statement, a
second for what that start left of them (a pending row whose object Bind has reaped); one
event reaches every op, and one failed call meets the remains of the crash. Two
things are left out, by name: names do not change (`KeepNames`), and events come
before or after startup (`Early = FALSE`); what breaks otherwise is
`reconcile_pending` and the first two of its further instances.

`messages` (2.5 million states) has a parent and a reply, since the hazards of a
message are its own and its parent's, three contents (none, a text, a GIF link),
one attachment and a cap of one, so that an attachment does crowd out the GIF,
two updates and one mishap. Handlers keep the order of their events
(`Racing = FALSE`); what breaks otherwise is among the further instances.

`daemon` (460,000 states, three minutes) starts from a first start, with a role on
Stoat to be paired by name; a mirror that stands, with a role still to come and a
foreign one, which the bot wears, to be deleted; one whose role and channel were
deleted on Stoat and made anew there under their names; one whose admin role was
deleted; one where a Discord role has adopted the bot's, with a foreign channel;
and two that must not start (no administrator, two roles of rank 0). Two processes contend
for the lock, over two migration files of which one has two statements: the
proofs have any number. A role that comes or moves comes to position 0, the highest rank Discord
knows and the one that Stoat reserves for the bot. Left out by name: overwrites
for an admin role (`MayGive`), deleting one (`MayDelete`), events before
startup is over (`Early`), and starts from which `Bind` deletes or adopts the role
that keeps the bot in sight: each locks the bot out, and events with such a startup
also break `EveryoneKeepsOwn`; see the further instances.

Fairness. `Engine!FairSpec` gives each worker and each blocked send weak
fairness: the Go scheduler runs what can run, and a channel with room takes a
send. Nothing is assumed of Discord, of which ops are submitted, or of failures.
`RateLimiter!FairSpec` adds that time passes and that an Apply in progress is
answered in the end; the HTTP client's timeouts stand behind that. `Daemon!Spec`
gives it to the main goroutine and to the ops taken together, nothing to Discord,
the user, or whoever launches processes: `SignalFreesLock` must hold for an op
that waits for ever.

## Proofs

TLAPS checks these for all values of the constants that satisfy the named
assumptions (`OpsAssumption`, `BoundsAssumption`, `EntitiesAssumption`,
`LimiterAssumption`, `IntervalsCoverWindow`, `MigrationsAssumption`,
`MessagesAssumption`, `GuildsAssumption`, `SyncAssumption`, `AccessAssumption`,
`EmptyAssumption`, `WorldsAssumption`).

| theorem | says | argument |
|---|---|---|
| `EngineProofs!ShapeAlways` | typing; ops sit only in the queue of their key; a worker is busy iff it holds an op of its key | inductive as stated; routing is needed everywhere below, because two workers never hold ops of one key |
| `EngineProofs!OpsConserved` | `NoOpLostOrDuplicated` | `Places(op)` is a singleton for a submitted op; each action moves one op from one place to another (`OneMoves`) or none (`NoneMoves`) |
| `EngineProofs!WaitIsExact` | `WaitCountsUnfinished` | conservation gives that `Return` finishes an op that was not finished, so both sides drop by one |
| `EngineProofs!TypeCorrect` | `TypeOK`, `wg` never negative | from the count, a cardinality |
| `EngineStoreProofs!IdsDistinct` | `MappedIdsDistinct` | strengthened with ids in workers' hands: an id is in the rows or in the hands of one entity only, and below `nextId` |
| `EngineStoreProofs!IdentityIsKept` | `IdentityKept` | a worker about to confirm an edit holds the id that the row has |
| `EngineStoreProofs!ForeignKeyHolds` | `MessageRowsHaveChannel` | both statements that could break it are guarded |
| `EngineProofs!Refinement` | `ImplementsSerializedOps` | strengthened with: an active row has landed, and a dependency that a worker has checked has landed |
| `EngineStoreProofs!DryRunIsDry` | `DryRunWritesNothing` | step by step, from the typing alone |
| `EngineStoreProofs!OneCopyUntilFault` | `faults = 0 => OneLiveCopy` | while nothing has failed every object is named by the row of its entity or is in the hands of the one worker of its key, never both |
| `EngineStoreProofs!OrphansAreBlamed` | `OrphansBlamed` | each action adds one orphan at most, and only with a fault of its own; what a request has made is in the worker's hands until the row is confirmed |
| `EngineStoreProofs!StaleRowsAreBlamed` | `StaleRowsBlamed`, where `HomesStay` | a delete that the engine means to follow by `Remove` keeps its row out of `StaleRows`; what takes it back in is a fault. `HomesStay`: no channel is deleted that messages live in, whose row the foreign key would keep (the instance `CloseOps` below) |
| `EngineStoreProofs!SkipsAreMirrored` | `SkippedOnlyWhenMirrored`, where `HomesStay`, `ChannelsFirst` and `MaxFaults = 0` | with no fault a row that is active, and whose entity has no worker at its requests, says what its object shows (`ToldShape`); a worker in the middle of a put has the object, the row or both behind it (`LocalTold`), and a message's home is on Stoat since its op waited for it (`HomeShape`), so that no call is refused |
| `EngineStoreProofs!LastOpIsMirrored` | `MirrorsLastOp`, where `Settled`, `FairWeather` and `ChannelsFirst` | nothing is set aside (`SettledShape`), so that the ops of a key leave its channel as they were sent (`OrderShape`); between ops the row says what the last one that left says (`DoneShape`), and the object what the row says |
| `EngineStoreProofs!DisplayIsInOrder` | `SendOrderIsDisplayOrder`, under the same | an op that has left the channel and introduces a message has its object made (`MadeShape`), before any later one of the channel, and ids only grow |
| `RateLimiterProofs!TypeCorrect`, `Spacing`, `Honoured`, `FitsWindow` | `TypeOK`, `GrantsSpaced`, `BackoffHonoured`, `GrantsFitWindow` | `PacingInv`: `nextAllowed` is at least the interval not yet elapsed and at least what is left of any Retry-After; for the window, each grant so far has used up an interval of it |
| `ReconcileProofs!TypeCorrect` | `TypeOK` | with: an id has one type for good, in Stoat and in what startup has read of it; what an entity holds (its row, its worker before `Confirm`, the main goroutine before its own) is below `nextId` and of its kind (`Shape`, `HeldOk`) |
| `ReconcileProofs!MappedAtMostOnce` | `MappedOnce` | an id comes into an entity's hands by a create, and is new, or by `Adopt`. Either names decide (`Owned`: whoever holds an object shares a name with it, so that a candidate of one entity is in no other's hands), through crashes and with events at any time; or claims do (`Tracked`: before ops run a row with an id is active and has claimed its object), however names coincide |
| `ReconcileProofs!NothingForeignStays` | `NothingForeign`, where `Early` and `DryRun` are FALSE | until a call fails each object is still to be read or reaped (`Unread`), or owned: an active row names it, or one whose put or repair is under way, or a worker about to confirm it (`Owns`), and its entity exists or has its delete to come (`Stays`). Names may coincide, and the process may crash at any step |
| `ReconcileProofs!StartupConverges` | `StartConverges`, where `Early` and `DryRun` are FALSE, names tell entities apart and stay (`NamesApart`, `OneName`), and the first tables are `WellNamed` and `Whole` | until `main` is up, each entity not in `cut` has a row to build on (`Fit`: none, an active one, or one whose state is `{}`), or is an administrators' role about to be made anew (`Remade`), or is still to be matched with the one object of its name (`Matched`), or is being repaired (`Mendable`). What `Bind` has read stands until it is reaped (`ServerOk`), and a row that a pass leaves active names what there is (`ClaimsOk`). `ReconcileLive` leaves rows that are true (`LiveOk`), and an entity's last op asks for what Discord shows (`PipeOk`). Failed calls and crashes are allowed at any step |
| `ReconcileProofs!NothingActiveReaped`, `OnlyForeignReaped` | no active row's object is reaped; `ReapsOnlyForeign` | where `Early` is FALSE the engine is idle while startup is under way (`Quiet`), and what is available in a pass is claimed by no active row of its kind (`Claimed`); for rows that are not active, `Tracked` |
| `MigrationsProofs!LockExcludes` | `OneOpens` | whoever is past the lock holds it |
| `MigrationsProofs!OpenFindsSchema`, `RefusalsAreBlamed` | `SchemaComplete`, `RefusedOnlyAfterDeath` | about one process and one file at a time: a recorded file is complete, all before a process's file are recorded (`Progress`), and of a file that is not, nothing is applied, or it is the one being executed, or a death has cut it short (`NothingStray`) |
| `MessagesProofs!MessagesTypeCorrect`, `RepliesFindParents` | `TypeOK`, `RepliesLinked` | a row's id, and that in the worker's hands, is that of a copy of the row's message (`RowsNameCopies`), so that what `Linked` looks up is the parent's; whether or not handlers overtake each other |
| `MessagesProofs!PreviewsCostNothing` | `PreviewsEditNothing`, where `Racing` is FALSE | what each op would write bears a stamp, the number of changes its message had had (`Stamps`, an existential); a copy's row says what the one of its own stamp says, ops of equal stamps say the same, and a copy is edited at most once per stamp after its own |
| `MessagesProofs!MessagesShownInFull` | `ShownInFull`, where `Racing` is FALSE | while nothing has failed: a message's create comes before its other ops, its row says what its copy shows (`RowTold`), and the last of its ops, or else its copy, has what Discord shows (`UpToDate`) |
| `CategorySyncProofs!TypeCorrect`, `ListsNameMappedChannels` | `TypeOK`, `ListsHoldMappedIds` | what a worker has looked up are ids of channels, since a row is active only with its own; through `Picked`, for lists of any length, by way of the least counterexample |
| `CategorySyncProofs!NoOpStranded` | `NothingStranded`, where `Spaced` is TRUE | until a call fails or a wakeup is missed (`Steady`) each channel of the guild is active, or an op that maps it is to come or under way (`Followed`), and what waits, waits for one of those that are not active, or whose worker is about to take its waiters (`WaitersOfGuild`). That `ConvergeAll` has an op for each of them needs that a sorted list exists and misses nothing (`SortedExists`, `SortedProperties`) |
| `CategorySyncProofs!SidebarArrives` | `missed = {} => QuietMeansMirrored`, where `Spaced` and `Mapped` are TRUE, `Edits` is FALSE and each guild `TellsApart` | until a call fails or a wakeup is missed (`Even`): the guild has one list (`OneList`: where positions differ, two orders that differ somewhere first differ where each has the least of what is left), and each op under way has it (`OpsSay`). An op of the event's own comes first and leaves its queue alone (`Own`, `NothingSubmitted`), so that a new channel is the only one that may not be mapped. A category's row says what the guild does, or an op that will have it do so is to come, and then only the category's own channels may be unmapped (`StoredFollows`); such an op waits for those, so that what is sent names every channel (`LookUps`). Stoat shows the list, or some row differs from it, or a list is on its way (`ListSent`): a change that no row tells of is no change of the list (`SameList`) |
| `DaemonProofs!TypeIsKept`, `ElevationIsSafe` | `ATypeOK`, `ElevationSafe` | inductive together (`TInv`): ids are below `nextId`, so that a new role replaces none; its rank, and that of an edit, is not 0; edits and deletes spare the bot's role. With events during startup or without |
| `DaemonProofs!EveryoneIsSafe` | `EveryoneKeepsOwn` | where `Early` is FALSE. An op begins when each role it depends on is active, so has an id; a role's update keeps it; a role's delete is its last op, so that the row it removes is gone for good and left out (`RoleOrderly`, `ChannelFair`). Before `"up"` the engine is off (`StartupAlone`), and the admin ids handed to the client are none of them empty |
| `DaemonProofs!BotStaysInSight` | `NeverLockedOut`, where `Early` is FALSE, `AdminsSee`, `AdminsStay` and `StartsInSight` | no role that the bot wears denies it a channel, and where everyone is denied one, some role it wears allows it (`InView`), whatever the ranks. Until startup has deleted what it deletes, one of the roles that allow it is the bot's own or is claimed by an active row of an administrators' role (`Anchored`), and those `Bind` leaves alone; no other role of Discord's has the name of one that the bot wears (`NamedApart`), so that `Bind` maps none to one of them; and a role that `main` has just made is in no override (`NewApart`). Once `Bind` has gone through the roles, no ordinary role is mapped to one that the bot wears (`NotWorn`). A channel's worker has granted all of its `todo` before it sets what Discord says (`ChannelSighted`) |

Induction is not out of reach altogether: naturals have least elements
(`LeastNatural`, from the library's `WFMin`), and a least counterexample does what
an induction would. Lists are therefore written with cardinalities
(`Picked`, `Sorted`) and not with recursive operators.

`SkipsAreMirrored`, `LastOpIsMirrored` and `DisplayIsInOrder` have hypotheses, each a
condition on the ops and bounds of an instance, and `engine_warm` meets them all
(`MCEngine` has an `ASSUME` that says so). `HomesStay`: no op deletes a channel that
messages live in. `ChannelsFirst`: a message's put depends on its channel, as
`BuildMessageOp` has it. `FairWeather`: no outage, no fault, no dry run; with a
fault `engine_failed_create` is the counterexample. `Settled`: what ops depend on, a
message's channel included, is mapped from the start and no op is for it. Without it
both properties fail (`GoneOps` and `RenameOps` below), because an op that is set
aside loses its place. `MirrorsLastOp` speaks of the last op sent for an entity by
its index: `SelectSeq` is recursive too.

`BotStaysInSight` asks of Discord that an overwrite for an administrators' role, if
there is one, lets it see (`AdminsSee`), and that such a role is not deleted
(`AdminsStay`): the instances `AdminToo` and `MayDelete` below show why. Of what a
start finds it asks (`StartsInSight`) that the bot is in sight of every channel, by
the same rule, that no role it wears or may put on denies it one, and that what
lets it see is not a role that `Bind` deletes: the bot's own, or one that an
active row of an administrators' role names. Of ordinary roles it asks that none is
mapped to a role of the bot's, unless it is the bot's own and `Bind` is there to see
it, or has the name of one, unless an administrators' row claims that. The instances
`Halfway`, `Borrowed` and `Namesake` below are starts that do not meet this, and
lock the bot out. All the worlds of `MCDaemon` do, the adopted and the damaged
ones included (an `ASSUME` there says so).

`SidebarArrives` has four hypotheses, and each is needed: the further instances
below have a counterexample to the property without it, one for each. One event
is dealt with before the next (`Spaced`); Stoat mirrors the guild at the start
(`Mapped`), which `ConvergeAll` alone does not bring about; a channel does not
change once it exists (`Edits` is FALSE), though it may come and go, while
categories may change in any way; and no two categories of one guild share a
position (`TellsApart`, which also asks that an id is that of one entry; Discord's
are). Handlers may run in any order otherwise (`Serial` is free), and there may be
any number of events. What a missed wakeup takes away the theorem leaves out
(`missed = {}`); that any later event makes up for one is in `QuietMeansMirrored`,
and only model-checked. `MCCategorySync` has an `ASSUME` that says which of the run's
guilds it is about.

Only model-checked: liveness (`EveryOpSettles`, `EndsUnlessOvertaken`,
`SignalFreesLock`), which is beyond this prover; and `AccessMirrored`, that overwrites
arrive, whose invariant through a startup that adopts and deletes has not been
written.
`EmptyAssumption` of `Access`: the state `{}` that `ReconcileLive` marks a row with is
none that a channel has.
`WorldsAssumption` of
`Access` is what the proofs need of a start's worlds: types, that an active row
has an id, and that the default override, where there is one, is one that
Discord gives everyone; that of `Reconcile`: types, ids below the next one, each
object's its own, and no two rows for one object. `GuildsAssumption` of
`CategorySync`: a guild is finite, its entries have ids and positions, and a
category has no parent. `SyncAssumption` has `NoId` differ from ids and states.

`MappedAtMostOnce` asks of each world that names tell entities apart and objects
bear a name of the entity whose row names them (`NamesApart`, `WellNamed`), or
that no crash is to come and no row pending with an id (`Orderly`), with events
only outside startup. The worlds of `ReconcileRestart.cfg` are of the one kind
(`Tidy`) or the other (`Mixed`). `OnlyForeignReaped` asks for `Orderly`: without
it, `reconcile_pending` has the counterexample, and `NothingActiveReaped` is what
holds all the same.

`StartupConverges` asks for more than `MappedAtMostOnce`: that an entity keeps its
name (`OneName`; the instance with `Rename` below shows why), and that no
first row is pending with an id and a state (`Whole`), as a crash before the first start
of the model could have left it. Crashes within it may leave such rows: those entities are in
`cut`, where `LeftUndone` says when. The worlds of `Tidy` meet all of it. These
hypotheses stand at the end of `Reconcile`, and `MCReconcile` has `ASSUME`s that say
which of its worlds meet them.

## Where the code and its documentation part

Each of these is a run that TLC ends with a counterexample; `PROJECT.json`
(`findings`) quotes the lines.

| run | what happens |
|---|---|
| `engine_lost_wakeup` | a dependency is confirmed between an op's check and its deferral; nothing wakes the op |
| `engine_failed_create` | after a failed create the same op is skipped as equal: it is never retried |
| `reconcile_pending` | a crash leaves a channel's row pending; the channel is renamed while the program is down; `Bind` lets only active rows claim, finds no match by name, and deletes the channel on Stoat, messages and all |

The same modules show twenty-seven more. They are not runs of their own; each is an
existing configuration with a few constants changed:

| start from | change | violated | what happens |
|---|---|---|---|
| `EngineWarm.cfg` | `Ops <- RenameOps`, `QueueCap = 2` | `SendOrderIsDisplayOrder` | a message set aside for its channel's update is re-queued behind later ones (`engine.go:153`; `engine.go:62` promises send order) |
| `EngineWarm.cfg` | `Ops <- CloseOps` | `StaleRowsBlamed` | the foreign key refuses to remove the row of a channel with messages: the mapping stays active, of a channel that is gone (`engine.go:180`; `mapping.go:131`) |
| `EngineFailedCreate.cfg` | `Ops <- GoneOps`, `MaxFaults = 0` | `MirrorsLastOp` | the channel's create is set aside for its role, its delete overtakes it, and the create then leaves the channel on Stoat |
| `EngineFailedCreate.cfg` | `Ops <- DropOps`, `Mirrored <- ChannelMapped` | `[][\A k \in Keys : At(k, "apply") /\ worker'[k].pc = "remove" => rows[worker[k].op.entity].id = NoId]_vars` | a delete after a failed update finds a pending row, skips the remote call and drops the mapping of a live channel (`gateway.go:143`) |
| `Limiter.cfg` | `Limits <- FivePerWindow`, `Window = 10` | invariant `\A b \in Buckets : used[b] < Limit(b)` whenever a worker of `b` is at `"apply"` | the interval counts an Apply, which makes up to three requests: two `CreateRole`s overflow a window (`main.go:37`) |
| `Limiter.cfg` | none | `\A w \in Workers : ~At(w, "idle") ~> At(w, "idle")` | a worker without end of ops takes each slot as it comes, and another of its bucket sleeps and wakes for ever: `Wait` keeps no queue (`rate_limiter.go:36`). `EndsUnlessOvertaken` is what holds |
| `Limiter.cfg` | `Typed429 = FALSE` | `[][\A w \in Workers : Refused(w) /\ run[w].attempt < MaxRemoteRetries => run'[w].pc # "idle"]_vars` | no Stoat writer returns `RateLimitedError`, so the first 429 ends the op (`remote.go:8`) |
| `CategorySpaced.cfg` | none | invariant `Quiet /\ faults = 0 => \A c \in Channels : waiters[c] = <<>>`, and `QuietMeansMirrored` without its `events \notin missed` | the lost wakeup of `engine_lost_wakeup`, to the sidebar: a new channel is confirmed and its waiters taken between the look at its row and the wait for it (`engine.go:112`, `engine.go:132`), and its category stays without it until the next event |
| `CategorySpaced.cfg` | `First <- InOrder`, `Guilds <- Reorders`, `Edits = TRUE`, `MaxEvents = 1` | `QuietMeansMirrored` | two channels swap places; the category's list is resolved while one of them has an update pending, and leaves it out for good (`category_gateway.go:116`; line 99 calls it transient) |
| `CategorySpaced.cfg` | `First <- TwoByTwo`, `Guilds <- Sidebars`, `Serial = TRUE`, `Spaced = FALSE`, `MaxEvents = 2`, `MaxFaults = 0` | `QuietMeansMirrored` | the "live snapshot" of a category op is frozen; an older op of another category runs last and its list stays (`handlers.go:151`) |
| `CategorySpaced.cfg` | `First <- JustOne`, `Guilds <- NamesOnly`, `Spaced = FALSE`, `MaxEvents = 2`, `MaxFaults = 0` | `QuietMeansMirrored` | two handlers read the state cache and submit in opposite orders (`handlers.go:150`) |
| `CategorySpaced.cfg` | `Categories = {k1, k2, k3}`, `Channels = {}`, `First <- TiedPair`, `Guilds <- PairOnly`, `Serial = TRUE`, `MaxEvents = 2`, `MaxFaults = 0` | `QuietMeansMirrored` | a handler derives the list twice, for a category's delete and for the categories' ops (`handlers.go:47`, `handlers.go:150`), and two that tie come out of the map in either order: the delete sends one order, the ops are skipped as equal to the other, and when one of the two moves there is no difference left to send (`state.go:84` gives ties a clean sequence, though not the same one each time) |
| `CategorySpaced.cfg` | `First <- TwoByTwo`, `Mapped = FALSE`, `MaxEvents = 0`, `MaxFaults = 0` | `QuietMeansMirrored` | `ConvergeAll` in a guild that is not mapped: a category's list is resolved while another's channel is not mapped, and is sent last (`handlers.go:113`; `category_gateway.go:98` trusts `DependsOn` to have waited, which does for the op's own channels only) |
| `ReconcileRestart.cfg` | `Worlds <- Mirror`, `Early = TRUE`, `MaxFaults = 0` | `NothingForeign` | handlers run before startup is over (`main.go:156`); a delete that meets a row `ReconcileLive` has made pending makes no call and drops the row, and the object stays on Stoat (`reconcile.go:2` speaks of "before the engine's live-sync path ever runs") |
| `ReconcileRestart.cfg` | `Worlds <- Mirror`, `MayShow <- Rename`, `MaxFaults = 0` | `StartConverges` | `EditRole` sets no name: a role renamed on Discord keeps its old name on Stoat for good (`role.go:36`) |
| `ReconcileRestart.cfg` | `DryRun = TRUE` | `DryRunSparesStoat` | `resolveAdminRoles` creates admin roles on Stoat in a dry run (`wiring.go:80`; `main.go:105` says "no real Stoat writes will happen") |
| `Daemon.cfg` | `Early = TRUE` | `NeverLockedOut` | an op that runs before the client knows the admin roles (`client.go:24`) writes @everyone's denial without the grant that keeps the bot in |
| `Daemon.cfg` | `Early = TRUE`, `Worlds <- Halved` | `EveryoneKeepsOwn` | a channel's op has begun when `Bind` drops the row of a dead role, and that role's own op enters it anew, without an id: the look-up finds the row, and what Discord gives the role is given to everyone (`gateway.go:176`; `permission.go:46`: an empty id is the default) |
| `Daemon.cfg` | `MayGive <- AdminToo` | `NeverLockedOut` | an overwrite that Discord has for an admin role is written after the bot's grant to that role, and replaces it (`channel.go:85`) |
| `Daemon.cfg` | `MayDelete = {reader, admin}` | `NeverLockedOut` | the admin role the bot wears is deleted on Discord and so on Stoat; its grants go with it, and nothing picks another until the next start |
| `Daemon.cfg` | `Privileged = {admin, reader}`, `MayDelete = {}`, `MaxEvents = 0`, `Worlds <- Halved` | `AccessMirrored` | of two administrators' roles one was deleted on Stoat while the program was down: `resolveAdminRoles` takes its id from the row unchecked and hands it to the client (`wiring.go:77`), `Bind` then drops the row and the role is made anew, but every channel write grants to the dead id first and is refused, until the next start (`channel.go:85`) |
| `Daemon.cfg` | `Worlds <- Halfway` | `NeverLockedOut` | the program ended while it updated the only administrators' role: its row is pending, `resolveAdminRoles` makes a second role (`wiring.go:79`), and `Bind` deletes the first, which the bot wears and which let it see the channel (`reconcile.go:287`) |
| `Daemon.cfg` | `Worlds <- Borrowed` | `NeverLockedOut` | the bot sees a channel by a role that mirrors nothing: `Bind` deletes it at the next start |
| `Daemon.cfg` | `Worlds <- Namesake`, `MayGive <- Hushed` | `NeverLockedOut` | a Discord role with the name of a role that the bot wears adopts it (`reconcile.go:254`), and what Discord denies that role is denied to the bot |
| `Daemon.cfg` | none | `NeverRefused` | after a death in a file of several statements each start is refused: the file is run again and its first statement finds its table there (`store.go:113`; `store.go:30` promises that new files are picked up on the next boot) |
| `Messages.cfg` | none | `NoEditDropped` | a user removes the text of a message that has attachments: the update is taken for a partial payload and skipped, and the text stays on Stoat (`message.go:40`: "this cannot drop a legitimate edit") |
| `Messages.cfg` | `Racing = TRUE` | `ShownInFull` | the handler of an update overtakes that of the create: the update, built with its link, sends the message, and the create then edits it with the link stripped |

Read in the code while translating it, without an instance of its own: a drifted
overwrite that exists on Stoat only is never removed, so that the channel is
written anew at each start (`SetOverwrite` adds, as `channel.go` does); an admin
role whose mapping is dead, where there is no other that the bot wears, makes each
start end in `AddSelfToRole` (`Dead` in `MCDaemon`: no behaviour from it reaches `"up"`); a role's create that overtakes
its delete leaves a row without an id, and an empty id is Stoat's default
override (`gateway.go:176`), for which `Access` has handlers keep their order; the
"most senior" admin role is the one of the lowest position (`wiring.go:107`); an
edited reply loses its quote (`message.go:183`); an update of a message that was
never mirrored sends it anew, at the bottom; a message sent and not confirmed is
sent twice; a GIF's first full preview edits its link back in (the allowance in
`PreviewsEditNothing`).

## Not modelled

Text formats, logging, names and colours; the tables of permission bits
(`Access` has sets of which some do not reach Stoat); canonical JSON, which is
taken for the record it stands for; the environment and log files;
`MarkDisconnected`, `server.go` of `internal/discord`, emojis, and the drain of
`op_queue`, which have no caller; SQL itself; network latency other than as
interleaving. Of `internal/stoat`, the requests within a message's
writer are one step that may fail after it took effect (so are a role's in `Engine`
and `Reconcile`; `Access` has them one by one), and reading and decoding one that
may fail. The category pass of `Bind` and `ReconcileLive` is not
modelled: categories have no id of their own before `SetCategories`, so that it
belongs beside `CategorySync`, whose instances are at the edge of what TLC
finishes; for the same reason `Reconcile` has no messages, and the foreign key
that refuses to clear a dead channel (`reconcile.go:240`) is a hazard without a
property. discordgo's order of events is external: `Access` and `Messages` take
an entity's events in order unless told otherwise.

## Plan

In order of importance.

1. *Done:* all modules above and the proofs listed above.
2. A proof of `AccessMirrored`: from `BotStaysInSight`, and that what `Bind` leaves
   active names what is there.
3. The category pass of `Bind` beside `CategorySync`; the bit tables and
   `ExpandCategoryPermissions` as operators against a reference definition.
