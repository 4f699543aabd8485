---------------------------- MODULE CategorySync ----------------------------
(***************************************************************************)
(* Categories (internal/discord: category_gateway.go, handlers.go,         *)
(* state.go).  Stoat has one list of categories and no edit of a single    *)
(* one, so each category op sends the whole list, derived from discordgo's *)
(* state cache when the op was built; the Stoat ids of the channels are    *)
(* looked up when it runs.  The engine's part is kept to what matters      *)
(* here: one FIFO worker per category and channel, ops set aside until     *)
(* their channels are mapped, diff, pending row, remote call, confirm, and *)
(* the ops that waited sent back.  A channel's Stoat id is the channel     *)
(* itself.                                                                 *)
(***************************************************************************)
EXTENDS Naturals, Sequences, FiniteSets

CONSTANTS
  Categories, Channels, \* Discord ids
  NoId,                 \* the empty Stoat id, and "none" elsewhere
  First,                \* the guild at the start
  Guilds,               \* the guilds an event may lead to
  Mapped,               \* whether Stoat mirrors First at the start; if not, ConvergeAll runs
  Edits,                \* whether a channel may change once it exists
  Serial,               \* whether a handler runs only after the one before it
  Spaced,               \* whether an event happens only when all is quiet
  MaxEvents, MaxFaults  \* bounds on events, and on failed and lost calls

Ids == Categories \cup Channels

(* A guild as the state cache has it: channels and categories alike, with a *)
(* parent and a position.                                                   *)
ASSUME GuildsAssumption ==
  \A g \in Guilds \cup {First} : IsFiniteSet(g) /\ \A c \in g :
    c.id \in Ids /\ c.pos \in Nat /\ (c.id \in Categories => c.parent = NoId)

(* The canonical state of a category, as a row holds it.                    *)
Names        == {c.name : c \in UNION (Guilds \cup {First})}
CategoryType == [id : Categories, name : Names, channels : Seq(Channels)]
WantType     == [cat : CategoryType, position : Nat]

ASSUME SyncAssumption ==
  /\ Categories \cap Channels = {} /\ NoId \notin Ids \cup WantType
  /\ Mapped \in BOOLEAN /\ Edits \in BOOLEAN /\ Serial \in BOOLEAN /\ Spaced \in BOOLEAN
  /\ MaxEvents \in Nat /\ MaxFaults \in Nat

VARIABLES
  guild, gone, \* the state cache, and ids that were deleted, which never come back
  events,    \* events so far
  handler,   \* by event, its handler; 0 is ConvergeAll
  queue,     \* the workers' channels, by Discord id
  worker,    \* the workers, by Discord id
  waiters,   \* ops set aside, by the channel they wait for
  row,       \* mapping rows of channels
  stored,    \* by category, the canonical state in its mapping row
  shown,     \* Stoat's list of categories
  missed,    \* what the code does not have: the events a wakeup was missed after
  faults

discord == <<guild, gone, events>>
rows == <<row, stored>>
vars == <<discord, handler, queue, worker, waiters, rows, shown, missed, faults>>

IdsIn(g) == {c.id : c \in g}

-----------------------------------------------------------------------------
(* The entries of S by position, those of one position in any order.        *)
Sorted(S) ==
  {s \in [1..Cardinality(S) -> S] :
     \A i, j \in DOMAIN s : i < j => s[i] # s[j] /\ s[i].pos <= s[j].pos}

(* slices.SortFunc orders ties too, though not in a way it promises; it does *)
(* so alike whenever it is given the same.                                  *)
Ordered(S) == CHOOSE s \in Sorted(S) : TRUE

IdsOf(s) == [i \in DOMAIN s |-> s[i].id]

Members(g, k) == {c \in g : c.parent = k /\ c.id \in Channels}

CategoriesOf(g) == {c \in g : c.id \in Categories}

(* categoriesFromState: each category with its channels, in sidebar order.  *)
(* Channels are read from the cache's slice, in which they stay in place;   *)
(* categories out of a Go map, which has no order.                          *)
CategoriesFromState(g) ==
  {[i \in DOMAIN order |-> [id |-> order[i].id, name |-> order[i].name,
                            channels |-> IdsOf(Ordered(Members(g, order[i].id)))]] :
     order \in Sorted(CategoriesOf(g))}

(* What an op wants its category to be: Position is the index in the list.  *)
Desired(cats, i) == [cat |-> cats[i], position |-> i]

Op(kind, id, want, cats) == [kind |-> kind, id |-> id, want |-> want, cats |-> cats]

BuildCategoryOp(cats, i)      == Op("category", cats[i].id, Desired(cats, i), cats)
BuildCategoryDeleteOp(k, cats) == Op("categoryDelete", k, NoId, cats)

ChannelOp(kind, c) == Op(kind, c, NoId, <<>>)

(* The channels an op depends on.                                           *)
DependsOn(op) ==
  IF op.kind # "category" THEN {}
  ELSE {op.want.cat.channels[j] : j \in DOMAIN op.want.cat.channels}

ChannelsIn(cats) ==
  UNION {{cats[i].channels[j] : j \in DOMAIN cats[i].channels} : i \in DOMAIN cats}

Idle == [pc |-> "idle", op |-> NoId, unread |-> {}, ids |-> <<>>,
         missing |-> NoId, pushing |-> <<>>]

At(k, label) == worker[k].pc = label

Unmapped == [status |-> "absent", id |-> NoId]

(* Mutant: any row will do, as resolveOverwriteRoleIDs has it.              *)
ResolvableIfFound(c) == row[c].status # "absent"

(* Found alone is not enough: a pending row may have no Stoat id yet.       *)
Resolvable(c) == row[c].status = "active"

(* What is at the positions P of s, in order.                               *)
Picked(s, P) ==
  [n \in 1..Cardinality(P) |-> s[CHOOSE p \in P : Cardinality({q \in P : q <= p}) = n]]

(* The list Stoat is sent, from what the lookups found.                     *)
Resolved(cats, ids) ==
  [i \in DOMAIN cats |->
     LET list  == cats[i].channels
         known == Picked(list, {j \in DOMAIN list : list[j] \in DOMAIN ids})
     IN [id |-> cats[i].id, name |-> cats[i].name,
         channels |-> [j \in DOMAIN known |-> ids[known[j]]]]]

Itself(S) == [c \in S |-> c]

(* A handler: what happened to which Discord id, and ops it has yet to      *)
(* submit.                                                                  *)
Handler(kind, id) == [pc |-> "own", kind |-> kind, id |-> id, ops |-> <<>>]
NoHandler         == [pc |-> "none", kind |-> "none", id |-> NoId, ops |-> <<>>]

Init ==
  /\ guild = First /\ gone = {} /\ events = 0 /\ missed = {} /\ faults = 0
  /\ handler = [i \in 0..MaxEvents |-> IF i = 0 /\ ~Mapped THEN Handler("converge", NoId)
                                                          ELSE NoHandler]
  /\ queue = [k \in Ids |-> <<>>]
  /\ worker = [k \in Ids |-> Idle]
  /\ waiters = [c \in Channels |-> <<>>]
  /\ IF Mapped
     THEN \E cats \in CategoriesFromState(First) :
            /\ row = [c \in Channels |-> IF c \in IdsIn(First)
                                         THEN [status |-> "active", id |-> c] ELSE Unmapped]
            /\ stored = [k \in Categories |->
                 IF \E i \in DOMAIN cats : cats[i].id = k
                 THEN Desired(cats, CHOOSE i \in DOMAIN cats : cats[i].id = k) ELSE NoId]
            /\ shown = Resolved(cats, Itself(IdsIn(First)))
     ELSE /\ row = [c \in Channels |-> Unmapped]
          /\ stored = [k \in Categories |-> NoId]
          /\ shown = <<>>

-----------------------------------------------------------------------------
(* discordgo: the event changes the state cache, then its handler starts in *)
(* a goroutine of its own.                                                  *)
Quiet ==
  /\ \A i \in 0..MaxEvents : handler[i].pc \in {"none", "done"}
  /\ \A k \in Ids : queue[k] = <<>> /\ worker[k] = Idle

Of(g, x) == {c \in g : c.id = x}

(* What happens to x between two guilds; Discord never reuses an id.        *)
OneChange(x, g) ==
  /\ Of(g, x) # Of(guild, x) /\ g \ Of(g, x) = guild \ Of(guild, x)
  /\ x \notin gone
  /\ Edits \/ x \in Categories \/ Of(guild, x) = {} \/ Of(g, x) = {}

EventKind(x, g) ==
  IF x \in Categories THEN IF Of(g, x) = {} THEN "categoryDelete" ELSE "category"
                      ELSE IF Of(g, x) = {} THEN "channelDelete" ELSE "channel"

Discord ==
  /\ events < MaxEvents /\ (Spaced => Quiet)
  /\ \E g \in Guilds, x \in Ids :
       /\ OneChange(x, g)
       /\ guild' = g /\ gone' = gone \cup (IdsIn(guild) \ IdsIn(g))
       /\ handler' = [handler EXCEPT ![events + 1] = Handler(EventKind(x, g), x)]
  /\ events' = events + 1
  /\ UNCHANGED <<queue, worker, waiters, rows, shown, missed, faults>>

Runs(i) == Serial => \A j \in 0..(i - 1) : handler[j].pc \in {"none", "done"}

(* The handler's own op: the channel's, or a category's delete with the     *)
(* list as it is by now.  ConvergeAll has one op for every channel.         *)
OwnOps(h, cats) ==
  CASE h.kind = "category"       -> <<>>
    [] h.kind = "categoryDelete" -> <<BuildCategoryDeleteOp(h.id, cats)>>
    [] h.kind = "converge"       -> LET c == IdsOf(Ordered({c \in guild : c.id \in Channels}))
                                    IN [i \in DOMAIN c |-> ChannelOp("channel", c[i])]
    [] OTHER                     -> <<ChannelOp(h.kind, h.id)>>

HandleOwn(i) ==
  /\ handler[i].pc = "own" /\ Runs(i)
  /\ \E cats \in CategoriesFromState(guild) :
       handler' = [handler EXCEPT ![i].pc = "ownOps", ![i].ops = OwnOps(handler[i], cats)]
  /\ UNCHANGED <<discord, queue, worker, waiters, rows, shown, missed, faults>>

(* submitCategoryOps derives the list again ...                             *)
SubmitCategoryOps(i) ==
  /\ handler[i].pc = "ownOps" /\ handler[i].ops = <<>>
  /\ \E cats \in CategoriesFromState(guild) :
       handler' = [handler EXCEPT ![i].pc = "catOps",
                                  ![i].ops = [j \in DOMAIN cats |-> BuildCategoryOp(cats, j)]]
  /\ UNCHANGED <<discord, queue, worker, waiters, rows, shown, missed, faults>>

(* ... and submits an op for each, one after the other.                     *)
Submit(i) ==
  LET op == Head(handler[i].ops) IN
  /\ handler[i].ops # <<>>
  /\ queue' = [queue EXCEPT ![op.id] = Append(@, op)]
  /\ handler' = [handler EXCEPT ![i].ops = Tail(@)]
  /\ UNCHANGED <<discord, worker, waiters, rows, shown, missed, faults>>

Handled(i) ==
  /\ handler[i].pc = "catOps" /\ handler[i].ops = <<>>
  /\ handler' = [handler EXCEPT ![i].pc = "done"]
  /\ UNCHANGED <<discord, queue, worker, waiters, rows, shown, missed, faults>>

-----------------------------------------------------------------------------
(* Workers.                                                                 *)
Missing(op) == {c \in DependsOn(op) : row[c].status # "active"}

Return(k) == worker' = [worker EXCEPT ![k] = Idle]

(* An op with all its channels mapped goes on; a delete does not compare.   *)
Take(k) ==
  LET op == Head(queue[k]) IN
  /\ At(k, "idle") /\ queue[k] # <<>> /\ Missing(op) = {}
  /\ queue' = [queue EXCEPT ![k] = Tail(@)]
  /\ worker' = [worker EXCEPT ![k] =
       [Idle EXCEPT !.op = op,
                    !.pc = IF op.kind = "categoryDelete" THEN "apply" ELSE op.kind,
                    !.unread = ChannelsIn(op.cats)]]
  /\ UNCHANGED <<discord, handler, waiters, rows, shown, missed, faults>>

(* firstUnmetDependency finds a channel that is not mapped ...              *)
MissChannel(k) ==
  LET op == Head(queue[k]) IN
  /\ At(k, "idle") /\ queue[k] # <<>>
  /\ \E c \in Missing(op) :
       worker' = [worker EXCEPT ![k] = [Idle EXCEPT !.pc = "defer", !.op = op, !.missing = c]]
  /\ queue' = [queue EXCEPT ![k] = Tail(@)]
  /\ UNCHANGED <<discord, handler, waiters, rows, shown, missed, faults>>

(* ... and deferOp has the op wait for it, mapped by then or not.  If it is, *)
(* and those that waited have been taken, nothing wakes the op any more.    *)
Defer(k) ==
  LET c == worker[k].missing IN
  /\ At(k, "defer")
  /\ waiters' = [waiters EXCEPT ![c] = Append(@, worker[k].op)]
  /\ missed' = IF row[c].status = "active" /\ ~At(c, "notify") THEN missed \cup {events} ELSE missed
  /\ Return(k)
  /\ UNCHANGED <<discord, handler, queue, rows, shown, faults>>

(* Mutant: a category that only moved looks the same.                       *)
EqualButForPosition(op) == stored[op.id] # NoId /\ stored[op.id].cat = op.want.cat

(* Diff.                                                                    *)
Equal(op) == stored[op.id] = op.want

Skip(k) ==
  /\ At(k, "category") /\ Equal(worker[k].op)
  /\ Return(k)
  /\ UNCHANGED <<discord, handler, queue, waiters, rows, shown, missed, faults>>

WritePending(k) ==
  LET op == worker[k].op IN
  /\ At(k, "category") /\ ~Equal(op)
  /\ stored' = [stored EXCEPT ![k] = op.want]
  /\ worker' = [worker EXCEPT ![k].pc = "apply"]
  /\ UNCHANGED <<discord, handler, queue, waiters, row, shown, missed, faults>>

(* resolveChannelIDs, one lookup at a time; a channel without an active row *)
(* is left out.                                                             *)
ResolveChannelID(k) ==
  /\ At(k, "apply")
  /\ \E c \in worker[k].unread :
       worker' = [worker EXCEPT ![k].unread = @ \ {c}, ![k].ids =
         IF Resolvable(c)
         THEN [x \in DOMAIN @ \cup {c} |-> IF x = c THEN row[c].id ELSE @[x]]
         ELSE @]
  /\ UNCHANGED <<discord, handler, queue, waiters, rows, shown, missed, faults>>

Accepted(k) ==
  /\ At(k, "apply") /\ worker[k].unread = {}
  /\ shown' = Resolved(worker[k].op.cats, worker[k].ids)

(* SetCategories replaces the list in one request.                          *)
SetCategories(k) ==
  /\ Accepted(k)
  /\ worker' = [worker EXCEPT ![k].pc =
       IF worker[k].op.kind = "category" THEN "confirm" ELSE "forget"]
  /\ UNCHANGED <<discord, handler, queue, waiters, rows, missed, faults>>

(* Confirm: nothing depends on a category.                                  *)
Confirm(k) ==
  /\ At(k, "confirm")
  /\ Return(k)
  /\ UNCHANGED <<discord, handler, queue, waiters, rows, shown, missed, faults>>

Remove(k) ==
  /\ At(k, "forget")
  /\ stored' = [stored EXCEPT ![k] = NoId]
  /\ Return(k)
  /\ UNCHANGED <<discord, handler, queue, waiters, row, shown, missed, faults>>

(* A call or a lookup fails, or a list that was accepted is answered with   *)
(* an error.  The op is over.                                               *)
Fail(k) ==
  /\ worker[k].pc \in {"apply", "create"} /\ faults < MaxFaults
  /\ faults' = faults + 1
  /\ UNCHANGED shown \/ Accepted(k)
  /\ Return(k)
  /\ UNCHANGED <<discord, handler, queue, waiters, rows, missed>>

(* A channel's op: its row is pending from here ...                         *)
WriteChannelPending(k) ==
  /\ At(k, "channel")
  /\ row' = [row EXCEPT ![k].status = "pending"]
  /\ worker' = [worker EXCEPT ![k].pc = "create"]
  /\ UNCHANGED <<discord, handler, queue, waiters, stored, shown, missed, faults>>

(* Mutant: Confirm without notifyWaiters.                                   *)
ConfirmChannelSilently(k) ==
  /\ At(k, "create")
  /\ row' = [row EXCEPT ![k] = [status |-> "active", id |-> k]]
  /\ Return(k)
  /\ UNCHANGED <<discord, handler, queue, waiters, stored, shown, missed, faults>>

(* ... to here.  Then notifyWaiters takes the ops that wait for it ...      *)
ConfirmChannel(k) ==
  /\ At(k, "create")
  /\ row' = [row EXCEPT ![k] = [status |-> "active", id |-> k]]
  /\ worker' = [worker EXCEPT ![k].pc = "notify"]
  /\ UNCHANGED <<discord, handler, queue, waiters, stored, shown, missed, faults>>

TakeWaiters(k) ==
  /\ At(k, "notify")
  /\ worker' = [worker EXCEPT ![k].pc = "push", ![k].pushing = waiters[k]]
  /\ waiters' = [waiters EXCEPT ![k] = <<>>]
  /\ UNCHANGED <<discord, handler, queue, rows, shown, missed, faults>>

(* Mutant: waiting ops go to the worker that confirmed.                     *)
PushToItself(k) ==
  /\ At(k, "push") /\ worker[k].pushing # <<>>
  /\ queue' = [queue EXCEPT ![k] = Append(@, Head(worker[k].pushing))]
  /\ worker' = [worker EXCEPT ![k].pushing = Tail(@)]
  /\ UNCHANGED <<discord, handler, waiters, rows, shown, missed, faults>>

(* ... and sends them back to their workers one by one.                     *)
PushWaiter(k) ==
  LET op == Head(worker[k].pushing) IN
  /\ At(k, "push") /\ worker[k].pushing # <<>>
  /\ queue' = [queue EXCEPT ![op.id] = Append(@, op)]
  /\ worker' = [worker EXCEPT ![k].pushing = Tail(@)]
  /\ UNCHANGED <<discord, handler, waiters, rows, shown, missed, faults>>

Notified(k) ==
  /\ At(k, "push") /\ worker[k].pushing = <<>>
  /\ Return(k)
  /\ UNCHANGED <<discord, handler, queue, waiters, rows, shown, missed, faults>>

RemoveChannel(k) ==
  /\ At(k, "channelDelete")
  /\ row' = [row EXCEPT ![k] = Unmapped]
  /\ Return(k)
  /\ UNCHANGED <<discord, handler, queue, waiters, stored, shown, missed, faults>>

-----------------------------------------------------------------------------
Handle(i) == HandleOwn(i) \/ SubmitCategoryOps(i) \/ Submit(i) \/ Handled(i)

CategoryStep(k) ==
  \/ Skip(k) \/ WritePending(k) \/ ResolveChannelID(k)
  \/ SetCategories(k) \/ Confirm(k) \/ Remove(k)

ChannelStep(c) ==
  \/ WriteChannelPending(c) \/ ConfirmChannel(c) \/ TakeWaiters(c)
  \/ PushWaiter(c) \/ Notified(c) \/ RemoveChannel(c)

Next ==
  \/ Discord
  \/ \E i \in 0..MaxEvents : Handle(i)
  \/ \E k \in Ids : Take(k) \/ MissChannel(k) \/ Defer(k) \/ Fail(k)
  \/ \E k \in Categories : CategoryStep(k)
  \/ \E c \in Channels : ChannelStep(c)

Spec == Init /\ [][Next]_vars
-----------------------------------------------------------------------------
OpKinds == {"category", "categoryDelete", "channel", "channelDelete"}

TypeOK ==
  /\ events \in 0..MaxEvents /\ guild \in Guilds \cup {First}
  /\ missed \subseteq 0..MaxEvents /\ faults \in 0..MaxFaults
  /\ \A i \in 0..MaxEvents :
       /\ handler[i].pc \in {"none", "own", "ownOps", "catOps", "done"}
       /\ \A j \in DOMAIN handler[i].ops : handler[i].ops[j].kind \in OpKinds
  /\ \A k \in Ids :
       /\ \A j \in DOMAIN queue[k] : queue[k][j].id = k
       /\ worker[k] # Idle => worker[k].op.id = k
  /\ \A c \in Channels : row[c].id \in {NoId, c} /\ (row[c].status = "active" => row[c].id = c)

(* No list sent to Stoat names a channel by an empty id, whatever ops of    *)
(* other categories and channels are under way.                             *)
ListsHoldMappedIds ==
  \A i \in DOMAIN shown : \A j \in DOMAIN shown[i].channels : shown[i].channels[j] # NoId

(* When every event has been handled and every worker is idle, Stoat shows  *)
(* the sidebar Discord has, its categories, their order and their channels, *)
(* unless a call failed or a wakeup was missed after the last event: one    *)
(* missed after an event before it is made up for, as every event has all   *)
(* categories sent again.                                                   *)
QuietMeansMirrored ==
  Quiet /\ faults = 0 /\ events \notin missed =>
    \E cats \in CategoriesFromState(guild) : shown = Resolved(cats, Itself(IdsIn(guild)))

(* No category op is left waiting for a channel when all is quiet, unless a *)
(* call failed or a channel was confirmed, and those that waited for it     *)
(* taken, between an op's look at it and its wait.                          *)
NothingStranded ==
  Quiet /\ faults = 0 /\ missed = {} => \A c \in Channels : waiters[c] = <<>>

(* What a guild is like that has one list: its entries have ids of their    *)
(* own, and no two categories have one position.                            *)
Untied(S) == \A c, d \in S : c.pos = d.pos => c = d

TellsApart(g) == (\A c, d \in g : c.id = d.id => c = d) /\ Untied(CategoriesOf(g))
=============================================================================
