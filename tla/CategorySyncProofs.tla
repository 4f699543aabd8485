------------------------- MODULE CategorySyncProofs -------------------------
(***************************************************************************)
(* For any number of categories, channels, events and failed calls, and    *)
(* whichever handlers run at once: what is under way is of its type, and no *)
(* list holds an empty id.  Where one event is dealt with before the next,  *)
(* no op is left waiting for a channel unless a wakeup was missed; and if   *)
(* moreover categories do not tie and channels do not change, Stoat's list  *)
(* is the sidebar in the end.                                               *)
(***************************************************************************)
EXTENDS CategorySync, FiniteSetTheorems, SequenceTheorems, WellFoundedInduction, TLAPS

OpType ==
  {op \in [kind : OpKinds, id : Ids, want : WantType \cup {NoId}, cats : Seq(CategoryType)] :
     op.kind = "category" => op.want \in WantType}

HandlerType ==
  [pc : {"none", "own", "ownOps", "catOps", "done"},
   kind : {"none", "converge"} \cup OpKinds, id : Ids \cup {NoId}, ops : Seq(OpType)]

IdMaps == UNION {[S -> Channels] : S \in SUBSET Channels}

WorkerType ==
  [pc : {"idle", "defer", "apply", "confirm", "forget", "create", "notify", "push"} \cup OpKinds,
   op : OpType \cup {NoId}, unread : SUBSET Channels, ids : IdMaps,
   missing : Channels \cup {NoId}, pushing : Seq(OpType)]

RowType == [status : {"absent", "pending", "active"}, id : Channels \cup {NoId}]

(* A handler that has not made ops yet knows what they are about.           *)
Kinded(h) ==
  \/ h.kind = "converge"
  \/ h.kind \in {"category", "categoryDelete"} /\ h.id \in Categories
  \/ h.kind \in {"channel", "channelDelete"} /\ h.id \in Channels

HandlersTyped ==
  /\ handler \in [0..MaxEvents -> HandlerType]
  /\ \A i \in 0..MaxEvents : handler[i].pc = "own" => Kinded(handler[i])

QueuesTyped ==
  /\ queue \in [Ids -> Seq(OpType)]
  /\ \A k \in Ids : \A j \in DOMAIN queue[k] : queue[k][j].id = k

WorkersTyped ==
  /\ worker \in [Ids -> WorkerType]
  /\ \A k \in Ids : /\ worker[k].pc # "idle" => worker[k].op \in OpType
                    /\ worker[k].pc = "defer" => worker[k].missing \in Channels
                    /\ worker[k].pushing # <<>> => worker[k].pc = "push"
                    /\ worker[k] # Idle => worker[k].op.id = k

RowsTyped ==
  /\ row \in [Channels -> RowType]
  /\ \A c \in Channels : row[c].id \in {NoId, c} /\ (row[c].status = "active" => row[c].id = c)

RestTyped ==
  /\ waiters \in [Channels -> Seq(OpType)] /\ stored \in [Categories -> WantType \cup {NoId}]
  /\ events \in 0..MaxEvents /\ guild \in Guilds \cup {First} /\ gone \subseteq Ids
  /\ missed \subseteq 0..MaxEvents /\ faults \in 0..MaxFaults

Typed == HandlersTyped /\ QueuesTyped /\ WorkersTyped /\ RowsTyped /\ RestTyped

IInv == Typed /\ ListsHoldMappedIds

-----------------------------------------------------------------------------
ChannelsInGuild == {c \in Channels : c \in IdsIn(guild)}

(* An op that maps c is to come, or under way.                              *)
ToCome(c) ==
  \E i \in 0..MaxEvents : handler[i].pc = "own" /\
    (handler[i].kind = "converge" \/ (handler[i].kind = "channel" /\ handler[i].id = c))

ToSubmit(c) ==
  \E i \in 0..MaxEvents : \E j \in DOMAIN handler[i].ops :
    handler[i].ops[j].kind = "channel" /\ handler[i].ops[j].id = c

Queued(c) == \E j \in DOMAIN queue[c] : queue[c][j].kind = "channel"

AtWork(c) == worker[c].pc \in {"channel", "create"}

ToBeMapped(c) == ToCome(c) \/ ToSubmit(c) \/ Queued(c) \/ AtWork(c)

(* No op that takes c away is.                                              *)
KeptByHandlers(c) ==
  \A i \in 0..MaxEvents :
    /\ handler[i].pc = "own" => ~(handler[i].kind = "channelDelete" /\ handler[i].id = c)
    /\ \A j \in DOMAIN handler[i].ops :
         ~(handler[i].ops[j].kind = "channelDelete" /\ handler[i].ops[j].id = c)

KeptByQueue(c) == \A j \in DOMAIN queue[c] : queue[c][j].kind # "channelDelete"

KeptByWorker(c) == worker[c].pc # "channelDelete"

Kept(c) == KeptByHandlers(c) /\ KeptByQueue(c) /\ KeptByWorker(c)

(* One event at a time: handlers without ops of their own have none left,   *)
(* each channel of the guild is mapped or an op that maps it is under way,  *)
(* no op depends on anything else, and what waits for a channel waits for   *)
(* one of those that are not mapped yet, or whose worker is about to look   *)
(* for what waits.                                                          *)
OpsMade == \A i \in 0..MaxEvents : handler[i].pc \in {"none", "own", "done"} => handler[i].ops = <<>>

Followed == \A c \in ChannelsInGuild : Kept(c) /\ (row[c].status = "active" \/ ToBeMapped(c))

OpsOfGuild ==
  /\ \A i \in 0..MaxEvents : \A j \in DOMAIN handler[i].ops : DependsOn(handler[i].ops[j]) \subseteq ChannelsInGuild
  /\ \A k \in Ids : \A j \in DOMAIN queue[k] : DependsOn(queue[k][j]) \subseteq ChannelsInGuild

OfCategory(op) == op.kind = "category" /\ DependsOn(op) \subseteq ChannelsInGuild

WaitersOfGuild ==
  /\ \A c \in Channels :
       /\ \A j \in DOMAIN waiters[c] : OfCategory(waiters[c][j])
       /\ waiters[c] # <<>> =>
            c \in ChannelsInGuild /\ (row[c].status # "active" \/ worker[c].pc = "notify")
  /\ \A k \in Ids :
       /\ worker[k].pc = "defer" => OfCategory(worker[k].op) /\ worker[k].missing \in ChannelsInGuild
       /\ \A j \in DOMAIN worker[k].pushing : OfCategory(worker[k].pushing[j])

Steady == OpsMade /\ Followed /\ OpsOfGuild /\ WaitersOfGuild

SteadyUntilFault == faults = 0 /\ missed = {} => Steady

-----------------------------------------------------------------------------
(* Lists.  Naturals have least elements, from which what follows is proved  *)
(* as by induction.                                                         *)
LEMMA LessIsWellFounded == IsWellFoundedOn({p \in Nat \X Nat : p[1] < p[2]}, Nat)
BY NatLessThanWellFounded, Zenon DEF OpToRel

LEMMA LeastNatural ==
  ASSUME NEW T, T \subseteq Nat, T # {}
  PROVE  \E x \in T : \A y \in T : x <= y
<1> DEFINE R == {p \in Nat \X Nat : p[1] < p[2]}
<1>1. IsWellFoundedOn(R, Nat)
  BY LessIsWellFounded
<1>2. \A a, b \in Nat : a < b => <<a, b>> \in R
  OBVIOUS
<1> HIDE DEF R
<1>3. PICK x \in T : \A y \in T : ~(<<y, x>> \in R)
  BY <1>1, WFMin, Zenon
<1>4. ASSUME NEW y \in T PROVE x <= y
  <2>1. x \in Nat /\ y \in Nat /\ ~(y < x)
    BY <1>2, <1>3
  <2> QED BY <2>1
<1> QED BY <1>4

(* Each number up to that of P's elements is the rank of one of them.       *)
LEMMA Ranked ==
  ASSUME NEW P, P \subseteq Nat, IsFiniteSet(P), NEW n \in 1..Cardinality(P)
  PROVE  \E p \in P : Cardinality({q \in P : q <= p}) = n
<1> DEFINE UpTo(p) == {q \in P : q <= p}
           Bad == {k \in 1..Cardinality(P) : \A p \in P : Cardinality(UpTo(p)) # k}
<1>1. Cardinality(P) \in Nat /\ n \in Nat
  BY FS_CardinalityType
<1>2. SUFFICES ASSUME Bad # {} PROVE FALSE
  OBVIOUS
<1>3. PICK k \in Bad : \A j \in Bad : k <= j
  <2>1. Bad \subseteq Nat
    BY <1>1
  <2> HIDE DEF Bad
  <2> QED BY <1>2, <2>1, LeastNatural
<1>4. k \in Nat /\ k >= 1 /\ k <= Cardinality(P) /\ \A p \in P : Cardinality(UpTo(p)) # k
  BY <1>1
<1>5. PICK L \in SUBSET P : /\ L # P /\ Cardinality(L) + 1 = k
                            /\ \A q \in L : \A g \in P \ L : q <= g
  <2>1. CASE k = 1
    <3>1. Cardinality({}) = 0 /\ P # {}
      BY <1>4, FS_EmptySet
    <3> QED BY <2>1, <3>1
  <2>2. CASE k # 1
    <3>1. PICK r \in Nat : r + 1 = k /\ r >= 1
      <4>1. k - 1 \in Nat /\ (k - 1) + 1 = k /\ k - 1 >= 1
        BY <1>4, <2>2
      <4> QED BY <4>1
    <3>2. r \in 1..Cardinality(P) /\ ~(k <= r)
      BY <1>1, <1>4, <3>1
    <3>3. PICK b \in P : Cardinality(UpTo(b)) = r
      BY <1>3, <3>2
    <3>4. UpTo(b) # P
      BY <1>1, <1>4, <3>1, <3>3
    <3>5. \A q \in UpTo(b) : \A g \in P \ UpTo(b) : q <= g
      OBVIOUS
    <3> QED BY <3>1, <3>3, <3>4, <3>5
  <2> QED BY <2>1, <2>2
<1>6. PICK p \in P \ L : \A g \in P \ L : p <= g
  BY <1>5, LeastNatural
<1>7. UpTo(p) = L \cup {p}
  <2>1. ASSUME NEW q \in P, q <= p PROVE q \in L \cup {p}
    <3>1. CASE q \in P \ L
      <4>1. p <= q /\ p \in Nat /\ q \in Nat
        BY <1>6, <3>1
      <4> QED BY <2>1, <4>1
    <3> QED BY <3>1
  <2>2. \A q \in L \cup {p} : q \in P /\ q <= p
    BY <1>5, <1>6
  <2> QED BY <2>1, <2>2
<1>8. Cardinality(UpTo(p)) = k
  <2>1. IsFiniteSet(L) /\ p \notin L
    BY <1>6, FS_Subset
  <2>2. Cardinality(L \cup {p}) = Cardinality(L) + 1
    BY <2>1, FS_AddElement
  <2> QED BY <1>5, <1>7, <2>2
<1> QED BY <1>4, <1>8

(* What is picked from a list is a list of some of its elements.            *)
LEMMA PickedProperties ==
  ASSUME NEW S, NEW s \in Seq(S), NEW P \in SUBSET DOMAIN s
  PROVE  /\ Picked(s, P) \in Seq(S)
         /\ \A n \in DOMAIN Picked(s, P) : \E p \in P : Picked(s, P)[n] = s[p]
<1>1. DOMAIN s = 1..Len(s) /\ Len(s) \in Nat
  OBVIOUS
<1>2. IsFiniteSet(P) /\ P \subseteq Nat
  <2>1. IsFiniteSet(1..Len(s))
    BY <1>1, FS_Interval
  <2> QED BY <1>1, <2>1, FS_Subset
<1>3. Cardinality(P) \in Nat
  BY <1>2, FS_CardinalityType
<1>4. ASSUME NEW n \in 1..Cardinality(P)
      PROVE  \E p \in P : Picked(s, P)[n] = s[p]
  <2>1. \E p \in P : Cardinality({q \in P : q <= p}) = n
    BY <1>2, Ranked
  <2> DEFINE at == CHOOSE p \in P : Cardinality({q \in P : q <= p}) = n
  <2>2. at \in P
    BY <2>1
  <2>3. Picked(s, P)[n] = s[at]
    BY DEF Picked
  <2> QED BY <2>2, <2>3
<1>5. DOMAIN Picked(s, P) = 1..Cardinality(P)
  BY DEF Picked
<1>6. \A n \in 1..Cardinality(P) : Picked(s, P)[n] \in S
  <2>1. \A p \in P : s[p] \in S
    BY <1>1
  <2> QED BY <1>4, <2>1
<1>7. Picked(s, P) \in [1..Cardinality(P) -> S]
  <2>1. Picked(s, P) = [n \in 1..Cardinality(P) |-> Picked(s, P)[n]]
    BY DEF Picked
  <2> QED BY <1>6, <2>1
<1> QED BY <1>3, <1>4, <1>5, <1>7

(* All of S, each once: a sorted list is a list of S and misses nothing.    *)
LEMMA SortedProperties ==
  ASSUME NEW S, IsFiniteSet(S), NEW s \in Sorted(S)
  PROVE  s \in Seq(S) /\ \A c \in S : \E i \in DOMAIN s : s[i] = c
<1>1. Cardinality(S) \in Nat
  BY FS_CardinalityType
<1>2. s \in [1..Cardinality(S) -> S] /\ \A i, j \in DOMAIN s : i < j => s[i] # s[j]
  BY DEF Sorted
<1>3. s \in Injection(1..Cardinality(S), S)
  <2>1. \A i, j \in 1..Cardinality(S) : s[i] = s[j] => i = j
    BY <1>1, <1>2
  <2> QED BY <1>2, <2>1 DEF Injection, IsInjective
<1>4. Cardinality(1..Cardinality(S)) = Cardinality(S)
  BY <1>1, FS_Interval
<1>5. s \in Surjection(1..Cardinality(S), S)
  BY <1>3, <1>4, FS_Injection
<1>6. \A c \in S : \E i \in 1..Cardinality(S) : s[i] = c
  BY <1>5 DEF Surjection
<1> QED BY <1>1, <1>2, <1>6

(* Whatever the positions, there is an order.                               *)
LEMMA SortedExists ==
  ASSUME NEW S, IsFiniteSet(S), \A c \in S : c.pos \in Nat
  PROVE  Sorted(S) # {}
<1> DEFINE Bad == {k \in Nat : \E T \in SUBSET S : Cardinality(T) = k /\ Sorted(T) = {}}
<1>1. SUFFICES ASSUME Bad # {} PROVE FALSE
  <2>1. Cardinality(S) \in Nat
    BY FS_CardinalityType
  <2> QED BY <1>1, <2>1
<1>2. PICK k \in Bad : \A j \in Bad : k <= j
  <2>1. Bad \subseteq Nat
    OBVIOUS
  <2> HIDE DEF Bad
  <2> QED BY <1>1, <2>1, LeastNatural
<1>3. PICK T \in SUBSET S : Cardinality(T) = k /\ Sorted(T) = {}
  OBVIOUS
<1>4. k \in Nat /\ IsFiniteSet(T)
  BY FS_Subset
<1>5. T # {}
  <2>1. ASSUME T = {} PROVE Sorted(T) # {}
    <3>1. Cardinality(T) = 0
      BY <2>1, FS_EmptySet
    <3>2. [i \in 1..Cardinality(T) |-> 0] \in [1..Cardinality(T) -> T]
      BY <3>1
    <3>3. [i \in 1..Cardinality(T) |-> 0] \in Sorted(T)
      BY <3>1, <3>2 DEF Sorted
    <3> QED BY <3>3
  <2> QED BY <1>3, <2>1
<1>6. PICK c \in T : \A d \in T : c.pos <= d.pos
  <2> DEFINE Ps == {d.pos : d \in T}
  <2>1. Ps \subseteq Nat /\ Ps # {}
    BY <1>5
  <2> HIDE DEF Ps
  <2>2. PICK p \in Ps : \A q \in Ps : p <= q
    BY <2>1, LeastNatural
  <2> QED BY <2>2 DEF Ps
<1> DEFINE U == T \ {c}
<1>7. PICK m \in Nat : m + 1 = k /\ Cardinality(U) = m
  <2>1. Cardinality(U) = k - 1 /\ Cardinality(U) \in Nat
    <3>1. IsFiniteSet(U)
      BY <1>4, FS_Subset
    <3> QED BY <1>3, <1>4, <3>1, FS_RemoveElement, FS_CardinalityType
  <2> QED BY <1>4, <2>1
<1>8. m \notin Bad
  <2>1. ~(k <= m)
    BY <1>4, <1>7
  <2> HIDE DEF Bad
  <2> QED BY <1>2, <2>1
<1>9. PICK t \in Sorted(U) : TRUE
  <2>1. U \in SUBSET S
    OBVIOUS
  <2> QED BY <1>7, <1>8, <2>1
<1>10. /\ t \in [1..m -> U]
       /\ \A i, j \in 1..m : i < j => t[i] # t[j] /\ t[i].pos <= t[j].pos
  BY <1>7 DEF Sorted
<1> DEFINE s == [i \in 1..k |-> IF i = 1 THEN c ELSE t[i - 1]]
<1>11. \A i \in 1..k : i = 1 \/ i - 1 \in 1..m
  BY <1>4, <1>7
<1>12. s \in [1..k -> T]
  BY <1>10, <1>11
<1>13. ASSUME NEW i \in 1..k, NEW j \in 1..k, i < j
       PROVE  s[i] # s[j] /\ s[i].pos <= s[j].pos
  <2>1. j - 1 \in 1..m /\ s[j] = t[j - 1]
    BY <1>4, <1>11, <1>13
  <2>2. CASE i = 1
    <3>1. s[i] = c /\ s[j] \in U
      BY <1>10, <2>1, <2>2
    <3>2. s[i].pos <= s[j].pos
      BY <1>6, <3>1
    <3> QED BY <3>1, <3>2
  <2>3. CASE i # 1
    <3>1. i - 1 \in 1..m /\ s[i] = t[i - 1] /\ i - 1 < j - 1
      BY <1>4, <1>7, <1>11, <1>13, <2>3
    <3> QED BY <1>10, <2>1, <3>1
  <2> QED BY <2>2, <2>3
<1>14. DOMAIN s = 1..k
  OBVIOUS
<1> HIDE DEF s
<1>15. s \in Sorted(T)
  BY <1>3, <1>12, <1>13, <1>14 DEF Sorted
<1> QED BY <1>3, <1>15
-----------------------------------------------------------------------------
(* What is derived from a guild.                                            *)
LEMMA ListOf ==
  ASSUME NEW S, NEW T, NEW s \in Seq(S), NEW f,
         f = [i \in DOMAIN s |-> f[i]], \A i \in DOMAIN s : f[i] \in T
  PROVE  f \in Seq(T)
<1>1. DOMAIN s = 1..Len(s) /\ Len(s) \in Nat
  OBVIOUS
<1>2. f \in [1..Len(s) -> T]
  BY <1>1
<1> QED BY <1>1, <1>2

LEMMA GuildSorted ==
  ASSUME NEW g \in Guilds \cup {First}, NEW S \in SUBSET g
  PROVE  /\ IsFiniteSet(S) /\ Ordered(S) \in Sorted(S)
         /\ \A s \in Sorted(S) : s \in Seq(S) /\ \A c \in S : \E i \in DOMAIN s : s[i] = c
<1>1. IsFiniteSet(S) /\ \A c \in S : c.pos \in Nat
  BY FS_Subset, GuildsAssumption
<1>2. Ordered(S) \in Sorted(S)
  BY <1>1, SortedExists DEF Ordered
<1> QED BY <1>1, <1>2, SortedProperties

(* The list of categories, and the channels it names are the guild's.       *)
LEMMA CategoriesFromStateList ==
  ASSUME NEW g \in Guilds \cup {First}, NEW cats \in CategoriesFromState(g)
  PROVE  /\ cats \in Seq(CategoryType)
         /\ \A i \in DOMAIN cats : \A j \in DOMAIN cats[i].channels :
              cats[i].channels[j] \in Channels /\ cats[i].channels[j] \in IdsIn(g)
<1> DEFINE cs  == CategoriesOf(g)
           ListedAs(o) == [i \in DOMAIN o |-> [id |-> o[i].id, name |-> o[i].name,
                                               channels |-> IdsOf(Ordered(Members(g, o[i].id)))]]
<1>1. PICK order \in Sorted(cs) : cats = ListedAs(order)
  <2>1. CategoriesFromState(g) = {ListedAs(o) : o \in Sorted(cs)}
    BY DEF CategoriesFromState
  <2> HIDE DEF ListedAs, cs
  <2> QED BY <2>1
<1>2. order \in Seq(cs)
  BY GuildSorted DEF CategoriesOf
<1>3. ASSUME NEW i \in DOMAIN order
      PROVE  /\ cats[i] \in CategoryType
             /\ \A j \in DOMAIN cats[i].channels :
                  cats[i].channels[j] \in Channels /\ cats[i].channels[j] \in IdsIn(g)
  <2>1. order[i] \in cs
    BY <1>2
  <2>2. order[i].id \in Categories /\ order[i].name \in Names
    BY <2>1 DEF Names, CategoriesOf
  <2> DEFINE M == Members(g, order[i].id)
             s == Ordered(M)
  <2>3. s \in Sorted(M)
    BY GuildSorted DEF Members
  <2>4. M \subseteq g /\ \A c \in M : c.id \in Channels /\ c.id \in IdsIn(g)
    BY DEF Members, IdsIn
  <2>5. s \in Seq(M)
    BY <2>3, <2>4, GuildSorted
  <2>6. cats[i] = [id |-> order[i].id, name |-> order[i].name, channels |-> IdsOf(s)]
    BY <1>1
  <2> HIDE DEF s, M
  <2>7. \A j \in DOMAIN s : s[j] \in M
    BY <2>5
  <2>8. IdsOf(s) = [j \in DOMAIN s |-> s[j].id]
    BY DEF IdsOf
  <2>9. \A j \in DOMAIN s : IdsOf(s)[j] \in Channels /\ IdsOf(s)[j] \in IdsIn(g)
    BY <2>4, <2>7, <2>8
  <2>10. IdsOf(s) \in Seq(Channels)
    BY <2>5, <2>8, <2>9, ListOf
  <2> QED BY <2>2, <2>8, <2>6, <2>9, <2>10 DEF CategoryType
<1>4. DOMAIN cats = DOMAIN order /\ cats = [i \in DOMAIN order |-> cats[i]]
  BY <1>1
<1>5. cats \in Seq(CategoryType)
  BY <1>2, <1>3, <1>4, ListOf
<1> QED BY <1>3, <1>4, <1>5

(* The ops of a channel.                                                    *)
LEMMA ChannelOpType ==
  ASSUME NEW c \in Channels, NEW kind \in {"channel", "channelDelete"}
  PROVE  /\ ChannelOp(kind, c) \in OpType
         /\ ChannelOp(kind, c).kind = kind /\ ChannelOp(kind, c).id = c
BY DEF ChannelOp, Op, OpType, OpKinds, Ids

LEMMA EveryChannelsOp ==
  ASSUME guild \in Guilds \cup {First},
         NEW s \in Sorted({c \in guild : c.id \in Channels}), NEW ops,
         ops = [i \in DOMAIN IdsOf(s) |-> ChannelOp("channel", IdsOf(s)[i])]
  PROVE  /\ ops \in Seq(OpType)
         /\ \A j \in DOMAIN ops : ops[j].kind = "channel"
         /\ \A c \in ChannelsInGuild : \E j \in DOMAIN ops : ops[j].id = c
<1> DEFINE S == {c \in guild : c.id \in Channels}
<1>1. s \in Seq(S) /\ \A c \in S : \E i \in DOMAIN s : s[i] = c
  <2>1. S \in SUBSET guild /\ s \in Sorted(S)
    OBVIOUS
  <2> HIDE DEF S
  <2> QED BY <2>1, GuildSorted
<1>2. \A i \in DOMAIN s : s[i] \in guild /\ s[i].id \in Channels
  BY <1>1
<1>3. DOMAIN ops = DOMAIN s /\ \A i \in DOMAIN s : ops[i] = ChannelOp("channel", s[i].id)
  BY DEF IdsOf
<1>4. \A i \in DOMAIN s : ops[i] \in OpType /\ ops[i].kind = "channel" /\ ops[i].id = s[i].id
  BY <1>2, <1>3, ChannelOpType
<1>5. ops \in Seq(OpType)
  BY <1>1, <1>3, <1>4, ListOf
<1>6. ASSUME NEW x \in ChannelsInGuild PROVE \E j \in DOMAIN ops : ops[j].id = x
  <2>1. PICK c \in guild : c.id = x /\ x \in Channels
    BY DEF ChannelsInGuild, IdsIn
  <2> QED BY <1>1, <1>3, <1>4, <2>1
<1> QED BY <1>3, <1>4, <1>5, <1>6

-----------------------------------------------------------------------------
(* Types.                                                                   *)
LEMMA IdleType ==
  /\ Idle \in WorkerType /\ Idle.pc = "idle" /\ Idle.op = NoId /\ Idle.unread = {}
  /\ Idle.pushing = <<>>
<1>1. <<>> \in [{} -> Channels]
  OBVIOUS
<1>2. <<>> \in IdMaps
  BY <1>1 DEF IdMaps
<1> QED BY <1>2 DEF Idle, WorkerType

LEMMA NoHandlerType ==
  /\ NoHandler \in HandlerType /\ NoHandler.pc = "none" /\ NoHandler.ops = <<>>
  /\ \A id \in Ids \cup {NoId}, kind \in {"converge"} \cup OpKinds :
       /\ Handler(kind, id) \in HandlerType /\ Handler(kind, id).pc = "own"
       /\ Handler(kind, id).kind = kind /\ Handler(kind, id).id = id
       /\ Handler(kind, id).ops = <<>>
BY DEF NoHandler, Handler, HandlerType, OpKinds

(* A list sent to Stoat holds what its lookups found.                       *)
LEMMA ResolvedHoldsIds ==
  ASSUME NEW cats \in Seq(CategoryType), NEW ids,
         \A c \in Channels : c \in DOMAIN ids => ids[c] \in Channels
  PROVE  \A i \in DOMAIN Resolved(cats, ids) : \A j \in DOMAIN Resolved(cats, ids)[i].channels :
           Resolved(cats, ids)[i].channels[j] # NoId
<1> TAKE i \in DOMAIN Resolved(cats, ids)
<1> DEFINE list  == cats[i].channels
           found == {j \in DOMAIN list : list[j] \in DOMAIN ids}
           known == Picked(list, found)
<1>1. i \in DOMAIN cats
  BY DEF Resolved
<1>2. list \in Seq(Channels)
  <2>1. cats[i] \in CategoryType
    BY <1>1
  <2> QED BY <2>1 DEF CategoryType
<1>3. Resolved(cats, ids)[i].channels = [j \in DOMAIN known |-> ids[known[j]]]
  BY <1>1 DEF Resolved
<1>4. \A n \in DOMAIN known : \E p \in found : known[n] = list[p]
  <2>1. found \in SUBSET DOMAIN list
    OBVIOUS
  <2> HIDE DEF list, found
  <2> QED BY <1>2, <2>1, PickedProperties
<1>5. \A p \in found : list[p] \in Channels /\ list[p] \in DOMAIN ids
  <2> HIDE DEF list
  <2> QED BY <1>2
<1>6. \A c \in Channels : c # NoId
  BY SyncAssumption DEF Ids
<1> HIDE DEF known, found, list
<1>7. \A n \in DOMAIN known : ids[known[n]] \in Channels
  BY <1>4, <1>5
<1> QED BY <1>3, <1>6, <1>7

LEMMA TypedMeansTypeOK == Typed => TypeOK
<1> SUFFICES ASSUME Typed PROVE TypeOK
  OBVIOUS
<1>1. ASSUME NEW i \in 0..MaxEvents
      PROVE  /\ handler[i].pc \in {"none", "own", "ownOps", "catOps", "done"}
             /\ \A j \in DOMAIN handler[i].ops : handler[i].ops[j].kind \in OpKinds
  <2>1. handler[i] \in HandlerType
    BY DEF Typed, HandlersTyped
  <2>2. \A j \in DOMAIN handler[i].ops : handler[i].ops[j] \in OpType
    BY <2>1 DEF HandlerType
  <2> QED BY <2>1, <2>2 DEF HandlerType, OpType
<1> QED BY <1>1 DEF Typed, QueuesTyped, WorkersTyped, RowsTyped, RestTyped, TypeOK

LEMMA InitTyped == Init => IInv
<1> SUFFICES ASSUME Init PROVE IInv
  OBVIOUS
<1>1. MaxEvents \in Nat /\ MaxFaults \in Nat /\ NoId \notin Ids
  BY SyncAssumption
<1>2. HandlersTyped
  <2>1. \A i \in 0..MaxEvents :
          handler[i] = NoHandler \/ handler[i] = Handler("converge", NoId)
    BY DEF Init
  <2>2. handler \in [0..MaxEvents -> HandlerType]
    BY NoHandlerType DEF Init
  <2>3. \A i \in 0..MaxEvents : handler[i].pc = "own" => handler[i].kind = "converge"
    BY <2>1, NoHandlerType DEF Handler
  <2> QED BY <2>2, <2>3 DEF Kinded, HandlersTyped
<1>3. WorkersTyped /\ QueuesTyped
  BY IdleType DEF Init, WorkersTyped, QueuesTyped
<1>4. RowsTyped /\ stored \in [Categories -> WantType \cup {NoId}] /\ ListsHoldMappedIds
  <2>1. CASE Mapped
    <3>1. PICK cats \in CategoriesFromState(First) :
            /\ row = [c \in Channels |-> IF c \in IdsIn(First)
                                         THEN [status |-> "active", id |-> c] ELSE Unmapped]
            /\ stored = [k \in Categories |->
                 IF \E i \in DOMAIN cats : cats[i].id = k
                 THEN Desired(cats, CHOOSE i \in DOMAIN cats : cats[i].id = k) ELSE NoId]
            /\ shown = Resolved(cats, Itself(IdsIn(First)))
      BY <2>1 DEF Init
    <3>2. cats \in Seq(CategoryType)
      BY CategoriesFromStateList
    <3>3. row \in [Channels -> RowType]
      BY <3>1 DEF RowType, Unmapped
    <3>4. \A c \in Channels : row[c].id \in {NoId, c} /\ (row[c].status = "active" => row[c].id = c)
      BY <3>1 DEF Unmapped
    <3>5. \A i \in DOMAIN cats : Desired(cats, i) \in WantType
      BY <3>2 DEF Desired, WantType
    <3>6. stored \in [Categories -> WantType \cup {NoId}]
      BY <3>1, <3>5
    <3>7. \A c \in Channels : c \in DOMAIN Itself(IdsIn(First)) => Itself(IdsIn(First))[c] \in Channels
      BY DEF Itself
    <3>8. ListsHoldMappedIds
      BY <3>1, <3>2, <3>7, ResolvedHoldsIds DEF ListsHoldMappedIds
    <3> QED BY <3>3, <3>4, <3>6, <3>8 DEF RowsTyped
  <2>2. CASE ~Mapped
    <3>1. /\ row = [c \in Channels |-> Unmapped] /\ stored = [k \in Categories |-> NoId]
          /\ shown = <<>>
      BY <2>2 DEF Init
    <3> QED BY <3>1 DEF RowsTyped, RowType, Unmapped, ListsHoldMappedIds
  <2> QED BY <2>1, <2>2
<1>5. RestTyped
  BY <1>1, <1>4 DEF Init, RestTyped
<1> QED BY <1>2, <1>3, <1>4, <1>5 DEF IInv, Typed
(* A worker, a handler, a queue changes.                                    *)
LEMMA WorkerChange ==
  ASSUME WorkersTyped, NEW k \in Ids, NEW w \in WorkerType,
         worker' = [worker EXCEPT ![k] = w],
         w.pc # "idle" => w.op \in OpType, w.pc = "defer" => w.missing \in Channels,
         w.pushing # <<>> => w.pc = "push", w = Idle \/ w.op.id = k
  PROVE  WorkersTyped'
BY DEF WorkersTyped

LEMMA ReturnTyped ==
  ASSUME WorkersTyped, NEW k \in Ids, Return(k)
  PROVE  WorkersTyped'
BY IdleType, WorkerChange DEF Return

LEMMA LabelTyped ==
  ASSUME WorkersTyped, NEW k \in Ids, worker[k].pc \notin {"idle", "push"},
         NEW l \in {"apply", "confirm", "forget", "create", "notify"},
         worker' = [worker EXCEPT ![k].pc = l]
  PROVE  WorkersTyped'
<1> DEFINE w == [worker[k] EXCEPT !.pc = l]
<1>1. worker[k] \in WorkerType /\ worker[k].op \in OpType /\ worker[k].op.id = k
  BY IdleType DEF WorkersTyped
<1>2. w \in WorkerType /\ w.op = worker[k].op /\ w.pc # "defer" /\ w.pushing = <<>>
  BY <1>1 DEF WorkerType, WorkersTyped
<1>3. worker' = [worker EXCEPT ![k] = w]
  OBVIOUS
<1> HIDE DEF w
<1> QED BY <1>1, <1>2, <1>3, WorkerChange

LEMMA HandlerChange ==
  ASSUME HandlersTyped, NEW i \in 0..MaxEvents, NEW h \in HandlerType,
         handler' = [handler EXCEPT ![i] = h], h.pc = "own" => Kinded(h)
  PROVE  HandlersTyped'
BY DEF HandlersTyped, Kinded

LEMMA DiscordTyped == ASSUME Typed, Discord PROVE Typed'
<1>1. PICK g \in Guilds, x \in Ids :
        /\ guild' = g /\ gone' = gone \cup (IdsIn(guild) \ IdsIn(g))
        /\ handler' = [handler EXCEPT ![events + 1] = Handler(EventKind(x, g), x)]
  BY DEF Discord
<1>2. events + 1 \in 0..MaxEvents /\ events' = events + 1
  BY SyncAssumption DEF Typed, RestTyped, Discord
<1>3. Handler(EventKind(x, g), x) \in HandlerType /\ Kinded(Handler(EventKind(x, g), x))
  BY NoHandlerType, SyncAssumption DEF EventKind, OpKinds, Kinded, Ids
<1>4. HandlersTyped'
  BY <1>1, <1>2, <1>3, HandlerChange DEF Typed
<1>5. gone' \subseteq Ids
  <2>1. IdsIn(guild) \subseteq Ids
    BY GuildsAssumption DEF Typed, RestTyped, IdsIn
  <2> QED BY <1>1, <2>1 DEF Typed, RestTyped
<1>6. RestTyped'
  BY <1>1, <1>2, <1>5 DEF Typed, RestTyped, Discord, rows
<1> QED BY <1>4, <1>6 DEF Typed, QueuesTyped, WorkersTyped, RowsTyped, Discord, rows

(* The handler's own ops.                                                   *)
LEMMA OwnOpsProperties ==
  ASSUME guild \in Guilds \cup {First}, NEW h \in HandlerType, Kinded(h),
         NEW cats \in CategoriesFromState(guild)
  PROVE  /\ OwnOps(h, cats) \in Seq(OpType)
         /\ \A j \in DOMAIN OwnOps(h, cats) :
              /\ OwnOps(h, cats)[j].kind # "category"
              /\ OwnOps(h, cats)[j].kind = "channelDelete" =>
                   h.kind = "channelDelete" /\ OwnOps(h, cats)[j].id = h.id
         /\ h.kind = "channel" => \E j \in DOMAIN OwnOps(h, cats) :
              OwnOps(h, cats)[j].kind = "channel" /\ OwnOps(h, cats)[j].id = h.id
         /\ h.kind = "converge" => \A c \in ChannelsInGuild : \E j \in DOMAIN OwnOps(h, cats) :
              OwnOps(h, cats)[j].kind = "channel" /\ OwnOps(h, cats)[j].id = c
<1>1. CASE h.kind = "converge"
  <2> DEFINE s == Ordered({c \in guild : c.id \in Channels})
             ops == [i \in DOMAIN IdsOf(s) |-> ChannelOp("channel", IdsOf(s)[i])]
  <2>1. s \in Sorted({c \in guild : c.id \in Channels})
    BY GuildSorted
  <2>2. OwnOps(h, cats) = ops
    BY <1>1 DEF OwnOps
  <2> HIDE DEF s
  <2>3. /\ ops \in Seq(OpType) /\ \A j \in DOMAIN ops : ops[j].kind = "channel"
        /\ \A c \in ChannelsInGuild : \E j \in DOMAIN ops : ops[j].id = c
    BY <2>1, EveryChannelsOp
  <2> HIDE DEF ops
  <2> QED BY <1>1, <2>2, <2>3
<1>2. CASE h.kind = "category"
  BY <1>2 DEF OwnOps
<1>3. CASE h.kind = "categoryDelete"
  <2> DEFINE op == BuildCategoryDeleteOp(h.id, cats)
  <2>1. op \in OpType /\ op.kind = "categoryDelete"
    BY <1>3, CategoriesFromStateList DEF BuildCategoryDeleteOp, Op, OpType, OpKinds, HandlerType, Kinded, Ids
  <2>2. OwnOps(h, cats) = <<op>>
    BY <1>3 DEF OwnOps
  <2> HIDE DEF op
  <2> QED BY <1>3, <2>1, <2>2
<1>4. CASE h.kind \in {"channel", "channelDelete"}
  <2> DEFINE op == ChannelOp(h.kind, h.id)
  <2>1. op \in OpType /\ op.kind = h.kind /\ op.id = h.id
    BY <1>4, ChannelOpType DEF Kinded
  <2>2. OwnOps(h, cats) = <<op>>
    BY <1>4 DEF OwnOps
  <2> HIDE DEF op
  <2> QED BY <1>4, <2>1, <2>2
<1> QED BY <1>1, <1>2, <1>3, <1>4 DEF Kinded

LEMMA HandleOwnTyped ==
  ASSUME Typed, NEW i \in 0..MaxEvents, HandleOwn(i)
  PROVE  Typed'
<1>1. PICK cats \in CategoriesFromState(guild) :
        handler' = [handler EXCEPT ![i].pc = "ownOps", ![i].ops = OwnOps(handler[i], cats)]
  BY DEF HandleOwn
<1>2. handler[i] \in HandlerType /\ Kinded(handler[i]) /\ handler \in [0..MaxEvents -> HandlerType]
  BY DEF Typed, HandlersTyped, HandleOwn
<1>3. OwnOps(handler[i], cats) \in Seq(OpType)
  BY <1>2, OwnOpsProperties DEF Typed, RestTyped
<1> DEFINE h == [handler[i] EXCEPT !.pc = "ownOps", !.ops = OwnOps(handler[i], cats)]
<1>4. h \in HandlerType /\ h.pc # "own"
  BY <1>2, <1>3 DEF HandlerType
<1>5. handler' = [handler EXCEPT ![i] = h]
  BY <1>1, <1>2
<1> HIDE DEF h
<1>6. HandlersTyped'
  BY <1>4, <1>5, HandlerChange DEF Typed
<1> QED BY <1>6 DEF Typed, QueuesTyped, WorkersTyped, RowsTyped, RestTyped, HandleOwn, discord, rows

LEMMA CategoryOpsType ==
  ASSUME NEW cats \in Seq(CategoryType), NEW ops,
         ops = [j \in DOMAIN cats |-> BuildCategoryOp(cats, j)]
  PROVE  ops \in Seq(OpType)
<1>1. \A j \in DOMAIN cats : j \in Nat /\ cats[j] \in CategoryType
  OBVIOUS
<1>2. \A j \in DOMAIN cats : BuildCategoryOp(cats, j) \in OpType
  BY <1>1 DEF BuildCategoryOp, Op, Desired, OpType, OpKinds, WantType, CategoryType, Ids
<1> QED BY <1>2, ListOf

LEMMA SubmitCategoryOpsTyped ==
  ASSUME Typed, NEW i \in 0..MaxEvents, SubmitCategoryOps(i)
  PROVE  Typed'
<1>1. PICK cats \in CategoriesFromState(guild) :
        handler' = [handler EXCEPT ![i].pc = "catOps",
                                   ![i].ops = [j \in DOMAIN cats |-> BuildCategoryOp(cats, j)]]
  BY DEF SubmitCategoryOps
<1> DEFINE ops == [j \in DOMAIN cats |-> BuildCategoryOp(cats, j)]
<1>2. ops \in Seq(OpType)
  BY CategoriesFromStateList, CategoryOpsType DEF Typed, RestTyped
<1>3. handler[i] \in HandlerType /\ handler \in [0..MaxEvents -> HandlerType]
  BY DEF Typed, HandlersTyped
<1> HIDE DEF ops
<1> DEFINE h == [handler[i] EXCEPT !.pc = "catOps", !.ops = ops]
<1>4. h \in HandlerType /\ h.pc # "own"
  BY <1>2, <1>3 DEF HandlerType
<1>5. handler' = [handler EXCEPT ![i] = h]
  BY <1>1, <1>3 DEF ops
<1> HIDE DEF h
<1>6. HandlersTyped'
  BY <1>4, <1>5, HandlerChange DEF Typed
<1> QED BY <1>6 DEF Typed, QueuesTyped, WorkersTyped, RowsTyped, RestTyped, SubmitCategoryOps, discord, rows

(* An op joins its entity's queue.                                          *)
Joins(op) ==
  /\ \A k \in Ids : \A n \in DOMAIN queue'[k] :
       \/ n \in DOMAIN queue[k] /\ queue'[k][n] = queue[k][n]
       \/ k = op.id /\ n = Len(queue[k]) + 1 /\ queue'[k][n] = op
  /\ \A k \in Ids : \A n \in DOMAIN queue[k] : n \in DOMAIN queue'[k] /\ queue'[k][n] = queue[k][n]
  /\ \E n \in DOMAIN queue'[op.id] : queue'[op.id][n] = op
  /\ \A k \in Ids \ {op.id} : queue'[k] = queue[k]

LEMMA OpJoins ==
  ASSUME QueuesTyped, NEW op \in OpType, queue' = [queue EXCEPT ![op.id] = Append(@, op)]
  PROVE  QueuesTyped' /\ Joins(op)
<1>1. op.id \in Ids
  BY DEF OpType
<1>2. PICK q \in Seq(OpType) : q = queue[op.id] /\ queue'[op.id] = Append(q, op)
  BY <1>1 DEF QueuesTyped
<1>3. \A k \in Ids \ {op.id} : queue'[k] = queue[k]
  BY DEF QueuesTyped
<1>m. PICK m \in Nat : m = Len(q) /\ m = Len(queue[op.id])
  BY <1>2
<1>4. PICK a : a = Append(q, op) /\ a = queue'[op.id]
  BY <1>2
<1>5. Joins(op)
  <2>1. DOMAIN q = 1..m /\ DOMAIN a = 1..(m + 1)
    BY <1>2, <1>m, <1>4
  <2>2. a[m + 1] = op /\ \A n \in 1..m : a[n] = q[n]
    BY <1>2, <1>m, <1>4
  <2>3. \A n \in 1..(m + 1) : n \in 1..m \/ n = m + 1
    OBVIOUS
  <2>4. m + 1 \in 1..(m + 1) /\ \A n \in 1..m : n \in 1..(m + 1)
    OBVIOUS
  <2>5. \A n \in DOMAIN a : (n \in DOMAIN q /\ a[n] = q[n]) \/ (n = m + 1 /\ a[n] = op)
    BY <2>1, <2>2, <2>3
  <2>6. \A n \in DOMAIN q : n \in DOMAIN a /\ a[n] = q[n]
    BY <2>1, <2>2, <2>4
  <2>7. m + 1 \in DOMAIN a /\ a[m + 1] = op
    BY <2>1, <2>2, <2>4
  <2>8. q = queue[op.id] /\ a = queue'[op.id] /\ m = Len(queue[op.id])
    BY <1>2, <1>m, <1>4
  <2>9. \A k \in Ids : k = op.id \/ queue'[k] = queue[k]
    BY <1>3
  <2> QED BY <1>1, <1>3, <2>5, <2>6, <2>7, <2>8, <2>9 DEF Joins
<1>6. queue' \in [Ids -> Seq(OpType)]
  BY <1>1 DEF QueuesTyped
<1>7. ASSUME NEW k \in Ids, NEW n \in DOMAIN queue'[k] PROVE queue'[k][n].id = k
  BY <1>5, <1>7 DEF Joins, QueuesTyped
<1> QED BY <1>5, <1>6, <1>7 DEF QueuesTyped

LEMMA SubmitTyped ==
  ASSUME Typed, NEW i \in 0..MaxEvents, Submit(i)
  PROVE  Typed'
<1>1. handler[i] \in HandlerType /\ handler \in [0..MaxEvents -> HandlerType]
  BY DEF Typed, HandlersTyped
<1>2. PICK op \in OpType : op = Head(handler[i].ops) /\ Tail(handler[i].ops) \in Seq(OpType)
  BY <1>1 DEF HandlerType, Submit
<1>3. /\ queue' = [queue EXCEPT ![op.id] = Append(@, op)]
      /\ handler' = [handler EXCEPT ![i].ops = Tail(@)]
  BY <1>2 DEF Submit
<1> DEFINE h == [handler[i] EXCEPT !.ops = Tail(handler[i].ops)]
<1>4. h \in HandlerType /\ (h.pc = "own" => Kinded(h))
  BY <1>1, <1>2 DEF HandlerType, Kinded, Typed, HandlersTyped
<1>5. handler' = [handler EXCEPT ![i] = h]
  BY <1>1, <1>3
<1> HIDE DEF h
<1>6. HandlersTyped'
  BY <1>4, <1>5, HandlerChange DEF Typed
<1>7. QueuesTyped'
  BY <1>3, OpJoins DEF Typed
<1> QED BY <1>6, <1>7 DEF Typed, WorkersTyped, RowsTyped, RestTyped, Submit, discord, rows

LEMMA HandledTyped ==
  ASSUME Typed, NEW i \in 0..MaxEvents, Handled(i)
  PROVE  Typed'
<1> DEFINE h == [handler[i] EXCEPT !.pc = "done"]
<1>1. handler[i] \in HandlerType /\ handler \in [0..MaxEvents -> HandlerType]
  BY DEF Typed, HandlersTyped
<1>2. h \in HandlerType /\ h.pc # "own"
  BY <1>1 DEF HandlerType
<1>3. handler' = [handler EXCEPT ![i] = h]
  BY <1>1 DEF Handled
<1> HIDE DEF h
<1>4. HandlersTyped'
  BY <1>2, <1>3, HandlerChange DEF Typed
<1> QED BY <1>4 DEF Typed, QueuesTyped, WorkersTyped, RowsTyped, RestTyped, Handled, discord, rows

(* What a worker takes off its queue is its own entity's.                   *)
LEMMA TakenOff ==
  ASSUME QueuesTyped, NEW k \in Ids, queue[k] # <<>>, queue' = [queue EXCEPT ![k] = Tail(@)]
  PROVE  /\ Head(queue[k]) \in OpType /\ Head(queue[k]).id = k
         /\ QueuesTyped'
<1>1. queue[k] \in Seq(OpType) /\ queue \in [Ids -> Seq(OpType)]
  BY DEF QueuesTyped
<1>2. 1 \in DOMAIN queue[k] /\ Head(queue[k]) = queue[k][1]
  BY <1>1
<1>3. Head(queue[k]) \in OpType /\ Head(queue[k]).id = k
  BY <1>1, <1>2 DEF QueuesTyped
<1>4. queue'[k] = Tail(queue[k]) /\ \A x \in Ids \ {k} : queue'[x] = queue[x]
  BY <1>1
<1>5. ASSUME NEW j \in DOMAIN Tail(queue[k])
      PROVE  \E m \in DOMAIN queue[k] : Tail(queue[k])[j] = queue[k][m]
  <2>1. j + 1 \in DOMAIN queue[k] /\ Tail(queue[k])[j] = queue[k][j + 1]
    BY <1>1
  <2> QED BY <2>1
<1>6. QueuesTyped'
  <2>1. queue' \in [Ids -> Seq(OpType)]
    BY <1>1
  <2>2. ASSUME NEW x \in Ids, NEW j \in DOMAIN queue'[x] PROVE queue'[x][j].id = x
    BY <1>4, <1>5, <2>2 DEF QueuesTyped
  <2> QED BY <2>1, <2>2 DEF QueuesTyped
<1> QED BY <1>3, <1>6

LEMMA TakeTyped ==
  ASSUME Typed, NEW k \in Ids, Take(k)
  PROVE  Typed'
<1>1. PICK op \in OpType : op = Head(queue[k]) /\ op.id = k
  BY TakenOff DEF Take, Typed
<1> DEFINE w == [Idle EXCEPT !.op = op,
                             !.pc = IF op.kind = "categoryDelete" THEN "apply" ELSE op.kind,
                             !.unread = ChannelsIn(op.cats)]
<1>2. ChannelsIn(op.cats) \subseteq Channels
  <2>1. \A i \in DOMAIN op.cats : op.cats[i].channels \in Seq(Channels)
    <3>1. op.cats \in Seq(CategoryType)
      BY DEF OpType
    <3>2. \A i \in DOMAIN op.cats : op.cats[i] \in CategoryType
      BY <3>1
    <3> QED BY <3>2 DEF CategoryType
  <2>2. \A i \in DOMAIN op.cats : \A j \in DOMAIN op.cats[i].channels : op.cats[i].channels[j] \in Channels
    BY <2>1
  <2> QED BY <2>2 DEF ChannelsIn
<1>3. w \in WorkerType /\ w.op = op /\ w.pc # "defer" /\ w.pushing = <<>>
  <2>1. op.kind \in OpKinds
    BY DEF OpType
  <2>2. w.op = op /\ w.pc = (IF op.kind = "categoryDelete" THEN "apply" ELSE op.kind)
    BY IdleType DEF WorkerType
  <2>3. w \in WorkerType
    BY <1>2, <2>1, IdleType DEF WorkerType
  <2>4. w.pc # "defer"
    BY <2>1, <2>2 DEF OpKinds
  <2>5. w.pushing = <<>>
    BY IdleType DEF WorkerType
  <2> QED BY <2>2, <2>3, <2>4, <2>5
<1>4. worker' = [worker EXCEPT ![k] = w]
  BY <1>1 DEF Take
<1> HIDE DEF w
<1>5. WorkersTyped'
  BY <1>1, <1>3, <1>4, WorkerChange DEF Typed
<1>6. QueuesTyped'
  BY TakenOff DEF Take, Typed
<1> QED BY <1>5, <1>6 DEF Typed, HandlersTyped, RowsTyped, RestTyped, Take, discord, rows

LEMMA MissChannelTyped ==
  ASSUME Typed, NEW k \in Ids, MissChannel(k)
  PROVE  Typed'
<1>1. PICK op \in OpType : op = Head(queue[k]) /\ op.id = k
  BY TakenOff DEF MissChannel, Typed
<1>2. PICK c \in Missing(op) :
        worker' = [worker EXCEPT ![k] = [Idle EXCEPT !.pc = "defer", !.op = op, !.missing = c]]
  BY <1>1 DEF MissChannel
<1>3. c \in Channels
  <2>1. c \in DependsOn(op) /\ op.kind = "category"
    BY <1>2 DEF Missing, DependsOn
  <2>2. op.want.cat.channels \in Seq(Channels)
    BY <2>1 DEF OpType, WantType, CategoryType
  <2>3. PICK s \in Seq(Channels) : s = op.want.cat.channels
    BY <2>2
  <2> QED BY <2>1, <2>3 DEF DependsOn
<1> DEFINE w == [Idle EXCEPT !.pc = "defer", !.op = op, !.missing = c]
<1>4. w \in WorkerType /\ w.op = op /\ w.missing = c /\ w.pushing = <<>>
  BY <1>3, IdleType DEF WorkerType
<1>5. worker' = [worker EXCEPT ![k] = w]
  BY <1>2
<1> HIDE DEF w
<1>6. WorkersTyped'
  BY <1>1, <1>3, <1>4, <1>5, WorkerChange DEF Typed
<1>7. QueuesTyped'
  BY TakenOff DEF MissChannel, Typed
<1> QED BY <1>6, <1>7 DEF Typed, HandlersTyped, RowsTyped, RestTyped, MissChannel, discord, rows

LEMMA DeferTyped ==
  ASSUME Typed, NEW k \in Ids, Defer(k)
  PROVE  Typed'
<1>1. PICK op \in OpType, c \in Channels : op = worker[k].op /\ c = worker[k].missing
  BY DEF Defer, At, Typed, WorkersTyped
<1>2. waiters' = [waiters EXCEPT ![c] = Append(@, op)]
  BY <1>1 DEF Defer
<1>3. waiters' \in [Channels -> Seq(OpType)]
  BY <1>1, <1>2 DEF Typed, RestTyped
<1>4. missed' \subseteq 0..MaxEvents
  BY DEF Defer, Typed, RestTyped
<1>5. WorkersTyped'
  BY ReturnTyped DEF Typed, Defer
<1> QED BY <1>3, <1>4, <1>5 DEF Typed, HandlersTyped, QueuesTyped, RowsTyped, RestTyped, Defer, discord, rows

LEMMA SkipTyped ==
  ASSUME Typed, NEW k \in Ids, Skip(k) \/ Confirm(k)
  PROVE  Typed'
<1>1. WorkersTyped'
  BY ReturnTyped DEF Typed, Skip, Confirm
<1> QED BY <1>1 DEF Typed, HandlersTyped, QueuesTyped, RowsTyped, RestTyped, Skip, Confirm, discord, rows

LEMMA WritePendingTyped ==
  ASSUME Typed, NEW k \in Categories, WritePending(k)
  PROVE  Typed'
<1>1. k \in Ids /\ worker[k].pc \notin {"idle", "push"} /\ worker[k].op \in OpType
  BY DEF Ids, WritePending, At, Typed, WorkersTyped
<1>2. WorkersTyped'
  BY <1>1, LabelTyped DEF Typed, WritePending
<1>3. stored' \in [Categories -> WantType \cup {NoId}]
  BY <1>1 DEF WritePending, Typed, RestTyped, OpType
<1> QED BY <1>2, <1>3 DEF Typed, HandlersTyped, QueuesTyped, RowsTyped, RestTyped, WritePending, discord

LEMMA ResolveChannelIDTyped ==
  ASSUME Typed, NEW k \in Ids, ResolveChannelID(k)
  PROVE  Typed'
<1>1. PICK c \in worker[k].unread :
        worker' = [worker EXCEPT ![k].unread = @ \ {c}, ![k].ids =
         IF Resolvable(c)
         THEN [x \in DOMAIN @ \cup {c} |-> IF x = c THEN row[c].id ELSE @[x]]
         ELSE @]
  BY DEF ResolveChannelID
<1>2. /\ worker \in [Ids -> WorkerType] /\ worker[k] \in WorkerType /\ worker[k].pc = "apply"
      /\ worker[k].op \in OpType /\ worker[k].op.id = k
  BY IdleType DEF Typed, WorkersTyped, ResolveChannelID, At
<1>3. c \in Channels /\ (Resolvable(c) => row[c].id = c)
  BY <1>2 DEF WorkerType, Resolvable, Typed, RowsTyped
<1> DEFINE known == IF Resolvable(c)
                    THEN [x \in DOMAIN worker[k].ids \cup {c} |->
                            IF x = c THEN row[c].id ELSE worker[k].ids[x]]
                    ELSE worker[k].ids
           w == [worker[k] EXCEPT !.unread = @ \ {c}, !.ids = known]
<1>4. known \in IdMaps
  <2>1. PICK S \in SUBSET Channels : worker[k].ids \in [S -> Channels]
    BY <1>2 DEF WorkerType, IdMaps
  <2>2. CASE Resolvable(c)
    <3>1. known \in [S \cup {c} -> Channels]
      BY <1>3, <2>1, <2>2
    <3>2. S \cup {c} \in SUBSET Channels
      BY <1>3
    <3> HIDE DEF known
    <3> QED BY <3>1, <3>2 DEF IdMaps
  <2>3. CASE ~Resolvable(c)
    BY <2>1, <2>3 DEF IdMaps
  <2> QED BY <2>2, <2>3
<1>5. worker' = [worker EXCEPT ![k] = w]
  BY <1>1, <1>2
<1> HIDE DEF known
<1>6. w \in WorkerType /\ w.op = worker[k].op /\ w.pc # "defer" /\ w.pushing = <<>>
  BY <1>2, <1>4 DEF WorkerType, Typed, WorkersTyped
<1> HIDE DEF w
<1>7. WorkersTyped'
  BY <1>2, <1>5, <1>6, WorkerChange DEF Typed
<1> QED BY <1>7 DEF Typed, HandlersTyped, QueuesTyped, RowsTyped, RestTyped, ResolveChannelID, discord, rows

LEMMA SetCategoriesTyped ==
  ASSUME Typed, NEW k \in Ids, SetCategories(k)
  PROVE  Typed'
<1>1. PICK l \in {"confirm", "forget"} : worker' = [worker EXCEPT ![k].pc = l]
  BY DEF SetCategories
<1>2. worker[k].pc \notin {"idle", "push"}
  BY DEF SetCategories, Accepted, At
<1>3. WorkersTyped'
  BY <1>1, <1>2, LabelTyped DEF Typed
<1> QED BY <1>3 DEF Typed, HandlersTyped, QueuesTyped, RowsTyped, RestTyped, SetCategories, discord, rows

LEMMA RemoveTyped ==
  ASSUME Typed, NEW k \in Ids, Remove(k)
  PROVE  Typed'
<1>1. WorkersTyped'
  BY ReturnTyped DEF Typed, Remove
<1>2. stored' \in [Categories -> WantType \cup {NoId}]
  BY DEF Remove, Typed, RestTyped
<1> QED BY <1>1, <1>2 DEF Typed, HandlersTyped, QueuesTyped, RowsTyped, RestTyped, Remove, discord

LEMMA FailTyped ==
  ASSUME Typed, NEW k \in Ids, Fail(k)
  PROVE  Typed'
<1>1. WorkersTyped'
  BY ReturnTyped DEF Typed, Fail
<1>2. faults' \in 0..MaxFaults
  BY SyncAssumption DEF Fail, Typed, RestTyped
<1> QED BY <1>1, <1>2 DEF Typed, HandlersTyped, QueuesTyped, RowsTyped, RestTyped, Fail, discord, rows

LEMMA WriteChannelPendingTyped ==
  ASSUME Typed, NEW k \in Channels, WriteChannelPending(k)
  PROVE  Typed'
<1>1. k \in Ids /\ worker[k].pc \notin {"idle", "push"}
  BY DEF Ids, WriteChannelPending, At
<1>2. WorkersTyped'
  BY <1>1, LabelTyped DEF Typed, WriteChannelPending
<1>3. RowsTyped'
  <2>1. row[k] \in RowType /\ row \in [Channels -> RowType] /\ row[k].id \in {NoId, k}
    BY DEF Typed, RowsTyped
  <2> DEFINE r == [row[k] EXCEPT !.status = "pending"]
  <2>2. r \in RowType /\ r.id = row[k].id /\ r.status # "active"
    BY <2>1 DEF RowType
  <2>3. row' = [row EXCEPT ![k] = r]
    BY <2>1 DEF WriteChannelPending
  <2> HIDE DEF r
  <2> QED BY <2>1, <2>2, <2>3 DEF Typed, RowsTyped
<1> QED BY <1>2, <1>3 DEF Typed, HandlersTyped, QueuesTyped, RestTyped, WriteChannelPending, discord

LEMMA ConfirmChannelTyped ==
  ASSUME Typed, NEW k \in Channels, ConfirmChannel(k)
  PROVE  Typed'
<1>1. k \in Ids /\ worker[k].pc \notin {"idle", "push"}
  BY DEF Ids, ConfirmChannel, At
<1>2. WorkersTyped'
  BY <1>1, LabelTyped DEF Typed, ConfirmChannel
<1>3. RowsTyped'
  BY DEF Typed, RowsTyped, RowType, ConfirmChannel
<1> QED BY <1>2, <1>3 DEF Typed, HandlersTyped, QueuesTyped, RestTyped, ConfirmChannel, discord

LEMMA TakeWaitersTyped ==
  ASSUME Typed, NEW k \in Channels, TakeWaiters(k)
  PROVE  Typed'
<1>1. k \in Ids
  BY DEF Ids
<1>2. /\ worker \in [Ids -> WorkerType] /\ worker[k] \in WorkerType /\ worker[k].pc = "notify"
      /\ worker[k].op \in OpType /\ worker[k].op.id = k
  BY <1>1, IdleType DEF Typed, WorkersTyped, TakeWaiters, At
<1>3. waiters[k] \in Seq(OpType)
  BY DEF Typed, RestTyped
<1> DEFINE w == [worker[k] EXCEPT !.pc = "push", !.pushing = waiters[k]]
<1>4. w \in WorkerType /\ w.op = worker[k].op /\ w.pc = "push"
  BY <1>2, <1>3 DEF WorkerType
<1>5. worker' = [worker EXCEPT ![k] = w]
  BY <1>2 DEF TakeWaiters
<1> HIDE DEF w
<1>6. WorkersTyped'
  BY <1>1, <1>2, <1>4, <1>5, WorkerChange DEF Typed
<1>7. waiters' \in [Channels -> Seq(OpType)]
  <2>1. <<>> \in Seq(OpType)
    OBVIOUS
  <2> QED BY <2>1 DEF TakeWaiters, Typed, RestTyped
<1> QED BY <1>6, <1>7 DEF Typed, HandlersTyped, QueuesTyped, RowsTyped, RestTyped, TakeWaiters, discord, rows

(* What is pushed goes from the list into a queue.                          *)
LEMMA Pushed ==
  ASSUME Typed, NEW k \in Channels, PushWaiter(k)
  PROVE  \E op \in OpType :
           /\ QueuesTyped' /\ Joins(op)
           /\ \E j \in DOMAIN worker[k].pushing : worker[k].pushing[j] = op
           /\ worker' = [worker EXCEPT ![k].pushing = Tail(@)]
           /\ Tail(worker[k].pushing) \in Seq(OpType)
           /\ \A j \in DOMAIN Tail(worker[k].pushing) : \E m \in DOMAIN worker[k].pushing :
                Tail(worker[k].pushing)[j] = worker[k].pushing[m]
           /\ \A m \in DOMAIN worker[k].pushing :
                \/ worker[k].pushing[m] = op
                \/ \E j \in DOMAIN Tail(worker[k].pushing) :
                     Tail(worker[k].pushing)[j] = worker[k].pushing[m]
<1>1. worker[k] \in WorkerType /\ worker[k].pushing # <<>>
  BY DEF Ids, Typed, WorkersTyped, PushWaiter
<1>2. PICK p \in Seq(OpType) : p = worker[k].pushing /\ p # <<>>
  BY <1>1 DEF WorkerType
<1>3. PICK op \in OpType : op = Head(p) /\ op = p[1] /\ 1 \in DOMAIN p
  BY <1>2
<1>4. queue' = [queue EXCEPT ![op.id] = Append(@, op)]
  BY <1>2, <1>3 DEF PushWaiter
<1>5. QueuesTyped' /\ Joins(op)
  BY <1>4, OpJoins DEF Typed
<1>6. ASSUME NEW j \in DOMAIN Tail(p) PROVE \E m \in DOMAIN p : Tail(p)[j] = p[m]
  <2>1. j + 1 \in DOMAIN p /\ Tail(p)[j] = p[j + 1]
    BY <1>2
  <2> QED BY <2>1
<1>7. ASSUME NEW m \in DOMAIN p, m # 1 PROVE \E j \in DOMAIN Tail(p) : Tail(p)[j] = p[m]
  <2>1. m - 1 \in DOMAIN Tail(p) /\ Tail(p)[m - 1] = p[m]
    BY <1>2, <1>7
  <2> QED BY <2>1
<1>8. Tail(p) \in Seq(OpType) /\ worker' = [worker EXCEPT ![k].pushing = Tail(@)]
  BY <1>2 DEF PushWaiter
<1> QED BY <1>2, <1>3, <1>5, <1>6, <1>7, <1>8

LEMMA PushWaiterTyped ==
  ASSUME Typed, NEW k \in Channels, PushWaiter(k)
  PROVE  Typed'
<1>1. k \in Ids
  BY DEF Ids
<1>2. /\ worker \in [Ids -> WorkerType] /\ worker[k] \in WorkerType /\ worker[k].pc = "push"
      /\ worker[k].op \in OpType /\ worker[k].op.id = k
  BY <1>1, IdleType DEF Typed, WorkersTyped, PushWaiter, At
<1>3. PICK p \in Seq(OpType) : p = Tail(worker[k].pushing)
  BY Pushed
<1> DEFINE w == [worker[k] EXCEPT !.pushing = p]
<1>4. w \in WorkerType /\ w.op = worker[k].op /\ w.pc = "push"
  BY <1>2, <1>3 DEF WorkerType
<1>5. worker' = [worker EXCEPT ![k] = w]
  BY <1>2, <1>3 DEF PushWaiter
<1> HIDE DEF w
<1>6. WorkersTyped'
  BY <1>1, <1>2, <1>4, <1>5, WorkerChange DEF Typed
<1>7. QueuesTyped'
  BY Pushed
<1> QED BY <1>6, <1>7 DEF Typed, HandlersTyped, RowsTyped, RestTyped, PushWaiter, discord, rows

LEMMA NotifiedTyped ==
  ASSUME Typed, NEW k \in Channels, Notified(k)
  PROVE  Typed'
<1>1. k \in Ids
  BY DEF Ids
<1>2. WorkersTyped'
  BY <1>1, ReturnTyped DEF Typed, Notified
<1> QED BY <1>2 DEF Typed, HandlersTyped, QueuesTyped, RowsTyped, RestTyped, Notified, discord, rows

LEMMA RemoveChannelTyped ==
  ASSUME Typed, NEW k \in Channels, RemoveChannel(k)
  PROVE  Typed'
<1>1. k \in Ids
  BY DEF Ids
<1>2. WorkersTyped'
  BY <1>1, ReturnTyped DEF Typed, RemoveChannel
<1>3. RowsTyped'
  BY DEF Typed, RowsTyped, RowType, Unmapped, RemoveChannel
<1> QED BY <1>2, <1>3 DEF Typed, HandlersTyped, QueuesTyped, RestTyped, RemoveChannel, discord

(* What Stoat is shown.                                                     *)
LEMMA SentHoldsIds ==
  ASSUME Typed, NEW k \in Ids, Accepted(k)
  PROVE  ListsHoldMappedIds'
<1>1. worker[k].op \in OpType /\ worker[k].ids \in IdMaps
  BY DEF Accepted, At, Typed, WorkersTyped, WorkerType
<1>2. worker[k].op.cats \in Seq(CategoryType)
  BY <1>1 DEF OpType
<1>3. \A c \in Channels : c \in DOMAIN worker[k].ids => worker[k].ids[c] \in Channels
  BY <1>1 DEF IdMaps
<1>4. shown' = Resolved(worker[k].op.cats, worker[k].ids)
  BY DEF Accepted
<1> QED BY <1>2, <1>3, <1>4, ResolvedHoldsIds DEF ListsHoldMappedIds

LEMMA NextTyped == ASSUME IInv, [Next]_vars PROVE IInv'
<1> USE DEF IInv
<1>1. CASE Discord
  <2>1. Typed'
    BY <1>1, DiscordTyped
  <2> QED BY <1>1, <2>1 DEF Discord, ListsHoldMappedIds
<1>2. ASSUME NEW i \in 0..MaxEvents, Handle(i) PROVE IInv'
  <2>1. Typed'
    BY <1>2, HandleOwnTyped, SubmitCategoryOpsTyped, SubmitTyped, HandledTyped DEF Handle
  <2>2. shown' = shown
    BY <1>2 DEF Handle, HandleOwn, SubmitCategoryOps, Submit, Handled
  <2> QED BY <2>1, <2>2 DEF ListsHoldMappedIds
<1>3. ASSUME NEW k \in Ids, Take(k) \/ MissChannel(k) \/ Defer(k) PROVE IInv'
  <2>1. Typed'
    BY <1>3, TakeTyped, MissChannelTyped, DeferTyped
  <2>2. shown' = shown
    BY <1>3 DEF Take, MissChannel, Defer
  <2> QED BY <2>1, <2>2 DEF ListsHoldMappedIds
<1>4. ASSUME NEW k \in Ids, Fail(k) PROVE IInv'
  <2>1. Typed'
    BY <1>4, FailTyped
  <2>2. CASE Accepted(k)
    BY <2>1, <2>2, SentHoldsIds
  <2>3. CASE shown' = shown
    BY <2>1, <2>3 DEF ListsHoldMappedIds
  <2> QED BY <1>4, <2>2, <2>3 DEF Fail
<1>5. ASSUME NEW k \in Categories, CategoryStep(k) PROVE IInv'
  <2>1. k \in Ids
    BY DEF Ids
  <2>2. Typed'
    BY <1>5, <2>1, SkipTyped, WritePendingTyped, ResolveChannelIDTyped, SetCategoriesTyped, RemoveTyped
       DEF CategoryStep
  <2>3. CASE Accepted(k) /\ SetCategories(k)
    BY <2>1, <2>2, <2>3, SentHoldsIds
  <2>4. SetCategories(k) \/ shown' = shown
    BY <1>5 DEF CategoryStep, Skip, WritePending, ResolveChannelID, Confirm, Remove
  <2>5. CASE shown' = shown
    BY <2>2, <2>5 DEF ListsHoldMappedIds
  <2> QED BY <2>3, <2>4, <2>5 DEF SetCategories
<1>6. ASSUME NEW c \in Channels, ChannelStep(c) PROVE IInv'
  <2>1. Typed'
    BY <1>6, WriteChannelPendingTyped, ConfirmChannelTyped, TakeWaitersTyped, PushWaiterTyped,
       NotifiedTyped, RemoveChannelTyped DEF ChannelStep
  <2>2. shown' = shown
    BY <1>6 DEF ChannelStep, WriteChannelPending, ConfirmChannel, TakeWaiters, PushWaiter, Notified,
                RemoveChannel
  <2> QED BY <2>1, <2>2 DEF ListsHoldMappedIds
<1>7. CASE UNCHANGED vars
  BY <1>7 DEF Typed, HandlersTyped, QueuesTyped, WorkersTyped, RowsTyped, RestTyped,
              ListsHoldMappedIds, vars, discord, rows
<1> QED BY <1>1, <1>2, <1>3, <1>4, <1>5, <1>6, <1>7 DEF Next

LEMMA AlwaysTyped == Spec => []IInv
BY InitTyped, NextTyped, PTL DEF Spec

(* Types, for any guilds and however many events and failures: in           *)
(* particular a worker has its own entity's op, and an active row an id.    *)
THEOREM TypeCorrect == Spec => []TypeOK
<1>1. IInv => TypeOK
  BY TypedMeansTypeOK DEF IInv
<1> QED BY <1>1, AlwaysTyped, PTL

(* No list sent to Stoat names a channel by an empty id (resolveChannelIDs  *)
(* asks for an active row), with any ops of other entities under way.       *)
THEOREM ListsNameMappedChannels == Spec => []ListsHoldMappedIds
<1>1. IInv => ListsHoldMappedIds
  BY DEF IInv
<1> QED BY <1>1, AlwaysTyped, PTL

-----------------------------------------------------------------------------
(* One event at a time.                                                     *)
LEMMA NoneFollowedIfQuiet ==
  ASSUME Typed, Steady, Quiet
  PROVE  /\ \A c \in ChannelsInGuild : row[c].status = "active"
         /\ \A c \in Channels : waiters[c] = <<>>
         /\ \A i \in 0..MaxEvents : handler[i].ops = <<>>
<1>1. \A i \in 0..MaxEvents : handler[i].pc # "own" /\ handler[i].ops = <<>>
  BY DEF Quiet, Steady, OpsMade
<1>2. \A c \in Channels : queue[c] = <<>> /\ worker[c].pc = "idle"
  BY IdleType DEF Quiet, Ids
<1>3. \A c \in Channels : ~ToBeMapped(c)
  BY <1>1, <1>2 DEF ToBeMapped, ToCome, ToSubmit, Queued, AtWork
<1>4. \A c \in ChannelsInGuild : row[c].status = "active"
  BY <1>3 DEF Steady, Followed, ChannelsInGuild
<1> QED BY <1>1, <1>2, <1>4 DEF Steady, WaitersOfGuild

LEMMA InitSteady == Init => Steady
<1> SUFFICES ASSUME Init PROVE Steady
  OBVIOUS
<1>1. Typed
  BY InitTyped DEF IInv
<1>2. /\ \A i \in 0..MaxEvents : handler[i] = NoHandler \/ handler[i] = Handler("converge", NoId)
      /\ \A k \in Ids : queue[k] = <<>> /\ worker[k] = Idle
      /\ \A c \in Channels : waiters[c] = <<>>
  BY DEF Init
<1>3. OpsMade /\ OpsOfGuild /\ WaitersOfGuild
  <2>1. /\ \A i \in 0..MaxEvents : handler[i].ops = <<>>
        /\ \A k \in Ids : queue[k] = <<>> /\ worker[k].pc = "idle" /\ worker[k].pushing = <<>>
        /\ \A c \in Channels : waiters[c] = <<>>
    BY <1>2, NoHandlerType, IdleType
  <2> QED BY <2>1 DEF OpsMade, OpsOfGuild, WaitersOfGuild
<1>4. ASSUME NEW c \in ChannelsInGuild
      PROVE  Kept(c) /\ (row[c].status = "active" \/ ToBeMapped(c))
  <2>1. c \in Ids /\ c \in Channels /\ c \in IdsIn(First)
    BY DEF ChannelsInGuild, Ids, Init
  <2>2. Kept(c)
    BY <1>2, <2>1, NoHandlerType, IdleType DEF Kept, KeptByHandlers, KeptByQueue, KeptByWorker, OpKinds
  <2>3. CASE Mapped
    <3>1. row[c].status = "active"
      BY <2>1, <2>3 DEF Init
    <3> QED BY <2>2, <3>1
  <2>4. CASE ~Mapped
    <3>1. 0 \in 0..MaxEvents
      BY SyncAssumption
    <3>2. handler[0] = Handler("converge", NoId)
      BY <2>4, <3>1 DEF Init
    <3> QED BY <2>2, <3>1, <3>2, NoHandlerType DEF ToBeMapped, ToCome
  <2> QED BY <2>2, <2>3, <2>4
<1> QED BY <1>3, <1>4 DEF Steady, Followed

LEMMA DiscordSteady ==
  ASSUME Spaced = TRUE, Typed, Steady, Discord
  PROVE  Steady'
<1>1. PICK g \in Guilds, x \in Ids :
        /\ OneChange(x, g) /\ guild' = g
        /\ handler' = [handler EXCEPT ![events + 1] = Handler(EventKind(x, g), x)]
  BY DEF Discord
<1> DEFINE e == events + 1
           h == Handler(EventKind(x, g), x)
<1>2. e \in 0..MaxEvents
  BY SyncAssumption DEF Discord, Typed, RestTyped
<1>3. EventKind(x, g) \in OpKinds
  BY DEF EventKind, OpKinds
<1>4. /\ h.pc = "own" /\ h.kind = EventKind(x, g) /\ h.id = x /\ h.ops = <<>>
  BY <1>3, NoHandlerType DEF Handler
<1>5. /\ \A c \in ChannelsInGuild : row[c].status = "active"
      /\ \A c \in Channels : waiters[c] = <<>>
      /\ \A i \in 0..MaxEvents : handler[i].ops = <<>> /\ handler[i].pc # "own"
      /\ \A k \in Ids : queue[k] = <<>> /\ worker[k] = Idle
  <2>1. Quiet
    BY DEF Discord
  <2> QED BY <2>1, NoneFollowedIfQuiet DEF Quiet
<1> HIDE DEF h, e
<1>6. \A i \in 0..MaxEvents : handler'[i] = h \/ (handler'[i] = handler[i] /\ i # e)
  BY <1>1 DEF Typed, HandlersTyped, h, e
<1>7. handler'[e] = h
  BY <1>1, <1>2 DEF Typed, HandlersTyped, h, e
<1>8. OpsMade' /\ OpsOfGuild' /\ WaitersOfGuild'
  BY <1>4, <1>5, <1>6, IdleType DEF OpsMade, OpsOfGuild, WaitersOfGuild, Discord, rows
<1>9. ASSUME NEW c \in ChannelsInGuild'
      PROVE  Kept(c)' /\ (row'[c].status = "active" \/ ToBeMapped(c)')
  <2>1. c \in Channels /\ c \in Ids /\ Of(g, c) # {}
    BY <1>1, <1>9 DEF ChannelsInGuild, Ids, IdsIn, Of
  <2>2. x = c => EventKind(x, g) = "channel"
    BY <2>1, SyncAssumption DEF EventKind
  <2>3. Kept(c)'
    <3>1. KeptByHandlers(c)'
      BY <1>4, <1>5, <1>6, <2>2 DEF KeptByHandlers
    <3>2. KeptByQueue(c)' /\ KeptByWorker(c)'
      BY <1>5, <2>1, IdleType DEF KeptByQueue, KeptByWorker, Discord
    <3> QED BY <3>1, <3>2 DEF Kept
  <2>4. CASE x = c
    <3>1. ToCome(c)'
      BY <1>2, <1>4, <1>7, <2>2, <2>4 DEF ToCome
    <3> QED BY <2>3, <3>1 DEF ToBeMapped
  <2>5. CASE x # c
    <3>1. c \in ChannelsInGuild
      <4>1. PICK d \in g : d.id = c
        BY <1>1, <1>9 DEF ChannelsInGuild, IdsIn
      <4>2. d \in guild
        BY <1>1, <2>5, <4>1 DEF OneChange, Of
      <4> QED BY <2>1, <4>1, <4>2 DEF ChannelsInGuild, IdsIn
    <3>2. row'[c].status = "active"
      BY <1>5, <3>1 DEF Discord, rows
    <3> QED BY <2>3, <3>2
  <2> QED BY <2>3, <2>4, <2>5
<1> QED BY <1>8, <1>9 DEF Steady, Followed

(* A handler changes, and neither rows nor workers do.                      *)
LEMMA HandleOwnSteady ==
  ASSUME Typed, Steady, NEW i \in 0..MaxEvents, HandleOwn(i)
  PROVE  Steady'
<1>1. PICK cats \in CategoriesFromState(guild) :
        handler' = [handler EXCEPT ![i].pc = "ownOps", ![i].ops = OwnOps(handler[i], cats)]
  BY DEF HandleOwn
<1>2. PICK ops : ops = OwnOps(handler[i], cats)
  OBVIOUS
<1>3. /\ handler[i] \in HandlerType /\ Kinded(handler[i]) /\ handler[i].pc = "own"
      /\ handler \in [0..MaxEvents -> HandlerType] /\ handler[i].ops = <<>>
  BY DEF Typed, HandlersTyped, HandleOwn, Steady, OpsMade
<1>4. /\ \A j \in DOMAIN ops : ops[j].kind # "category"
      /\ \A j \in DOMAIN ops : ops[j].kind = "channelDelete" =>
                   handler[i].kind = "channelDelete" /\ ops[j].id = handler[i].id
      /\ handler[i].kind = "channel" =>
           \E j \in DOMAIN ops : ops[j].kind = "channel" /\ ops[j].id = handler[i].id
      /\ handler[i].kind = "converge" => \A c \in ChannelsInGuild :
           \E j \in DOMAIN ops : ops[j].kind = "channel" /\ ops[j].id = c
  <2>1. guild \in Guilds \cup {First}
    BY DEF Typed, RestTyped
  <2>2. PICK h \in HandlerType : h = handler[i] /\ Kinded(h)
    BY <1>3
  <2>3. ops = OwnOps(h, cats)
    BY <1>2, <2>2
  <2> QED BY <2>1, <2>2, <2>3, OwnOpsProperties
<1>5. /\ handler'[i].pc = "ownOps" /\ handler'[i].ops = ops
      /\ \A n \in (0..MaxEvents) \ {i} : handler'[n] = handler[n]
  BY <1>1, <1>3, <1>2 DEF HandlerType
<1>6. UNCHANGED <<guild, queue, worker, waiters, row>>
  BY DEF HandleOwn, discord, rows
<1>7. OpsMade'
  BY <1>5 DEF Steady, OpsMade
<1>8. OpsOfGuild' /\ WaitersOfGuild'
  <2>1. \A j \in DOMAIN ops : DependsOn(ops[j]) \subseteq ChannelsInGuild
    BY <1>4 DEF DependsOn
  <2>2. ChannelsInGuild' = ChannelsInGuild
    BY <1>6 DEF ChannelsInGuild
  <2>3. \A n \in 0..MaxEvents : \A j \in DOMAIN handler'[n].ops :
          DependsOn(handler'[n].ops[j]) \subseteq ChannelsInGuild
    BY <1>5, <2>1 DEF Steady, OpsOfGuild
  <2>4. OpsOfGuild'
    BY <1>6, <2>2, <2>3 DEF Steady, OpsOfGuild
  <2> QED BY <1>6, <2>2, <2>4 DEF Steady, WaitersOfGuild, OfCategory
<1>9. ASSUME NEW c \in ChannelsInGuild
      PROVE  Kept(c)' /\ (row'[c].status = "active" \/ ToBeMapped(c)')
  <2>1. Kept(c) /\ (row[c].status = "active" \/ ToBeMapped(c))
    BY DEF Steady, Followed
  <2>2. KeptByHandlers(c)'
    BY <1>3, <1>4, <1>5, <2>1 DEF Kept, KeptByHandlers
  <2>3. KeptByQueue(c)' /\ KeptByWorker(c)'
    BY <1>6, <2>1 DEF Kept, KeptByQueue, KeptByWorker
  <2>4. CASE Queued(c) \/ AtWork(c)
    <3>1. Queued(c)' \/ AtWork(c)'
      BY <1>6, <2>4 DEF Queued, AtWork
    <3> QED BY <2>2, <2>3, <3>1 DEF Kept, ToBeMapped
  <2>5. CASE ToSubmit(c)
    <3>1. ToSubmit(c)'
      BY <1>3, <1>5, <2>5 DEF ToSubmit
    <3> QED BY <2>2, <2>3, <3>1 DEF Kept, ToBeMapped
  <2>6. CASE ToCome(c)
    <3>1. PICK n \in 0..MaxEvents : handler[n].pc = "own" /\
            (handler[n].kind = "converge" \/ (handler[n].kind = "channel" /\ handler[n].id = c))
      BY <2>6 DEF ToCome
    <3>2. CASE n = i
      <4>1. \E j \in DOMAIN ops : ops[j].kind = "channel" /\ ops[j].id = c
        BY <1>4, <3>1, <3>2
      <4>2. ToSubmit(c)'
        BY <1>5, <4>1 DEF ToSubmit
      <4> QED BY <2>2, <2>3, <4>2 DEF Kept, ToBeMapped
    <3>3. CASE n # i
      <4>1. ToCome(c)'
        BY <1>5, <3>1, <3>3 DEF ToCome
      <4> QED BY <2>2, <2>3, <4>1 DEF Kept, ToBeMapped
    <3> QED BY <3>2, <3>3
  <2> QED BY <1>6, <2>1, <2>2, <2>3, <2>4, <2>5, <2>6 DEF Kept, ToBeMapped
<1> QED BY <1>6, <1>7, <1>8, <1>9 DEF Steady, Followed, ChannelsInGuild

LEMMA SubmitCategoryOpsSteady ==
  ASSUME Typed, Steady, NEW i \in 0..MaxEvents, SubmitCategoryOps(i)
  PROVE  Steady'
<1>1. PICK cats \in CategoriesFromState(guild) :
        handler' = [handler EXCEPT ![i].pc = "catOps",
                                   ![i].ops = [j \in DOMAIN cats |-> BuildCategoryOp(cats, j)]]
  BY DEF SubmitCategoryOps
<1>2. PICK ops : /\ ops = [j \in DOMAIN cats |-> BuildCategoryOp(cats, j)]
                 /\ handler' = [handler EXCEPT ![i].pc = "catOps", ![i].ops = ops]
  BY <1>1
<1>3. /\ handler[i] \in HandlerType /\ handler[i].pc = "ownOps" /\ handler[i].ops = <<>>
      /\ handler \in [0..MaxEvents -> HandlerType]
  BY DEF Typed, HandlersTyped, SubmitCategoryOps
<1>4. \A j \in DOMAIN ops : ops[j].kind = "category" /\ DependsOn(ops[j]) \subseteq ChannelsInGuild
  <2>1. \A j \in DOMAIN cats : \A m \in DOMAIN cats[j].channels :
          cats[j].channels[m] \in Channels /\ cats[j].channels[m] \in IdsIn(guild)
    BY CategoriesFromStateList DEF Typed, RestTyped
  <2>2. \A j \in DOMAIN ops : /\ j \in DOMAIN cats /\ ops[j].kind = "category"
                              /\ ops[j].want.cat = cats[j]
    BY <1>2 DEF BuildCategoryOp, Op, Desired
  <2> QED BY <2>1, <2>2 DEF DependsOn, ChannelsInGuild
<1>5. /\ handler'[i].pc = "catOps" /\ handler'[i].ops = ops
      /\ \A n \in (0..MaxEvents) \ {i} : handler'[n] = handler[n]
  BY <1>2, <1>3 DEF HandlerType
<1>6. UNCHANGED <<guild, queue, worker, waiters, row>> /\ ChannelsInGuild' = ChannelsInGuild
  BY DEF SubmitCategoryOps, discord, rows, ChannelsInGuild
<1>7. OpsMade' /\ WaitersOfGuild'
  BY <1>5, <1>6 DEF Steady, OpsMade, WaitersOfGuild, OfCategory
<1>8. OpsOfGuild'
  <2>1. \A n \in 0..MaxEvents : \A j \in DOMAIN handler'[n].ops :
          DependsOn(handler'[n].ops[j]) \subseteq ChannelsInGuild
    BY <1>4, <1>5 DEF Steady, OpsOfGuild
  <2> QED BY <1>6, <2>1 DEF Steady, OpsOfGuild
<1>9. ASSUME NEW c \in ChannelsInGuild
      PROVE  Kept(c)' /\ (row'[c].status = "active" \/ ToBeMapped(c)')
  <2>1. Kept(c) /\ (row[c].status = "active" \/ ToBeMapped(c))
    BY DEF Steady, Followed
  <2>2. KeptByHandlers(c)'
    BY <1>4, <1>5, <2>1 DEF Kept, KeptByHandlers
  <2>3. KeptByQueue(c)' /\ KeptByWorker(c)'
    BY <1>6, <2>1 DEF Kept, KeptByQueue, KeptByWorker
  <2>4. ToCome(c) => ToCome(c)'
    BY <1>3, <1>5 DEF ToCome
  <2>5. ToSubmit(c) => ToSubmit(c)'
    BY <1>3, <1>5 DEF ToSubmit
  <2>6. (Queued(c) => Queued(c)') /\ (AtWork(c) => AtWork(c)')
    BY <1>6 DEF Queued, AtWork
  <2> QED BY <1>6, <2>1, <2>2, <2>3, <2>4, <2>5, <2>6 DEF Kept, ToBeMapped
<1> QED BY <1>6, <1>7, <1>8, <1>9 DEF Steady, Followed

LEMMA SubmitSteady ==
  ASSUME Typed, Steady, NEW i \in 0..MaxEvents, Submit(i)
  PROVE  Steady'
<1>1. /\ handler[i] \in HandlerType /\ handler[i].ops # <<>>
      /\ handler \in [0..MaxEvents -> HandlerType]
  BY DEF Typed, HandlersTyped, Submit
<1>2. PICK ops \in Seq(OpType) : ops = handler[i].ops /\ ops # <<>>
  BY <1>1 DEF HandlerType
<1>3. PICK op \in OpType : op = Head(ops) /\ op = ops[1] /\ 1 \in DOMAIN ops
  BY <1>2
<1>4. /\ queue' = [queue EXCEPT ![op.id] = Append(@, op)]
      /\ handler' = [handler EXCEPT ![i].ops = Tail(ops)]
  BY <1>2, <1>3 DEF Submit
<1>5. /\ handler'[i].pc = handler[i].pc /\ handler'[i].kind = handler[i].kind
      /\ handler'[i].id = handler[i].id /\ handler'[i].ops = Tail(ops)
      /\ \A n \in (0..MaxEvents) \ {i} : handler'[n] = handler[n]
  BY <1>1, <1>4 DEF HandlerType
<1>6. \A j \in DOMAIN Tail(ops) : \E m \in DOMAIN ops : Tail(ops)[j] = ops[m]
  <2> TAKE j \in DOMAIN Tail(ops)
  <2>1. j + 1 \in DOMAIN ops /\ Tail(ops)[j] = ops[j + 1]
    BY <1>2
  <2> QED BY <2>1
<1>7. \A m \in DOMAIN ops : ops[m] = op \/ \E j \in DOMAIN Tail(ops) : Tail(ops)[j] = ops[m]
  <2> TAKE m \in DOMAIN ops
  <2>1. CASE m = 1
    BY <1>3, <2>1
  <2>2. CASE m # 1
    <3>1. m - 1 \in DOMAIN Tail(ops) /\ Tail(ops)[m - 1] = ops[m]
      BY <1>2, <2>2
    <3> QED BY <3>1
  <2> QED BY <2>1, <2>2
<1>8. op.id \in Ids /\ queue \in [Ids -> Seq(OpType)]
  BY DEF OpType, Typed, QueuesTyped
<1>9. /\ \A k \in Ids \ {op.id} : queue'[k] = queue[k]
      /\ \A j \in DOMAIN queue'[op.id] :
           queue'[op.id][j] = op \/ (j \in DOMAIN queue[op.id] /\ queue'[op.id][j] = queue[op.id][j])
      /\ \A j \in DOMAIN queue[op.id] : j \in DOMAIN queue'[op.id] /\ queue'[op.id][j] = queue[op.id][j]
      /\ \E j \in DOMAIN queue'[op.id] : queue'[op.id][j] = op
  <2>1. QueuesTyped /\ queue' = [queue EXCEPT ![op.id] = Append(@, op)]
    BY <1>4 DEF Typed
  <2>2. Joins(op)
    BY <2>1, OpJoins
  <2> QED BY <1>8, <2>2 DEF Joins
<1>10. UNCHANGED <<guild, worker, waiters, row>> /\ ChannelsInGuild' = ChannelsInGuild
  BY DEF Submit, discord, rows, ChannelsInGuild
<1>11. handler[i].pc \notin {"none", "own", "done"}
  BY <1>1 DEF Steady, OpsMade
<1>12. OpsMade' /\ WaitersOfGuild'
  BY <1>5, <1>10, <1>11 DEF Steady, OpsMade, WaitersOfGuild, OfCategory
<1>13. OpsOfGuild'
  <2>1. \A m \in DOMAIN ops : DependsOn(ops[m]) \subseteq ChannelsInGuild
    BY <1>2 DEF Steady, OpsOfGuild
  <2>2. \A n \in 0..MaxEvents : \A j \in DOMAIN handler'[n].ops :
          DependsOn(handler'[n].ops[j]) \subseteq ChannelsInGuild
    <3>1. \A j \in DOMAIN handler'[i].ops : DependsOn(handler'[i].ops[j]) \subseteq ChannelsInGuild
      BY <1>5, <1>6, <2>1
    <3>2. \A n \in (0..MaxEvents) \ {i} : \A j \in DOMAIN handler'[n].ops :
            DependsOn(handler'[n].ops[j]) \subseteq ChannelsInGuild
      BY <1>5 DEF Steady, OpsOfGuild
    <3> QED BY <3>1, <3>2
  <2>3. \A k \in Ids : \A j \in DOMAIN queue'[k] : DependsOn(queue'[k][j]) \subseteq ChannelsInGuild
    BY <1>3, <1>9, <2>1 DEF Steady, OpsOfGuild
  <2> QED BY <1>10, <2>2, <2>3 DEF OpsOfGuild
<1>14. ASSUME NEW c \in ChannelsInGuild
       PROVE  Kept(c)' /\ (row'[c].status = "active" \/ ToBeMapped(c)')
  <2>1. Kept(c) /\ (row[c].status = "active" \/ ToBeMapped(c)) /\ c \in Ids
    BY DEF Steady, Followed, ChannelsInGuild, Ids
  <2>2. \A m \in DOMAIN ops : ~(ops[m].kind = "channelDelete" /\ ops[m].id = c)
    BY <1>2, <2>1 DEF Kept, KeptByHandlers
  <2>3. KeptByHandlers(c)'
    <3>1. /\ handler'[i].pc # "own"
          /\ \A j \in DOMAIN handler'[i].ops :
               ~(handler'[i].ops[j].kind = "channelDelete" /\ handler'[i].ops[j].id = c)
      BY <1>5, <1>6, <1>11, <2>2
    <3>2. \A n \in (0..MaxEvents) \ {i} :
            /\ handler'[n].pc = "own" => ~(handler'[n].kind = "channelDelete" /\ handler'[n].id = c)
            /\ \A j \in DOMAIN handler'[n].ops :
                 ~(handler'[n].ops[j].kind = "channelDelete" /\ handler'[n].ops[j].id = c)
      BY <1>5, <2>1 DEF Kept, KeptByHandlers
    <3> QED BY <3>1, <3>2 DEF KeptByHandlers
  <2>4. KeptByQueue(c)' /\ KeptByWorker(c)'
    BY <1>3, <1>9, <1>10, <2>1, <2>2 DEF Kept, KeptByQueue, KeptByWorker
  <2>5. ToCome(c) => ToCome(c)'
    BY <1>5 DEF ToCome
  <2>6. ToSubmit(c) => ToSubmit(c)' \/ Queued(c)'
    <3>1. SUFFICES ASSUME ToSubmit(c) PROVE ToSubmit(c)' \/ Queued(c)'
      OBVIOUS
    <3>2. PICK n \in 0..MaxEvents : \E j \in DOMAIN handler[n].ops :
            handler[n].ops[j].kind = "channel" /\ handler[n].ops[j].id = c
      BY <3>1 DEF ToSubmit
    <3>3. CASE n # i
      BY <1>5, <3>2, <3>3 DEF ToSubmit
    <3>4. CASE n = i
      <4>1. PICK j \in DOMAIN ops : ops[j].kind = "channel" /\ ops[j].id = c
        BY <1>2, <3>2, <3>4
      <4>2. CASE ops[j] = op
        BY <1>9, <4>1, <4>2 DEF Queued
      <4>3. CASE \E m \in DOMAIN Tail(ops) : Tail(ops)[m] = ops[j]
        BY <1>5, <4>1, <4>3 DEF ToSubmit
      <4> QED BY <1>7, <4>2, <4>3
    <3> QED BY <3>3, <3>4
  <2>7. (Queued(c) => Queued(c)') /\ (AtWork(c) => AtWork(c)')
    BY <1>9, <1>10, <2>1 DEF Queued, AtWork
  <2> QED BY <1>10, <2>1, <2>3, <2>4, <2>5, <2>6, <2>7 DEF Kept, ToBeMapped
<1> QED BY <1>10, <1>12, <1>13, <1>14 DEF Steady, Followed

LEMMA HandledSteady ==
  ASSUME Typed, Steady, NEW i \in 0..MaxEvents, Handled(i)
  PROVE  Steady'
<1>1. /\ handler[i] \in HandlerType /\ handler[i].pc = "catOps" /\ handler[i].ops = <<>>
      /\ handler \in [0..MaxEvents -> HandlerType]
  BY DEF Typed, HandlersTyped, Handled
<1>2. /\ handler'[i].pc = "done" /\ handler'[i].ops = <<>>
      /\ \A n \in (0..MaxEvents) \ {i} : handler'[n] = handler[n]
  BY <1>1 DEF HandlerType, Handled
<1>3. UNCHANGED <<guild, queue, worker, waiters, row>> /\ ChannelsInGuild' = ChannelsInGuild
  BY DEF Handled, discord, rows, ChannelsInGuild
<1>4. OpsMade' /\ OpsOfGuild' /\ WaitersOfGuild'
  BY <1>2, <1>3 DEF Steady, OpsMade, OpsOfGuild, WaitersOfGuild, OfCategory
<1>5. ASSUME NEW c \in ChannelsInGuild
      PROVE  Kept(c)' /\ (row'[c].status = "active" \/ ToBeMapped(c)')
  <2>1. Kept(c) /\ (row[c].status = "active" \/ ToBeMapped(c))
    BY DEF Steady, Followed
  <2>2. Kept(c)'
    BY <1>2, <1>3, <2>1 DEF Kept, KeptByHandlers, KeptByQueue, KeptByWorker
  <2>3. (ToCome(c) => ToCome(c)') /\ (ToSubmit(c) => ToSubmit(c)')
    BY <1>1, <1>2 DEF ToCome, ToSubmit
  <2>4. (Queued(c) => Queued(c)') /\ (AtWork(c) => AtWork(c)')
    BY <1>3 DEF Queued, AtWork
  <2> QED BY <1>3, <2>1, <2>2, <2>3, <2>4 DEF ToBeMapped
<1> QED BY <1>3, <1>4, <1>5 DEF Steady, Followed

(* What a worker takes off its queue, and what it leaves.                   *)
TakenFrom(k, op) ==
  /\ \E j \in DOMAIN queue[k] : queue[k][j] = op
  /\ \A x \in Ids \ {k} : queue'[x] = queue[x]
  /\ \A j \in DOMAIN queue'[k] : \E m \in DOMAIN queue[k] : queue'[k][j] = queue[k][m]
  /\ \A m \in DOMAIN queue[k] :
       queue[k][m] = op \/ \E j \in DOMAIN queue'[k] : queue'[k][j] = queue[k][m]

LEMMA HeadTakenFrom ==
  ASSUME QueuesTyped, NEW k \in Ids, queue[k] # <<>>, queue' = [queue EXCEPT ![k] = Tail(@)]
  PROVE  TakenFrom(k, Head(queue[k]))
<1>1. PICK q \in Seq(OpType) : q = queue[k] /\ q # <<>> /\ queue'[k] = Tail(q)
  BY DEF QueuesTyped
<1>2. \A x \in Ids \ {k} : queue'[x] = queue[x]
  BY DEF QueuesTyped
<1>3. 1 \in DOMAIN q /\ Head(q) = q[1]
  BY <1>1
<1>4. ASSUME NEW j \in DOMAIN Tail(q) PROVE \E m \in DOMAIN q : Tail(q)[j] = q[m]
  <2>1. j + 1 \in DOMAIN q /\ Tail(q)[j] = q[j + 1]
    BY <1>1
  <2> QED BY <2>1
<1>5. ASSUME NEW m \in DOMAIN q, m # 1 PROVE \E j \in DOMAIN Tail(q) : Tail(q)[j] = q[m]
  <2>1. m - 1 \in DOMAIN Tail(q) /\ Tail(q)[m - 1] = q[m]
    BY <1>1, <1>5
  <2> QED BY <2>1
<1> QED BY <1>1, <1>2, <1>3, <1>4, <1>5 DEF TakenFrom

(* A worker takes an op, or sets it aside.                                  *)
LEMMA TakeSteady ==
  ASSUME Typed, Steady, NEW k \in Ids, Take(k)
  PROVE  Steady'
<1>1. PICK op \in OpType : op = Head(queue[k])
  BY TakenOff DEF Take, Typed
<1>2. /\ \E j \in DOMAIN queue[k] : queue[k][j] = op
      /\ \A x \in Ids \ {k} : queue'[x] = queue[x]
      /\ \A j \in DOMAIN queue'[k] : \E m \in DOMAIN queue[k] : queue'[k][j] = queue[k][m]
      /\ \A m \in DOMAIN queue[k] :
           queue[k][m] = op \/ \E j \in DOMAIN queue'[k] : queue'[k][j] = queue[k][m]
  <2>1. QueuesTyped /\ queue[k] # <<>> /\ queue' = [queue EXCEPT ![k] = Tail(@)]
    BY DEF Take, Typed
  <2>2. TakenFrom(k, Head(queue[k]))
    BY <2>1, HeadTakenFrom
  <2> QED BY <1>1, <2>2 DEF TakenFrom
<1>3. /\ worker'[k].pc = (IF op.kind = "categoryDelete" THEN "apply" ELSE op.kind)
      /\ \A x \in Ids \ {k} : worker'[x] = worker[x]
      /\ worker[k].pc = "idle"
  BY <1>1 DEF Take, Typed, WorkersTyped, Idle, At
<1>4. UNCHANGED <<guild, handler, waiters, row>> /\ ChannelsInGuild' = ChannelsInGuild
  BY DEF Take, discord, rows, ChannelsInGuild
<1>5. OpsMade' /\ WaitersOfGuild'
  <2>1. worker'[k].pc # "defer" /\ worker'[k].pushing = <<>>
    BY <1>1, IdleType DEF Take, Typed, WorkersTyped, OpType, OpKinds, Idle
  <2>2. \A c \in Channels : worker[c].pc = "notify" => worker'[c].pc = "notify"
    BY <1>3 DEF Ids
  <2> QED BY <1>3, <1>4, <2>1, <2>2 DEF Steady, OpsMade, WaitersOfGuild, OfCategory
<1>6. OpsOfGuild'
  <2>1. \A x \in Ids : \A j \in DOMAIN queue'[x] : DependsOn(queue'[x][j]) \subseteq ChannelsInGuild
    BY <1>2 DEF Steady, OpsOfGuild
  <2> QED BY <1>4, <2>1 DEF Steady, OpsOfGuild
<1>7. ASSUME NEW c \in ChannelsInGuild
      PROVE  Kept(c)' /\ (row'[c].status = "active" \/ ToBeMapped(c)')
  <2>1. Kept(c) /\ (row[c].status = "active" \/ ToBeMapped(c)) /\ c \in Ids
    BY DEF Steady, Followed, ChannelsInGuild, Ids
  <2>2. KeptByHandlers(c)' /\ (ToCome(c) => ToCome(c)') /\ (ToSubmit(c) => ToSubmit(c)')
    BY <1>4, <2>1 DEF Kept, KeptByHandlers, ToCome, ToSubmit
  <2>3. KeptByQueue(c)'
    BY <1>2, <2>1 DEF Kept, KeptByQueue
  <2>4. KeptByWorker(c)'
    <3>1. c = k => op.kind # "channelDelete"
      BY <1>2, <2>1 DEF Kept, KeptByQueue
    <3> QED BY <1>3, <2>1, <3>1 DEF Kept, KeptByWorker
  <2>5. Queued(c) => Queued(c)' \/ AtWork(c)'
    <3>1. CASE c # k
      BY <1>2, <2>1, <3>1 DEF Queued
    <3>2. CASE c = k
      <4>1. op.kind = "channel" => AtWork(c)'
        BY <1>3, <3>2 DEF AtWork
      <4>2. op.kind # "channel" /\ Queued(c) => Queued(c)'
        BY <1>2, <3>2 DEF Queued
      <4> QED BY <4>1, <4>2
    <3> QED BY <3>1, <3>2
  <2>6. AtWork(c) => AtWork(c)'
    BY <1>3, <2>1 DEF AtWork
  <2> QED BY <1>4, <2>1, <2>2, <2>3, <2>4, <2>5, <2>6 DEF Kept, ToBeMapped
<1> QED BY <1>4, <1>5, <1>6, <1>7 DEF Steady, Followed

LEMMA MissChannelSteady ==
  ASSUME Typed, Steady, NEW k \in Ids, MissChannel(k)
  PROVE  Steady'
<1>1. PICK op \in OpType : op = Head(queue[k])
  BY TakenOff DEF MissChannel, Typed
<1>2. /\ \E j \in DOMAIN queue[k] : queue[k][j] = op
      /\ \A x \in Ids \ {k} : queue'[x] = queue[x]
      /\ \A j \in DOMAIN queue'[k] : \E m \in DOMAIN queue[k] : queue'[k][j] = queue[k][m]
      /\ \A m \in DOMAIN queue[k] :
           queue[k][m] = op \/ \E j \in DOMAIN queue'[k] : queue'[k][j] = queue[k][m]
  <2>1. QueuesTyped /\ queue[k] # <<>> /\ queue' = [queue EXCEPT ![k] = Tail(@)]
    BY DEF MissChannel, Typed
  <2>2. TakenFrom(k, Head(queue[k]))
    BY <2>1, HeadTakenFrom
  <2> QED BY <1>1, <2>2 DEF TakenFrom
<1>3. PICK d \in Missing(op) :
        worker' = [worker EXCEPT ![k] = [Idle EXCEPT !.pc = "defer", !.op = op, !.missing = d]]
  BY <1>1 DEF MissChannel
<1>4. /\ UNCHANGED <<guild, handler, waiters, row>> /\ ChannelsInGuild' = ChannelsInGuild
      /\ worker[k].pc = "idle"
  BY DEF MissChannel, discord, rows, ChannelsInGuild, At
<1>5. OfCategory(op) /\ d \in ChannelsInGuild
  <2>1. d \in DependsOn(op) /\ op.kind = "category"
    BY <1>3 DEF Missing, DependsOn
  <2>2. DependsOn(op) \subseteq ChannelsInGuild
    BY <1>2 DEF Steady, OpsOfGuild
  <2> QED BY <2>1, <2>2 DEF OfCategory
<1>6. /\ worker'[k].pc = "defer" /\ worker'[k].op = op /\ worker'[k].missing = d
      /\ worker'[k].pushing = <<>> /\ \A x \in Ids \ {k} : worker'[x] = worker[x]
  BY <1>3, IdleType DEF Typed, WorkersTyped, Idle
<1>7. OpsMade'
  BY <1>4 DEF Steady, OpsMade
<1>8. OpsOfGuild'
  <2>1. \A x \in Ids : \A j \in DOMAIN queue'[x] : DependsOn(queue'[x][j]) \subseteq ChannelsInGuild
    BY <1>2 DEF Steady, OpsOfGuild
  <2> QED BY <1>4, <2>1 DEF Steady, OpsOfGuild
<1>9. WaitersOfGuild'
  <2>1. \A c \in Channels : worker[c].pc = "notify" => worker'[c].pc = "notify"
    BY <1>4, <1>6 DEF Ids
  <2> QED BY <1>4, <1>5, <1>6, <2>1 DEF Steady, WaitersOfGuild, OfCategory
<1>10. ASSUME NEW c \in ChannelsInGuild
       PROVE  Kept(c)' /\ (row'[c].status = "active" \/ ToBeMapped(c)')
  <2>1. Kept(c) /\ (row[c].status = "active" \/ ToBeMapped(c)) /\ c \in Ids
    BY DEF Steady, Followed, ChannelsInGuild, Ids
  <2>2. KeptByHandlers(c)' /\ (ToCome(c) => ToCome(c)') /\ (ToSubmit(c) => ToSubmit(c)')
    BY <1>4, <2>1 DEF Kept, KeptByHandlers, ToCome, ToSubmit
  <2>3. KeptByQueue(c)' /\ KeptByWorker(c)'
    BY <1>2, <1>6, <2>1 DEF Kept, KeptByQueue, KeptByWorker
  <2>4. (Queued(c) => Queued(c)') /\ (AtWork(c) => AtWork(c)')
    BY <1>2, <1>4, <1>5, <1>6, <2>1 DEF Queued, AtWork, OfCategory
  <2> QED BY <1>4, <2>1, <2>2, <2>3, <2>4 DEF Kept, ToBeMapped
<1> QED BY <1>4, <1>7, <1>8, <1>9, <1>10 DEF Steady, Followed

(* A worker's step that leaves handlers, queues and rows alone.             *)
LEMMA WorkerStepSteady ==
  ASSUME Typed, Steady, NEW k \in Ids, NEW w, worker' = [worker EXCEPT ![k] = w],
         UNCHANGED <<guild, handler, queue, row>>, WaitersOfGuild',
         w.pc \notin {"channel", "create", "channelDelete"},
         worker[k].pc \notin {"channel", "create"}
  PROVE  Steady'
<1>1. worker'[k] = w /\ \A x \in Ids \ {k} : worker'[x] = worker[x]
  BY DEF Typed, WorkersTyped
<1>2. ChannelsInGuild' = ChannelsInGuild /\ \A c \in ChannelsInGuild : c \in Ids
  BY DEF ChannelsInGuild, Ids
<1>3. OpsMade' /\ OpsOfGuild'
  BY <1>2 DEF Steady, OpsMade, OpsOfGuild
<1>4. \A c \in ChannelsInGuild : Kept(c) => Kept(c)'
  BY <1>1, <1>2 DEF Kept, KeptByHandlers, KeptByQueue, KeptByWorker
<1>5. \A c \in ChannelsInGuild : ToBeMapped(c) => ToBeMapped(c)'
  BY <1>1, <1>2 DEF ToBeMapped, ToCome, ToSubmit, Queued, AtWork
<1> QED BY <1>2, <1>3, <1>4, <1>5 DEF Steady, Followed

LEMMA DeferSteady ==
  ASSUME Typed, Steady, NEW k \in Ids, Defer(k), missed' = {}
  PROVE  Steady'
<1>1. PICK op \in OpType, d \in Channels : op = worker[k].op /\ d = worker[k].missing
  BY DEF Defer, At, Typed, WorkersTyped
<1>2. /\ waiters' = [waiters EXCEPT ![d] = Append(@, op)]
      /\ row[d].status # "active" \/ worker[d].pc = "notify"
  BY <1>1 DEF Defer, At
<1>3. /\ UNCHANGED <<guild, handler, queue, row>> /\ ChannelsInGuild' = ChannelsInGuild
      /\ worker' = [worker EXCEPT ![k] = Idle] /\ worker[k].pc = "defer"
  BY DEF Defer, discord, rows, ChannelsInGuild, At, Return
<1>4. OfCategory(op) /\ d \in ChannelsInGuild
  BY <1>1, <1>3 DEF Steady, WaitersOfGuild
<1>5. worker'[k] = Idle /\ \A x \in Ids \ {k} : worker'[x] = worker[x]
  BY <1>3 DEF Typed, WorkersTyped
<1>6. WaitersOfGuild'
  <2>1. PICK ws \in Seq(OpType) : ws = waiters[d]
    BY DEF Typed, RestTyped
  <2>2. waiters'[d] = Append(ws, op) /\ \A c \in Channels \ {d} : waiters'[c] = waiters[c]
    BY <1>2, <2>1 DEF Typed, RestTyped
  <2>3. \A j \in DOMAIN Append(ws, op) :
          Append(ws, op)[j] = op \/ (j \in DOMAIN ws /\ Append(ws, op)[j] = ws[j])
    BY <2>1
  <2>4. \A j \in DOMAIN waiters'[d] : OfCategory(waiters'[d][j])
    BY <1>4, <2>1, <2>2, <2>3 DEF Steady, WaitersOfGuild
  <2>5. \A c \in Channels : worker[c].pc = "notify" => worker'[c].pc = "notify"
    BY <1>3, <1>5 DEF Ids
  <2>6. \A op_1 : OfCategory(op_1) => OfCategory(op_1)'
    BY <1>3 DEF OfCategory, DependsOn
  <2>7. ASSUME NEW c \in Channels
        PROVE  /\ \A j \in DOMAIN waiters'[c] : OfCategory(waiters'[c][j])
               /\ waiters'[c] # <<>> =>
                    c \in ChannelsInGuild /\ (row[c].status # "active" \/ worker'[c].pc = "notify")
    BY <1>2, <1>4, <2>2, <2>4, <2>5 DEF Steady, WaitersOfGuild
  <2> QED BY <1>3, <1>5, <2>7, IdleType DEF Steady, WaitersOfGuild, OfCategory
<1> QED BY <1>3, <1>6, IdleType, WorkerStepSteady

(* A category's steps leave the channels alone.                             *)
LEMMA CategoryStepPushing ==
  ASSUME Typed, NEW k \in Categories, CategoryStep(k)
  PROVE  worker'[k].pushing \in {<<>>, worker[k].pushing} /\ worker'[k].pc # "defer"
<1>1. k \in Ids /\ worker \in [Ids -> WorkerType] /\ worker[k] \in WorkerType
  BY DEF Ids, Typed, WorkersTyped
<1>2. CASE Return(k)
  BY <1>1, <1>2, IdleType DEF Return
<1>3. CASE ResolveChannelID(k)
  <2>1. PICK c, m : worker' = [worker EXCEPT ![k].unread = @ \ {c}, ![k].ids = m]
    BY <1>3 DEF ResolveChannelID
  <2>2. worker[k].pc = "apply"
    BY <1>3 DEF ResolveChannelID, At
  <2> QED BY <1>1, <2>1, <2>2 DEF WorkerType
<1>4. ASSUME NEW l \in {"apply", "confirm", "forget"}, worker' = [worker EXCEPT ![k].pc = l]
      PROVE  worker'[k].pushing \in {<<>>, worker[k].pushing} /\ worker'[k].pc # "defer"
  BY <1>1, <1>4 DEF WorkerType
<1>5. \/ Return(k) \/ ResolveChannelID(k)
      \/ \E l \in {"apply", "confirm", "forget"} : worker' = [worker EXCEPT ![k].pc = l]
  BY DEF CategoryStep, Skip, WritePending, SetCategories, Confirm, Remove
<1> QED BY <1>2, <1>3, <1>4, <1>5

LEMMA CategoryStepSteady ==
  ASSUME Typed, Steady, NEW k \in Categories, CategoryStep(k)
  PROVE  Steady'
<1>1. /\ UNCHANGED <<guild, handler, queue, waiters, row>> /\ ChannelsInGuild' = ChannelsInGuild
      /\ \E w : worker' = [worker EXCEPT ![k] = w]
  <2>1. worker \in [Ids -> WorkerType]
    BY DEF Typed, WorkersTyped
  <2>2. UNCHANGED <<guild, handler, queue, waiters, row>>
    BY DEF CategoryStep, Skip, WritePending, ResolveChannelID, SetCategories, Confirm, Remove, discord, rows
  <2>3. ASSUME Return(k) PROVE \E w : worker' = [worker EXCEPT ![k] = w]
    BY <2>3 DEF Return
  <2>4. ASSUME \E l : worker' = [worker EXCEPT ![k].pc = l]
        PROVE \E w : worker' = [worker EXCEPT ![k] = w]
    <3>1. PICK l : worker' = [worker EXCEPT ![k].pc = l]
      BY <2>4
    <3> QED BY <3>1
  <2>5. ASSUME ResolveChannelID(k) PROVE \E w : worker' = [worker EXCEPT ![k] = w]
    <3>1. PICK c, m : worker' = [worker EXCEPT ![k].unread = @ \ {c}, ![k].ids = m]
      BY <2>5 DEF ResolveChannelID
    <3>2. worker' = [worker EXCEPT ![k] = [worker[k] EXCEPT !.unread = @ \ {c}, !.ids = m]]
      BY <2>1, <3>1
    <3> QED BY <3>2
  <2>6. Return(k) \/ ResolveChannelID(k) \/ \E l : worker' = [worker EXCEPT ![k].pc = l]
    BY DEF CategoryStep, Skip, WritePending, SetCategories, Confirm, Remove
  <2>7. \E w : worker' = [worker EXCEPT ![k] = w]
    BY <2>3, <2>4, <2>5, <2>6
  <2> QED BY <2>2, <2>7 DEF ChannelsInGuild
<1>2. \A c \in Channels : worker'[c] = worker[c]
  <2>1. \A c \in Channels : c # k /\ c \in Ids
    BY SyncAssumption DEF Ids
  <2> QED BY <1>1, <2>1 DEF Typed, WorkersTyped
<1>pushing. worker'[k].pushing \in {<<>>, worker[k].pushing} /\ worker'[k].pc # "defer"
  BY CategoryStepPushing
<1>others. \A x \in Ids \ {k} : worker'[x] = worker[x]
  BY <1>1 DEF Typed, WorkersTyped
<1>3. OpsMade' /\ OpsOfGuild' /\ WaitersOfGuild'
  BY <1>1, <1>2, <1>pushing, <1>others DEF Steady, OpsMade, OpsOfGuild, WaitersOfGuild, OfCategory
<1>4. \A c \in ChannelsInGuild : Kept(c) => Kept(c)'
  BY <1>1, <1>2 DEF Kept, KeptByHandlers, KeptByQueue, KeptByWorker, ChannelsInGuild
<1>5. \A c \in ChannelsInGuild : ToBeMapped(c) => ToBeMapped(c)'
  BY <1>1, <1>2 DEF ToBeMapped, ToCome, ToSubmit, Queued, AtWork, ChannelsInGuild
<1> QED BY <1>1, <1>3, <1>4, <1>5 DEF Steady, Followed

(* A channel's.                                                             *)
LEMMA WriteChannelPendingSteady ==
  ASSUME Typed, Steady, NEW k \in Channels, WriteChannelPending(k)
  PROVE  Steady'
<1>1. /\ worker'[k].pc = "create" /\ \A x \in Ids \ {k} : worker'[x] = worker[x]
      /\ row'[k].status = "pending" /\ \A x \in Channels \ {k} : row'[x] = row[x]
      /\ worker[k].pc = "channel" /\ worker'[k].pushing = worker[k].pushing
  BY DEF Typed, WorkersTyped, WorkerType, RowsTyped, RowType, WriteChannelPending, At, Ids
<1>2. UNCHANGED <<guild, handler, queue, waiters>> /\ ChannelsInGuild' = ChannelsInGuild
  BY DEF WriteChannelPending, discord, ChannelsInGuild
<1>3. OpsMade' /\ OpsOfGuild'
  BY <1>2 DEF Steady, OpsMade, OpsOfGuild
<1>4. WaitersOfGuild'
  BY <1>1, <1>2 DEF Steady, WaitersOfGuild, OfCategory, Ids
<1>5. ASSUME NEW c \in ChannelsInGuild
      PROVE  Kept(c)' /\ (row'[c].status = "active" \/ ToBeMapped(c)')
  <2>1. Kept(c) /\ (row[c].status = "active" \/ ToBeMapped(c)) /\ c \in Ids /\ c \in Channels
    BY DEF Steady, Followed, ChannelsInGuild, Ids
  <2>2. Kept(c)'
    BY <1>1, <1>2, <2>1 DEF Kept, KeptByHandlers, KeptByQueue, KeptByWorker
  <2>3. CASE c = k
    BY <1>1, <2>2, <2>3 DEF ToBeMapped, AtWork
  <2>4. CASE c # k
    <3>1. ToBeMapped(c) => ToBeMapped(c)'
      BY <1>1, <1>2, <2>1, <2>4 DEF ToBeMapped, ToCome, ToSubmit, Queued, AtWork
    <3> QED BY <1>1, <2>1, <2>2, <2>4, <3>1
  <2> QED BY <2>3, <2>4
<1> QED BY <1>2, <1>3, <1>4, <1>5 DEF Steady, Followed

LEMMA ConfirmChannelSteady ==
  ASSUME Typed, Steady, NEW k \in Channels, ConfirmChannel(k)
  PROVE  Steady'
<1>1. /\ worker'[k].pc = "notify" /\ \A x \in Ids \ {k} : worker'[x] = worker[x]
      /\ row'[k].status = "active" /\ \A x \in Channels \ {k} : row'[x] = row[x]
      /\ worker'[k].pushing = worker[k].pushing
  BY DEF Typed, WorkersTyped, WorkerType, RowsTyped, ConfirmChannel, Ids
<1>2. UNCHANGED <<guild, handler, queue, waiters>> /\ ChannelsInGuild' = ChannelsInGuild
  BY DEF ConfirmChannel, discord, ChannelsInGuild
<1>3. OpsMade' /\ OpsOfGuild'
  BY <1>2 DEF Steady, OpsMade, OpsOfGuild
<1>4. WaitersOfGuild'
  BY <1>1, <1>2 DEF Steady, WaitersOfGuild, OfCategory, Ids
<1>5. ASSUME NEW c \in ChannelsInGuild
      PROVE  Kept(c)' /\ (row'[c].status = "active" \/ ToBeMapped(c)')
  <2>1. Kept(c) /\ (row[c].status = "active" \/ ToBeMapped(c)) /\ c \in Ids /\ c \in Channels
    BY DEF Steady, Followed, ChannelsInGuild, Ids
  <2>2. Kept(c)'
    BY <1>1, <1>2, <2>1 DEF Kept, KeptByHandlers, KeptByQueue, KeptByWorker
  <2>3. c # k /\ ToBeMapped(c) => ToBeMapped(c)'
    BY <1>1, <1>2, <2>1 DEF ToBeMapped, ToCome, ToSubmit, Queued, AtWork
  <2> QED BY <1>1, <2>1, <2>2, <2>3
<1> QED BY <1>2, <1>3, <1>4, <1>5 DEF Steady, Followed

LEMMA TakeWaitersSteady ==
  ASSUME Typed, Steady, NEW k \in Channels, TakeWaiters(k)
  PROVE  Steady'
<1>1. /\ UNCHANGED <<guild, handler, queue, row>> /\ ChannelsInGuild' = ChannelsInGuild
      /\ worker[k].pc = "notify" /\ k \in Ids
  BY DEF TakeWaiters, discord, rows, ChannelsInGuild, At, Ids
<1>2. PICK w : w.pc = "push" /\ w.pushing = waiters[k] /\ worker' = [worker EXCEPT ![k] = w]
  <2> DEFINE w == [worker[k] EXCEPT !.pc = "push", !.pushing = waiters[k]]
  <2>1. worker[k] \in WorkerType /\ worker \in [Ids -> WorkerType]
    BY <1>1 DEF Typed, WorkersTyped
  <2>2. w.pc = "push" /\ w.pushing = waiters[k] /\ worker' = [worker EXCEPT ![k] = w]
    BY <2>1 DEF WorkerType, TakeWaiters
  <2> QED BY <2>2
<1>3. worker'[k] = w /\ \A x \in Ids \ {k} : worker'[x] = worker[x]
  BY <1>1, <1>2 DEF Typed, WorkersTyped
<1>4. waiters'[k] = <<>> /\ \A x \in Channels \ {k} : waiters'[x] = waiters[x]
  BY DEF TakeWaiters, Typed, RestTyped
<1>5. WaitersOfGuild'
  <2>1. \A j \in DOMAIN w.pushing : OfCategory(w.pushing[j])
    BY <1>2 DEF Steady, WaitersOfGuild
  <2>2. \A c \in Channels \ {k} : worker'[c] = worker[c] /\ waiters'[c] = waiters[c]
    BY <1>3, <1>4 DEF Ids
  <2> QED BY <1>1, <1>2, <1>3, <1>4, <2>1, <2>2 DEF Steady, WaitersOfGuild, OfCategory
<1> QED BY <1>1, <1>2, <1>5, WorkerStepSteady

LEMMA PushWaiterSteady ==
  ASSUME Typed, Steady, NEW k \in Channels, PushWaiter(k)
  PROVE  Steady'
<1>1. PICK op \in OpType :
        /\ Joins(op)
        /\ \E j \in DOMAIN worker[k].pushing : worker[k].pushing[j] = op
        /\ worker' = [worker EXCEPT ![k].pushing = Tail(@)]
        /\ \A j \in DOMAIN Tail(worker[k].pushing) : \E m \in DOMAIN worker[k].pushing :
             Tail(worker[k].pushing)[j] = worker[k].pushing[m]
  BY Pushed
<1>2. /\ UNCHANGED <<guild, handler, waiters, row>> /\ ChannelsInGuild' = ChannelsInGuild
      /\ k \in Ids
  BY DEF PushWaiter, discord, rows, ChannelsInGuild, Ids
<1>3. /\ worker'[k].pc = worker[k].pc /\ worker'[k].pushing = Tail(worker[k].pushing)
      /\ worker'[k].op = worker[k].op /\ worker'[k].missing = worker[k].missing
      /\ \A x \in Ids \ {k} : worker'[x] = worker[x]
  BY <1>1, <1>2 DEF Typed, WorkersTyped, WorkerType
<1>4. OfCategory(op)
  BY <1>1, <1>2 DEF Steady, WaitersOfGuild
<1>5. OpsMade'
  BY <1>2 DEF Steady, OpsMade
<1>6. OpsOfGuild'
  <2>1. \A x \in Ids : \A j \in DOMAIN queue'[x] : DependsOn(queue'[x][j]) \subseteq ChannelsInGuild
    BY <1>1, <1>4 DEF Joins, Steady, OpsOfGuild, OfCategory
  <2> QED BY <1>2, <2>1 DEF Steady, OpsOfGuild
<1>7. WaitersOfGuild'
  <2>1. \A j \in DOMAIN worker'[k].pushing : OfCategory(worker'[k].pushing[j])
    BY <1>1, <1>2, <1>3 DEF Steady, WaitersOfGuild
  <2>2. \A x \in Ids : /\ worker'[x].pc = worker[x].pc /\ worker'[x].op = worker[x].op
                       /\ worker'[x].missing = worker[x].missing
    BY <1>3
  <2>3. \A c \in Channels : worker'[c].pc = worker[c].pc
    BY <2>2 DEF Ids
  <2>4. \A x \in Ids : \A j \in DOMAIN worker'[x].pushing : OfCategory(worker'[x].pushing[j])
    BY <1>3, <2>1 DEF Steady, WaitersOfGuild
  <2>5. \A x \in Ids : worker'[x].pc = "defer" =>
          OfCategory(worker'[x].op) /\ worker'[x].missing \in ChannelsInGuild
    BY <2>2 DEF Steady, WaitersOfGuild
  <2> QED BY <1>2, <2>3, <2>4, <2>5 DEF Steady, WaitersOfGuild, OfCategory
<1>8. ASSUME NEW c \in ChannelsInGuild
      PROVE  Kept(c)' /\ (row'[c].status = "active" \/ ToBeMapped(c)')
  <2>1. Kept(c) /\ (row[c].status = "active" \/ ToBeMapped(c)) /\ c \in Ids /\ c \in Channels
    BY DEF Steady, Followed, ChannelsInGuild, Ids
  <2>2. worker'[c].pc = worker[c].pc
    BY <1>3, <2>1
  <2>3. KeptByQueue(c)'
    BY <1>1, <1>4, <2>1 DEF Joins, Kept, KeptByQueue, OfCategory
  <2>4. KeptByHandlers(c)' /\ KeptByWorker(c)'
    BY <1>2, <2>1, <2>2 DEF Kept, KeptByHandlers, KeptByWorker
  <2>5. Queued(c) => Queued(c)'
    BY <1>1, <2>1 DEF Joins, Queued
  <2>6. ToBeMapped(c) => ToBeMapped(c)'
    BY <1>2, <2>2, <2>5 DEF ToBeMapped, ToCome, ToSubmit, AtWork
  <2> QED BY <1>2, <2>1, <2>3, <2>4, <2>6 DEF Kept
<1> QED BY <1>2, <1>5, <1>6, <1>7, <1>8 DEF Steady, Followed

LEMMA NotifiedSteady ==
  ASSUME Typed, Steady, NEW k \in Channels, Notified(k)
  PROVE  Steady'
<1>1. /\ UNCHANGED <<guild, handler, queue, waiters, row>> /\ ChannelsInGuild' = ChannelsInGuild
      /\ worker' = [worker EXCEPT ![k] = Idle] /\ worker[k].pc = "push" /\ k \in Ids
  BY DEF Notified, discord, rows, ChannelsInGuild, At, Return, Ids
<1>2. worker'[k] = Idle /\ \A x \in Ids \ {k} : worker'[x] = worker[x]
  BY <1>1 DEF Typed, WorkersTyped
<1>3. \A c \in Channels : worker[c].pc = "notify" => worker'[c].pc = "notify"
  BY <1>1, <1>2 DEF Ids
<1>4. WaitersOfGuild'
  BY <1>1, <1>2, <1>3, IdleType DEF Steady, WaitersOfGuild, OfCategory
<1> QED BY <1>1, <1>4, IdleType, WorkerStepSteady

LEMMA RemoveChannelSteady ==
  ASSUME Typed, Steady, NEW k \in Channels, RemoveChannel(k)
  PROVE  Steady'
<1>1. /\ worker'[k] = Idle /\ \A x \in Ids \ {k} : worker'[x] = worker[x]
      /\ row'[k].status # "active" /\ \A x \in Channels \ {k} : row'[x] = row[x]
      /\ worker[k].pc = "channelDelete"
  BY DEF Typed, WorkersTyped, RowsTyped, RemoveChannel, Return, At, Unmapped, Ids
<1>2. UNCHANGED <<guild, handler, queue, waiters>> /\ ChannelsInGuild' = ChannelsInGuild
  BY DEF RemoveChannel, discord, ChannelsInGuild
<1>3. k \notin ChannelsInGuild
  BY <1>1 DEF Steady, Followed, Kept, KeptByWorker
<1>4. OpsMade' /\ OpsOfGuild'
  BY <1>2 DEF Steady, OpsMade, OpsOfGuild
<1>5. WaitersOfGuild'
  BY <1>1, <1>2, IdleType DEF Steady, WaitersOfGuild, OfCategory, Ids
<1>6. ASSUME NEW c \in ChannelsInGuild
      PROVE  Kept(c)' /\ (row'[c].status = "active" \/ ToBeMapped(c)')
  <2>1. /\ Kept(c) /\ (row[c].status = "active" \/ ToBeMapped(c))
        /\ c \in Ids /\ c \in Channels /\ c # k
    BY <1>3 DEF Steady, Followed, ChannelsInGuild, Ids
  <2>2. Kept(c)'
    BY <1>1, <1>2, <2>1 DEF Kept, KeptByHandlers, KeptByQueue, KeptByWorker
  <2>3. ToBeMapped(c) => ToBeMapped(c)'
    BY <1>1, <1>2, <2>1 DEF ToBeMapped, ToCome, ToSubmit, Queued, AtWork
  <2> QED BY <1>1, <2>1, <2>2, <2>3
<1> QED BY <1>2, <1>4, <1>5, <1>6 DEF Steady, Followed

LEMMA NextSteady ==
  ASSUME Spaced = TRUE, Typed, SteadyUntilFault, [Next]_vars
  PROVE  SteadyUntilFault'
<1>1. SUFFICES ASSUME faults' = 0, missed' = {} PROVE Steady'
  BY DEF SteadyUntilFault
<1>2. ASSUME NEW k \in Ids, Fail(k) PROVE FALSE
  <2>1. faults' = faults + 1 /\ faults \in Nat
    BY <1>2, SyncAssumption DEF Fail, Typed, RestTyped
  <2> QED BY <1>1, <2>1
<1>3. faults = 0 /\ missed = {}
  <2>1. CASE UNCHANGED vars
    BY <1>1, <2>1 DEF vars
  <2>2. CASE Next
    BY <1>1, <1>2, <2>2
       DEF Next, Discord, Handle, HandleOwn, SubmitCategoryOps, Submit, Handled, Take, MissChannel, Defer,
           CategoryStep, Skip, WritePending, ResolveChannelID, SetCategories, Confirm, Remove,
           ChannelStep, WriteChannelPending, ConfirmChannel, TakeWaiters, PushWaiter, Notified, RemoveChannel
  <2> QED BY <2>1, <2>2
<1>4. Steady
  BY <1>3 DEF SteadyUntilFault
<1>5. CASE Discord
  BY <1>4, <1>5, DiscordSteady
<1>6. ASSUME NEW i \in 0..MaxEvents, Handle(i) PROVE Steady'
  BY <1>4, <1>6, HandleOwnSteady, SubmitCategoryOpsSteady, SubmitSteady, HandledSteady DEF Handle
<1>7. ASSUME NEW k \in Ids, Take(k) \/ MissChannel(k) \/ Defer(k) PROVE Steady'
  BY <1>1, <1>4, <1>7, TakeSteady, MissChannelSteady, DeferSteady
<1>8. ASSUME NEW k \in Categories, CategoryStep(k) PROVE Steady'
  BY <1>4, <1>8, CategoryStepSteady
<1>9. ASSUME NEW c \in Channels, ChannelStep(c) PROVE Steady'
  BY <1>4, <1>9, WriteChannelPendingSteady, ConfirmChannelSteady, TakeWaitersSteady, PushWaiterSteady,
     NotifiedSteady, RemoveChannelSteady DEF ChannelStep
<1>10. CASE UNCHANGED vars
  <2>1. UNCHANGED <<guild, handler, queue, worker, waiters, row>> /\ ChannelsInGuild' = ChannelsInGuild
    BY <1>10 DEF vars, discord, rows, ChannelsInGuild
  <2>2. OpsMade' /\ OpsOfGuild' /\ WaitersOfGuild'
    BY <1>4, <2>1 DEF Steady, OpsMade, OpsOfGuild, WaitersOfGuild, OfCategory
  <2>3. \A c \in ChannelsInGuild : (Kept(c) => Kept(c)') /\ (ToBeMapped(c) => ToBeMapped(c)')
    BY <2>1 DEF Kept, KeptByHandlers, KeptByQueue, KeptByWorker,
                ToBeMapped, ToCome, ToSubmit, Queued, AtWork
  <2> QED BY <1>4, <2>1, <2>2, <2>3 DEF Steady, Followed
<1> QED BY <1>2, <1>5, <1>6, <1>7, <1>8, <1>9, <1>10 DEF Next

(* Where one event is dealt with before the next, no category op waits for  *)
(* a channel once all is quiet, unless a call failed or deferOp came too    *)
(* late: the channel it waits for is the guild's, and the worker that maps  *)
(* it sends the op back (notifyWaiters), in whichever order handlers and    *)
(* workers run.                                                             *)
THEOREM NoOpStranded ==
  ASSUME Spaced = TRUE
  PROVE  Spec => []NothingStranded
<1>1. Init => SteadyUntilFault
  BY InitSteady DEF SteadyUntilFault
<1>2. IInv /\ SteadyUntilFault /\ [Next]_vars => SteadyUntilFault'
  BY NextSteady DEF IInv
<1>3. IInv /\ SteadyUntilFault => NothingStranded
  BY NoneFollowedIfQuiet DEF IInv, SteadyUntilFault, NothingStranded
<1> QED BY <1>1, <1>2, <1>3, AlwaysTyped, PTL DEF Spec

-----------------------------------------------------------------------------
(* Guilds of one list.                                                      *)
Sidebar(g) ==
  [i \in DOMAIN Ordered(CategoriesOf(g)) |->
     [id |-> Ordered(CategoriesOf(g))[i].id, name |-> Ordered(CategoriesOf(g))[i].name,
      channels |-> IdsOf(Ordered(Members(g, Ordered(CategoriesOf(g))[i].id)))]]

(* Where positions differ, up to the first place where two orders differ    *)
(* they agree, and what either has there is the least of what is left.      *)
LEMMA NotAfter ==
  ASSUME NEW S, IsFiniteSet(S), NEW s \in Sorted(S), NEW t \in Sorted(S),
         NEW i \in DOMAIN s, \A j \in DOMAIN s : j < i => s[j] = t[j], s[i] # t[i]
  PROVE  t[i].pos <= s[i].pos
<1>1. Cardinality(S) \in Nat
  BY FS_CardinalityType
<1>2. DOMAIN s = 1..Cardinality(S) /\ DOMAIN t = 1..Cardinality(S)
  BY DEF Sorted
<1>3. PICK j \in DOMAIN t : t[j] = s[i]
  <2>1. s[i] \in S
    BY <1>2 DEF Sorted
  <2> QED BY <2>1, SortedProperties
<1>4. i < j
  <2>1. ASSUME j < i PROVE FALSE
    <3>1. s[j] = s[i] /\ s[j] # s[i]
      BY <1>2, <1>3, <2>1 DEF Sorted
    <3> QED BY <3>1
  <2> QED BY <1>1, <1>2, <1>3, <2>1
<1> QED BY <1>2, <1>3, <1>4 DEF Sorted

LEMMA OneOrder ==
  ASSUME NEW S, IsFiniteSet(S), \A c \in S : c.pos \in Nat, Untied(S),
         NEW s \in Sorted(S), NEW t \in Sorted(S)
  PROVE  s = t
<1>1. Cardinality(S) \in Nat
  BY FS_CardinalityType
<1>2. /\ s \in [1..Cardinality(S) -> S] /\ t \in [1..Cardinality(S) -> S]
  BY DEF Sorted
<1> DEFINE T == {i \in 1..Cardinality(S) : s[i] # t[i]}
<1>3. SUFFICES ASSUME T # {} PROVE FALSE
  <2>1. ASSUME T = {} PROVE s = t
    <3>1. \A i \in 1..Cardinality(S) : s[i] = t[i]
      BY <2>1
    <3> HIDE DEF T
    <3>2. s = [i \in 1..Cardinality(S) |-> s[i]] /\ t = [i \in 1..Cardinality(S) |-> t[i]]
      BY <1>2
    <3>3. [i \in 1..Cardinality(S) |-> s[i]] = [i \in 1..Cardinality(S) |-> t[i]]
      BY <3>1
    <3> QED BY <3>2, <3>3, Zenon
  <2> QED BY <1>3, <2>1
<1>4. PICK i \in T : \A j \in T : i <= j
  <2>1. T \subseteq Nat
    BY <1>1
  <2> HIDE DEF T
  <2> QED BY <1>3, <2>1, LeastNatural
<1>5. i \in 1..Cardinality(S) /\ s[i] # t[i]
  OBVIOUS
<1>6. \A j \in 1..Cardinality(S) : j < i => s[j] = t[j]
  BY <1>1, <1>4, <1>5
<1>7. t[i].pos <= s[i].pos
  BY <1>2, <1>5, <1>6, NotAfter
<1>8. s[i].pos <= t[i].pos
  BY <1>2, <1>5, <1>6, NotAfter
<1>9. s[i] \in S /\ t[i] \in S
  BY <1>2, <1>5
<1>10. s[i].pos = t[i].pos
  BY <1>7, <1>8, <1>9
<1> QED BY <1>5, <1>9, <1>10 DEF Untied

LEMMA OneList ==
  ASSUME NEW g \in Guilds \cup {First}, TellsApart(g)
  PROVE  CategoriesFromState(g) = {Sidebar(g)}
<1> DEFINE cs == CategoriesOf(g)
           ListedAs(o) == [i \in DOMAIN o |-> [id |-> o[i].id, name |-> o[i].name,
                                               channels |-> IdsOf(Ordered(Members(g, o[i].id)))]]
<1>1. CategoriesFromState(g) = {ListedAs(o) : o \in Sorted(cs)}
  BY DEF CategoriesFromState
<1>2. cs \in SUBSET g /\ Untied(cs) /\ IsFiniteSet(cs) /\ \A c \in cs : c.pos \in Nat
  BY GuildSorted, GuildsAssumption DEF TellsApart, CategoriesOf
<1>3. Ordered(cs) \in Sorted(cs)
  BY <1>2, GuildSorted
<1>4. \A o \in Sorted(cs) : o = Ordered(cs)
  BY <1>2, <1>3, OneOrder
<1>5. ListedAs(Ordered(cs)) = Sidebar(g)
  BY DEF Sidebar
<1> HIDE DEF ListedAs, cs
<1> QED BY <1>1, <1>3, <1>4, <1>5

LEMMA SidebarProperties ==
  ASSUME NEW g \in Guilds \cup {First}, TellsApart(g), NEW cats, cats = Sidebar(g)
  PROVE  /\ cats \in Seq(CategoryType)
         /\ \A i \in DOMAIN cats : cats[i].id \in Categories /\ cats[i].id \in IdsIn(g)
         /\ \A i, j \in DOMAIN cats : cats[i].id = cats[j].id => i = j
         /\ \A k \in Categories : k \in IdsIn(g) => \E i \in DOMAIN cats : cats[i].id = k
         /\ \A i \in DOMAIN cats : \A c \in Members(g, cats[i].id) :
              \E j \in DOMAIN cats[i].channels : cats[i].channels[j] = c.id
         /\ \A c \in ChannelsIn(cats) : c \in Channels /\ c \in IdsIn(g)
<1> DEFINE cs == CategoriesOf(g)
           s  == Ordered(cs)
           M(i) == Members(g, s[i].id)
<1>1. cs \in SUBSET g /\ Untied(cs) /\ \A c \in cs : c.id \in Categories /\ c.id \in IdsIn(g)
  BY DEF TellsApart, CategoriesOf, IdsIn
<1>2. s \in Sorted(cs)
  BY <1>1, GuildSorted
<1>3. s \in Seq(cs) /\ \A c \in cs : \E i \in DOMAIN s : s[i] = c
  BY <1>1, <1>2, GuildSorted
<1>4. DOMAIN cats = DOMAIN s /\ \A i \in DOMAIN s :
        cats[i].id = s[i].id /\ cats[i].channels = IdsOf(Ordered(M(i)))
  BY DEF Sidebar
<1>5. cats \in CategoriesFromState(g)
  BY OneList
<1>6. /\ cats \in Seq(CategoryType)
      /\ \A i \in DOMAIN cats : \A j \in DOMAIN cats[i].channels :
              cats[i].channels[j] \in Channels /\ cats[i].channels[j] \in IdsIn(g)
  BY <1>5, CategoriesFromStateList
<1>7. \A i \in DOMAIN s : s[i] \in cs
  <2> HIDE DEF cs, s
  <2> QED BY <1>3
<1>8. \A i, j \in DOMAIN cats : cats[i].id = cats[j].id => i = j
  <2>1. DOMAIN s = 1..Cardinality(cs) /\ \A i, j \in DOMAIN s : i < j => s[i] # s[j]
    BY <1>2 DEF Sorted
  <2>2. Cardinality(cs) \in Nat
    BY <1>1, GuildsAssumption, FS_Subset, FS_CardinalityType
  <2>3. ASSUME NEW i \in DOMAIN s, NEW j \in DOMAIN s, s[i].id = s[j].id PROVE i = j
    <3>1. s[i] \in g /\ s[j] \in g
      BY <1>1, <1>7
    <3>2. s[i] = s[j]
      BY <2>3, <3>1 DEF TellsApart
    <3> HIDE DEF s, cs
    <3>3. i \in Nat /\ j \in Nat /\ ~(i < j) /\ ~(j < i)
      BY <2>1, <2>2, <3>2
    <3> QED BY <3>3
  <2> QED BY <1>4, <2>3
<1>9. ASSUME NEW k \in Categories, k \in IdsIn(g) PROVE \E i \in DOMAIN cats : cats[i].id = k
  <2>1. PICK c \in cs : c.id = k
    BY <1>9 DEF IdsIn, CategoriesOf
  <2> HIDE DEF cs, s
  <2> QED BY <1>3, <1>4, <2>1
<1>10. ASSUME NEW i \in DOMAIN cats, NEW c \in Members(g, cats[i].id)
       PROVE  \E j \in DOMAIN cats[i].channels : cats[i].channels[j] = c.id
  <2>1. i \in DOMAIN s /\ s[i].id \in Categories /\ s[i].id \in IdsIn(g)
    BY <1>1, <1>4, <1>7
  <2>2. M(i) \in SUBSET g /\ c \in M(i)
    BY <1>4, <1>10, <2>1 DEF Members
  <2>3. Ordered(M(i)) \in Sorted(M(i))
    BY <2>2, GuildSorted
  <2>4. \E j \in DOMAIN Ordered(M(i)) : Ordered(M(i))[j] = c
    BY <2>2, <2>3, GuildSorted
  <2>5. cats[i].channels = IdsOf(Ordered(M(i)))
    BY <1>4, <2>1
  <2> HIDE DEF M
  <2> QED BY <2>4, <2>5 DEF IdsOf
<1>11. \A c \in ChannelsIn(cats) : c \in Channels /\ c \in IdsIn(g)
  BY <1>6 DEF ChannelsIn
<1>12. \A i \in DOMAIN cats : cats[i].id \in Categories /\ cats[i].id \in IdsIn(g)
  BY <1>1, <1>4, <1>7
<1> QED BY <1>6, <1>8, <1>9, <1>10, <1>11, <1>12

(* Guilds that have the same categories list them alike, and a category     *)
(* that has the same channels is the same.                                  *)
LEMMA SidebarAgrees ==
  ASSUME NEW g, NEW h, CategoriesOf(g) = CategoriesOf(h)
  PROVE  /\ DOMAIN Sidebar(g) = DOMAIN Sidebar(h)
         /\ \A i \in DOMAIN Sidebar(g) :
              /\ Sidebar(g)[i].id = Sidebar(h)[i].id
              /\ Members(g, Sidebar(g)[i].id) = Members(h, Sidebar(g)[i].id) => Sidebar(g)[i] = Sidebar(h)[i]
BY DEF Sidebar

(* Once each channel has been looked up, what is sent is the list itself.   *)
LEMMA ResolvedInFull ==
  ASSUME NEW cats \in Seq(CategoryType), NEW ids, NEW S,
         ChannelsIn(cats) \subseteq DOMAIN ids, ChannelsIn(cats) \subseteq S,
         \A c \in DOMAIN ids : ids[c] = c
  PROVE  Resolved(cats, ids) = Resolved(cats, Itself(S))
<1>1. ASSUME NEW i \in DOMAIN cats
      PROVE  Resolved(cats, ids)[i] = Resolved(cats, Itself(S))[i]
  <2> DEFINE list == cats[i].channels
             P(m) == {j \in DOMAIN list : list[j] \in DOMAIN m}
             known(m) == Picked(list, P(m))
  <2>1. \A j \in DOMAIN list : list[j] \in DOMAIN ids /\ list[j] \in S
    BY DEF ChannelsIn
  <2>2. P(ids) = DOMAIN list /\ P(Itself(S)) = DOMAIN list
    BY <2>1 DEF Itself
  <2>3. list \in Seq(Channels)
    <3>1. cats[i] \in CategoryType
      OBVIOUS
    <3> QED BY <3>1 DEF CategoryType
  <2> DEFINE all == Picked(list, DOMAIN list)
  <2>4. \A n \in DOMAIN all : \E p \in DOMAIN list : all[n] = list[p]
    <3>1. DOMAIN list \in SUBSET DOMAIN list
      OBVIOUS
    <3> HIDE DEF list
    <3> QED BY <2>3, <3>1, PickedProperties
  <2> HIDE DEF list, all
  <2>5. \A n \in DOMAIN all : ids[all[n]] = all[n] /\ Itself(S)[all[n]] = all[n]
    BY <2>1, <2>4 DEF Itself
  <2>6. [j \in DOMAIN all |-> ids[all[j]]] = [j \in DOMAIN all |-> Itself(S)[all[j]]]
    BY <2>5
  <2>7. known(ids) = all /\ known(Itself(S)) = all
    BY <2>2 DEF all
  <2>8. Resolved(cats, ids)[i] = [id |-> cats[i].id, name |-> cats[i].name,
                                  channels |-> [j \in DOMAIN all |-> ids[all[j]]]]
    BY <2>2 DEF Resolved, all, list
  <2>9. Resolved(cats, Itself(S))[i] = [id |-> cats[i].id, name |-> cats[i].name,
                                        channels |-> [j \in DOMAIN all |-> Itself(S)[all[j]]]]
    BY <2>2 DEF Resolved, all, list
  <2> QED BY <2>6, <2>8, <2>9
<1>2. /\ Resolved(cats, ids) = [i \in DOMAIN cats |-> Resolved(cats, ids)[i]]
      /\ Resolved(cats, Itself(S)) = [i \in DOMAIN cats |-> Resolved(cats, Itself(S))[i]]
  BY DEF Resolved
<1> QED BY <1>1, <1>2, Zenon

(* Each element at the positions P is picked.                               *)
LEMMA PickedHasAll ==
  ASSUME NEW S, NEW s \in Seq(S), NEW P \in SUBSET DOMAIN s, NEW p \in P
  PROVE  \E n \in DOMAIN Picked(s, P) : Picked(s, P)[n] = s[p]
<1> DEFINE UpTo(x) == {q \in P : q <= x}
           n == Cardinality(UpTo(p))
           at == CHOOSE x \in P : Cardinality(UpTo(x)) = n
<1>1. DOMAIN s = 1..Len(s) /\ Len(s) \in Nat
  OBVIOUS
<1>2. IsFiniteSet(P) /\ P \subseteq Nat
  <2>1. IsFiniteSet(1..Len(s))
    BY <1>1, FS_Interval
  <2> QED BY <1>1, <2>1, FS_Subset
<1>3. n \in 1..Cardinality(P)
  <2>1. UpTo(p) \subseteq P /\ p \in UpTo(p)
    BY <1>2
  <2> HIDE DEF UpTo
  <2>2. IsFiniteSet(UpTo(p)) /\ Cardinality(UpTo(p)) <= Cardinality(P)
    BY <1>2, <2>1, FS_Subset
  <2>3. Cardinality(UpTo(p)) \in Nat /\ Cardinality(UpTo(p)) # 0 /\ Cardinality(P) \in Nat
    BY <1>2, <2>1, <2>2, FS_CardinalityType, FS_EmptySet
  <2> QED BY <2>2, <2>3
<1>4. at \in P /\ Cardinality(UpTo(at)) = n
  OBVIOUS
<1> HIDE DEF at
<1>5. UpTo(at) = UpTo(p)
  <2>1. UpTo(at) \subseteq UpTo(p) \/ UpTo(p) \subseteq UpTo(at)
    BY <1>2, <1>4
  <2>2. IsFiniteSet(UpTo(at)) /\ IsFiniteSet(UpTo(p))
    BY <1>2, FS_Subset
  <2> HIDE DEF UpTo
  <2> QED BY <1>4, <2>1, <2>2, FS_Subset
<1>6. at = p
  <2>1. at \in UpTo(p) /\ p \in UpTo(at)
    BY <1>2, <1>4, <1>5
  <2> QED BY <1>2, <1>4, <2>1
<1>7. n \in DOMAIN Picked(s, P) /\ Picked(s, P)[n] = s[at]
  BY <1>3 DEF Picked, at
<1> QED BY <1>6, <1>7

-----------------------------------------------------------------------------
(* One event at a time, in a guild that was mirrored at the start, whose    *)
(* channels do not change and which has one list.                           *)
Listed == Sidebar(guild)

AllApart == \A g \in Guilds \cup {First} : TellsApart(g)

(* Only the handler of the last event may be running, and what it was       *)
(* started with fits the guild.                                             *)
Last == handler[events]

Alone == \A i \in 0..MaxEvents : i # events => handler[i].pc \in {"none", "done"}

OfGuild ==
  /\ Last.kind \in {"none"} \cup OpKinds
  /\ Last.kind \in {"category", "categoryDelete"} => Last.id \in Categories
  /\ Last.kind \in {"channel", "channelDelete"} => Last.id \in Channels
  /\ Last.kind = "channel" => Last.id \in ChannelsInGuild
  /\ Last.kind = "categoryDelete" => Last.id \notin IdsIn(guild)

(* The event's own op is in one place.                                      *)
Own(op, h) == op.kind = h.kind /\ op.id = h.id /\ op.kind # "category"

NothingSubmitted ==
  Last.pc = "own" \/ (Last.pc = "ownOps" /\ Last.ops # <<>>) =>
    /\ \A k \in Ids : queue[k] = <<>> /\ worker[k].pc = "idle"
    /\ \A c \in Channels : waiters[c] = <<>>

InHandler ==
  /\ Last.pc = "ownOps" => Len(Last.ops) <= 1 /\ \A j \in DOMAIN Last.ops : Own(Last.ops[j], Last)
  /\ Last.pc = "catOps" => \A j \in DOMAIN Last.ops : Last.ops[j].kind = "category"

InQueues ==
  \A k \in Ids : \A j \in DOMAIN queue[k] :
    queue[k][j].kind # "category" =>
      Own(queue[k][j], Last) /\ Len(queue[k]) = 1 /\ worker[k].pc = "idle"

Labelled(w) ==
  /\ w.pc \in {"defer", "category", "confirm"} => w.op.kind = "category"
  /\ w.pc = "apply" => w.op.kind \in {"category", "categoryDelete"}
  /\ w.pc = "forget" => w.op.kind = "categoryDelete"
  /\ w.pc \in {"channel", "create", "notify", "push"} => w.op.kind = "channel"

AtWorkers ==
  \A k \in Ids : worker[k].pc # "idle" =>
    /\ Labelled(worker[k])
    /\ worker[k].op.kind # "category" => Own(worker[k].op, Last) /\ queue[k] = <<>>

(* Ops hold the list of the guild.                                          *)
Says(op, cats) ==
  /\ op.kind \in {"category", "categoryDelete"} => op.cats = cats
  /\ op.kind = "category" => \E i \in DOMAIN cats : op.id = cats[i].id /\ op.want = Desired(cats, i)

OpsSay ==
  /\ \A j \in DOMAIN Last.ops : Says(Last.ops[j], Listed)
  /\ \A k \in Ids : \A j \in DOMAIN queue[k] : Says(queue[k][j], Listed)
  /\ \A c \in Channels : \A j \in DOMAIN waiters[c] : Says(waiters[c][j], Listed)
  /\ \A k \in Ids : /\ worker[k].pc # "idle" => Says(worker[k].op, Listed)
                    /\ \A j \in DOMAIN worker[k].pushing : Says(worker[k].pushing[j], Listed)

(* A list is sent once every channel is mapped, each looked up when it was. *)
LookUps ==
  \A k \in Ids : worker[k].pc \in {"category", "apply"} =>
    /\ ChannelsIn(Listed) \subseteq worker[k].unread \cup DOMAIN worker[k].ids
    /\ \A c \in DOMAIN worker[k].ids : worker[k].ids[c] = c
    /\ \A c \in DependsOn(worker[k].op) : row[c].status = "active"
    /\ worker[k].pc = "apply" => \A c \in ChannelsIn(Listed) : row[c].status = "active"

UnderWay ==
  Alone /\ NothingSubmitted /\ InHandler /\ InQueues /\ AtWorkers /\ OpsSay /\ LookUps

(* The channels of the guild are mapped but for one that was just created.  *)
RowsFollow ==
  /\ \A c \in ChannelsInGuild : row[c].status = "active" \/ (Last.kind = "channel" /\ Last.id = c)
  /\ \A c \in Channels : row[c].status = "active" => c \in IdsIn(guild) \cup gone
  /\ \A c \in Channels : ToBeMapped(c) => row[c].status # "active"

Absent ==
  /\ gone \cap IdsIn(guild) = {}
  /\ \A k \in Categories : stored[k] # NoId => k \in IdsIn(guild) \cup gone

(* A category's row says what the guild does, or an op that will have it do *)
(* so is to come; in the meantime only its own channels may be unmapped.    *)
Right(i) == stored[Listed[i].id] = Desired(Listed, i)

Pushing(k) ==
  \E c \in Channels : \E j \in DOMAIN worker[c].pushing : worker[c].pushing[j].id = k

CategoryOpToCome(k) ==
  \/ Last.pc \in {"own", "ownOps"}
  \/ \E j \in DOMAIN Last.ops : Last.ops[j].kind = "category" /\ Last.ops[j].id = k
  \/ \E j \in DOMAIN queue[k] : queue[k][j].kind = "category"
  \/ \E c \in Channels : \E j \in DOMAIN waiters[c] : waiters[c][j].id = k
  \/ Pushing(k)
  \/ worker[k].pc \in {"defer", "category"}

Mine(c, i) == \E j \in DOMAIN Listed[i].channels : Listed[i].channels[j] = c

StoredFollows ==
  \A i \in DOMAIN Listed : \A k \in Categories : Listed[i].id = k =>
    Right(i) \/ /\ CategoryOpToCome(k)
                /\ \A c \in ChannelsIn(Listed) : row[c].status = "active" \/ Mine(c, i)

(* Stoat shows the guild's list, or it is to be sent.                       *)
DeleteToCome ==
  \/ Last.pc = "own" /\ Last.kind = "categoryDelete"
  \/ \E j \in DOMAIN Last.ops : Last.ops[j].kind = "categoryDelete"
  \/ \E k \in Ids : \E j \in DOMAIN queue[k] : queue[k][j].kind = "categoryDelete"

Sending == \E k \in Ids : worker[k].pc = "apply"

Mirrors == shown = Resolved(Listed, Itself(IdsIn(guild)))

ListSent == Mirrors \/ DeleteToCome \/ Sending \/ \E i \in DOMAIN Listed : ~Right(i)

Standing == OfGuild /\ RowsFollow /\ Absent /\ StoredFollows /\ ListSent

Even == UnderWay /\ Standing

EvenUntilFault == faults = 0 /\ missed = {} => Even

-----------------------------------------------------------------------------
LEMMA ListedProperties ==
  ASSUME Typed, AllApart
  PROVE  /\ Listed \in Seq(CategoryType) /\ CategoriesFromState(guild) = {Listed}
         /\ \A i \in DOMAIN Listed : Listed[i].id \in Categories /\ Listed[i].id \in IdsIn(guild)
         /\ \A i, j \in DOMAIN Listed : Listed[i].id = Listed[j].id => i = j
         /\ \A k \in Categories : k \in IdsIn(guild) => \E i \in DOMAIN Listed : Listed[i].id = k
         /\ \A i \in DOMAIN Listed : \A c \in Members(guild, Listed[i].id) : Mine(c.id, i)
         /\ \A c \in ChannelsIn(Listed) : c \in ChannelsInGuild
<1>1. guild \in Guilds \cup {First} /\ TellsApart(guild)
  BY DEF Typed, RestTyped, AllApart
<1>2. PICK cats : cats = Sidebar(guild)
  OBVIOUS
<1>3. CategoriesFromState(guild) = {cats}
  BY <1>1, <1>2, OneList
<1> QED BY <1>1, <1>2, <1>3, SidebarProperties DEF Listed, Mine, ChannelsInGuild

(* An own op is not of a category of the list.                              *)
LEMMA OwnIsNotListed ==
  ASSUME Typed, AllApart, OfGuild, NEW op \in OpType, Own(op, Last)
  PROVE  \A i \in DOMAIN Listed : Listed[i].id # op.id
<1>1. \A i \in DOMAIN Listed : Listed[i].id \in Categories /\ Listed[i].id \in IdsIn(guild)
  BY ListedProperties
<1>2. op.kind \in {"categoryDelete", "channel", "channelDelete"}
  BY DEF Own, OpType, OpKinds
<1>3. op.kind = "categoryDelete" => op.id \notin IdsIn(guild)
  BY DEF Own, OfGuild
<1>4. op.kind # "categoryDelete" => op.id \in Channels
  BY <1>2 DEF Own, OfGuild
<1> QED BY <1>1, <1>3, <1>4, SyncAssumption

(* A step that only moves ops along.                                        *)
LEMMA Moved ==
  ASSUME Typed, AllApart, Standing, UNCHANGED <<guild, gone, events, row, stored, shown>>,
         Last'.kind = Last.kind, Last'.id = Last.id,
         \A c \in Channels : ToBeMapped(c)' => ToBeMapped(c),
         \A i \in DOMAIN Listed : \A k \in Categories :
           Listed[i].id = k /\ CategoryOpToCome(k) => CategoryOpToCome(k)',
         DeleteToCome \/ Sending => DeleteToCome' \/ Sending'
  PROVE  Standing'
<1>1. Listed' = Listed /\ ChannelsInGuild' = ChannelsInGuild
  BY DEF Listed, ChannelsInGuild
<1>2. OfGuild'
  BY <1>1 DEF Standing, OfGuild
<1>3. RowsFollow'
  BY <1>1 DEF Standing, RowsFollow
<1>4. Absent'
  BY DEF Standing, Absent
<1>5. \A i \in DOMAIN Listed : (Right(i) <=> Right(i)') /\ (\A c : Mine(c, i) <=> Mine(c, i)')
  BY <1>1 DEF Right, Mine
<1>6. StoredFollows'
  <2>1. ASSUME NEW i \in DOMAIN Listed, NEW k \in Categories, Listed[i].id = k
        PROVE  \/ Right(i)'
               \/ /\ CategoryOpToCome(k)'
                  /\ \A c \in ChannelsIn(Listed) : row'[c].status = "active" \/ Mine(c, i)'
    BY <1>5, <2>1 DEF Standing, StoredFollows
  <2> QED BY <1>1, <2>1 DEF StoredFollows
<1>7. ListSent'
  BY <1>1, <1>5 DEF Standing, ListSent, Mirrors
<1> QED BY <1>2, <1>3, <1>4, <1>6, <1>7 DEF Standing

(* A handler's steps.                                                       *)
LEMMA HandleOwnEven ==
  ASSUME Typed, Steady, AllApart, Even, NEW i \in 0..MaxEvents, HandleOwn(i)
  PROVE  Even'
<1>1. PICK cats \in CategoriesFromState(guild) :
        handler' = [handler EXCEPT ![i].pc = "ownOps", ![i].ops = OwnOps(handler[i], cats)]
  BY DEF HandleOwn
<1>2. cats = Listed
  BY ListedProperties
<1>3. /\ i = events /\ handler[i] \in HandlerType /\ Kinded(handler[i]) /\ handler[i].pc = "own"
      /\ handler \in [0..MaxEvents -> HandlerType] /\ handler[i].ops = <<>>
  BY DEF Typed, HandlersTyped, HandleOwn, Steady, OpsMade, Even, UnderWay, Alone
<1>4. PICK ops : ops = OwnOps(handler[i], cats)
  OBVIOUS
<1>5. /\ Last.pc = "own" /\ Last'.pc = "ownOps" /\ Last'.ops = ops
      /\ Last'.kind = Last.kind /\ Last'.id = Last.id
      /\ \A n \in (0..MaxEvents) \ {i} : handler'[n] = handler[n]
  BY <1>1, <1>3, <1>4 DEF HandlerType, Last, HandleOwn, discord
<1>6. UNCHANGED <<guild, gone, events, queue, worker, waiters, row, stored, shown>>
  BY DEF HandleOwn, discord, rows
<1>7. Listed' = Listed /\ ChannelsInGuild' = ChannelsInGuild
  BY <1>6 DEF Listed, ChannelsInGuild
<1>8. /\ Len(ops) <= 1
      /\ \A j \in DOMAIN ops : Own(ops[j], Last) /\ Says(ops[j], Listed)
      /\ Last.kind = "categoryDelete" => \E j \in DOMAIN ops : ops[j].kind = "categoryDelete"
  <2>1. Last.kind # "converge" /\ handler[i] = Last
    BY <1>3 DEF Last, Even, Standing, OfGuild, OpKinds
  <2>2. CASE Last.kind = "category"
    <3>1. ops = <<>>
      BY <1>4, <2>1, <2>2 DEF OwnOps
    <3> QED BY <2>2, <3>1
  <2>3. CASE Last.kind = "categoryDelete"
    <3>1. ops = <<BuildCategoryDeleteOp(Last.id, cats)>>
      BY <1>4, <2>1, <2>3 DEF OwnOps
    <3> QED BY <1>2, <2>3, <3>1 DEF BuildCategoryDeleteOp, Op, Own, Says
  <2>4. CASE Last.kind \in {"channel", "channelDelete"}
    <3>1. ops = <<ChannelOp(Last.kind, Last.id)>>
      BY <1>4, <2>1, <2>4 DEF OwnOps
    <3> QED BY <2>4, <3>1 DEF ChannelOp, Op, Own, Says
  <2> QED BY <1>3, <2>1, <2>2, <2>3, <2>4 DEF Kinded
<1>9. UnderWay'
  <2>1. Alone' /\ NothingSubmitted' /\ InHandler'
    BY <1>3, <1>5, <1>6, <1>8 DEF Even, UnderWay, Alone, NothingSubmitted, InHandler, Own
  <2>2. InQueues' /\ AtWorkers'
    BY <1>5, <1>6 DEF Even, UnderWay, InQueues, AtWorkers, Own
  <2>3. OpsSay' /\ LookUps'
    BY <1>5, <1>6, <1>7, <1>8 DEF Even, UnderWay, OpsSay, LookUps
  <2> QED BY <2>1, <2>2, <2>3 DEF UnderWay
<1>10. ASSUME NEW c \in Channels, ToBeMapped(c)' PROVE ToBeMapped(c)
  <2>1. CASE ToCome(c)'
    <3>1. ToCome(c)
      BY <1>3, <1>5, <1>6, <2>1 DEF ToCome, Last
    <3> QED BY <3>1 DEF ToBeMapped
  <2>2. CASE ToSubmit(c)'
    <3>1. PICK n \in 0..MaxEvents : \E j \in DOMAIN handler'[n].ops :
            handler'[n].ops[j].kind = "channel" /\ handler'[n].ops[j].id = c
      BY <2>2 DEF ToSubmit
    <3>2. CASE n # i
      BY <1>5, <3>1, <3>2 DEF ToSubmit, ToBeMapped
    <3>3. CASE n = i
      <4>1. \E j \in DOMAIN ops : ops[j].kind = "channel" /\ ops[j].id = c
        BY <1>1, <1>3, <1>4, <3>1, <3>3 DEF HandlerType
      <4>2. handler[i].kind = "channel" /\ handler[i].id = c
        BY <1>3, <1>8, <4>1 DEF Own, Last
      <4> QED BY <1>3, <4>2 DEF ToCome, ToBeMapped
    <3> QED BY <3>2, <3>3
  <2>3. CASE Queued(c)' \/ AtWork(c)'
    BY <1>6, <2>3 DEF Queued, AtWork, ToBeMapped
  <2> QED BY <1>10, <2>1, <2>2, <2>3 DEF ToBeMapped
<1>11. \A k \in Categories : CategoryOpToCome(k)'
  BY <1>5 DEF CategoryOpToCome
<1>12. DeleteToCome \/ Sending => DeleteToCome' \/ Sending'
  BY <1>3, <1>5, <1>6, <1>8 DEF DeleteToCome, Sending, Last
<1>13. Standing'
  BY <1>5, <1>6, <1>10, <1>11, <1>12, Moved DEF Even
<1> QED BY <1>9, <1>13 DEF Even

LEMMA SubmitCategoryOpsEven ==
  ASSUME Typed, Steady, AllApart, Even, NEW i \in 0..MaxEvents, SubmitCategoryOps(i)
  PROVE  Even'
<1>1. PICK ops : /\ ops = [j \in DOMAIN Listed |-> BuildCategoryOp(Listed, j)]
                 /\ handler' = [handler EXCEPT ![i].pc = "catOps", ![i].ops = ops]
  <2>1. PICK cats \in CategoriesFromState(guild) :
          handler' = [handler EXCEPT ![i].pc = "catOps",
                                     ![i].ops = [j \in DOMAIN cats |-> BuildCategoryOp(cats, j)]]
    BY DEF SubmitCategoryOps
  <2>2. cats = Listed
    BY ListedProperties
  <2> QED BY <2>1, <2>2
<1>2. /\ i = events /\ handler[i] \in HandlerType /\ handler[i].pc = "ownOps"
      /\ handler \in [0..MaxEvents -> HandlerType] /\ handler[i].ops = <<>>
  BY DEF Typed, HandlersTyped, SubmitCategoryOps, Even, UnderWay, Alone
<1>3. /\ Last.pc = "ownOps" /\ Last.ops = <<>> /\ Last'.pc = "catOps" /\ Last'.ops = ops
      /\ Last'.kind = Last.kind /\ Last'.id = Last.id
      /\ \A n \in (0..MaxEvents) \ {i} : handler'[n] = handler[n]
  BY <1>1, <1>2 DEF HandlerType, Last, SubmitCategoryOps, discord
<1>4. UNCHANGED <<guild, gone, events, queue, worker, waiters, row, stored, shown>>
  BY DEF SubmitCategoryOps, discord, rows
<1>5. Listed' = Listed
  BY <1>4 DEF Listed
<1>6. \A j \in DOMAIN ops : ops[j].kind = "category" /\ ops[j].id = Listed[j].id /\ Says(ops[j], Listed)
  BY <1>1 DEF BuildCategoryOp, Op, Says
<1>7. UnderWay'
  <2>1. Alone' /\ NothingSubmitted' /\ InHandler'
    BY <1>2, <1>3, <1>4, <1>6 DEF Even, UnderWay, Alone, NothingSubmitted, InHandler
  <2>2. InQueues' /\ AtWorkers'
    BY <1>3, <1>4 DEF Even, UnderWay, InQueues, AtWorkers, Own
  <2>3. OpsSay' /\ LookUps'
    BY <1>3, <1>4, <1>5, <1>6 DEF Even, UnderWay, OpsSay, LookUps
  <2> QED BY <2>1, <2>2, <2>3 DEF UnderWay
<1>8. ASSUME NEW c \in Channels, ToBeMapped(c)' PROVE ToBeMapped(c)
  <2>1. ToCome(c)' => ToCome(c)
    BY <1>2, <1>3, <1>4 DEF ToCome, Last
  <2>2. ToSubmit(c)' => ToSubmit(c)
    BY <1>2, <1>3, <1>4, <1>6 DEF ToSubmit, Last
  <2>3. (Queued(c)' => Queued(c)) /\ (AtWork(c)' => AtWork(c))
    BY <1>4 DEF Queued, AtWork
  <2> QED BY <1>8, <2>1, <2>2, <2>3 DEF ToBeMapped
<1>9. DeleteToCome \/ Sending => DeleteToCome' \/ Sending'
  BY <1>3, <1>4 DEF DeleteToCome, Sending
<1>10. \A j \in DOMAIN Listed : \A k \in Categories : Listed[j].id = k => CategoryOpToCome(k)'
  BY <1>1, <1>3, <1>6 DEF CategoryOpToCome
<1>11. Standing'
  BY <1>3, <1>4, <1>8, <1>9, <1>10, Moved DEF Even
<1> QED BY <1>7, <1>11 DEF Even

LEMMA SubmitEven ==
  ASSUME Typed, Steady, AllApart, Even, NEW i \in 0..MaxEvents, Submit(i)
  PROVE  Even'
<1>1. /\ handler[i] \in HandlerType /\ handler[i].ops # <<>>
      /\ handler \in [0..MaxEvents -> HandlerType] /\ i = events
  BY DEF Typed, HandlersTyped, Submit, Steady, OpsMade, Even, UnderWay, Alone
<1>2. PICK ops \in Seq(OpType) : ops = Last.ops /\ ops # <<>> /\ ops = handler[i].ops
  BY <1>1 DEF HandlerType, Last
<1>3. PICK op \in OpType : op = Head(ops) /\ op = ops[1] /\ 1 \in DOMAIN ops
  BY <1>2
<1>4. /\ queue' = [queue EXCEPT ![op.id] = Append(@, op)]
      /\ handler' = [handler EXCEPT ![i].ops = Tail(ops)]
  BY <1>2, <1>3 DEF Submit
<1>5. UNCHANGED <<guild, gone, events, worker, waiters, row, stored, shown>>
  BY DEF Submit, discord, rows
<1>6. /\ Last'.pc = Last.pc /\ Last'.kind = Last.kind /\ Last'.id = Last.id /\ Last'.ops = Tail(ops)
      /\ \A n \in (0..MaxEvents) \ {i} : handler'[n] = handler[n]
  BY <1>1, <1>4, <1>5 DEF HandlerType, Last
<1>7. \A j \in DOMAIN Tail(ops) : \E m \in DOMAIN ops : Tail(ops)[j] = ops[m]
  <2> TAKE j \in DOMAIN Tail(ops)
  <2>1. j + 1 \in DOMAIN ops /\ Tail(ops)[j] = ops[j + 1]
    BY <1>2
  <2> QED BY <2>1
<1>8. \A m \in DOMAIN ops : ops[m] = op \/ \E j \in DOMAIN Tail(ops) : Tail(ops)[j] = ops[m]
  <2> TAKE m \in DOMAIN ops
  <2>1. CASE m = 1
    BY <1>3, <2>1
  <2>2. CASE m # 1
    <3>1. m - 1 \in DOMAIN Tail(ops) /\ Tail(ops)[m - 1] = ops[m]
      BY <1>2, <2>2
    <3> QED BY <3>1
  <2> QED BY <2>1, <2>2
<1>9. op.id \in Ids /\ queue \in [Ids -> Seq(OpType)]
  BY DEF OpType, Typed, QueuesTyped
<1>10. /\ \A k \in Ids \ {op.id} : queue'[k] = queue[k]
       /\ \A j \in DOMAIN queue'[op.id] :
            queue'[op.id][j] = op \/ (j \in DOMAIN queue[op.id] /\ queue'[op.id][j] = queue[op.id][j])
       /\ \A j \in DOMAIN queue[op.id] : j \in DOMAIN queue'[op.id] /\ queue'[op.id][j] = queue[op.id][j]
       /\ \E j \in DOMAIN queue'[op.id] : queue'[op.id][j] = op
       /\ queue[op.id] = <<>> => Len(queue'[op.id]) = 1
  <2>1. PICK q \in Seq(OpType) : q = queue[op.id]
    BY <1>9
  <2>2. queue'[op.id] = Append(q, op)
    BY <1>4, <1>9, <2>1
  <2>3. /\ \A j \in DOMAIN Append(q, op) : Append(q, op)[j] = op \/ (j \in DOMAIN q /\ Append(q, op)[j] = q[j])
        /\ \A j \in DOMAIN q : j \in DOMAIN Append(q, op) /\ Append(q, op)[j] = q[j]
        /\ Len(q) + 1 \in DOMAIN Append(q, op) /\ Append(q, op)[Len(q) + 1] = op
        /\ q = <<>> => Len(Append(q, op)) = 1
    BY <2>1
  <2> QED BY <1>4, <1>9, <2>1, <2>2, <2>3
<1>11. Last.pc \in {"ownOps", "catOps"}
  <2>1. Last.pc \notin {"none", "own", "done"} /\ handler[i] = Last
    BY <1>1 DEF Last, Steady, OpsMade
  <2> QED BY <1>1, <2>1 DEF HandlerType
<1>12. /\ Last.pc = "ownOps" => /\ Own(op, Last) /\ Tail(ops) = <<>>
                                /\ \A k \in Ids : queue[k] = <<>> /\ worker[k].pc = "idle"
       /\ Last.pc = "catOps" => op.kind = "category" /\ \E m \in DOMAIN Listed : op.id = Listed[m].id
  <2>1. Says(op, Listed)
    BY <1>2, <1>3 DEF Even, UnderWay, OpsSay
  <2>2. CASE Last.pc = "ownOps"
    <3>1. Own(op, Last) /\ Len(ops) <= 1
      BY <1>2, <1>3, <2>2 DEF Even, UnderWay, InHandler
    <3>2. Tail(ops) = <<>>
      BY <1>2, <3>1
    <3> QED BY <1>2, <2>2, <3>1, <3>2 DEF Even, UnderWay, NothingSubmitted
  <2>3. CASE Last.pc = "catOps"
    BY <1>2, <1>3, <2>1, <2>3 DEF Even, UnderWay, InHandler, Says
  <2> QED BY <2>2, <2>3
<1>13. Last.pc = "catOps" => \A o \in OpType : Own(o, Last) => o.id # op.id
  <2>1. OfGuild
    BY DEF Even, Standing
  <2> QED BY <1>12, <2>1, OwnIsNotListed
<1>14. Listed' = Listed
  BY <1>5 DEF Listed
<1>15. UnderWay'
  <2>1. Alone' /\ NothingSubmitted'
    BY <1>1, <1>5, <1>6, <1>11, <1>12 DEF Even, UnderWay, Alone, NothingSubmitted
  <2>2. InHandler'
    <3>1. Last.pc = "catOps" => \A j \in DOMAIN Tail(ops) : Tail(ops)[j].kind = "category"
      BY <1>2, <1>7 DEF Even, UnderWay, InHandler
    <3>2. Last.pc = "ownOps" => Len(Tail(ops)) <= 1 /\ \A j \in DOMAIN Tail(ops) : FALSE
      <4>1. PICK t : t = Tail(ops)
        OBVIOUS
      <4>2. Last.pc = "ownOps" => t = <<>>
        BY <1>12, <4>1
      <4>3. t = <<>> => Len(t) <= 1 /\ \A j \in DOMAIN t : FALSE
        OBVIOUS
      <4> QED BY <4>1, <4>2, <4>3
    <3> QED BY <1>6, <3>1, <3>2 DEF InHandler
  <2>3. InQueues'
    <3>1. ASSUME NEW k \in Ids, NEW j \in DOMAIN queue'[k], queue'[k][j].kind # "category"
          PROVE  Own(queue'[k][j], Last) /\ Len(queue'[k]) = 1 /\ worker[k].pc = "idle"
      <4>1. CASE k # op.id
        BY <1>10, <3>1, <4>1 DEF Even, UnderWay, InQueues
      <4>2. CASE k = op.id /\ Last.pc = "ownOps"
        BY <1>10, <1>12, <3>1, <4>2
      <4>3. CASE k = op.id /\ Last.pc = "catOps"
        <5>1. j \in DOMAIN queue[k] /\ queue'[k][j] = queue[k][j]
          BY <1>10, <1>12, <3>1, <4>3
        <5>2. Own(queue[k][j], Last)
          BY <3>1, <5>1 DEF Even, UnderWay, InQueues
        <5>3. queue[k][j] \in OpType /\ queue[k][j].id = k
          BY <1>9, <5>1 DEF Typed, QueuesTyped
        <5> QED BY <1>13, <4>3, <5>2, <5>3
      <4> QED BY <1>11, <4>1, <4>2, <4>3
    <3> QED BY <1>5, <1>6, <3>1 DEF InQueues, Own
  <2>4. AtWorkers'
    <3>1. ASSUME NEW k \in Ids, worker[k].pc # "idle", worker[k].op.kind # "category"
          PROVE  Own(worker[k].op, Last) /\ queue'[k] = <<>>
      <4>1. Own(worker[k].op, Last) /\ queue[k] = <<>>
        BY <3>1 DEF Even, UnderWay, AtWorkers
      <4>2. Last.pc = "catOps"
        BY <1>11, <1>12, <3>1
      <4>3. worker[k].op \in OpType /\ worker[k].op.id = k
        BY <3>1, IdleType DEF Typed, WorkersTyped
      <4>4. k # op.id
        BY <1>13, <4>1, <4>2, <4>3
      <4> QED BY <1>10, <4>1, <4>4
    <3> QED BY <1>5, <1>6, <3>1 DEF Even, UnderWay, AtWorkers, Own
  <2>5. OpsSay'
    <3>1. \A m \in DOMAIN ops : Says(ops[m], Listed)
      BY <1>2 DEF Even, UnderWay, OpsSay
    <3>2. \A j \in DOMAIN Tail(ops) : Says(Tail(ops)[j], Listed)
      BY <1>7, <3>1
    <3>3. Says(op, Listed)
      BY <1>3, <3>1
    <3>4. \A k \in Ids : \A j \in DOMAIN queue'[k] : Says(queue'[k][j], Listed)
      BY <1>10, <3>3 DEF Even, UnderWay, OpsSay
    <3> QED BY <1>5, <1>6, <1>14, <3>2, <3>4 DEF Even, UnderWay, OpsSay
  <2>6. LookUps'
    BY <1>5, <1>14 DEF Even, UnderWay, LookUps
  <2> QED BY <2>1, <2>2, <2>3, <2>4, <2>5, <2>6 DEF UnderWay
<1>16. ASSUME NEW c \in Channels, ToBeMapped(c)' PROVE ToBeMapped(c)
  <2>1. ToCome(c)' => ToCome(c)
    BY <1>1, <1>5, <1>6 DEF ToCome, Last
  <2>2. ToSubmit(c)' => ToSubmit(c)
    <3>1. SUFFICES ASSUME ToSubmit(c)' PROVE ToSubmit(c)
      OBVIOUS
    <3>2. PICK n \in 0..MaxEvents : \E j \in DOMAIN handler'[n].ops :
            handler'[n].ops[j].kind = "channel" /\ handler'[n].ops[j].id = c
      BY <3>1 DEF ToSubmit
    <3>3. CASE n # i
      BY <1>6, <3>2, <3>3 DEF ToSubmit
    <3>4. CASE n = i
      <4>1. \E j \in DOMAIN Tail(ops) : Tail(ops)[j].kind = "channel" /\ Tail(ops)[j].id = c
        BY <1>1, <1>5, <1>6, <3>2, <3>4 DEF Last
      <4>2. \E m \in DOMAIN ops : ops[m].kind = "channel" /\ ops[m].id = c
        BY <1>7, <4>1
      <4> QED BY <1>2, <4>2 DEF ToSubmit
    <3> QED BY <3>3, <3>4
  <2>3. Queued(c)' => Queued(c) \/ ToSubmit(c)
    <3>1. SUFFICES ASSUME Queued(c)' PROVE Queued(c) \/ ToSubmit(c)
      OBVIOUS
    <3>2. PICK j \in DOMAIN queue'[c] : queue'[c][j].kind = "channel"
      BY <3>1 DEF Queued
    <3>3. c \in Ids
      BY DEF Ids
    <3>4. (j \in DOMAIN queue[c] /\ queue'[c][j] = queue[c][j]) \/ (c = op.id /\ op.kind = "channel")
      BY <1>10, <3>2, <3>3
    <3> QED BY <1>2, <1>3, <3>2, <3>4 DEF Queued, ToSubmit
  <2>4. AtWork(c)' => AtWork(c)
    BY <1>5 DEF AtWork
  <2> QED BY <1>16, <2>1, <2>2, <2>3, <2>4 DEF ToBeMapped
<1>17. ASSUME NEW k \in Categories, CategoryOpToCome(k) PROVE CategoryOpToCome(k)'
  <2>1. k \in Ids
    BY DEF Ids
  <2>2. CASE \E j \in DOMAIN Last.ops : Last.ops[j].kind = "category" /\ Last.ops[j].id = k
    <3>1. PICK m \in DOMAIN ops : ops[m].kind = "category" /\ ops[m].id = k
      BY <1>2, <2>2
    <3>2. CASE ops[m] = op
      <4>1. \E j \in DOMAIN queue'[k] : queue'[k][j].kind = "category"
        BY <1>10, <3>1, <3>2
      <4> QED BY <4>1 DEF CategoryOpToCome
    <3>3. CASE \E j \in DOMAIN Tail(ops) : Tail(ops)[j] = ops[m]
      BY <1>6, <3>1, <3>3 DEF CategoryOpToCome
    <3> QED BY <1>8, <3>2, <3>3
  <2>3. CASE \E j \in DOMAIN queue[k] : queue[k][j].kind = "category"
    <3>1. \E j \in DOMAIN queue'[k] : queue'[k][j].kind = "category"
      BY <1>10, <2>1, <2>3
    <3> QED BY <3>1 DEF CategoryOpToCome
  <2> QED BY <1>5, <1>6, <1>17, <2>2, <2>3 DEF CategoryOpToCome, Pushing
<1>18. DeleteToCome \/ Sending => DeleteToCome' \/ Sending'
  <2>1. ASSUME NEW j \in DOMAIN ops, ops[j].kind = "categoryDelete" PROVE DeleteToCome'
    BY <1>6, <1>8, <1>9, <1>10, <2>1 DEF DeleteToCome
  <2>2. ASSUME NEW k \in Ids, NEW j \in DOMAIN queue[k], queue[k][j].kind = "categoryDelete"
        PROVE  DeleteToCome'
    <3>1. j \in DOMAIN queue'[k] /\ queue'[k][j] = queue[k][j]
      BY <1>10
    <3> QED BY <2>2, <3>1 DEF DeleteToCome
  <2> QED BY <1>2, <1>5, <1>6, <2>1, <2>2 DEF DeleteToCome, Sending
<1>19. Standing'
  BY <1>5, <1>6, <1>16, <1>17, <1>18, Moved DEF Even
<1> QED BY <1>15, <1>19 DEF Even

LEMMA HandledEven ==
  ASSUME Typed, Steady, AllApart, Even, NEW i \in 0..MaxEvents, Handled(i)
  PROVE  Even'
<1>1. /\ handler[i] \in HandlerType /\ handler[i].pc = "catOps" /\ handler[i].ops = <<>>
      /\ handler \in [0..MaxEvents -> HandlerType] /\ i = events
  BY DEF Typed, HandlersTyped, Handled, Even, UnderWay, Alone
<1>2. UNCHANGED <<guild, gone, events, queue, worker, waiters, row, stored, shown>>
  BY DEF Handled, discord, rows
<1>3. /\ Last.pc = "catOps" /\ Last.ops = <<>> /\ Last'.pc = "done" /\ Last'.ops = <<>>
      /\ Last'.kind = Last.kind /\ Last'.id = Last.id
      /\ \A n \in (0..MaxEvents) \ {i} : handler'[n] = handler[n]
  BY <1>1, <1>2 DEF HandlerType, Handled, Last
<1>4. Listed' = Listed
  BY <1>2 DEF Listed
<1>5. UnderWay'
  <2>1. Alone' /\ NothingSubmitted' /\ InHandler'
    BY <1>1, <1>2, <1>3 DEF Even, UnderWay, Alone, NothingSubmitted, InHandler
  <2>2. InQueues' /\ AtWorkers'
    BY <1>2, <1>3 DEF Even, UnderWay, InQueues, AtWorkers, Own
  <2>3. OpsSay' /\ LookUps'
    BY <1>2, <1>3, <1>4 DEF Even, UnderWay, OpsSay, LookUps
  <2> QED BY <2>1, <2>2, <2>3 DEF UnderWay
<1>6. ASSUME NEW c \in Channels, ToBeMapped(c)' PROVE ToBeMapped(c)
  <2>1. (ToCome(c)' => ToCome(c)) /\ (ToSubmit(c)' => ToSubmit(c))
    BY <1>1, <1>2, <1>3 DEF ToCome, ToSubmit, Last
  <2>2. (Queued(c)' => Queued(c)) /\ (AtWork(c)' => AtWork(c))
    BY <1>2 DEF Queued, AtWork
  <2> QED BY <1>6, <2>1, <2>2 DEF ToBeMapped
<1>7. ASSUME NEW k \in Categories, CategoryOpToCome(k) PROVE CategoryOpToCome(k)'
  BY <1>2, <1>3, <1>7 DEF CategoryOpToCome, Pushing
<1>8. DeleteToCome \/ Sending => DeleteToCome' \/ Sending'
  BY <1>2, <1>3 DEF DeleteToCome, Sending
<1>9. Standing'
  BY <1>2, <1>3, <1>6, <1>7, <1>8, Moved DEF Even
<1> QED BY <1>5, <1>9 DEF Even

(* A worker takes an op, or sets it aside.                                  *)
LEMMA TakeEven ==
  ASSUME Typed, Steady, AllApart, Even, NEW k \in Ids, Take(k)
  PROVE  Even'
<1>1. PICK op \in OpType : op = Head(queue[k]) /\ op.id = k
  BY TakenOff DEF Take, Typed
<1>2. /\ queue[k] # <<>> /\ queue' = [queue EXCEPT ![k] = Tail(@)] /\ worker[k].pc = "idle"
      /\ Missing(op) = {}
  BY <1>1 DEF Take, At
<1>3. TakenFrom(k, op)
  BY <1>1, <1>2, HeadTakenFrom DEF Typed
<1>4. /\ worker'[k].op = op /\ worker'[k].unread = ChannelsIn(op.cats) /\ worker'[k].ids = <<>>
      /\ worker'[k].pc = (IF op.kind = "categoryDelete" THEN "apply" ELSE op.kind)
      /\ worker'[k].pushing = <<>> /\ \A x \in Ids \ {k} : worker'[x] = worker[x]
      /\ worker[k].pushing = <<>>
  BY <1>1, <1>2 DEF Take, Typed, WorkersTyped, Idle
<1>5. UNCHANGED <<guild, gone, events, handler, waiters, row, stored, shown>>
  BY DEF Take, discord, rows
<1>6. Listed' = Listed /\ Last' = Last
  BY <1>5 DEF Listed, Last
<1>7. Says(op, Listed) /\ op.kind \in OpKinds
  BY <1>3 DEF TakenFrom, Even, UnderWay, OpsSay, OpType
<1>8. op.kind # "category" => Own(op, Last) /\ queue'[k] = <<>>
  <2>1. ASSUME op.kind # "category" PROVE Own(op, Last) /\ Len(queue[k]) = 1
    BY <1>3, <2>1 DEF TakenFrom, Even, UnderWay, InQueues
  <2>2. PICK q \in Seq(OpType) : q = queue[k] /\ queue'[k] = Tail(q)
    BY <1>2 DEF Typed, QueuesTyped
  <2>3. ASSUME Len(q) = 1 PROVE Tail(q) = <<>>
    <3>1. Tail(q) \in Seq(OpType) /\ Len(Tail(q)) = 0
      BY <2>2, <2>3
    <3> QED BY <3>1, EmptySeq
  <2> QED BY <2>1, <2>2, <2>3
<1>9. UnderWay'
  <2>1. Alone' /\ NothingSubmitted' /\ InHandler'
    BY <1>2, <1>5, <1>6 DEF Even, UnderWay, Alone, NothingSubmitted, InHandler
  <2>2. InQueues'
    <3>1. ASSUME NEW x \in Ids, NEW j \in DOMAIN queue'[x], queue'[x][j].kind # "category"
          PROVE  Own(queue'[x][j], Last) /\ Len(queue'[x]) = 1 /\ worker'[x].pc = "idle"
      <4>1. CASE x # k
        BY <1>3, <1>4, <3>1, <4>1 DEF TakenFrom, Even, UnderWay, InQueues
      <4>2. CASE x = k
        <5>1. PICK q \in Seq(OpType) : q = queue[k] /\ queue'[k] = Tail(q)
          BY <1>2 DEF Typed, QueuesTyped
        <5>2. j + 1 \in DOMAIN q /\ q[j + 1].kind # "category" /\ j + 1 # 1
          BY <3>1, <4>2, <5>1
        <5>3. Len(q) = 1
          BY <5>1, <5>2 DEF Even, UnderWay, InQueues
        <5> QED BY <5>1, <5>2, <5>3
      <4> QED BY <4>1, <4>2
    <3> QED BY <1>6, <3>1 DEF InQueues
  <2>3. AtWorkers'
    <3>1. Labelled(worker'[k])
      BY <1>4, <1>7 DEF Labelled, OpKinds
    <3>2. \A x \in Ids \ {k} : worker'[x] = worker[x] /\ queue'[x] = queue[x]
      BY <1>3, <1>4 DEF TakenFrom
    <3> QED BY <1>4, <1>6, <1>8, <3>1, <3>2 DEF Even, UnderWay, AtWorkers
  <2>4. OpsSay'
    <3>1. \A x \in Ids : \A j \in DOMAIN queue'[x] : Says(queue'[x][j], Listed)
      BY <1>3 DEF TakenFrom, Even, UnderWay, OpsSay
    <3>2. \A x \in Ids : /\ worker'[x].pc # "idle" => Says(worker'[x].op, Listed)
                         /\ \A j \in DOMAIN worker'[x].pushing : Says(worker'[x].pushing[j], Listed)
      BY <1>4, <1>7 DEF Even, UnderWay, OpsSay
    <3> QED BY <1>5, <1>6, <3>1, <3>2 DEF Even, UnderWay, OpsSay
  <2>5. LookUps'
    <3>1. op.kind \in {"category", "categoryDelete"} => op.cats = Listed
      BY <1>7 DEF Says
    <3>2. \A c \in DependsOn(op) : row[c].status = "active"
      BY <1>2 DEF Missing
    <3>3. op.kind = "categoryDelete" => \A c \in ChannelsIn(Listed) : row[c].status = "active"
      <4>1. op.kind = "categoryDelete" => Last.kind # "channel"
        BY <1>8 DEF Own
      <4>2. \A c \in ChannelsIn(Listed) : c \in ChannelsInGuild
        BY ListedProperties
      <4> QED BY <4>1, <4>2 DEF Even, Standing, RowsFollow
    <3>4. worker'[k].pc \in {"category", "apply"} =>
            op.kind \in {"category", "categoryDelete"} /\ (worker'[k].pc = "apply" => op.kind = "categoryDelete")
      BY <1>4, <1>7 DEF OpKinds
    <3>5. DOMAIN <<>> = {}
      OBVIOUS
    <3>6. worker'[k].pc \in {"category", "apply"} =>
            /\ ChannelsIn(Listed) \subseteq worker'[k].unread \cup DOMAIN worker'[k].ids
            /\ \A c \in DOMAIN worker'[k].ids : worker'[k].ids[c] = c
            /\ \A c \in DependsOn(worker'[k].op) : row[c].status = "active"
            /\ worker'[k].pc = "apply" => \A c \in ChannelsIn(Listed) : row[c].status = "active"
      BY <1>4, <3>1, <3>2, <3>3, <3>4, <3>5
    <3> QED BY <1>4, <1>5, <1>6, <3>6 DEF Even, UnderWay, LookUps
  <2> QED BY <2>1, <2>2, <2>3, <2>4, <2>5 DEF UnderWay
<1>10. ASSUME NEW c \in Channels, ToBeMapped(c)' PROVE ToBeMapped(c)
  <2>1. c \in Ids
    BY DEF Ids
  <2>2. (ToCome(c)' => ToCome(c)) /\ (ToSubmit(c)' => ToSubmit(c))
    BY <1>5 DEF ToCome, ToSubmit
  <2>3. Queued(c)' => Queued(c)
    BY <1>3, <2>1 DEF Queued, TakenFrom
  <2>4. AtWork(c)' => AtWork(c) \/ Queued(c)
    <3>1. CASE c # k
      BY <1>4, <2>1, <3>1 DEF AtWork
    <3>2. CASE c = k
      <4>1. worker'[k].pc \in {"channel", "create"} => op.kind = "channel"
        BY <1>4, <1>7 DEF OpKinds
      <4> QED BY <1>3, <3>2, <4>1 DEF AtWork, Queued, TakenFrom
    <3> QED BY <3>1, <3>2
  <2> QED BY <1>10, <2>2, <2>3, <2>4 DEF ToBeMapped
<1>11. ASSUME NEW x \in Categories, CategoryOpToCome(x) PROVE CategoryOpToCome(x)'
  <2>1. x \in Ids
    BY DEF Ids
  <2>2. CASE \E j \in DOMAIN queue[x] : queue[x][j].kind = "category"
    <3>1. CASE x # k
      BY <1>3, <2>1, <2>2, <3>1 DEF CategoryOpToCome, TakenFrom
    <3>2. CASE x = k
      <4>1. op.kind = "category" => worker'[k].pc = "category"
        BY <1>4
      <4>2. op.kind = "category" \/ \E j \in DOMAIN queue'[k] : queue'[k][j].kind = "category"
        BY <1>3, <2>2, <3>2 DEF TakenFrom
      <4> QED BY <3>2, <4>1, <4>2 DEF CategoryOpToCome
    <3> QED BY <3>1, <3>2
  <2>3. worker[x].pc \in {"defer", "category"} => worker'[x].pc = worker[x].pc
    BY <1>2, <1>4, <2>1
  <2>4. Pushing(x) => Pushing(x)'
    BY <1>4 DEF Pushing, Ids
  <2> QED BY <1>5, <1>6, <1>11, <2>2, <2>3, <2>4 DEF CategoryOpToCome
<1>12. DeleteToCome \/ Sending => DeleteToCome' \/ Sending'
  <2>1. Sending => Sending'
    BY <1>2, <1>4 DEF Sending
  <2>2. ASSUME NEW x \in Ids, NEW j \in DOMAIN queue[x], queue[x][j].kind = "categoryDelete"
        PROVE  DeleteToCome' \/ Sending'
    <3>1. CASE x # k
      BY <1>3, <2>2, <3>1 DEF TakenFrom, DeleteToCome
    <3>2. CASE x = k
      <4>1. op.kind = "categoryDelete" => worker'[k].pc = "apply"
        BY <1>4
      <4>2. op.kind = "categoryDelete" \/ \E m \in DOMAIN queue'[k] : queue'[k][m].kind = "categoryDelete"
        BY <1>3, <2>2, <3>2 DEF TakenFrom
      <4> QED BY <4>1, <4>2 DEF DeleteToCome, Sending
    <3> QED BY <3>1, <3>2
  <2> QED BY <1>6, <2>1, <2>2 DEF DeleteToCome
<1>13. Standing'
  BY <1>5, <1>6, <1>10, <1>11, <1>12, Moved DEF Even
<1> QED BY <1>9, <1>13 DEF Even

LEMMA MissChannelEven ==
  ASSUME Typed, Steady, AllApart, Even, NEW k \in Ids, MissChannel(k)
  PROVE  Even'
<1>1. PICK op \in OpType : op = Head(queue[k]) /\ op.id = k
  BY TakenOff DEF MissChannel, Typed
<1>2. queue[k] # <<>> /\ queue' = [queue EXCEPT ![k] = Tail(@)] /\ worker[k].pc = "idle"
  BY DEF MissChannel, At
<1>3. TakenFrom(k, op)
  BY <1>1, <1>2, HeadTakenFrom DEF Typed
<1>4. PICK d \in Missing(op) :
        worker' = [worker EXCEPT ![k] = [Idle EXCEPT !.pc = "defer", !.op = op, !.missing = d]]
  BY <1>1 DEF MissChannel
<1>5. UNCHANGED <<guild, gone, events, handler, waiters, row, stored, shown>>
  BY DEF MissChannel, discord, rows
<1>6. Listed' = Listed /\ Last' = Last
  BY <1>5 DEF Listed, Last
<1>7. Says(op, Listed) /\ op.kind = "category"
  <2>1. DependsOn(op) # {}
    BY <1>4 DEF Missing
  <2> QED BY <1>3, <2>1 DEF TakenFrom, Even, UnderWay, OpsSay, DependsOn
<1>8. /\ worker'[k].op = op /\ worker'[k].pc = "defer" /\ worker'[k].pushing = <<>>
      /\ worker[k].pushing = <<>> /\ \A x \in Ids \ {k} : worker'[x] = worker[x]
  BY <1>2, <1>4 DEF Typed, WorkersTyped, Idle
<1>waits. \A j \in DOMAIN queue[k] : queue[k][j].kind = "category"
  <2> SUFFICES ASSUME NEW j \in DOMAIN queue[k], queue[k][j].kind # "category" PROVE FALSE
    OBVIOUS
  <2>1. Len(queue[k]) = 1
    BY DEF Even, UnderWay, InQueues
  <2>2. PICK q \in Seq(OpType) : q = queue[k]
    BY DEF Typed, QueuesTyped
  <2>3. j = 1 /\ Head(q) = q[1]
    BY <2>1, <2>2
  <2> QED BY <1>1, <1>7, <2>2, <2>3
<1>9. UnderWay'
  <2>1. Alone' /\ NothingSubmitted' /\ InHandler'
    BY <1>2, <1>5, <1>6 DEF Even, UnderWay, Alone, NothingSubmitted, InHandler
  <2>2. InQueues'
    <3>1. ASSUME NEW x \in Ids, x # k PROVE queue'[x] = queue[x] /\ worker'[x] = worker[x]
      BY <1>3, <1>8, <3>1 DEF TakenFrom
    <3>2. \A j \in DOMAIN queue'[k] : queue'[k][j].kind = "category"
      BY <1>3, <1>waits DEF TakenFrom
    <3> QED BY <1>6, <3>1, <3>2 DEF Even, UnderWay, InQueues
  <2>3. AtWorkers'
    <3>1. Labelled(worker'[k])
      BY <1>7, <1>8 DEF Labelled
    <3>2. \A x \in Ids \ {k} : worker'[x] = worker[x] /\ queue'[x] = queue[x]
      BY <1>3, <1>8 DEF TakenFrom
    <3> QED BY <1>6, <1>7, <1>8, <3>1, <3>2 DEF Even, UnderWay, AtWorkers
  <2>4. OpsSay'
    <3>1. \A x \in Ids : \A j \in DOMAIN queue'[x] : Says(queue'[x][j], Listed)
      BY <1>3 DEF TakenFrom, Even, UnderWay, OpsSay
    <3>2. \A x \in Ids : /\ worker'[x].pc # "idle" => Says(worker'[x].op, Listed)
                         /\ \A j \in DOMAIN worker'[x].pushing : Says(worker'[x].pushing[j], Listed)
      BY <1>7, <1>8 DEF Even, UnderWay, OpsSay
    <3> QED BY <1>5, <1>6, <3>1, <3>2 DEF Even, UnderWay, OpsSay
  <2>5. LookUps'
    BY <1>5, <1>6, <1>8 DEF Even, UnderWay, LookUps
  <2> QED BY <2>1, <2>2, <2>3, <2>4, <2>5 DEF UnderWay
<1>10. ASSUME NEW c \in Channels, ToBeMapped(c)' PROVE ToBeMapped(c)
  <2>1. c \in Ids
    BY DEF Ids
  <2>2. (ToCome(c)' => ToCome(c)) /\ (ToSubmit(c)' => ToSubmit(c)) /\ (AtWork(c)' => AtWork(c))
    BY <1>5, <1>8, <2>1 DEF ToCome, ToSubmit, AtWork
  <2>3. Queued(c)' => Queued(c)
    BY <1>3, <2>1 DEF Queued, TakenFrom
  <2> QED BY <1>10, <2>2, <2>3 DEF ToBeMapped
<1>11. ASSUME NEW x \in Categories, CategoryOpToCome(x) PROVE CategoryOpToCome(x)'
  <2>1. x \in Ids
    BY DEF Ids
  <2>2. CASE \E j \in DOMAIN queue[x] : queue[x][j].kind = "category"
    <3>1. CASE x # k
      BY <1>3, <2>1, <2>2, <3>1 DEF CategoryOpToCome, TakenFrom
    <3>2. CASE x = k
      BY <1>8, <3>2 DEF CategoryOpToCome
    <3> QED BY <3>1, <3>2
  <2>3. worker[x].pc \in {"defer", "category"} => worker'[x].pc = worker[x].pc
    BY <1>2, <1>8, <2>1
  <2>4. Pushing(x) => Pushing(x)'
    BY <1>8 DEF Pushing, Ids
  <2> QED BY <1>5, <1>6, <1>11, <2>2, <2>3, <2>4 DEF CategoryOpToCome
<1>12. DeleteToCome \/ Sending => DeleteToCome' \/ Sending'
  <2>1. Sending => Sending'
    BY <1>2, <1>8 DEF Sending
  <2>2. ASSUME NEW x \in Ids, NEW j \in DOMAIN queue[x], queue[x][j].kind = "categoryDelete"
        PROVE  DeleteToCome'
    <3>1. \E m \in DOMAIN queue'[x] : queue'[x][m].kind = "categoryDelete"
      BY <1>3, <1>7, <2>2 DEF TakenFrom
    <3> QED BY <3>1 DEF DeleteToCome
  <2> QED BY <1>6, <2>1, <2>2 DEF DeleteToCome
<1>13. Standing'
  BY <1>5, <1>6, <1>10, <1>11, <1>12, Moved DEF Even
<1> QED BY <1>9, <1>13 DEF Even

(* A worker goes on with its op, or is done with it.                        *)
LEMMA WorkerMoves ==
  ASSUME Typed, AllApart, Even, NEW k \in Ids, worker[k].pc # "idle",
         UNCHANGED <<guild, gone, events, handler, queue, row>>,
         \A x \in Ids \ {k} : worker'[x] = worker[x],
         \A c \in Channels : \A j \in DOMAIN waiters'[c] : Says(waiters'[c][j], Listed),
         \A j \in DOMAIN worker'[k].pushing : Says(worker'[k].pushing[j], Listed),
         \/ worker'[k].pc = "idle"
         \/ worker'[k].op = worker[k].op /\ Labelled(worker'[k]),
         worker'[k].pc \in {"category", "apply"} =>
           /\ ChannelsIn(Listed) \subseteq worker'[k].unread \cup DOMAIN worker'[k].ids
           /\ \A c \in DOMAIN worker'[k].ids : worker'[k].ids[c] = c
           /\ \A c \in DependsOn(worker'[k].op) : row[c].status = "active"
           /\ worker'[k].pc = "apply" => \A c \in ChannelsIn(Listed) : row[c].status = "active"
  PROVE  UnderWay'
<1>1. Listed' = Listed /\ Last' = Last
  BY DEF Listed, Last
<1>2. Alone' /\ InHandler'
  BY <1>1 DEF Even, UnderWay, Alone, InHandler
<1>3. NothingSubmitted'
  BY <1>1 DEF Even, UnderWay, NothingSubmitted
<1>4. InQueues'
  BY <1>1 DEF Even, UnderWay, InQueues
<1>5. AtWorkers'
  BY <1>1 DEF Even, UnderWay, AtWorkers
<1>6. OpsSay'
  <2>1. \A x \in Ids : /\ worker'[x].pc # "idle" => Says(worker'[x].op, Listed)
                       /\ \A j \in DOMAIN worker'[x].pushing : Says(worker'[x].pushing[j], Listed)
    BY DEF Even, UnderWay, OpsSay
  <2> QED BY <1>1, <2>1 DEF Even, UnderWay, OpsSay
<1>7. LookUps'
  BY <1>1 DEF Even, UnderWay, LookUps
<1> QED BY <1>2, <1>3, <1>4, <1>5, <1>6, <1>7 DEF UnderWay

LEMMA WorkerGoesOn ==
  ASSUME Typed, AllApart, Even, NEW k \in Ids, worker[k].pc # "idle",
         UNCHANGED <<guild, gone, events, handler, queue, waiters, row>>,
         \A x \in Ids \ {k} : worker'[x] = worker[x],
         worker'[k].pushing \in {<<>>, worker[k].pushing},
         \/ worker'[k].pc = "idle"
         \/ worker'[k].op = worker[k].op /\ Labelled(worker'[k]),
         worker'[k].pc \in {"category", "apply"} =>
           /\ ChannelsIn(Listed) \subseteq worker'[k].unread \cup DOMAIN worker'[k].ids
           /\ \A c \in DOMAIN worker'[k].ids : worker'[k].ids[c] = c
           /\ \A c \in DependsOn(worker'[k].op) : row[c].status = "active"
           /\ worker'[k].pc = "apply" => \A c \in ChannelsIn(Listed) : row[c].status = "active"
  PROVE  UnderWay'
<1>1. \A c \in Channels : \A j \in DOMAIN waiters'[c] : Says(waiters'[c][j], Listed)
  BY DEF Even, UnderWay, OpsSay
<1>2. \A j \in DOMAIN worker'[k].pushing : Says(worker'[k].pushing[j], Listed)
  BY DEF Even, UnderWay, OpsSay
<1> QED BY <1>1, <1>2, WorkerMoves

(* The op goes from its worker to those that wait.                          *)
LEMMA DeferEven ==
  ASSUME Typed, Steady, AllApart, Even, NEW k \in Ids, Defer(k)
  PROVE  Even'
<1>1. PICK op \in OpType : op = worker[k].op /\ op.id = k
  BY IdleType DEF Defer, At, Typed, WorkersTyped
<1>2. PICK d \in Channels : d = worker[k].missing
  BY DEF Defer, At, Typed, WorkersTyped
<1>3. worker[k].pc = "defer" /\ waiters' = [waiters EXCEPT ![d] = Append(@, op)]
  BY <1>1, <1>2 DEF Defer, At
<1>4. UNCHANGED <<guild, gone, events, handler, queue, row, stored, shown>>
  BY DEF Defer, discord, rows
<1>5. Listed' = Listed /\ Last' = Last
  BY <1>4 DEF Listed, Last
<1>6. /\ worker'[k] = Idle /\ \A x \in Ids \ {k} : worker'[x] = worker[x]
      /\ worker[k].pushing = <<>>
  BY <1>3 DEF Defer, Return, Typed, WorkersTyped
<1>7. Says(op, Listed) /\ op.kind = "category"
  BY <1>1, <1>3 DEF Even, UnderWay, AtWorkers, Labelled, OpsSay
<1>8. /\ \A c \in Channels \ {d} : waiters'[c] = waiters[c]
      /\ \A j \in DOMAIN waiters'[d] :
           waiters'[d][j] = op \/ (j \in DOMAIN waiters[d] /\ waiters'[d][j] = waiters[d][j])
      /\ \A j \in DOMAIN waiters[d] : j \in DOMAIN waiters'[d] /\ waiters'[d][j] = waiters[d][j]
      /\ \E j \in DOMAIN waiters'[d] : waiters'[d][j] = op
  <2>1. PICK q \in Seq(OpType) : q = waiters[d]
    BY DEF Typed, RestTyped
  <2>2. waiters'[d] = Append(q, op) /\ \A c \in Channels \ {d} : waiters'[c] = waiters[c]
    BY <1>3, <2>1 DEF Typed, RestTyped
  <2>3. /\ \A j \in DOMAIN Append(q, op) : Append(q, op)[j] = op \/ (j \in DOMAIN q /\ Append(q, op)[j] = q[j])
        /\ \A j \in DOMAIN q : j \in DOMAIN Append(q, op) /\ Append(q, op)[j] = q[j]
        /\ Len(q) + 1 \in DOMAIN Append(q, op) /\ Append(q, op)[Len(q) + 1] = op
    BY <2>1
  <2> QED BY <2>1, <2>2, <2>3
<1>9. UnderWay'
  <2>1. \A c \in Channels : \A j \in DOMAIN waiters'[c] : Says(waiters'[c][j], Listed)
    BY <1>7, <1>8 DEF Even, UnderWay, OpsSay
  <2>2. worker'[k].pc = "idle" /\ worker'[k].pushing = <<>>
    BY <1>6, IdleType
  <2> QED BY <1>3, <1>4, <1>6, <2>1, <2>2, WorkerMoves
<1>10. \A c \in Channels : ToBeMapped(c)' => ToBeMapped(c)
  <2>1. \A c \in Channels : AtWork(c)' => AtWork(c)
    BY <1>6, IdleType DEF AtWork, Ids
  <2> QED BY <1>4, <2>1 DEF ToBeMapped, ToCome, ToSubmit, Queued
<1>11. ASSUME NEW x \in Categories, CategoryOpToCome(x) PROVE CategoryOpToCome(x)'
  <2>1. x \in Ids
    BY DEF Ids
  <2>2. CASE worker[x].pc \in {"defer", "category"}
    <3>1. CASE x # k
      BY <1>6, <2>1, <2>2, <3>1 DEF CategoryOpToCome
    <3>2. CASE x = k
      <4>1. \E j \in DOMAIN waiters'[d] : waiters'[d][j].id = k
        BY <1>1, <1>8
      <4> QED BY <3>2, <4>1 DEF CategoryOpToCome
    <3> QED BY <3>1, <3>2
  <2>3. CASE \E c \in Channels : \E j \in DOMAIN waiters[c] : waiters[c][j].id = x
    <3>1. PICK c \in Channels : \E j \in DOMAIN waiters[c] : waiters[c][j].id = x
      BY <2>3
    <3>2. \E j \in DOMAIN waiters'[c] : waiters'[c][j].id = x
      BY <1>8, <3>1
    <3> QED BY <3>2 DEF CategoryOpToCome
  <2>4. Pushing(x) => Pushing(x)'
    BY <1>6 DEF Pushing, Ids
  <2> QED BY <1>4, <1>5, <1>11, <2>2, <2>3, <2>4 DEF CategoryOpToCome
<1>12. DeleteToCome \/ Sending => DeleteToCome' \/ Sending'
  <2>1. Sending => Sending'
    BY <1>3, <1>6 DEF Sending
  <2> QED BY <1>4, <1>5, <2>1 DEF DeleteToCome
<1>13. Standing'
  BY <1>4, <1>5, <1>10, <1>11, <1>12, Moved DEF Even
<1> QED BY <1>9, <1>13 DEF Even

(* What all of a category's steps have in common.                           *)
LEMMA CategoryStepFacts ==
  ASSUME Typed, AllApart, Even, NEW k \in Categories, CategoryStep(k)
  PROVE  /\ k \in Ids /\ worker[k].pc # "idle" /\ worker[k] \in WorkerType
         /\ worker[k].op \in OpType /\ worker[k].op.id = k
         /\ Labelled(worker[k]) /\ Says(worker[k].op, Listed)
         /\ worker \in [Ids -> WorkerType]
         /\ UNCHANGED <<guild, gone, events, handler, queue, waiters, row>>
         /\ Listed' = Listed /\ Last' = Last
         /\ \A c \in Channels : worker'[c] = worker[c]
         /\ \A c \in Channels : ToBeMapped(c)' => ToBeMapped(c)
         /\ worker'[k].pushing \in {<<>>, worker[k].pushing}
         /\ \A x \in Categories : Pushing(x) => Pushing(x)'
         /\ DeleteToCome' = DeleteToCome
<1>1. k \in Ids /\ worker[k].pc # "idle" /\ worker \in [Ids -> WorkerType]
  BY DEF Ids, Typed, WorkersTyped, CategoryStep, Skip, WritePending, ResolveChannelID, SetCategories,
         Accepted, Confirm, Remove, At
<1>2. worker[k] \in WorkerType /\ worker[k].op \in OpType /\ worker[k].op.id = k
  BY <1>1, IdleType DEF Typed, WorkersTyped
<1>3. Labelled(worker[k]) /\ Says(worker[k].op, Listed)
  BY <1>1 DEF Even, UnderWay, AtWorkers, OpsSay
<1>4. UNCHANGED <<guild, gone, events, handler, queue, waiters, row>>
  BY DEF CategoryStep, Skip, WritePending, ResolveChannelID, SetCategories, Confirm, Remove, discord, rows
<1>5. Listed' = Listed /\ Last' = Last
  BY <1>4 DEF Listed, Last
<1>6. \A c \in Channels : worker'[c] = worker[c]
  <2>1. \A c \in Channels : c # k /\ c \in Ids
    BY SyncAssumption DEF Ids
  <2> QED BY <1>1, <2>1
       DEF CategoryStep, Skip, WritePending, ResolveChannelID, SetCategories, Confirm, Remove, Return
<1>7. \A c \in Channels : ToBeMapped(c)' => ToBeMapped(c)
  BY <1>4, <1>6 DEF ToBeMapped, ToCome, ToSubmit, Queued, AtWork
<1>8. DeleteToCome' = DeleteToCome
  BY <1>4, <1>5 DEF DeleteToCome
<1>9. \A x \in Categories : Pushing(x) => Pushing(x)'
  BY <1>6 DEF Pushing
<1> QED BY <1>1, <1>2, <1>3, <1>4, <1>5, <1>6, <1>7, <1>8, <1>9, CategoryStepPushing

(* The one category of the list that a worker's op is about.                *)
LEMMA OpOfListed ==
  ASSUME Typed, AllApart, NEW op \in OpType, Says(op, Listed), op.kind = "category"
  PROVE  /\ op.id \in IdsIn(guild)
         /\ \A i \in DOMAIN Listed : Listed[i].id = op.id =>
              op.want = Desired(Listed, i) /\ \A c : Mine(c, i) => c \in DependsOn(op)
<1>1. PICK i \in DOMAIN Listed : op.id = Listed[i].id /\ op.want = Desired(Listed, i)
  BY DEF Says
<1>2. \A j \in DOMAIN Listed : Listed[j].id = op.id => j = i
  BY <1>1, ListedProperties
<1>3. op.id \in IdsIn(guild)
  BY <1>1, ListedProperties
<1>4. op.want.cat = Listed[i]
  BY <1>1 DEF Desired
<1>5. \A c : Mine(c, i) => c \in DependsOn(op)
  BY <1>4 DEF Mine, DependsOn
<1> QED BY <1>1, <1>2, <1>3, <1>5

LEMMA SkipEven ==
  ASSUME Typed, AllApart, Even, NEW k \in Categories, Skip(k)
  PROVE  Even'
<1>1. CategoryStep(k)
  BY DEF CategoryStep
<1>2. /\ k \in Ids /\ worker[k].pc # "idle" /\ worker[k].op \in OpType /\ worker[k].op.id = k
      /\ Labelled(worker[k]) /\ Says(worker[k].op, Listed) /\ worker \in [Ids -> WorkerType]
      /\ UNCHANGED <<guild, gone, events, handler, queue, waiters, row>> /\ Last' = Last
      /\ \A c \in Channels : ToBeMapped(c)' => ToBeMapped(c)
      /\ worker'[k].pushing \in {<<>>, worker[k].pushing}
      /\ \A x \in Categories : Pushing(x) => Pushing(x)'
      /\ DeleteToCome' = DeleteToCome
  BY <1>1, CategoryStepFacts
<1>3. /\ worker'[k] = Idle /\ \A x \in Ids \ {k} : worker'[x] = worker[x]
      /\ worker[k].pc = "category" /\ stored[k] = worker[k].op.want
      /\ UNCHANGED <<stored, shown>>
  BY <1>2 DEF Skip, Return, At, Equal, rows
<1>4. UnderWay'
  BY <1>2, <1>3, IdleType, WorkerGoesOn
<1>5. \A i \in DOMAIN Listed : Listed[i].id = k => Right(i)
  BY <1>2, <1>3, OpOfListed DEF Labelled, Right
<1>6. ASSUME NEW x \in Categories, x # k, CategoryOpToCome(x) PROVE CategoryOpToCome(x)'
  <2>1. worker'[x] = worker[x]
    BY <1>3, <1>6 DEF Ids
  <2> QED BY <1>2, <1>6, <2>1 DEF CategoryOpToCome
<1>7. Standing'
  <2>1. Listed' = Listed /\ ChannelsInGuild' = ChannelsInGuild
    BY <1>2 DEF Listed, ChannelsInGuild
  <2>2. OfGuild' /\ RowsFollow' /\ Absent'
    BY <1>2, <1>3, <2>1 DEF Even, Standing, OfGuild, RowsFollow, Absent
  <2>3. \A i \in DOMAIN Listed : (Right(i) <=> Right(i)') /\ (\A c : Mine(c, i) <=> Mine(c, i)')
    BY <1>3, <2>1 DEF Right, Mine
  <2>4. StoredFollows'
    <3>1. ASSUME NEW i \in DOMAIN Listed, NEW x \in Categories, Listed[i].id = x
          PROVE  \/ Right(i)'
                 \/ /\ CategoryOpToCome(x)'
                    /\ \A c \in ChannelsIn(Listed) : row'[c].status = "active" \/ Mine(c, i)'
      BY <1>2, <1>5, <1>6, <2>3, <3>1 DEF Even, Standing, StoredFollows
    <3> QED BY <2>1, <3>1 DEF StoredFollows
  <2>5. Sending => Sending'
    BY <1>3 DEF Sending
  <2>6. ListSent'
    BY <1>2, <1>3, <2>1, <2>3, <2>5 DEF Even, Standing, ListSent, Mirrors
  <2> QED BY <2>2, <2>4, <2>6 DEF Standing
<1> QED BY <1>4, <1>7 DEF Even

LEMMA WritePendingEven ==
  ASSUME Typed, AllApart, Even, NEW k \in Categories, WritePending(k)
  PROVE  Even'
<1>1. CategoryStep(k)
  BY DEF CategoryStep
<1>2. /\ k \in Ids /\ worker[k].pc # "idle" /\ worker[k] \in WorkerType
      /\ worker[k].op \in OpType /\ worker[k].op.id = k
      /\ Labelled(worker[k]) /\ Says(worker[k].op, Listed) /\ worker \in [Ids -> WorkerType]
      /\ UNCHANGED <<guild, gone, events, handler, queue, waiters, row>> /\ Last' = Last
      /\ \A c \in Channels : ToBeMapped(c)' => ToBeMapped(c)
      /\ worker'[k].pushing \in {<<>>, worker[k].pushing}
      /\ \A x \in Categories : Pushing(x) => Pushing(x)'
      /\ DeleteToCome' = DeleteToCome
  BY <1>1, CategoryStepFacts
<1>3. PICK op \in OpType : op = worker[k].op
  BY <1>2
<1>4. /\ worker[k].pc = "category" /\ op.kind = "category" /\ stored[k] # op.want
      /\ shown' = shown /\ stored' = [stored EXCEPT ![k] = op.want]
      /\ worker' = [worker EXCEPT ![k].pc = "apply"]
  BY <1>2, <1>3 DEF WritePending, At, Equal, Labelled
<1>5. /\ worker'[k].pc = "apply" /\ worker'[k].op = op /\ \A x \in Ids \ {k} : worker'[x] = worker[x]
      /\ worker'[k].unread = worker[k].unread /\ worker'[k].ids = worker[k].ids
  BY <1>2, <1>3, <1>4 DEF WorkerType
<1>6. /\ op.id \in IdsIn(guild)
      /\ \A i \in DOMAIN Listed : Listed[i].id = k =>
              op.want = Desired(Listed, i) /\ \A c : Mine(c, i) => c \in DependsOn(op)
  BY <1>2, <1>3, <1>4, OpOfListed
<1>7. \A c \in ChannelsIn(Listed) : row[c].status = "active"
  <2>1. PICK i \in DOMAIN Listed : Listed[i].id = k
    BY <1>2, <1>3, <1>6, ListedProperties
  <2>2. ~Right(i)
    BY <1>4, <1>6, <2>1 DEF Right
  <2>3. \A c \in ChannelsIn(Listed) : row[c].status = "active" \/ Mine(c, i)
    BY <2>1, <2>2 DEF Even, Standing, StoredFollows
  <2>4. \A c \in DependsOn(op) : row[c].status = "active"
    BY <1>2, <1>3, <1>4 DEF Even, UnderWay, LookUps
  <2> QED BY <1>6, <2>1, <2>3, <2>4
<1>8. UnderWay'
  <2>1. Labelled(worker'[k])
    BY <1>4, <1>5 DEF Labelled
  <2>2. /\ ChannelsIn(Listed) \subseteq worker[k].unread \cup DOMAIN worker[k].ids
        /\ \A c \in DOMAIN worker[k].ids : worker[k].ids[c] = c
        /\ \A c \in DependsOn(op) : row[c].status = "active"
    BY <1>2, <1>3, <1>4 DEF Even, UnderWay, LookUps
  <2> QED BY <1>2, <1>3, <1>5, <1>7, <2>1, <2>2, WorkerGoesOn
<1>9. ASSUME NEW x \in Categories, x # k
      PROVE  stored'[x] = stored[x] /\ (CategoryOpToCome(x) => CategoryOpToCome(x)')
  <2>1. worker'[x] = worker[x]
    BY <1>5, <1>9 DEF Ids
  <2>2. stored'[x] = stored[x]
    BY <1>4, <1>9 DEF Typed, RestTyped
  <2> QED BY <1>2, <2>1, <2>2 DEF CategoryOpToCome
<1>10. stored'[k] = op.want
  BY <1>4 DEF Typed, RestTyped
<1>11. Standing'
  <2>1. Listed' = Listed /\ ChannelsInGuild' = ChannelsInGuild
    BY <1>2 DEF Listed, ChannelsInGuild
  <2>2. OfGuild' /\ RowsFollow'
    BY <1>2, <2>1 DEF Even, Standing, OfGuild, RowsFollow
  <2>3. Absent'
    BY <1>2, <1>3, <1>6, <1>9 DEF Even, Standing, Absent
  <2>4. \A i \in DOMAIN Listed : \A c : Mine(c, i) <=> Mine(c, i)'
    BY <2>1 DEF Mine
  <2>5. StoredFollows'
    <3>1. ASSUME NEW i \in DOMAIN Listed, NEW x \in Categories, Listed[i].id = x
          PROVE  \/ Right(i)'
                 \/ /\ CategoryOpToCome(x)'
                    /\ \A c \in ChannelsIn(Listed) : row'[c].status = "active" \/ Mine(c, i)'
      <4>1. CASE x = k
        BY <1>6, <1>10, <2>1, <3>1, <4>1 DEF Right
      <4>2. CASE x # k
        <5>1. Right(i) => Right(i)'
          BY <1>9, <2>1, <3>1, <4>2 DEF Right
        <5> QED BY <1>2, <1>9, <2>4, <3>1, <4>2, <5>1 DEF Even, Standing, StoredFollows
      <4> QED BY <4>1, <4>2
    <3> QED BY <2>1, <3>1 DEF StoredFollows
  <2>6. ListSent'
    BY <1>2, <1>5 DEF ListSent, Sending
  <2> QED BY <2>2, <2>3, <2>5, <2>6 DEF Standing
<1> QED BY <1>8, <1>11 DEF Even

LEMMA ResolveChannelIDEven ==
  ASSUME Typed, AllApart, Even, NEW k \in Categories, ResolveChannelID(k)
  PROVE  Even'
<1>1. CategoryStep(k)
  BY DEF CategoryStep
<1>2. /\ k \in Ids /\ worker[k].pc # "idle" /\ worker[k] \in WorkerType
      /\ Labelled(worker[k]) /\ worker \in [Ids -> WorkerType]
      /\ UNCHANGED <<guild, gone, events, handler, queue, waiters, row>> /\ Last' = Last
      /\ \A c \in Channels : ToBeMapped(c)' => ToBeMapped(c)
      /\ worker'[k].pushing \in {<<>>, worker[k].pushing}
      /\ \A x \in Categories : Pushing(x) => Pushing(x)'
      /\ DeleteToCome' = DeleteToCome
  BY <1>1, CategoryStepFacts
<1>3. PICK c \in worker[k].unread :
        worker' = [worker EXCEPT ![k].unread = @ \ {c}, ![k].ids =
         IF Resolvable(c)
         THEN [x \in DOMAIN @ \cup {c} |-> IF x = c THEN row[c].id ELSE @[x]]
         ELSE @]
  BY DEF ResolveChannelID
<1>4. worker[k].pc = "apply" /\ stored' = stored /\ shown' = shown
  BY DEF ResolveChannelID, At, rows
<1>5. PICK ids : ids = IF Resolvable(c)
                       THEN [x \in DOMAIN worker[k].ids \cup {c} |->
                               IF x = c THEN row[c].id ELSE worker[k].ids[x]]
                       ELSE worker[k].ids
  OBVIOUS
<1>6. /\ worker'[k].pc = "apply" /\ worker'[k].op = worker[k].op
      /\ worker'[k].unread = worker[k].unread \ {c} /\ worker'[k].ids = ids
      /\ \A x \in Ids \ {k} : worker'[x] = worker[x]
  <2>1. worker' = [worker EXCEPT ![k].unread = @ \ {c}, ![k].ids = ids]
    BY <1>2, <1>3, <1>5
  <2> QED BY <1>2, <1>4, <2>1 DEF WorkerType
<1>7. c \in Channels /\ (Resolvable(c) => row[c].id = c)
  BY <1>2 DEF WorkerType, Resolvable, Typed, RowsTyped
<1>8. /\ ChannelsIn(Listed) \subseteq worker[k].unread \cup DOMAIN worker[k].ids
      /\ \A x \in DOMAIN worker[k].ids : worker[k].ids[x] = x
      /\ \A x \in DependsOn(worker[k].op) : row[x].status = "active"
      /\ \A x \in ChannelsIn(Listed) : row[x].status = "active"
  BY <1>2, <1>4 DEF Even, UnderWay, LookUps
<1>9. /\ \A x \in DOMAIN ids : ids[x] = x
      /\ DOMAIN worker[k].ids \subseteq DOMAIN ids
      /\ c \in ChannelsIn(Listed) => c \in DOMAIN ids
  <2>1. CASE Resolvable(c)
    <3>1. DOMAIN ids = DOMAIN worker[k].ids \cup {c}
      BY <1>5, <2>1
    <3>2. \A x \in DOMAIN ids : ids[x] = IF x = c THEN row[c].id ELSE worker[k].ids[x]
      BY <1>5, <2>1
    <3> QED BY <1>7, <1>8, <2>1, <3>1, <3>2
  <2>2. CASE ~Resolvable(c)
    BY <1>5, <1>8, <2>2 DEF Resolvable
  <2> QED BY <2>1, <2>2
<1>10. UnderWay'
  <2>1. Labelled(worker'[k])
    BY <1>2, <1>4, <1>6 DEF Labelled
  <2>2. ChannelsIn(Listed) \subseteq worker'[k].unread \cup DOMAIN worker'[k].ids
    BY <1>6, <1>8, <1>9
  <2> QED BY <1>2, <1>6, <1>8, <1>9, <2>1, <2>2, WorkerGoesOn
<1>11. \A x \in Categories : CategoryOpToCome(x) => CategoryOpToCome(x)'
  <2>1. \A x \in Categories : worker'[x].pc = worker[x].pc
    BY <1>4, <1>6 DEF Ids
  <2> QED BY <1>2, <2>1 DEF CategoryOpToCome
<1>12. Sending => Sending'
  BY <1>2, <1>6 DEF Sending
<1>13. Standing'
  BY <1>2, <1>4, <1>11, <1>12, Moved DEF Even
<1> QED BY <1>10, <1>13 DEF Even

(* What Stoat is shown once a list is accepted.                             *)
LEMMA SetCategoriesEven ==
  ASSUME Typed, AllApart, Even, NEW k \in Categories, SetCategories(k)
  PROVE  Even'
<1>1. CategoryStep(k)
  BY DEF CategoryStep
<1>2. /\ k \in Ids /\ worker[k].pc # "idle" /\ worker[k] \in WorkerType
      /\ Labelled(worker[k]) /\ Says(worker[k].op, Listed) /\ worker \in [Ids -> WorkerType]
      /\ UNCHANGED <<guild, gone, events, handler, queue, waiters, row>>
      /\ Listed' = Listed /\ Last' = Last
      /\ \A c \in Channels : ToBeMapped(c)' => ToBeMapped(c)
      /\ worker'[k].pushing \in {<<>>, worker[k].pushing}
      /\ \A x \in Categories : Pushing(x) => Pushing(x)'
  BY <1>1, CategoryStepFacts
<1>3. /\ worker[k].pc = "apply" /\ worker[k].unread = {} /\ stored' = stored
      /\ shown' = Resolved(worker[k].op.cats, worker[k].ids)
      /\ worker' = [worker EXCEPT ![k].pc = IF worker[k].op.kind = "category" THEN "confirm" ELSE "forget"]
  BY DEF SetCategories, Accepted, At, rows
<1>4. /\ worker'[k].pc = (IF worker[k].op.kind = "category" THEN "confirm" ELSE "forget")
      /\ worker'[k].op = worker[k].op /\ \A x \in Ids \ {k} : worker'[x] = worker[x]
  BY <1>2, <1>3 DEF WorkerType
<1>5. worker[k].op.kind \in {"category", "categoryDelete"} /\ worker[k].op.cats = Listed
  BY <1>2, <1>3 DEF Labelled, Says
<1>6. UnderWay'
  <2>1. Labelled(worker'[k]) /\ worker'[k].pc \notin {"category", "apply"}
    BY <1>4, <1>5 DEF Labelled
  <2> QED BY <1>2, <1>4, <2>1, WorkerGoesOn
<1>7. Mirrors'
  <2>1. /\ ChannelsIn(Listed) \subseteq DOMAIN worker[k].ids
        /\ \A c \in DOMAIN worker[k].ids : worker[k].ids[c] = c
    BY <1>2, <1>3 DEF Even, UnderWay, LookUps
  <2>2. ChannelsIn(Listed) \subseteq IdsIn(guild) /\ Listed \in Seq(CategoryType)
    BY ListedProperties DEF ChannelsInGuild
  <2>3. Resolved(Listed, worker[k].ids) = Resolved(Listed, Itself(IdsIn(guild)))
    BY <2>1, <2>2, ResolvedInFull
  <2> QED BY <1>2, <1>3, <1>5, <2>3 DEF Mirrors
<1>8. \A x \in Categories : CategoryOpToCome(x) => CategoryOpToCome(x)'
  <2>1. \A x \in Categories : worker[x].pc \in {"defer", "category"} => worker'[x].pc = worker[x].pc
    BY <1>3, <1>4 DEF Ids
  <2> QED BY <1>2, <2>1 DEF CategoryOpToCome
<1>9. Standing'
  <2>1. ChannelsInGuild' = ChannelsInGuild
    BY <1>2 DEF ChannelsInGuild
  <2>2. OfGuild' /\ RowsFollow' /\ Absent'
    BY <1>2, <1>3, <2>1 DEF Even, Standing, OfGuild, RowsFollow, Absent
  <2>3. \A i \in DOMAIN Listed : (Right(i) <=> Right(i)') /\ (\A c : Mine(c, i) <=> Mine(c, i)')
    BY <1>2, <1>3 DEF Right, Mine
  <2>4. StoredFollows'
    <3>1. ASSUME NEW i \in DOMAIN Listed, NEW x \in Categories, Listed[i].id = x
          PROVE  \/ Right(i)'
                 \/ /\ CategoryOpToCome(x)'
                    /\ \A c \in ChannelsIn(Listed) : row'[c].status = "active" \/ Mine(c, i)'
      BY <1>2, <1>8, <2>3, <3>1 DEF Even, Standing, StoredFollows
    <3> QED BY <1>2, <3>1 DEF StoredFollows
  <2> QED BY <1>7, <2>2, <2>4 DEF Standing, ListSent
<1> QED BY <1>6, <1>9 DEF Even

LEMMA ConfirmEven ==
  ASSUME Typed, AllApart, Even, NEW k \in Categories, Confirm(k)
  PROVE  Even'
<1>1. CategoryStep(k)
  BY DEF CategoryStep
<1>2. /\ k \in Ids /\ worker[k].pc # "idle" /\ worker \in [Ids -> WorkerType]
      /\ UNCHANGED <<guild, gone, events, handler, queue, waiters, row>> /\ Last' = Last
      /\ \A c \in Channels : ToBeMapped(c)' => ToBeMapped(c)
      /\ worker'[k].pushing \in {<<>>, worker[k].pushing}
      /\ \A x \in Categories : Pushing(x) => Pushing(x)'
      /\ DeleteToCome' = DeleteToCome
  BY <1>1, CategoryStepFacts
<1>3. /\ worker'[k] = Idle /\ \A x \in Ids \ {k} : worker'[x] = worker[x]
      /\ worker[k].pc = "confirm" /\ UNCHANGED <<stored, shown>>
  BY <1>2 DEF Confirm, Return, At, rows
<1>4. UnderWay'
  BY <1>2, <1>3, IdleType, WorkerGoesOn
<1>5. \A x \in Categories : CategoryOpToCome(x) => CategoryOpToCome(x)'
  <2>1. \A x \in Categories : worker[x].pc \in {"defer", "category"} => worker'[x].pc = worker[x].pc
    BY <1>3 DEF Ids
  <2> QED BY <1>2, <2>1 DEF CategoryOpToCome
<1>6. Sending => Sending'
  BY <1>3 DEF Sending
<1>7. Standing'
  BY <1>2, <1>3, <1>5, <1>6, Moved DEF Even
<1> QED BY <1>4, <1>7 DEF Even

LEMMA RemoveEven ==
  ASSUME Typed, AllApart, Even, NEW k \in Categories, Remove(k)
  PROVE  Even'
<1>1. CategoryStep(k)
  BY DEF CategoryStep
<1>2. /\ k \in Ids /\ worker[k].pc # "idle" /\ worker[k].op \in OpType /\ worker[k].op.id = k
      /\ Labelled(worker[k]) /\ worker \in [Ids -> WorkerType]
      /\ UNCHANGED <<guild, gone, events, handler, queue, waiters, row>>
      /\ Listed' = Listed /\ Last' = Last
      /\ \A c \in Channels : ToBeMapped(c)' => ToBeMapped(c)
      /\ worker'[k].pushing \in {<<>>, worker[k].pushing}
      /\ \A x \in Categories : Pushing(x) => Pushing(x)'
      /\ DeleteToCome' = DeleteToCome
  BY <1>1, CategoryStepFacts
<1>3. /\ worker'[k] = Idle /\ \A x \in Ids \ {k} : worker'[x] = worker[x]
      /\ worker[k].pc = "forget" /\ shown' = shown
      /\ stored' = [stored EXCEPT ![k] = NoId]
  BY <1>2 DEF Remove, Return, At
<1>4. UnderWay'
  BY <1>2, <1>3, IdleType, WorkerGoesOn
<1>5. \A i \in DOMAIN Listed : Listed[i].id # k
  <2>1. Own(worker[k].op, Last)
    BY <1>2, <1>3 DEF Labelled, Even, UnderWay, AtWorkers
  <2> QED BY <1>2, <2>1, OwnIsNotListed DEF Even, Standing
<1>6. ASSUME NEW x \in Categories, x # k
      PROVE  stored'[x] = stored[x] /\ (CategoryOpToCome(x) => CategoryOpToCome(x)')
  <2>1. worker'[x] = worker[x]
    BY <1>3, <1>6 DEF Ids
  <2>2. stored'[x] = stored[x]
    BY <1>3, <1>6 DEF Typed, RestTyped
  <2> QED BY <1>2, <2>1, <2>2 DEF CategoryOpToCome
<1>7. stored'[k] = NoId
  BY <1>3 DEF Typed, RestTyped
<1>8. Standing'
  <2>1. ChannelsInGuild' = ChannelsInGuild
    BY <1>2 DEF ChannelsInGuild
  <2>2. OfGuild' /\ RowsFollow'
    BY <1>2, <2>1 DEF Even, Standing, OfGuild, RowsFollow
  <2>3. Absent'
    BY <1>2, <1>6, <1>7 DEF Even, Standing, Absent
  <2>4. \A i \in DOMAIN Listed : Right(i) <=> Right(i)'
    <3>1. \A i \in DOMAIN Listed : Listed[i].id \in Categories
      BY ListedProperties
    <3> QED BY <1>2, <1>5, <1>6, <3>1 DEF Right
  <2>5. \A i \in DOMAIN Listed : \A c : Mine(c, i) <=> Mine(c, i)'
    BY <1>2 DEF Mine
  <2>6. StoredFollows'
    <3>1. ASSUME NEW i \in DOMAIN Listed, NEW x \in Categories, Listed[i].id = x
          PROVE  \/ Right(i)'
                 \/ /\ CategoryOpToCome(x)'
                    /\ \A c \in ChannelsIn(Listed) : row'[c].status = "active" \/ Mine(c, i)'
      BY <1>2, <1>5, <1>6, <2>4, <2>5, <3>1 DEF Even, Standing, StoredFollows
    <3> QED BY <1>2, <3>1 DEF StoredFollows
  <2>7. Sending => Sending'
    BY <1>3 DEF Sending
  <2>8. ListSent'
    BY <1>2, <1>3, <2>4, <2>7 DEF Even, Standing, ListSent, Mirrors
  <2> QED BY <2>2, <2>3, <2>6, <2>8 DEF Standing
<1> QED BY <1>4, <1>8 DEF Even

(* An op waits for channels of the guild only.                              *)
LEMMA SaysDependsOn ==
  ASSUME Typed, AllApart, NEW op, Says(op, Listed)
  PROVE  DependsOn(op) \subseteq ChannelsIn(Listed) /\ ChannelsIn(Listed) \subseteq Channels
<1>1. ChannelsIn(Listed) \subseteq Channels
  BY ListedProperties DEF ChannelsInGuild
<1>2. CASE op.kind = "category"
  <2>1. PICK i \in DOMAIN Listed : op.want = Desired(Listed, i)
    BY <1>2 DEF Says
  <2>2. op.want.cat.channels = Listed[i].channels
    BY <2>1 DEF Desired
  <2>3. DependsOn(op) = {Listed[i].channels[j] : j \in DOMAIN Listed[i].channels}
    BY <1>2, <2>2 DEF DependsOn
  <2> QED BY <1>1, <2>3 DEF ChannelsIn
<1>3. CASE op.kind # "category"
  BY <1>1, <1>3 DEF DependsOn
<1> QED BY <1>2, <1>3

LEMMA WorkerDependsOn ==
  ASSUME Typed, AllApart, Even, NEW x \in Ids, worker[x].pc # "idle"
  PROVE  /\ DependsOn(worker[x].op) \subseteq ChannelsIn(Listed)
         /\ ChannelsIn(Listed) \subseteq Channels
<1>1. Says(worker[x].op, Listed)
  BY DEF Even, UnderWay, OpsSay
<1> QED BY <1>1, SaysDependsOn

(* A channel's steps.                                                       *)
LEMMA ChannelStepFacts ==
  ASSUME Typed, AllApart, Even, NEW k \in Channels, worker[k].pc \in {"channel", "create", "notify", "push"}
  PROVE  /\ k \in Ids /\ Last.kind = "channel" /\ Last.id = k /\ queue[k] = <<>>
         /\ worker[k].op.kind = "channel"
         /\ \A i \in 0..MaxEvents : handler[i].pc # "own"
         /\ Last.pc # "own" /\ ~(Last.pc = "ownOps" /\ Last.ops # <<>>)
<1>1. k \in Ids /\ worker[k].pc # "idle" /\ worker[k].op.id = k
  BY IdleType DEF Ids, Typed, WorkersTyped
<1>2. worker[k].op.kind = "channel" /\ Own(worker[k].op, Last) /\ queue[k] = <<>>
  BY <1>1 DEF Even, UnderWay, AtWorkers, Labelled
<1>3. Last.pc # "own" /\ ~(Last.pc = "ownOps" /\ Last.ops # <<>>)
  BY <1>1 DEF Even, UnderWay, NothingSubmitted
<1>4. \A i \in 0..MaxEvents : handler[i].pc # "own"
  BY <1>3 DEF Even, UnderWay, Alone, Last
<1> QED BY <1>1, <1>2, <1>3, <1>4 DEF Own

LEMMA WriteChannelPendingEven ==
  ASSUME Typed, AllApart, Even, NEW k \in Channels, WriteChannelPending(k)
  PROVE  Even'
<1>1. worker[k].pc = "channel"
  BY DEF WriteChannelPending, At
<1>2. k \in Ids /\ Last.kind = "channel" /\ Last.id = k /\ queue[k] = <<>>
  BY <1>1, ChannelStepFacts
<1>3. /\ worker'[k].pc = "create" /\ worker'[k].op = worker[k].op
      /\ \A x \in Ids \ {k} : worker'[x] = worker[x]
      /\ worker'[k].pushing = worker[k].pushing
      /\ row'[k].status = "pending" /\ \A x \in Channels \ {k} : row'[x] = row[x]
  BY <1>2 DEF Typed, WorkersTyped, WorkerType, RowsTyped, RowType, WriteChannelPending
<1>4. UNCHANGED <<guild, gone, events, handler, queue, waiters, stored, shown>>
  BY DEF WriteChannelPending, discord
<1>5. Listed' = Listed /\ Last' = Last /\ ChannelsInGuild' = ChannelsInGuild
  BY <1>4 DEF Listed, Last, ChannelsInGuild
<1>6. row[k].status # "active"
  BY <1>1 DEF ToBeMapped, AtWork, Even, Standing, RowsFollow
<1>7. \A c \in Channels : row'[c].status = "active" <=> row[c].status = "active"
  BY <1>3, <1>6
<1>8. \A x \in Ids : worker'[x].pc \in {"category", "apply"} => worker'[x] = worker[x]
  BY <1>3
<1>9. UnderWay'
  <2>1. Alone' /\ InHandler' /\ NothingSubmitted'
    BY <1>1, <1>2, <1>4, <1>5 DEF Even, UnderWay, Alone, InHandler, NothingSubmitted
  <2>2. InQueues'
    BY <1>2, <1>3, <1>4, <1>5 DEF Even, UnderWay, InQueues
  <2>3. AtWorkers'
    <3>1. Labelled(worker'[k])
      BY <1>1, <1>2, <1>3 DEF Even, UnderWay, AtWorkers, Labelled
    <3> QED BY <1>1, <1>2, <1>3, <1>4, <1>5, <3>1 DEF Even, UnderWay, AtWorkers
  <2>4. OpsSay'
    <3>1. \A x \in Ids : /\ worker'[x].pc # "idle" => Says(worker'[x].op, Listed)
                         /\ \A j \in DOMAIN worker'[x].pushing : Says(worker'[x].pushing[j], Listed)
      BY <1>1, <1>2, <1>3 DEF Even, UnderWay, OpsSay
    <3> QED BY <1>4, <1>5, <3>1 DEF Even, UnderWay, OpsSay
  <2>5. LookUps'
    <3>1. ASSUME NEW x \in Ids, worker[x].pc \in {"category", "apply"}
          PROVE  /\ \A c \in DependsOn(worker[x].op) : row'[c].status = "active"
                 /\ worker[x].pc = "apply" => \A c \in ChannelsIn(Listed) : row'[c].status = "active"
      <4>1. /\ \A c \in DependsOn(worker[x].op) : row[c].status = "active"
            /\ worker[x].pc = "apply" => \A c \in ChannelsIn(Listed) : row[c].status = "active"
        BY <3>1 DEF Even, UnderWay, LookUps
      <4>2. DependsOn(worker[x].op) \subseteq ChannelsIn(Listed) /\ ChannelsIn(Listed) \subseteq Channels
        BY <3>1, WorkerDependsOn
      <4> QED BY <1>7, <4>1, <4>2
    <3> QED BY <1>5, <1>8, <3>1 DEF Even, UnderWay, LookUps
  <2> QED BY <2>1, <2>2, <2>3, <2>4, <2>5 DEF UnderWay
<1>10. \A c \in Channels : ToBeMapped(c)' => ToBeMapped(c)
  <2>1. \A c \in Channels : AtWork(c)' => AtWork(c)
    BY <1>1, <1>3 DEF AtWork, Ids
  <2> QED BY <1>4, <2>1 DEF ToBeMapped, ToCome, ToSubmit, Queued
<1>11. \A x \in Categories : CategoryOpToCome(x) => CategoryOpToCome(x)'
  <2>1. \A x \in Categories : worker[x].pc \in {"defer", "category"} => worker'[x].pc = worker[x].pc
    BY <1>1, <1>3 DEF Ids
  <2>2. \A x \in Categories : Pushing(x) => Pushing(x)'
    BY <1>3 DEF Pushing, Ids
  <2> QED BY <1>4, <1>5, <2>1, <2>2 DEF CategoryOpToCome
<1>12. Standing'
  <2>1. OfGuild' /\ Absent'
    BY <1>4, <1>5 DEF Even, Standing, OfGuild, Absent
  <2>2. RowsFollow'
    BY <1>4, <1>5, <1>7, <1>10 DEF Even, Standing, RowsFollow, ChannelsInGuild
  <2>3. \A i \in DOMAIN Listed : (Right(i) <=> Right(i)') /\ (\A c : Mine(c, i) <=> Mine(c, i)')
    BY <1>4, <1>5 DEF Right, Mine
  <2>4. StoredFollows'
    <3>1. ASSUME NEW i \in DOMAIN Listed, NEW x \in Categories, Listed[i].id = x
          PROVE  \/ Right(i)'
                 \/ /\ CategoryOpToCome(x)'
                    /\ \A c \in ChannelsIn(Listed) : row'[c].status = "active" \/ Mine(c, i)'
      <4>1. ChannelsIn(Listed) \subseteq Channels
        BY ListedProperties DEF ChannelsInGuild
      <4> QED BY <1>7, <1>11, <2>3, <3>1, <4>1 DEF Even, Standing, StoredFollows
    <3> QED BY <1>5, <3>1 DEF StoredFollows
  <2>5. DeleteToCome \/ Sending => DeleteToCome' \/ Sending'
    <3>1. Sending => Sending'
      BY <1>1, <1>3 DEF Sending
    <3> QED BY <1>4, <1>5, <3>1 DEF DeleteToCome
  <2>6. ListSent'
    BY <1>4, <1>5, <2>3, <2>5 DEF Even, Standing, ListSent, Mirrors
  <2> QED BY <2>1, <2>2, <2>4, <2>6 DEF Standing
<1> QED BY <1>9, <1>12 DEF Even

LEMMA ConfirmChannelEven ==
  ASSUME Typed, Steady, AllApart, Even, NEW k \in Channels, ConfirmChannel(k)
  PROVE  Even'
<1>1. worker[k].pc = "create"
  BY DEF ConfirmChannel, At
<1>2. /\ k \in Ids /\ Last.kind = "channel" /\ Last.id = k /\ queue[k] = <<>>
      /\ \A i \in 0..MaxEvents : handler[i].pc # "own"
      /\ Last.pc # "own" /\ ~(Last.pc = "ownOps" /\ Last.ops # <<>>)
  BY <1>1, ChannelStepFacts
<1>3. /\ worker'[k].pc = "notify" /\ worker'[k].op = worker[k].op
      /\ worker'[k].pushing = worker[k].pushing /\ \A x \in Ids \ {k} : worker'[x] = worker[x]
      /\ row'[k].status = "active" /\ \A x \in Channels \ {k} : row'[x] = row[x]
  BY <1>2 DEF Typed, WorkersTyped, WorkerType, RowsTyped, ConfirmChannel
<1>4. UNCHANGED <<guild, gone, events, handler, queue, waiters, stored, shown>>
  BY DEF ConfirmChannel, discord
<1>5. Listed' = Listed /\ Last' = Last /\ ChannelsInGuild' = ChannelsInGuild
  BY <1>4 DEF Listed, Last, ChannelsInGuild
<1>8. \A x \in Channels : row[x].status = "active" => row'[x].status = "active"
  BY <1>3
<1>9. \A o \in OpType : Own(o, Last) => o.id = k
  BY <1>2 DEF Own
<1>10. \A w \in Ids : \A n \in DOMAIN queue[w] : queue[w][n].kind = "category"
  <2> SUFFICES ASSUME NEW w \in Ids, NEW n \in DOMAIN queue[w], queue[w][n].kind # "category"
               PROVE  FALSE
    OBVIOUS
  <2>1. queue[w][n].id = w /\ queue[w][n] \in OpType
    BY DEF Typed, QueuesTyped
  <2>2. Own(queue[w][n], Last) /\ worker[w].pc = "idle"
    BY DEF Even, UnderWay, InQueues
  <2> QED BY <1>1, <1>9, <2>1, <2>2
<1>11. UnderWay'
  <2>1. Alone' /\ InHandler' /\ NothingSubmitted'
    BY <1>2, <1>4, <1>5 DEF Even, UnderWay, Alone, InHandler, NothingSubmitted, Last
  <2>2. InQueues'
    BY <1>4, <1>10 DEF InQueues
  <2>3. AtWorkers'
    <3>1. Labelled(worker'[k])
      BY <1>1, <1>2, <1>3 DEF Even, UnderWay, AtWorkers, Labelled
    <3> QED BY <1>1, <1>2, <1>3, <1>4, <1>5, <3>1 DEF Even, UnderWay, AtWorkers
  <2>4. OpsSay'
    <3>1. \A x \in Ids : /\ worker'[x].pc # "idle" => Says(worker'[x].op, Listed)
                         /\ \A j \in DOMAIN worker'[x].pushing : Says(worker'[x].pushing[j], Listed)
      BY <1>1, <1>2, <1>3 DEF Even, UnderWay, OpsSay
    <3> QED BY <1>4, <1>5, <3>1 DEF Even, UnderWay, OpsSay
  <2>5. LookUps'
    <3>1. \A x \in Ids : worker'[x].pc \in {"category", "apply"} => worker'[x] = worker[x]
      BY <1>3
    <3>2. ASSUME NEW x \in Ids, worker[x].pc \in {"category", "apply"}
          PROVE  /\ \A c \in DependsOn(worker[x].op) : row'[c].status = "active"
                 /\ worker[x].pc = "apply" => \A c \in ChannelsIn(Listed) : row'[c].status = "active"
      <4>1. /\ \A c \in DependsOn(worker[x].op) : row[c].status = "active"
            /\ worker[x].pc = "apply" => \A c \in ChannelsIn(Listed) : row[c].status = "active"
        BY <3>2 DEF Even, UnderWay, LookUps
      <4>2. DependsOn(worker[x].op) \subseteq ChannelsIn(Listed) /\ ChannelsIn(Listed) \subseteq Channels
        BY <3>2, WorkerDependsOn
      <4> QED BY <1>8, <4>1, <4>2
    <3> QED BY <1>5, <3>1, <3>2 DEF Even, UnderWay, LookUps
  <2> QED BY <2>1, <2>2, <2>3, <2>4, <2>5 DEF UnderWay
<1>12. ASSUME NEW c \in Channels, ToBeMapped(c)' PROVE ToBeMapped(c) /\ c # k
  <2>1. c \in Ids
    BY DEF Ids
  <2>2. ~Queued(c)'
    BY <1>4, <1>10, <2>1 DEF Queued
  <2>3. ~ToCome(c)'
    BY <1>2, <1>4 DEF ToCome
  <2>4. AtWork(c)' => AtWork(c) /\ c # k
    BY <1>3, <2>1 DEF AtWork
  <2>5. ToSubmit(c)' => FALSE
    <3>1. SUFFICES ASSUME ToSubmit(c)' PROVE FALSE
      OBVIOUS
    <3>2. PICK n \in 0..MaxEvents : \E j \in DOMAIN handler[n].ops : handler[n].ops[j].kind = "channel"
      BY <1>4, <3>1 DEF ToSubmit
    <3>3. handler[n].ops # <<>>
      BY <3>2
    <3>4. n = events /\ handler[n] = Last /\ handler[n].pc \notin {"none", "own", "done"}
      BY <3>3 DEF Steady, OpsMade, Even, UnderWay, Alone, Last
    <3>5. handler[n].pc \in {"ownOps", "catOps"}
      BY <3>4 DEF Typed, HandlersTyped, HandlerType
    <3> QED BY <1>2, <3>2, <3>3, <3>4, <3>5 DEF Even, UnderWay, InHandler
  <2> QED BY <1>12, <2>2, <2>3, <2>4, <2>5 DEF ToBeMapped
<1>13. ASSUME NEW x \in Categories, CategoryOpToCome(x) PROVE CategoryOpToCome(x)'
  <2>1. x \in Ids /\ x # k
    BY SyncAssumption DEF Ids
  <2>2. worker'[x] = worker[x]
    BY <1>3, <2>1
  <2>3. Pushing(x) => Pushing(x)'
    BY <1>3 DEF Pushing, Ids
  <2> QED BY <1>4, <1>5, <1>13, <2>2, <2>3 DEF CategoryOpToCome
<1>14. Standing'
  <2>1. OfGuild' /\ Absent'
    BY <1>4, <1>5 DEF Even, Standing, OfGuild, Absent
  <2>2. RowsFollow'
    <3>1. k \in IdsIn(guild)
      BY <1>2 DEF Even, Standing, OfGuild, ChannelsInGuild
    <3>2. \A c \in ChannelsInGuild : row'[c].status = "active" \/ (Last.kind = "channel" /\ Last.id = c)
      BY <1>8 DEF Even, Standing, RowsFollow, ChannelsInGuild
    <3>3. \A c \in Channels : row'[c].status = "active" => c \in IdsIn(guild) \cup gone
      BY <1>3, <3>1 DEF Even, Standing, RowsFollow
    <3>4. \A c \in Channels : ToBeMapped(c)' => row'[c].status # "active"
      BY <1>3, <1>12 DEF Even, Standing, RowsFollow
    <3> QED BY <1>4, <1>5, <3>2, <3>3, <3>4 DEF RowsFollow
  <2>3. \A i \in DOMAIN Listed : (Right(i) <=> Right(i)') /\ (\A c : Mine(c, i) <=> Mine(c, i)')
    BY <1>4, <1>5 DEF Right, Mine
  <2>4. StoredFollows'
    <3>1. ASSUME NEW i \in DOMAIN Listed, NEW x \in Categories, Listed[i].id = x
          PROVE  \/ Right(i)'
                 \/ /\ CategoryOpToCome(x)'
                    /\ \A c \in ChannelsIn(Listed) : row'[c].status = "active" \/ Mine(c, i)'
      <4>1. ChannelsIn(Listed) \subseteq Channels
        BY ListedProperties DEF ChannelsInGuild
      <4> QED BY <1>8, <1>13, <2>3, <3>1, <4>1 DEF Even, Standing, StoredFollows
    <3> QED BY <1>5, <3>1 DEF StoredFollows
  <2>5. DeleteToCome \/ Sending => DeleteToCome' \/ Sending'
    <3>1. Sending => Sending'
      BY <1>1, <1>3 DEF Sending
    <3> QED BY <1>4, <1>5, <3>1 DEF DeleteToCome
  <2>6. ListSent'
    BY <1>4, <1>5, <2>3, <2>5 DEF Even, Standing, ListSent, Mirrors
  <2> QED BY <2>1, <2>2, <2>4, <2>6 DEF Standing
<1> QED BY <1>11, <1>14 DEF Even

LEMMA TakeWaitersEven ==
  ASSUME Typed, AllApart, Even, NEW k \in Channels, TakeWaiters(k)
  PROVE  Even'
<1>1. worker[k].pc = "notify"
  BY DEF TakeWaiters, At
<1>2. k \in Ids /\ worker[k].op.kind = "channel"
  BY <1>1, ChannelStepFacts
<1>3. /\ worker'[k].pc = "push" /\ worker'[k].op = worker[k].op /\ worker'[k].pushing = waiters[k]
      /\ \A x \in Ids \ {k} : worker'[x] = worker[x]
      /\ waiters'[k] = <<>> /\ \A x \in Channels \ {k} : waiters'[x] = waiters[x]
  BY <1>2 DEF Typed, WorkersTyped, WorkerType, RestTyped, TakeWaiters
<1>4. UNCHANGED <<guild, gone, events, handler, queue, row, stored, shown>>
  BY DEF TakeWaiters, discord, rows
<1>5. Listed' = Listed /\ Last' = Last
  BY <1>4 DEF Listed, Last
<1>6. UnderWay'
  <2>1. \A c \in Channels : \A j \in DOMAIN waiters'[c] : Says(waiters'[c][j], Listed)
    BY <1>3 DEF Even, UnderWay, OpsSay
  <2>2. \A j \in DOMAIN worker'[k].pushing : Says(worker'[k].pushing[j], Listed)
    BY <1>3 DEF Even, UnderWay, OpsSay
  <2>3. Labelled(worker'[k])
    BY <1>2, <1>3 DEF Labelled
  <2> QED BY <1>1, <1>2, <1>3, <1>4, <2>1, <2>2, <2>3, WorkerMoves
<1>7. \A c \in Channels : ToBeMapped(c)' => ToBeMapped(c)
  <2>1. \A c \in Channels : AtWork(c)' => AtWork(c)
    BY <1>3 DEF AtWork, Ids
  <2> QED BY <1>4, <2>1 DEF ToBeMapped, ToCome, ToSubmit, Queued
<1>8. ASSUME NEW x \in Categories, CategoryOpToCome(x) PROVE CategoryOpToCome(x)'
  <2>1. x \in Ids /\ x # k
    BY SyncAssumption DEF Ids
  <2>2. worker'[x] = worker[x]
    BY <1>3, <2>1
  <2>3. CASE \E c \in Channels : \E j \in DOMAIN waiters[c] : waiters[c][j].id = x
    <3>1. PICK c \in Channels : \E j \in DOMAIN waiters[c] : waiters[c][j].id = x
      BY <2>3
    <3>2. CASE c # k
      <4>1. \E j \in DOMAIN waiters'[c] : waiters'[c][j].id = x
        BY <1>3, <3>1, <3>2
      <4> QED BY <4>1 DEF CategoryOpToCome
    <3>3. CASE c = k
      <4>1. \E j \in DOMAIN worker'[k].pushing : worker'[k].pushing[j].id = x
        BY <1>3, <3>1, <3>3
      <4>2. Pushing(x)'
        BY <4>1 DEF Pushing
      <4> QED BY <4>2 DEF CategoryOpToCome
    <3> QED BY <3>2, <3>3
  <2>4. CASE Pushing(x)
    <3>1. PICK c \in Channels : \E j \in DOMAIN worker[c].pushing : worker[c].pushing[j].id = x
      BY <2>4 DEF Pushing
    <3>2. worker[k].pushing = <<>>
      BY <1>1, <1>2 DEF Typed, WorkersTyped
    <3>3. c # k /\ c \in Ids
      BY <3>1, <3>2 DEF Ids
    <3>4. Pushing(x)'
      BY <1>3, <3>1, <3>3 DEF Pushing
    <3> QED BY <3>4 DEF CategoryOpToCome
  <2> QED BY <1>4, <1>5, <1>8, <2>2, <2>3, <2>4 DEF CategoryOpToCome
<1>9. DeleteToCome \/ Sending => DeleteToCome' \/ Sending'
  <2>1. Sending => Sending'
    BY <1>1, <1>3 DEF Sending
  <2> QED BY <1>4, <1>5, <2>1 DEF DeleteToCome
<1>10. Standing'
  BY <1>4, <1>5, <1>7, <1>8, <1>9, Moved DEF Even
<1> QED BY <1>6, <1>10 DEF Even

LEMMA PushWaiterEven ==
  ASSUME Typed, Steady, AllApart, Even, NEW k \in Channels, PushWaiter(k)
  PROVE  Even'
<1>1. worker[k].pc = "push"
  BY DEF PushWaiter, At
<1>2. k \in Ids /\ Last.kind = "channel" /\ Last.id = k /\ queue[k] = <<>>
      /\ worker[k].op.kind = "channel" /\ Last.pc # "own" /\ ~(Last.pc = "ownOps" /\ Last.ops # <<>>)
  BY <1>1, ChannelStepFacts
<1>3. PICK op \in OpType :
        /\ Joins(op)
        /\ \E j \in DOMAIN worker[k].pushing : worker[k].pushing[j] = op
        /\ worker' = [worker EXCEPT ![k].pushing = Tail(@)]
        /\ \A j \in DOMAIN Tail(worker[k].pushing) : \E m \in DOMAIN worker[k].pushing :
             Tail(worker[k].pushing)[j] = worker[k].pushing[m]
        /\ \A m \in DOMAIN worker[k].pushing :
             \/ worker[k].pushing[m] = op
             \/ \E j \in DOMAIN Tail(worker[k].pushing) :
                  Tail(worker[k].pushing)[j] = worker[k].pushing[m]
  BY Pushed
<1>4. UNCHANGED <<guild, gone, events, handler, waiters, row, stored, shown>>
  BY DEF PushWaiter, discord, rows
<1>5. Listed' = Listed /\ Last' = Last
  BY <1>4 DEF Listed, Last
<1>6. /\ worker'[k].pc = "push" /\ worker'[k].op = worker[k].op
      /\ worker'[k].pushing = Tail(worker[k].pushing)
      /\ \A x \in Ids \ {k} : worker'[x] = worker[x]
  BY <1>1, <1>2, <1>3 DEF Typed, WorkersTyped, WorkerType
<1>7. op.kind = "category" /\ Says(op, Listed)
  BY <1>2, <1>3 DEF Steady, WaitersOfGuild, OfCategory, Even, UnderWay, OpsSay
<1>8. op.id \in Ids /\ op.id # k
  <2>1. op.id \in Categories
    BY <1>7, ListedProperties DEF Says
  <2> QED BY <2>1, SyncAssumption DEF Ids
<1>9. \A o \in OpType : Own(o, Last) => o.id = k
  BY <1>2 DEF Own
<1>10. \A w \in Ids : \A n \in DOMAIN queue[w] : queue[w][n].kind = "category"
  <2> SUFFICES ASSUME NEW w \in Ids, NEW n \in DOMAIN queue[w], queue[w][n].kind # "category"
               PROVE  FALSE
    OBVIOUS
  <2>1. queue[w][n].id = w /\ queue[w][n] \in OpType
    BY DEF Typed, QueuesTyped
  <2>2. Own(queue[w][n], Last) /\ worker[w].pc = "idle"
    BY DEF Even, UnderWay, InQueues
  <2> QED BY <1>1, <1>9, <2>1, <2>2
<1>11. \A w \in Ids : \A n \in DOMAIN queue'[w] : queue'[w][n].kind = "category"
  BY <1>3, <1>7, <1>10 DEF Joins
<1>12. UnderWay'
  <2>1. Alone' /\ InHandler' /\ NothingSubmitted'
    BY <1>2, <1>4, <1>5 DEF Even, UnderWay, Alone, InHandler, NothingSubmitted, Last
  <2>2. InQueues'
    BY <1>11 DEF InQueues
  <2>3. AtWorkers'
    <3>1. ASSUME NEW x \in Ids, x # k, worker[x].pc # "idle" PROVE worker[x].op.kind = "category"
      <4>1. worker[x].op.id = x /\ worker[x].op \in OpType
        BY <3>1, IdleType DEF Typed, WorkersTyped
      <4> QED BY <1>9, <3>1, <4>1 DEF Even, UnderWay, AtWorkers
    <3>2. Labelled(worker'[k])
      BY <1>2, <1>6 DEF Labelled
    <3>3. queue'[k] = <<>>
      BY <1>2, <1>3, <1>8 DEF Joins
    <3> QED BY <1>1, <1>2, <1>5, <1>6, <3>1, <3>2, <3>3 DEF Even, UnderWay, AtWorkers
  <2>4. OpsSay'
    <3>1. \A w \in Ids : \A n \in DOMAIN queue'[w] : Says(queue'[w][n], Listed)
      BY <1>3, <1>7 DEF Joins, Even, UnderWay, OpsSay
    <3>2. \A j \in DOMAIN worker'[k].pushing : Says(worker'[k].pushing[j], Listed)
      BY <1>2, <1>3, <1>6 DEF Even, UnderWay, OpsSay
    <3>3. \A x \in Ids : /\ worker'[x].pc # "idle" => Says(worker'[x].op, Listed)
                         /\ \A j \in DOMAIN worker'[x].pushing : Says(worker'[x].pushing[j], Listed)
      BY <1>1, <1>6, <3>2 DEF Even, UnderWay, OpsSay
    <3> QED BY <1>4, <1>5, <3>1, <3>3 DEF Even, UnderWay, OpsSay
  <2>5. LookUps'
    BY <1>4, <1>5, <1>6 DEF Even, UnderWay, LookUps
  <2> QED BY <2>1, <2>2, <2>3, <2>4, <2>5 DEF UnderWay
<1>13. \A c \in Channels : ToBeMapped(c)' => ToBeMapped(c)
  <2>1. \A c \in Channels : AtWork(c)' => AtWork(c)
    BY <1>1, <1>6 DEF AtWork, Ids
  <2>2. \A c \in Channels : ~Queued(c)'
    BY <1>11 DEF Queued, Ids
  <2> QED BY <1>4, <2>1, <2>2 DEF ToBeMapped, ToCome, ToSubmit
<1>14. ASSUME NEW x \in Categories, CategoryOpToCome(x) PROVE CategoryOpToCome(x)'
  <2>1. x \in Ids /\ x # k
    BY SyncAssumption DEF Ids
  <2>2. worker'[x] = worker[x]
    BY <1>6, <2>1
  <2>3. CASE \E j \in DOMAIN queue[x] : queue[x][j].kind = "category"
    <3>1. \E j \in DOMAIN queue'[x] : queue'[x][j].kind = "category"
      BY <1>3, <2>1, <2>3 DEF Joins
    <3> QED BY <3>1 DEF CategoryOpToCome
  <2>4. CASE Pushing(x)
    <3>1. PICK c \in Channels : \E j \in DOMAIN worker[c].pushing : worker[c].pushing[j].id = x
      BY <2>4 DEF Pushing
    <3>2. CASE c # k
      <4>1. Pushing(x)'
        BY <1>6, <3>1, <3>2 DEF Pushing, Ids
      <4> QED BY <4>1 DEF CategoryOpToCome
    <3>3. CASE c = k
      <4>1. PICK j \in DOMAIN worker[k].pushing : worker[k].pushing[j].id = x
        BY <3>1, <3>3
      <4>2. CASE worker[k].pushing[j] = op
        <5>1. \E n \in DOMAIN queue'[x] : queue'[x][n].kind = "category"
          BY <1>3, <1>7, <4>1, <4>2 DEF Joins
        <5> QED BY <5>1 DEF CategoryOpToCome
      <4>3. CASE worker[k].pushing[j] # op
        <5>1. \E n \in DOMAIN worker'[k].pushing : worker'[k].pushing[n].id = x
          BY <1>3, <1>6, <4>1, <4>3
        <5>2. Pushing(x)'
          BY <5>1 DEF Pushing
        <5> QED BY <5>2 DEF CategoryOpToCome
      <4> QED BY <4>2, <4>3
    <3> QED BY <3>2, <3>3
  <2> QED BY <1>4, <1>5, <1>14, <2>2, <2>3, <2>4 DEF CategoryOpToCome
<1>15. DeleteToCome \/ Sending => DeleteToCome' \/ Sending'
  <2>1. Sending => Sending'
    BY <1>1, <1>6 DEF Sending
  <2>2. \A x \in Ids : \A j \in DOMAIN queue[x] : queue[x][j].kind # "categoryDelete"
    BY <1>10
  <2> QED BY <1>5, <2>1, <2>2 DEF DeleteToCome
<1>16. Standing'
  BY <1>4, <1>5, <1>13, <1>14, <1>15, Moved DEF Even
<1> QED BY <1>12, <1>16 DEF Even

LEMMA NotifiedEven ==
  ASSUME Typed, AllApart, Even, NEW k \in Channels, Notified(k)
  PROVE  Even'
<1>1. /\ worker[k].pc = "push" /\ worker[k].pushing = <<>> /\ k \in Ids
      /\ UNCHANGED <<guild, gone, events, handler, queue, waiters, row, stored, shown>>
  BY DEF Notified, At, discord, rows, Ids
<1>2. worker'[k] = Idle /\ \A x \in Ids \ {k} : worker'[x] = worker[x]
  BY <1>1 DEF Notified, Return, Typed, WorkersTyped
<1>3. worker'[k].pc = "idle" /\ worker'[k].pushing = <<>>
  BY <1>2, IdleType
<1>4. Last' = Last
  BY <1>1 DEF Last
<1>5. UnderWay'
  BY <1>1, <1>2, <1>3, WorkerGoesOn
<1>6. \A c \in Channels : ToBeMapped(c)' => ToBeMapped(c)
  <2>1. \A c \in Channels : AtWork(c)' => AtWork(c)
    BY <1>2, <1>3 DEF AtWork, Ids
  <2> QED BY <1>1, <2>1 DEF ToBeMapped, ToCome, ToSubmit, Queued
<1>7. \A x \in Categories : CategoryOpToCome(x) => CategoryOpToCome(x)'
  <2>1. \A x \in Categories : worker[x].pc \in {"defer", "category"} => worker'[x].pc = worker[x].pc
    BY <1>1, <1>2 DEF Ids
  <2>2. \A x \in Categories : Pushing(x) => Pushing(x)'
    BY <1>1, <1>2 DEF Pushing, Ids
  <2> QED BY <1>1, <1>4, <2>1, <2>2 DEF CategoryOpToCome
<1>8. DeleteToCome \/ Sending => DeleteToCome' \/ Sending'
  <2>1. Sending => Sending'
    BY <1>1, <1>2 DEF Sending
  <2> QED BY <1>1, <1>4, <2>1 DEF DeleteToCome
<1>9. Standing'
  BY <1>1, <1>4, <1>6, <1>7, <1>8, Moved DEF Even
<1> QED BY <1>5, <1>9 DEF Even

LEMMA RemoveChannelEven ==
  ASSUME Typed, Steady, AllApart, Even, NEW k \in Channels, RemoveChannel(k)
  PROVE  Even'
<1>1. k \in Ids /\ worker[k].pc = "channelDelete"
  BY DEF RemoveChannel, At, Ids
<1>2. k \notin ChannelsInGuild
  BY <1>1 DEF Steady, Followed, Kept, KeptByWorker
<1>3. /\ worker'[k] = Idle /\ \A x \in Ids \ {k} : worker'[x] = worker[x]
      /\ row'[k].status # "active" /\ \A x \in Channels \ {k} : row'[x] = row[x]
  BY <1>1 DEF Typed, WorkersTyped, RowsTyped, RemoveChannel, Return, Unmapped
<1>pushing. worker[k].pushing = <<>> /\ worker'[k].pushing = <<>>
  BY <1>1, <1>3, IdleType DEF Typed, WorkersTyped
<1>4. UNCHANGED <<guild, gone, events, handler, queue, waiters, stored, shown>>
  BY DEF RemoveChannel, discord
<1>5. Listed' = Listed /\ Last' = Last /\ ChannelsInGuild' = ChannelsInGuild
  BY <1>4 DEF Listed, Last, ChannelsInGuild
<1>6. \A c \in ChannelsIn(Listed) : row'[c] = row[c]
  BY <1>2, <1>3, ListedProperties DEF ChannelsInGuild
<1>7. UnderWay'
  <2>1. Alone' /\ InHandler' /\ NothingSubmitted'
    BY <1>1, <1>4, <1>5 DEF Even, UnderWay, Alone, InHandler, NothingSubmitted
  <2>2. InQueues' /\ AtWorkers'
    BY <1>3, <1>4, <1>5, IdleType DEF Even, UnderWay, InQueues, AtWorkers
  <2>3. OpsSay'
    <3>1. \A x \in Ids : /\ worker'[x].pc # "idle" => Says(worker'[x].op, Listed)
                         /\ \A j \in DOMAIN worker'[x].pushing : Says(worker'[x].pushing[j], Listed)
      BY <1>3, <1>pushing, IdleType DEF Even, UnderWay, OpsSay
    <3> QED BY <1>4, <1>5, <3>1 DEF Even, UnderWay, OpsSay
  <2>4. LookUps'
    <3>1. \A x \in Ids : worker'[x].pc \in {"category", "apply"} => worker'[x] = worker[x]
      BY <1>3, IdleType
    <3>2. ASSUME NEW x \in Ids, worker[x].pc \in {"category", "apply"}
          PROVE  /\ \A c \in DependsOn(worker[x].op) : row'[c].status = "active"
                 /\ worker[x].pc = "apply" => \A c \in ChannelsIn(Listed) : row'[c].status = "active"
      <4>1. /\ \A c \in DependsOn(worker[x].op) : row[c].status = "active"
            /\ worker[x].pc = "apply" => \A c \in ChannelsIn(Listed) : row[c].status = "active"
        BY <3>2 DEF Even, UnderWay, LookUps
      <4>2. DependsOn(worker[x].op) \subseteq ChannelsIn(Listed)
        BY <3>2, WorkerDependsOn
      <4> QED BY <1>6, <4>1, <4>2
    <3> QED BY <1>5, <3>1, <3>2 DEF Even, UnderWay, LookUps
  <2> QED BY <2>1, <2>2, <2>3, <2>4 DEF UnderWay
<1>8. \A c \in Channels : ToBeMapped(c)' => ToBeMapped(c)
  <2>1. \A c \in Channels : AtWork(c)' => AtWork(c)
    BY <1>3, IdleType DEF AtWork, Ids
  <2> QED BY <1>4, <2>1 DEF ToBeMapped, ToCome, ToSubmit, Queued
<1>9. \A x \in Categories : CategoryOpToCome(x) => CategoryOpToCome(x)'
  <2>1. \A x \in Categories : worker[x].pc \in {"defer", "category"} => worker'[x].pc = worker[x].pc
    BY <1>1, <1>3 DEF Ids
  <2>2. \A x \in Categories : Pushing(x) => Pushing(x)'
    BY <1>3, <1>pushing DEF Pushing, Ids
  <2> QED BY <1>4, <1>5, <2>1, <2>2 DEF CategoryOpToCome
<1>10. Standing'
  <2>1. OfGuild' /\ Absent'
    BY <1>4, <1>5 DEF Even, Standing, OfGuild, Absent
  <2>2. RowsFollow'
    <3>1. \A c \in ChannelsInGuild : row'[c] = row[c]
      BY <1>2, <1>3 DEF ChannelsInGuild
    <3>2. \A c \in Channels : row'[c].status = "active" => row[c].status = "active"
      BY <1>3
    <3> QED BY <1>4, <1>5, <1>8, <3>1, <3>2 DEF Even, Standing, RowsFollow
  <2>3. \A i \in DOMAIN Listed : (Right(i) <=> Right(i)') /\ (\A c : Mine(c, i) <=> Mine(c, i)')
    BY <1>4, <1>5 DEF Right, Mine
  <2>4. StoredFollows'
    <3>1. ASSUME NEW i \in DOMAIN Listed, NEW x \in Categories, Listed[i].id = x
          PROVE  \/ Right(i)'
                 \/ /\ CategoryOpToCome(x)'
                    /\ \A c \in ChannelsIn(Listed) : row'[c].status = "active" \/ Mine(c, i)'
      BY <1>6, <1>9, <2>3, <3>1 DEF Even, Standing, StoredFollows
    <3> QED BY <1>5, <3>1 DEF StoredFollows
  <2>5. DeleteToCome \/ Sending => DeleteToCome' \/ Sending'
    <3>1. Sending => Sending'
      BY <1>1, <1>3 DEF Sending
    <3> QED BY <1>4, <1>5, <3>1 DEF DeleteToCome
  <2>6. ListSent'
    BY <1>4, <1>5, <2>3, <2>5 DEF Even, Standing, ListSent, Mirrors
  <2> QED BY <2>1, <2>2, <2>4, <2>6 DEF Standing
<1> QED BY <1>7, <1>10 DEF Even

(* An event: all is quiet, so rows and list are the guild's.                *)
LEMMA QuietIsEven ==
  ASSUME Typed, Steady, AllApart, Even, Quiet
  PROVE  /\ \A c \in ChannelsInGuild : row[c].status = "active"
         /\ \A c \in Channels : waiters[c] = <<>>
         /\ \A i \in 0..MaxEvents : handler[i].ops = <<>> /\ handler[i].pc \in {"none", "done"}
         /\ \A k \in Ids : queue[k] = <<>> /\ worker[k].pc = "idle"
         /\ \A i \in DOMAIN Listed : Right(i)
         /\ Mirrors
<1>1. /\ \A c \in ChannelsInGuild : row[c].status = "active"
      /\ \A c \in Channels : waiters[c] = <<>>
      /\ \A i \in 0..MaxEvents : handler[i].ops = <<>> /\ handler[i].pc \in {"none", "done"}
      /\ \A k \in Ids : queue[k] = <<>> /\ worker[k].pc = "idle"
  BY NoneFollowedIfQuiet, IdleType DEF Quiet
<1>2. Last.ops = <<>> /\ Last.pc \in {"none", "done"}
  BY <1>1 DEF Last, Typed, RestTyped
<1>3. \A k \in Categories : ~CategoryOpToCome(k)
  <2>1. \A c \in Channels : worker[c].pushing = <<>>
    BY <1>1 DEF Ids, Typed, WorkersTyped
  <2> QED BY <1>1, <1>2, <2>1 DEF CategoryOpToCome, Pushing, Ids
<1>4. \A i \in DOMAIN Listed : Listed[i].id \in Categories
  BY ListedProperties
<1>5. \A i \in DOMAIN Listed : Right(i)
  BY <1>3, <1>4 DEF Even, Standing, StoredFollows
<1>6. ~DeleteToCome /\ ~Sending
  BY <1>1, <1>2 DEF DeleteToCome, Sending
<1>7. Mirrors
  BY <1>5, <1>6 DEF Even, Standing, ListSent
<1> QED BY <1>1, <1>5, <1>7

LEMMA DiscordFacts ==
  ASSUME Spaced = TRUE, Edits = FALSE, Typed, Steady, AllApart, Even, Discord,
         NEW g \in Guilds, NEW x \in Ids, OneChange(x, g), guild' = g,
         gone' = gone \cup (IdsIn(guild) \ IdsIn(g)),
         handler' = [handler EXCEPT ![events + 1] = Handler(EventKind(x, g), x)]
  PROVE  /\ Quiet /\ Last' = Handler(EventKind(x, g), x) /\ events' \in 0..MaxEvents
         /\ Last'.pc = "own" /\ Last'.kind = EventKind(x, g) /\ Last'.id = x /\ Last'.ops = <<>>
         /\ \A i \in 0..MaxEvents : i # events' => handler'[i] = handler[i]
         /\ UNCHANGED <<queue, worker, waiters, row, stored, shown>>
         /\ \A y : y # x => (y \in IdsIn(g) <=> y \in IdsIn(guild))
         /\ x \notin gone
         /\ EventKind(x, g) = "channel" => x \in Channels /\ x \in IdsIn(g) /\ x \notin IdsIn(guild)
         /\ EventKind(x, g) = "channelDelete" => x \in Channels /\ x \notin IdsIn(g)
         /\ EventKind(x, g) = "category" => x \in Categories /\ x \in IdsIn(g)
         /\ EventKind(x, g) = "categoryDelete" => x \in Categories /\ x \notin IdsIn(g)
         /\ EventKind(x, g) \in OpKinds
         /\ Typed'
<1>1. Quiet /\ UNCHANGED <<queue, worker, waiters, row, stored, shown>>
  BY DEF Discord, rows
<1>2. events' = events + 1 /\ events' \in 0..MaxEvents
  BY SyncAssumption DEF Discord, Typed, RestTyped
<1>3. /\ handler'[events'] = Handler(EventKind(x, g), x)
      /\ \A i \in 0..MaxEvents : i # events' => handler'[i] = handler[i]
  BY <1>2 DEF Typed, HandlersTyped
<1>4. EventKind(x, g) \in OpKinds
  BY DEF EventKind, OpKinds
<1>5. LET h == Handler(EventKind(x, g), x) IN
        h.pc = "own" /\ h.kind = EventKind(x, g) /\ h.id = x /\ h.ops = <<>>
  BY DEF Handler
<1>6. \A y : y # x => (y \in IdsIn(g) <=> y \in IdsIn(guild))
  BY DEF OneChange, Of, IdsIn
<1>7. \A h : Of(h, x) = {} <=> x \notin IdsIn(h)
  BY DEF Of, IdsIn
<1>8. x \in Categories \/ Of(guild, x) = {} \/ Of(g, x) = {}
  BY DEF OneChange
<1>9. x \notin gone
  BY DEF OneChange
<1>10. /\ EventKind(x, g) = "channel" => x \in Channels /\ x \in IdsIn(g) /\ x \notin IdsIn(guild)
       /\ EventKind(x, g) = "channelDelete" => x \in Channels /\ x \notin IdsIn(g)
       /\ EventKind(x, g) = "category" => x \in Categories /\ x \in IdsIn(g)
       /\ EventKind(x, g) = "categoryDelete" => x \in Categories /\ x \notin IdsIn(g)
  BY <1>7, <1>8 DEF EventKind, Ids
<1>11. Typed'
  BY DiscordTyped
<1> QED BY <1>1, <1>2, <1>3, <1>4, <1>5, <1>6, <1>9, <1>10, <1>11 DEF Last

(* When no category came or went and each one's row says what the list does *)
(* now, it is the list of before.                                           *)
Recorded(list, S) ==
  /\ list \in Seq(CategoryType)
  /\ \A i \in DOMAIN list : list[i].id \in S /\ stored[list[i].id] = Desired(list, i)
  /\ \A k \in S : \E i \in DOMAIN list : list[i].id = k

LEMMA SameList ==
  ASSUME NEW cats, NEW list, NEW S, Recorded(cats, S), Recorded(list, S)
  PROVE  cats = list
<1>1. ASSUME NEW a, NEW b, Recorded(a, S), Recorded(b, S), NEW i \in DOMAIN a
      PROVE  i \in DOMAIN b /\ b[i] = a[i]
  <2>1. PICK j \in DOMAIN b : b[j].id = a[i].id
    BY <1>1 DEF Recorded
  <2>2. Desired(a, i) = Desired(b, j)
    BY <1>1, <2>1 DEF Recorded
  <2>3. i = j /\ a[i] = b[j]
    BY <2>2 DEF Desired
  <2> QED BY <2>3
<1>2. ASSUME NEW i \in DOMAIN cats PROVE i \in DOMAIN list /\ list[i] = cats[i]
  BY <1>1, <1>2
<1>3. ASSUME NEW i \in DOMAIN list PROVE i \in DOMAIN cats
  BY <1>1, <1>3
<1>4. DOMAIN cats = DOMAIN list
  BY <1>2, <1>3
<1>5. cats = [i \in DOMAIN cats |-> cats[i]] /\ list = [i \in DOMAIN list |-> list[i]]
  BY DEF Recorded
<1> QED BY <1>2, <1>4, <1>5, Zenon

LEMMA DiscordEven ==
  ASSUME Spaced = TRUE, Edits = FALSE, Typed, Steady, AllApart, Even, Discord
  PROVE  Even'
<1>1. PICK g \in Guilds, x \in Ids :
        /\ OneChange(x, g) /\ guild' = g /\ gone' = gone \cup (IdsIn(guild) \ IdsIn(g))
        /\ handler' = [handler EXCEPT ![events + 1] = Handler(EventKind(x, g), x)]
  BY DEF Discord
<1>2. PICK kind \in OpKinds : kind = EventKind(x, g)
  BY <1>1, DiscordFacts
<1>3. /\ Quiet /\ events' \in 0..MaxEvents /\ Typed'
      /\ Last'.pc = "own" /\ Last'.kind = kind /\ Last'.id = x /\ Last'.ops = <<>>
      /\ \A i \in 0..MaxEvents : i # events' => handler'[i] = handler[i]
      /\ UNCHANGED <<queue, worker, waiters, row, stored, shown>>
  BY <1>1, <1>2, DiscordFacts
<1>4. /\ \A y : y # x => (y \in IdsIn(g) <=> y \in IdsIn(guild))
      /\ x \notin gone
      /\ kind = "channel" => x \in Channels /\ x \in IdsIn(g) /\ x \notin IdsIn(guild)
      /\ kind = "channelDelete" => x \in Channels /\ x \notin IdsIn(g)
      /\ kind = "category" => x \in Categories /\ x \in IdsIn(g)
      /\ kind = "categoryDelete" => x \in Categories /\ x \notin IdsIn(g)
  BY <1>1, <1>2, DiscordFacts
<1>5. /\ \A c \in ChannelsInGuild : row[c].status = "active"
      /\ \A c \in Channels : waiters[c] = <<>>
      /\ \A i \in 0..MaxEvents : handler[i].ops = <<>> /\ handler[i].pc \in {"none", "done"}
      /\ \A k \in Ids : queue[k] = <<>> /\ worker[k].pc = "idle"
      /\ \A i \in DOMAIN Listed : Right(i)
      /\ Mirrors
  BY <1>3, QuietIsEven
<1>6. AllApart' /\ guild' = g
  BY <1>1 DEF AllApart
<1>7. Listed' = Sidebar(g) /\ ChannelsInGuild' = {c \in Channels : c \in IdsIn(g)}
  BY <1>6 DEF Listed, ChannelsInGuild
<1>list. PICK list : list = Listed'
  OBVIOUS
<1>inList. /\ list \in Seq(CategoryType)
           /\ \A i \in DOMAIN list : list[i].id \in Categories /\ list[i].id \in IdsIn(g)
           /\ \A k \in Categories : k \in IdsIn(g) => \E i \in DOMAIN list : list[i].id = k
           /\ \A i \in DOMAIN list : \A c \in Members(g, list[i].id) :
                \E j \in DOMAIN list[i].channels : list[i].channels[j] = c.id
           /\ \A c \in ChannelsIn(list) : c \in Channels /\ c \in IdsIn(g)
  BY <1>1, <1>6, <1>7, <1>list, SidebarProperties DEF AllApart
<1>8. \A i \in DOMAIN Listed' : Right(i)' <=> stored[Listed'[i].id] = Desired(Listed', i)
  BY <1>3 DEF Right
<1>9. UnderWay'
  <2>1. Alone'
    BY <1>3, <1>5 DEF Alone
  <2>2. NothingSubmitted' /\ InHandler' /\ InQueues' /\ AtWorkers' /\ LookUps'
    BY <1>3, <1>5 DEF NothingSubmitted, InHandler, InQueues, AtWorkers, LookUps
  <2>3. OpsSay'
    <3>1. \A k \in Ids : worker[k].pushing = <<>>
      BY <1>5 DEF Typed, WorkersTyped
    <3> QED BY <1>3, <1>5, <3>1 DEF OpsSay
  <2> QED BY <2>1, <2>2, <2>3 DEF UnderWay
<1>10. OfGuild'
  BY <1>1, <1>3, <1>4, <1>7 DEF OfGuild, OpKinds
<1>11. RowsFollow'
  <2>1. ASSUME NEW c \in ChannelsInGuild'
        PROVE  row'[c].status = "active" \/ (Last'.kind = "channel" /\ Last'.id = c)
    <3>1. c \in Channels /\ c \in IdsIn(g)
      BY <1>7
    <3>2. CASE c = x
      BY <1>3, <1>4, <3>1, <3>2, SyncAssumption DEF OpKinds
    <3>3. CASE c # x
      BY <1>3, <1>4, <1>5, <3>1, <3>3 DEF ChannelsInGuild
    <3> QED BY <3>2, <3>3
  <2>2. ASSUME NEW c \in Channels, row'[c].status = "active" PROVE c \in IdsIn(g) \cup gone'
    BY <1>1, <1>3, <2>2 DEF Even, Standing, RowsFollow
  <2>3. ASSUME NEW c \in Channels, ToBeMapped(c)' PROVE row'[c].status # "active"
    <3>1. c \in Ids
      BY DEF Ids
    <3>2. ~ToSubmit(c)' /\ ~Queued(c)' /\ ~AtWork(c)'
      <4>1. \A i \in 0..MaxEvents : handler'[i].ops = <<>>
        BY <1>3, <1>5 DEF Last
      <4> QED BY <1>3, <1>5, <3>1, <4>1 DEF ToSubmit, Queued, AtWork
    <3>3. PICK i \in 0..MaxEvents : handler'[i].pc = "own" /\
            (handler'[i].kind = "converge" \/ (handler'[i].kind = "channel" /\ handler'[i].id = c))
      BY <2>3, <3>2 DEF ToBeMapped, ToCome
    <3>4. handler'[i] = Last'
      BY <1>3, <1>5, <3>3 DEF Last
    <3>5. kind = "channel" /\ x = c
      BY <1>3, <3>3, <3>4 DEF OpKinds
    <3> QED BY <1>3, <1>4, <3>5 DEF Even, Standing, RowsFollow
  <2> QED BY <1>6, <2>1, <2>2, <2>3 DEF RowsFollow
<1>12. Absent'
  <2>1. gone' \cap IdsIn(g) = {}
    BY <1>1, <1>4 DEF Even, Standing, Absent
  <2>2. \A k \in Categories : stored'[k] # NoId => k \in IdsIn(g) \cup gone'
    BY <1>1, <1>3 DEF Even, Standing, Absent
  <2> QED BY <1>6, <2>1, <2>2 DEF Absent
<1>13. StoredFollows'
  <2> SUFFICES ASSUME NEW i \in DOMAIN Listed', NEW k \in Categories, Listed'[i].id = k, ~Right(i)'
               PROVE  /\ CategoryOpToCome(k)'
                      /\ \A c \in ChannelsIn(Listed') : row'[c].status = "active" \/ Mine(c, i)'
    BY DEF StoredFollows
  <2>1. CategoryOpToCome(k)'
    BY <1>3 DEF CategoryOpToCome
  <2>2. ASSUME NEW c \in ChannelsIn(Listed'), row'[c].status # "active"
        PROVE  Mine(c, i)'
    <3>1. c \in Channels /\ c \in IdsIn(g)
      BY <1>list, <1>inList
    <3>2. c = x /\ kind = "channel"
      BY <1>3, <1>4, <1>5, <2>2, <3>1, SyncAssumption DEF ChannelsInGuild, OpKinds
    <3>3. PICK d \in g : d.id = x
      BY <3>1, <3>2 DEF IdsIn
    <3>4. g \ Of(g, x) = guild \ Of(guild, x) /\ Of(guild, x) = {}
      BY <1>1, <1>4, <3>2 DEF OneChange, Of, IdsIn
    <3>5. \A e \in g : e.id = x => e = d
      BY <1>1, <3>3 DEF AllApart, TellsApart
    <3>6. CategoriesOf(g) = CategoriesOf(guild)
      BY <3>1, <3>2, <3>4, SyncAssumption DEF CategoriesOf, Of
    <3>7. CASE d.parent = k
      <4>1. d \in Members(g, k)
        BY <3>1, <3>2, <3>3, <3>7 DEF Members
      <4>2. \E j \in DOMAIN list[i].channels : list[i].channels[j] = c
        BY <1>list, <1>inList, <3>2, <3>3, <4>1
      <4> QED BY <1>list, <4>2 DEF Mine
    <3>8. CASE d.parent # k
      <4>1. Members(g, k) = Members(guild, k)
        BY <3>4, <3>5, <3>8 DEF Members, Of
      <4>2. i \in DOMAIN Listed /\ Listed[i] = Listed'[i]
        BY <1>7, <3>6, <4>1, SidebarAgrees DEF Listed
      <4>3. Right(i)'
        BY <1>5, <1>8, <4>2 DEF Right, Desired
      <4> QED BY <4>3
    <3> QED BY <3>7, <3>8
  <2> QED BY <2>1, <2>2
<1>14. ListSent'
  <2>1. CASE kind = "categoryDelete"
    <3>1. DeleteToCome'
      BY <1>3, <2>1 DEF DeleteToCome
    <3> QED BY <3>1 DEF ListSent
  <2>2. CASE \E i \in DOMAIN Listed' : ~Right(i)'
    BY <2>2 DEF ListSent
  <2>3. CASE kind # "categoryDelete" /\ \A i \in DOMAIN Listed' : Right(i)'
    <3>1. /\ \A i \in DOMAIN Listed' : stored[Listed'[i].id] = Desired(Listed', i)
          /\ \A i \in DOMAIN Listed : stored[Listed[i].id] = Desired(Listed, i)
      BY <1>5, <1>8, <2>3 DEF Right
    <3> DEFINE S == {k \in Categories : k \in IdsIn(guild)}
    <3>3. \A i \in DOMAIN list : stored[list[i].id] = Desired(list, i)
      BY <1>list, <3>1
    <3>4. /\ Listed \in Seq(CategoryType)
          /\ \A i \in DOMAIN Listed : Listed[i].id \in Categories /\ Listed[i].id \in IdsIn(guild)
          /\ \A k \in Categories : k \in IdsIn(guild) => \E i \in DOMAIN Listed : Listed[i].id = k
          /\ \A c \in ChannelsIn(Listed) : c \in ChannelsInGuild
      BY ListedProperties
    <3>5. \A k \in Categories : k \in IdsIn(g) <=> k \in IdsIn(guild)
      <4>1. ASSUME x \in Categories, kind = "category", x \notin IdsIn(guild) PROVE FALSE
        <5>1. stored[x] = NoId
          BY <1>4, <4>1 DEF Even, Standing, Absent
        <5>2. PICK i \in DOMAIN list : list[i].id = x
          BY <1>4, <1>inList, <4>1
        <5>3. Desired(list, i) \in WantType
          BY <1>inList DEF Desired, WantType
        <5>4. stored[x] = Desired(list, i)
          BY <3>3, <5>2
        <5> QED BY <5>1, <5>3, <5>4, SyncAssumption
      <4>2. x \in Categories => kind = "category"
        BY <1>4, <2>3, SyncAssumption DEF OpKinds
      <4> QED BY <1>4, <4>1, <4>2
    <3>6. /\ \A i \in DOMAIN Listed : Listed[i].id \in S
          /\ \A i \in DOMAIN list : list[i].id \in S
          /\ \A k \in S : \E i \in DOMAIN Listed : Listed[i].id = k
          /\ \A k \in S : \E i \in DOMAIN list : list[i].id = k
      BY <1>inList, <3>4, <3>5
    <3> HIDE DEF S
    <3>7. list = Listed
      <4>1. PICK cats : cats = Listed
        OBVIOUS
      <4>2. PICK T : T = S
        OBVIOUS
      <4>3. Recorded(list, T)
        BY <1>inList, <3>3, <3>6, <4>2 DEF Recorded
      <4>4. Recorded(cats, T)
        BY <3>1, <3>4, <3>6, <4>1, <4>2 DEF Recorded
      <4> QED BY <4>1, <4>3, <4>4, SameList
    <3>8. ChannelsIn(Listed) \subseteq IdsIn(g) /\ ChannelsIn(Listed) \subseteq IdsIn(guild)
      BY <1>inList, <3>4, <3>7 DEF ChannelsInGuild
    <3>9. DOMAIN Itself(IdsIn(guild)) = IdsIn(guild) /\ \A c \in IdsIn(guild) : Itself(IdsIn(guild))[c] = c
      BY DEF Itself
    <3>10. PICK ids : ids = Itself(IdsIn(guild))
      OBVIOUS
    <3>11. Resolved(Listed, ids) = Resolved(Listed, Itself(IdsIn(g)))
      BY <3>4, <3>8, <3>9, <3>10, ResolvedInFull
    <3>12. Mirrors'
      BY <1>list, <1>3, <1>5, <1>6, <3>7, <3>10, <3>11 DEF Mirrors
    <3> QED BY <3>12 DEF ListSent
  <2> QED BY <2>1, <2>2, <2>3
<1>15. Standing'
  BY <1>10, <1>11, <1>12, <1>13, <1>14 DEF Standing
<1> QED BY <1>9, <1>15 DEF Even

(* At the start Stoat shows the list of the guild.                          *)
LEMMA InitEven ==
  ASSUME Mapped = TRUE, AllApart, Init
  PROVE  Even
<1>1. Typed
  BY InitTyped DEF IInv
<1>2. First \in Guilds \cup {First} /\ TellsApart(First) /\ guild = First
  BY DEF AllApart, Init
<1>3. PICK cats : cats = Sidebar(First)
  OBVIOUS
<1>4. cats = Listed
  BY <1>2, <1>3 DEF Listed
<1>5. CategoriesFromState(First) = {cats}
  BY <1>2, <1>3, OneList
<1>6. /\ row = [c \in Channels |-> IF c \in IdsIn(First)
                                   THEN [status |-> "active", id |-> c] ELSE Unmapped]
      /\ stored = [k \in Categories |->
           IF \E i \in DOMAIN cats : cats[i].id = k
           THEN Desired(cats, CHOOSE i \in DOMAIN cats : cats[i].id = k) ELSE NoId]
      /\ shown = Resolved(cats, Itself(IdsIn(First)))
  BY <1>5 DEF Init
<1>7. /\ \A i \in DOMAIN cats : cats[i].id \in Categories /\ cats[i].id \in IdsIn(First)
      /\ \A i, j \in DOMAIN cats : cats[i].id = cats[j].id => i = j
  BY <1>1, <1>2, <1>4, ListedProperties
<1>8. /\ \A i \in 0..MaxEvents : handler[i] = NoHandler
      /\ \A k \in Ids : queue[k] = <<>> /\ worker[k].pc = "idle" /\ worker[k].pushing = <<>>
      /\ \A c \in Channels : waiters[c] = <<>>
      /\ gone = {} /\ events \in 0..MaxEvents
  BY SyncAssumption, IdleType DEF Init
<1>9. /\ Last = NoHandler /\ Last.pc = "none" /\ Last.kind = "none" /\ Last.ops = <<>>
      /\ \A i \in 0..MaxEvents : handler[i].pc = "none" /\ handler[i].ops = <<>>
  BY <1>8 DEF Last, NoHandler
<1>10. UnderWay
  BY <1>8, <1>9 DEF UnderWay, Alone, NothingSubmitted, InHandler, InQueues, AtWorkers, OpsSay, LookUps
<1>11. OfGuild
  BY <1>9 DEF OfGuild
<1>12. RowsFollow
  <2>1. \A c \in Channels : row[c].status = "active" <=> c \in IdsIn(guild)
    BY <1>2, <1>6 DEF Unmapped
  <2>2. \A c \in Channels : ~ToBeMapped(c)
    BY <1>8, <1>9 DEF ToBeMapped, ToCome, ToSubmit, Queued, AtWork, Ids
  <2> QED BY <2>1, <2>2 DEF RowsFollow, ChannelsInGuild
<1>13. Absent
  <2>1. ASSUME NEW k \in Categories, stored[k] # NoId PROVE k \in IdsIn(guild)
    BY <1>2, <1>6, <1>7, <2>1
  <2> QED BY <1>8, <2>1 DEF Absent
<1>14. \A i \in DOMAIN Listed : Right(i)
  <2> SUFFICES ASSUME NEW i \in DOMAIN cats PROVE stored[cats[i].id] = Desired(cats, i)
    BY <1>4 DEF Right
  <2>1. (CHOOSE j \in DOMAIN cats : cats[j].id = cats[i].id) = i
    BY <1>7
  <2> QED BY <1>6, <1>7, <2>1
<1>15. Mirrors
  BY <1>2, <1>4, <1>6 DEF Mirrors
<1>16. Standing
  BY <1>11, <1>12, <1>13, <1>14, <1>15 DEF Standing, StoredFollows, ListSent
<1> QED BY <1>10, <1>16 DEF Even

LEMMA NextEven ==
  ASSUME Spaced = TRUE, Edits = FALSE, AllApart, Typed, SteadyUntilFault, EvenUntilFault, [Next]_vars
  PROVE  EvenUntilFault'
<1>1. SUFFICES ASSUME faults' = 0, missed' = {} PROVE Even'
  BY DEF EvenUntilFault
<1>2. ASSUME NEW k \in Ids, Fail(k) PROVE FALSE
  <2>1. faults' = faults + 1 /\ faults \in Nat
    BY <1>2, SyncAssumption DEF Fail, Typed, RestTyped
  <2> QED BY <1>1, <2>1
<1>3. faults = 0 /\ missed = {}
  <2>1. CASE UNCHANGED vars
    BY <1>1, <2>1 DEF vars
  <2>2. CASE Next
    BY <1>1, <1>2, <2>2
       DEF Next, Discord, Handle, HandleOwn, SubmitCategoryOps, Submit, Handled, Take, MissChannel, Defer,
           CategoryStep, Skip, WritePending, ResolveChannelID, SetCategories, Confirm, Remove,
           ChannelStep, WriteChannelPending, ConfirmChannel, TakeWaiters, PushWaiter, Notified,
           RemoveChannel
  <2> QED BY <2>1, <2>2
<1>4. Steady /\ Even
  BY <1>3 DEF SteadyUntilFault, EvenUntilFault
<1>5. CASE Discord
  BY <1>4, <1>5, DiscordEven
<1>6. ASSUME NEW i \in 0..MaxEvents, Handle(i) PROVE Even'
  BY <1>4, <1>6, HandleOwnEven, SubmitCategoryOpsEven, SubmitEven, HandledEven DEF Handle
<1>7. ASSUME NEW k \in Ids, Take(k) \/ MissChannel(k) \/ Defer(k) PROVE Even'
  BY <1>4, <1>7, TakeEven, MissChannelEven, DeferEven
<1>8. ASSUME NEW k \in Categories, CategoryStep(k) PROVE Even'
  BY <1>4, <1>8, SkipEven, WritePendingEven, ResolveChannelIDEven, SetCategoriesEven, ConfirmEven,
     RemoveEven DEF CategoryStep
<1>9. ASSUME NEW c \in Channels, ChannelStep(c) PROVE Even'
  BY <1>4, <1>9, WriteChannelPendingEven, ConfirmChannelEven, TakeWaitersEven, PushWaiterEven,
     NotifiedEven, RemoveChannelEven DEF ChannelStep
<1>10. CASE UNCHANGED vars
  <2>1. UNCHANGED <<guild, gone, events, handler, queue, worker, waiters, row, stored, shown>>
    BY <1>10 DEF vars, discord, rows
  <2>2. Listed' = Listed /\ Last' = Last /\ ChannelsInGuild' = ChannelsInGuild
    BY <2>1 DEF Listed, Last, ChannelsInGuild
  <2>3. UnderWay'
    BY <1>4, <2>1, <2>2 DEF Even, UnderWay, Alone, NothingSubmitted, InHandler, InQueues, AtWorkers,
                            OpsSay, LookUps
  <2>4. \A c \in Channels : ToBeMapped(c)' => ToBeMapped(c)
    BY <2>1 DEF ToBeMapped, ToCome, ToSubmit, Queued, AtWork
  <2>5. \A i \in DOMAIN Listed : \A k \in Categories :
          Listed[i].id = k /\ CategoryOpToCome(k) => CategoryOpToCome(k)'
    BY <2>1, <2>2 DEF CategoryOpToCome, Pushing
  <2>6. DeleteToCome \/ Sending => DeleteToCome' \/ Sending'
    BY <2>1, <2>2 DEF DeleteToCome, Sending
  <2>7. Standing'
    BY <1>4, <2>1, <2>2, <2>4, <2>5, <2>6, Moved DEF Even
  <2> QED BY <2>3, <2>7 DEF Even
<1> QED BY <1>2, <1>5, <1>6, <1>7, <1>8, <1>9, <1>10 DEF Next

(* In a guild that was mirrored at the start, where no two categories share *)
(* a position, where a channel comes and goes but does not change, and      *)
(* where one event is dealt with before the next: once all is quiet,        *)
(* Stoat's list is the sidebar Discord has, if no call failed and no wakeup *)
(* was missed.  Each op that submitCategoryOps makes sends the whole list   *)
(* (resendCategories), so that the last one sent counts.  An op that sends  *)
(* has waited for its own channels, and a channel that has just come is     *)
(* unmapped only for the category it came to: no list that leaves it out is *)
(* sent, in whichever order handlers and workers run.                       *)
THEOREM SidebarArrives ==
  ASSUME Spaced = TRUE, Mapped = TRUE, Edits = FALSE, \A g \in Guilds \cup {First} : TellsApart(g)
  PROVE  Spec => [](missed = {} => QuietMeansMirrored)
<1>1. AllApart
  BY DEF AllApart
<1>2. Init => SteadyUntilFault /\ EvenUntilFault
  BY <1>1, InitSteady, InitEven DEF SteadyUntilFault, EvenUntilFault
<1>3. IInv /\ SteadyUntilFault /\ EvenUntilFault /\ [Next]_vars => SteadyUntilFault' /\ EvenUntilFault'
  BY <1>1, NextSteady, NextEven DEF IInv
<1>4. IInv /\ SteadyUntilFault /\ EvenUntilFault => (missed = {} => QuietMeansMirrored)
  <2> SUFFICES ASSUME IInv, SteadyUntilFault, EvenUntilFault, Quiet, faults = 0, missed = {}
               PROVE  \E cats \in CategoriesFromState(guild) : shown = Resolved(cats, Itself(IdsIn(guild)))
    BY DEF QuietMeansMirrored
  <2>1. Typed /\ Steady /\ Even
    BY DEF IInv, SteadyUntilFault, EvenUntilFault
  <2>2. Mirrors
    BY <1>1, <2>1, QuietIsEven
  <2>3. Listed \in CategoriesFromState(guild)
    BY <1>1, <2>1, ListedProperties
  <2> QED BY <2>2, <2>3 DEF Mirrors
<1> QED BY <1>2, <1>3, <1>4, AlwaysTyped, PTL DEF Spec
=============================================================================
