----------------------------- MODULE RateLimiter -----------------------------
(***************************************************************************)
(* internal/engine/rate_limiter.go and remote.go: before every attempt at  *)
(* an op its worker waits for the limiter of the op's bucket, shared with  *)
(* all workers of that bucket, and a 429 pushes that limiter into the      *)
(* future.  Stoat counts requests in fixed windows, and one Apply may make *)
(* several.  Instants are kept as the time that is left until them, so     *)
(* that a state does not depend on when the daemon was started; Tick lets  *)
(* a unit of time pass.                                                    *)
(***************************************************************************)
EXTENDS Naturals, FiniteSets

CONSTANTS
  Workers,          \* keys of the workers, records with fields type and id
  Intervals,        \* minimum interval by bucket name, where one is configured
  DefaultInterval,
  MaxRemoteRetries,
  Window, Limits,   \* Stoat takes so many requests per Window, by bucket name
  Requests,         \* requests of one Apply, by worker
  Typed429          \* whether Apply returns a RateLimitedError for a 429

(* bucketKey, as a bucket name and what it is keyed by.  Structure shares a *)
(* bucket, a channel and the messages of a channel have one each.           *)
BucketKey(w) ==
  CASE w.type \in {"role", "category", "server"} -> <<"servers", "">>
    [] w.type = "channel" -> <<"channels", w.id>>
    [] w.type = "message" -> <<"messaging", w.id>>
    [] OTHER -> <<"any", "">>

Buckets == {BucketKey(w) : w \in Workers}

MinInterval(b) == IF b[1] \in DOMAIN Intervals THEN Intervals[b[1]] ELSE DefaultInterval

Limit(b) == Limits[b[1]]

ASSUME LimiterAssumption ==
  /\ Workers # {} /\ IsFiniteSet(Workers)
  /\ \A b \in Buckets : MinInterval(b) \in Nat
  /\ MaxRemoteRetries \in Nat /\ Typed429 \in BOOLEAN
  /\ Window \in Nat \ {0} /\ \A b \in Buckets : Limit(b) \in Nat \ {0}
  /\ Requests \in [Workers -> Nat \ {0}]

(* An interval of 10s/N for N requests per 10s, rounded up.                 *)
ASSUME IntervalsCoverWindow == \A b \in Buckets : Limit(b) * MinInterval(b) >= Window

VARIABLES
  nextAllowed,   \* by bucket, time left until nextAllowed
  run,           \* by worker, its runRemote
  window, used,  \* Stoat: what is left of the window, requests taken in it
  sinceGrant,    \* history: time since the last grant, up to the interval
  punished,      \* history: time left of the longest reported Retry-After
  granted        \* history: grants in the window

server  == <<window, used>>
history == <<sinceGrant, punished, granted>>
vars    == <<nextAllowed, run, server, history>>

(* Attempts made before, and what the step at hand needs: the time left on  *)
(* the timer, the requests left in this Apply, or the Retry-After.          *)
RunType ==
  [pc : {"idle", "wait", "asleep", "apply", "backoff"}, attempt : 0..MaxRemoteRetries,
   timer : Nat, left : Nat, retryAfter : Nat]

Idle == [pc |-> "idle", attempt |-> 0, timer |-> 0, left |-> 0, retryAfter |-> 0]

Waiting(n) == [pc |-> "wait", attempt |-> n, timer |-> 0, left |-> 0, retryAfter |-> 0]

At(w, label) == run[w].pc = label

Larger(a, b) == IF a >= b THEN a ELSE b
Less(t) == IF t = 0 THEN 0 ELSE t - 1

Init ==
  /\ nextAllowed = [b \in Buckets |-> 0]
  /\ run = [w \in Workers |-> Idle]
  /\ window = [b \in Buckets |-> Window]
  /\ used = [b \in Buckets |-> 0]
  /\ sinceGrant = [b \in Buckets |-> MinInterval(b)]
  /\ punished = [b \in Buckets |-> 0]
  /\ granted = [b \in Buckets |-> 0]

-----------------------------------------------------------------------------
(* runRemote with its next op, of which there may always be another.        *)
RunRemote(w) ==
  /\ At(w, "idle")
  /\ run' = [run EXCEPT ![w] = Waiting(0)]
  /\ UNCHANGED <<nextAllowed, server, history>>

(* An attempt begins; the histories take note.                              *)
Begin(w) ==
  /\ run' = [run EXCEPT ![w].pc = "apply", ![w].left = Requests[w]]
  /\ sinceGrant' = [sinceGrant EXCEPT ![BucketKey(w)] = 0]
  /\ granted' = [granted EXCEPT ![BucketKey(w)] = @ + 1]

(* Mutant: the slot is not reserved.                                        *)
GrantUnreserved(w) ==
  /\ At(w, "wait") /\ nextAllowed[BucketKey(w)] = 0
  /\ Begin(w)
  /\ UNCHANGED <<nextAllowed, server, punished>>

(* Wait, the critical section: go ahead and reserve the interval that       *)
(* follows ...                                                              *)
Grant(w) ==
  /\ At(w, "wait") /\ nextAllowed[BucketKey(w)] = 0
  /\ nextAllowed' = [nextAllowed EXCEPT ![BucketKey(w)] = MinInterval(BucketKey(w))]
  /\ Begin(w)
  /\ UNCHANGED <<server, punished>>

(* ... or sleep until the instant found there.                              *)
Sleep(w) ==
  /\ At(w, "wait") /\ nextAllowed[BucketKey(w)] > 0
  /\ run' = [run EXCEPT ![w].pc = "asleep", ![w].timer = nextAllowed[BucketKey(w)]]
  /\ UNCHANGED <<nextAllowed, server, history>>

(* Mutant: a sleeper goes ahead with the slot it once computed.             *)
WakeCommitted(w) ==
  /\ At(w, "asleep") /\ run[w].timer = 0
  /\ Begin(w)
  /\ nextAllowed' = [nextAllowed EXCEPT ![BucketKey(w)] = Larger(@, MinInterval(BucketKey(w)))]
  /\ UNCHANGED <<server, punished>>

(* The timer fires; nextAllowed is read again.                              *)
Wake(w) ==
  /\ At(w, "asleep") /\ run[w].timer = 0
  /\ run' = [run EXCEPT ![w].pc = "wait"]
  /\ UNCHANGED <<nextAllowed, server, history>>

-----------------------------------------------------------------------------
Return(w) == run' = [run EXCEPT ![w] = Idle]

(* One request of an Apply; the last one returns from runRemote.            *)
Request(w) ==
  /\ At(w, "apply") /\ used[BucketKey(w)] < Limit(BucketKey(w))
  /\ used' = [used EXCEPT ![BucketKey(w)] = @ + 1]
  /\ IF run[w].left = 1 THEN Return(w) ELSE run' = [run EXCEPT ![w].left = @ - 1]
  /\ UNCHANGED <<nextAllowed, window, history>>

(* Any other error returns from runRemote at once.                          *)
Fail(w) ==
  /\ At(w, "apply")
  /\ Return(w)
  /\ UNCHANGED <<nextAllowed, server, history>>

(* Stoat answers 429 with the rest of its window as Retry-After.  Without a *)
(* RateLimitedError that is an error like any other.                        *)
Refused(w) ==
  /\ At(w, "apply") /\ used[BucketKey(w)] >= Limit(BucketKey(w))
  /\ IF Typed429
     THEN run' = [run EXCEPT ![w].pc = "backoff", ![w].left = 0,
                             ![w].retryAfter = window[BucketKey(w)]]
     ELSE Return(w)
  /\ UNCHANGED <<nextAllowed, server, history>>

(* Mutant: one attempt too many.                                            *)
RetryOnceMore(w) ==
  IF run[w].attempt <= MaxRemoteRetries
  THEN run' = [run EXCEPT ![w] = Waiting(run[w].attempt + 1)]
  ELSE Return(w)

(* Mutant: an op is retried for as long as Stoat refuses it.                *)
RetryForever(w) == run' = [run EXCEPT ![w] = Waiting(run[w].attempt)]

(* The next attempt, if one is left.                                        *)
Retry(w) ==
  IF run[w].attempt < MaxRemoteRetries
  THEN run' = [run EXCEPT ![w] = Waiting(run[w].attempt + 1)]
  ELSE Return(w)

(* Mutant: the Retry-After replaces a later nextAllowed.                    *)
BackoffOverwrites(w) ==
  /\ At(w, "backoff")
  /\ nextAllowed' = [nextAllowed EXCEPT ![BucketKey(w)] = run[w].retryAfter]
  /\ punished' = [punished EXCEPT ![BucketKey(w)] = Larger(@, run[w].retryAfter)]
  /\ Retry(w)
  /\ UNCHANGED <<server, sinceGrant, granted>>

Backoff(w) ==
  /\ At(w, "backoff")
  /\ nextAllowed' = [nextAllowed EXCEPT ![BucketKey(w)] = Larger(@, run[w].retryAfter)]
  /\ punished' = [punished EXCEPT ![BucketKey(w)] = Larger(@, run[w].retryAfter)]
  /\ Retry(w)
  /\ UNCHANGED <<server, sinceGrant, granted>>

-----------------------------------------------------------------------------
Tick ==
  /\ nextAllowed' = [b \in Buckets |-> Less(nextAllowed[b])]
  /\ run' = [w \in Workers |-> [run[w] EXCEPT !.timer = Less(@)]]
  /\ window' = [b \in Buckets |-> IF window[b] = 1 THEN Window ELSE window[b] - 1]
  /\ used' = [b \in Buckets |-> IF window[b] = 1 THEN 0 ELSE used[b]]
  /\ granted' = [b \in Buckets |-> IF window[b] = 1 THEN 0 ELSE granted[b]]
  /\ punished' = [b \in Buckets |-> Less(punished[b])]
  /\ sinceGrant' = [b \in Buckets |->
       IF sinceGrant[b] < MinInterval(b) THEN sinceGrant[b] + 1 ELSE sinceGrant[b]]

Attempt(w) == Grant(w) \/ Sleep(w) \/ Wake(w)
Answer(w)  == Request(w) \/ Fail(w) \/ Refused(w)
Step(w)    == Attempt(w) \/ Answer(w) \/ Backoff(w)

Next == (\E w \in Workers : RunRemote(w) \/ Step(w)) \/ Tick

Spec == Init /\ [][Next]_vars

(* Goroutines that can run do, timers fire and requests are answered.       *)
FairSpec == Spec /\ WF_vars(Tick) /\ \A w \in Workers : WF_vars(Step(w))
-----------------------------------------------------------------------------
TypeOK ==
  /\ nextAllowed \in [Buckets -> Nat]
  /\ run \in [Workers -> RunType]
  /\ window \in [Buckets -> 1..Window] /\ used \in [Buckets -> Nat]
  /\ sinceGrant \in [Buckets -> Nat] /\ punished \in [Buckets -> Nat]
  /\ granted \in [Buckets -> Nat]

Starts(w) == ~At(w, "apply") /\ run'[w].pc = "apply"

(* Attempts in a bucket are an interval apart, however many workers sleep   *)
(* on its limiter and however a Backoff falls between them.                 *)
GrantsSpaced ==
  [][\A w \in Workers : Starts(w) => sinceGrant[BucketKey(w)] >= MinInterval(BucketKey(w))]_vars

(* Once a worker has called Backoff, no worker of the bucket starts an      *)
(* attempt before that time is over, one that was asleep then included.     *)
BackoffHonoured ==
  [][\A w \in Workers : Starts(w) => punished[BucketKey(w)] = 0]_vars

(* The intervals keep the attempts of any of Stoat's windows to its limit.  *)
GrantsFitWindow == \A b \in Buckets : granted[b] <= Limit(b)

(* The others of its bucket make attempts while w waits.                    *)
Overtaken(w) ==
  \E v \in Workers \ {w} : BucketKey(v) = BucketKey(w) /\ At(v, "apply")

(* No bucket stands still: every op ends, unless the others of its bucket   *)
(* keep taking its turn.  Neither the retries of one op nor Retry-Afters    *)
(* that push each other back go on for ever by themselves.                  *)
EndsUnlessOvertaken ==
  \A w \in Workers : []<>At(w, "idle") \/ []<>Overtaken(w)
=============================================================================
