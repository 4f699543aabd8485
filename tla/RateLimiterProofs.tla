-------------------------- MODULE RateLimiterProofs --------------------------
(***************************************************************************)
(* The limiter keeps attempts apart, whatever the number of workers, the   *)
(* intervals, and the Retry-Afters reported.                               *)
(***************************************************************************)
EXTENDS RateLimiter, TLAPS

(* A slot reserved but not yet over, or a Retry-After not yet over, keeps   *)
(* nextAllowed in the future; k grants of a window take k - 1 intervals.    *)
Reserved(b)  == nextAllowed[b] + sinceGrant[b] >= MinInterval(b)
Punishing(b) == nextAllowed[b] >= punished[b]
Paced(b) ==
  granted[b] > 0 =>
    (granted[b] - 1) * MinInterval(b) + sinceGrant[b] <= Window - window[b]

(* An Apply that has not returned has a request to make.                    *)
Asking(w) == At(w, "apply") => run[w].left > 0

PacingInv ==
  /\ TypeOK /\ \A w \in Workers : Asking(w)
  /\ \A b \in Buckets : Reserved(b) /\ Punishing(b)

LEMMA BucketsOfWorkers == \A w \in Workers : BucketKey(w) \in Buckets
BY DEF Buckets

LEMMA Typing ==
  /\ \A b \in Buckets : MinInterval(b) \in Nat /\ Limit(b) \in Nat \ {0}
  /\ MaxRemoteRetries \in Nat /\ Window \in Nat \ {0}
  /\ \A w \in Workers : Requests[w] \in Nat \ {0}
BY LimiterAssumption

(* What each kind of step does to a worker's record.                        *)
LEMMA RunTyped ==
  ASSUME NEW w \in Workers, run \in [Workers -> RunType]
  PROVE  /\ Return(w) => run' \in [Workers -> RunType]
         /\ \A n \in 0..MaxRemoteRetries : Waiting(n) \in RunType
         /\ Retry(w) => run' \in [Workers -> RunType]
         /\ Return(w) \/ Retry(w) => ((\A v \in Workers : Asking(v)) => \A v \in Workers : Asking(v)')
<1>1. Idle \in RunType /\ \A n \in 0..MaxRemoteRetries : Waiting(n) \in RunType
  <2>1. Idle \in RunType
    BY Typing DEF Idle, RunType
  <2>2. ASSUME NEW n \in 0..MaxRemoteRetries PROVE Waiting(n) \in RunType
    BY Typing DEF Waiting, RunType
  <2> QED
    BY <2>1, <2>2
<1>2. Return(w) => run' \in [Workers -> RunType]
  BY <1>1 DEF Return
<1>3. Retry(w) => run' \in [Workers -> RunType]
  <2>1. CASE run[w].attempt < MaxRemoteRetries
    <3>1. run[w].attempt + 1 \in 0..MaxRemoteRetries
      BY <2>1, Typing DEF RunType
    <3> QED
      BY <1>1, <2>1, <3>1 DEF Retry
  <2>2. CASE ~(run[w].attempt < MaxRemoteRetries)
    BY <1>2, <2>2 DEF Retry
  <2> QED
    BY <2>1, <2>2
<1>4. ASSUME Return(w) \/ Retry(w), NEW v \in Workers, Asking(v) PROVE Asking(v)'
  <2>1. Idle.pc = "idle" /\ \A n : Waiting(n).pc = "wait"
    BY DEF Idle, Waiting
  <2>2. CASE v = w
    <3>1. run'[w] = Idle \/ \E n : run'[w] = Waiting(n)
      BY <1>4 DEF Return, Retry
    <3> QED
      BY <2>1, <2>2, <3>1 DEF Asking, At
  <2>3. CASE v # w
    <3>1. run'[v] = run[v]
      BY <1>4, <2>3 DEF Return, Retry
    <3> QED
      BY <1>4, <3>1 DEF Asking, At
  <2> QED
    BY <2>2, <2>3
<1> QED
  BY <1>1, <1>2, <1>3, <1>4

LEMMA BeginTyped ==
  ASSUME NEW w \in Workers, TypeOK, Begin(w)
  PROVE  /\ run' \in [Workers -> RunType]
         /\ sinceGrant' \in [Buckets -> Nat] /\ granted' \in [Buckets -> Nat]
         /\ (\A v \in Workers : Asking(v)) => \A v \in Workers : Asking(v)'
<1>1. run' = [run EXCEPT ![w] = [@ EXCEPT !.pc = "apply", !.left = Requests[w]]]
  BY DEF Begin, TypeOK
<1>2. [run[w] EXCEPT !.pc = "apply", !.left = Requests[w]] \in RunType
  BY Typing DEF TypeOK, RunType
<1>3. run' \in [Workers -> RunType]
  BY <1>1, <1>2 DEF TypeOK
<1>4. sinceGrant' \in [Buckets -> Nat] /\ granted' \in [Buckets -> Nat]
  BY BucketsOfWorkers DEF TypeOK, Begin
<1>5. ASSUME NEW v \in Workers, Asking(v) PROVE Asking(v)'
  BY <1>1, <1>5, Typing DEF TypeOK, RunType, Asking, At
<1> QED
  BY <1>3, <1>4, <1>5

LEMMA InitPacing == Init => PacingInv
<1> SUFFICES ASSUME Init PROVE PacingInv
  OBVIOUS
<1>1. Idle \in RunType
  BY Typing DEF Idle, RunType
<1> QED
  BY <1>1, Typing DEF Init, PacingInv, TypeOK, Reserved, Punishing, Asking, At, Idle

LEMMA GrantPacing ==
  ASSUME PacingInv, NEW w \in Workers, Grant(w)
  PROVE  PacingInv'
<1> DEFINE b == BucketKey(w)
<1>1. b \in Buckets
  BY BucketsOfWorkers
<1>2. TypeOK'
  BY <1>1, Typing, BeginTyped DEF Grant, PacingInv, TypeOK, server
<1>3. ASSUME NEW c \in Buckets PROVE Reserved(c)' /\ Punishing(c)'
  BY <1>1, Typing DEF Grant, Begin, PacingInv, TypeOK, Reserved, Punishing
<1> QED
  BY <1>2, <1>3, BeginTyped DEF PacingInv, Grant

LEMMA BackoffPacing ==
  ASSUME PacingInv, NEW w \in Workers, Backoff(w)
  PROVE  PacingInv'
<1> DEFINE b == BucketKey(w)
           r == run[w].retryAfter
<1>1. b \in Buckets /\ r \in Nat
  BY BucketsOfWorkers DEF PacingInv, TypeOK, RunType
<1>2. \A m, n \in Nat : Larger(m, n) \in Nat /\ Larger(m, n) >= m /\ Larger(m, n) >= n
  BY DEF Larger
<1>3. \A m, n, k \in Nat : m >= n => Larger(m, k) >= Larger(n, k)
  BY DEF Larger
<1>4. /\ nextAllowed' = [nextAllowed EXCEPT ![b] = Larger(@, r)]
      /\ punished' = [punished EXCEPT ![b] = Larger(@, r)]
      /\ UNCHANGED <<window, used, sinceGrant, granted>>
  BY DEF Backoff, server
<1>5. run' \in [Workers -> RunType]
  BY RunTyped DEF Backoff, PacingInv, TypeOK
<1>6. TypeOK'
  BY <1>1, <1>2, <1>4, <1>5 DEF PacingInv, TypeOK
<1>7. ASSUME NEW c \in Buckets PROVE Reserved(c)' /\ Punishing(c)'
  <2>1. CASE c = b
    <3>1. nextAllowed'[c] = Larger(nextAllowed[b], r) /\ punished'[c] = Larger(punished[b], r)
      BY <1>1, <1>4, <2>1 DEF PacingInv, TypeOK
    <3>2. /\ nextAllowed[b] \in Nat /\ punished[b] \in Nat /\ sinceGrant[b] \in Nat
          /\ MinInterval(b) \in Nat /\ sinceGrant' = sinceGrant
          /\ nextAllowed[b] >= punished[b] /\ nextAllowed[b] + sinceGrant[b] >= MinInterval(b)
      BY <1>1, <1>4, Typing DEF PacingInv, TypeOK, Reserved, Punishing
    <3>3. Larger(nextAllowed[b], r) >= nextAllowed[b] /\ Larger(nextAllowed[b], r) \in Nat
      BY <1>1, <1>2, <3>2
    <3>4. Larger(nextAllowed[b], r) >= Larger(punished[b], r)
      BY <1>1, <1>3, <3>2
    <3> QED
      BY <2>1, <3>1, <3>2, <3>3, <3>4 DEF Reserved, Punishing
  <2>2. CASE c # b
    BY <1>1, <1>4, <2>2 DEF PacingInv, TypeOK, Reserved, Punishing
  <2> QED
    BY <2>1, <2>2
<1>8. \A v \in Workers : Asking(v)'
  BY RunTyped DEF Backoff, PacingInv, TypeOK
<1> QED
  BY <1>6, <1>7, <1>8 DEF PacingInv

LEMMA TickPacing ==
  ASSUME PacingInv, Tick
  PROVE  PacingInv'
<1>1. \A n \in Nat : Less(n) \in Nat /\ Less(n) <= n /\ Less(n) + 1 >= n
  BY DEF Less
<1>2. \A m, n \in Nat : m >= n => Less(m) >= Less(n)
  BY DEF Less
<1>3. run' \in [Workers -> RunType]
  BY <1>1 DEF Tick, PacingInv, TypeOK, RunType
<1>4. window' \in [Buckets -> 1..Window]
  BY Typing DEF Tick, PacingInv, TypeOK
<1>5. /\ nextAllowed' \in [Buckets -> Nat] /\ punished' \in [Buckets -> Nat]
      /\ sinceGrant' \in [Buckets -> Nat]
  BY <1>1, Typing DEF Tick, PacingInv, TypeOK
<1>6. /\ used' \in [Buckets -> Nat] /\ granted' \in [Buckets -> Nat]
  BY Typing DEF Tick, PacingInv, TypeOK
<1>7. ASSUME NEW b \in Buckets PROVE Reserved(b)' /\ Punishing(b)'
  <2>1. /\ nextAllowed[b] \in Nat /\ punished[b] \in Nat /\ sinceGrant[b] \in Nat
        /\ MinInterval(b) \in Nat
        /\ nextAllowed[b] >= punished[b] /\ nextAllowed[b] + sinceGrant[b] >= MinInterval(b)
    BY Typing DEF PacingInv, TypeOK, Reserved, Punishing
  <2>2. /\ nextAllowed'[b] = Less(nextAllowed[b]) /\ punished'[b] = Less(punished[b])
        /\ sinceGrant'[b] = IF sinceGrant[b] < MinInterval(b) THEN sinceGrant[b] + 1
                                                            ELSE sinceGrant[b]
    BY DEF Tick
  <2>3. Less(nextAllowed[b]) >= Less(punished[b])
    BY <1>2, <2>1
  <2>4. Less(nextAllowed[b]) \in Nat /\ Less(nextAllowed[b]) + 1 >= nextAllowed[b]
    BY <1>1, <2>1
  <2>5. Less(nextAllowed[b]) + sinceGrant'[b] >= MinInterval(b)
    BY <2>1, <2>2, <2>4
  <2> QED
    BY <2>2, <2>3, <2>5 DEF Reserved, Punishing
<1>8. \A w \in Workers : Asking(w)'
  BY DEF Tick, PacingInv, TypeOK, Asking, At, RunType
<1> QED
  BY <1>3, <1>4, <1>5, <1>6, <1>7, <1>8 DEF PacingInv, TypeOK, Tick

(* Every other step leaves nextAllowed and the histories alone.             *)
LEMMA QuietPacing ==
  ASSUME PacingInv, run' \in [Workers -> RunType], \A w \in Workers : Asking(w)',
         used' \in [Buckets -> Nat], UNCHANGED <<nextAllowed, window, history>>
  PROVE  PacingInv'
BY DEF PacingInv, TypeOK, Reserved, Punishing, history

LEMMA NextPacing == PacingInv /\ [Next]_vars => PacingInv'
<1> SUFFICES ASSUME PacingInv, [Next]_vars PROVE PacingInv'
  OBVIOUS
<1> USE DEF PacingInv, TypeOK
<1>1. ASSUME NEW w \in Workers, RunRemote(w) PROVE PacingInv'
  <2>1. Waiting(0) \in RunType
    BY RunTyped, Typing
  <2>2. run' \in [Workers -> RunType] /\ \A v \in Workers : Asking(v)'
    BY <1>1, <2>1 DEF RunRemote, Asking, At, Waiting, Idle
  <2> QED
    BY <1>1, <2>2, QuietPacing DEF RunRemote, server
<1>2. ASSUME NEW w \in Workers, Sleep(w) PROVE PacingInv'
  <2>1. run' \in [Workers -> RunType] /\ \A v \in Workers : Asking(v)'
    BY <1>2, BucketsOfWorkers DEF Sleep, RunType, Asking, At
  <2> QED
    BY <1>2, <2>1, QuietPacing DEF Sleep, server
<1>3. ASSUME NEW w \in Workers, Wake(w) PROVE PacingInv'
  <2>1. run' \in [Workers -> RunType] /\ \A v \in Workers : Asking(v)'
    BY <1>3 DEF Wake, RunType, Asking, At
  <2> QED
    BY <1>3, <2>1, QuietPacing DEF Wake, server
<1>4. ASSUME NEW w \in Workers, Request(w) PROVE PacingInv'
  <2>1. run' \in [Workers -> RunType] /\ \A v \in Workers : Asking(v)'
    <3>1. CASE run[w].left = 1
      BY <1>4, <3>1, RunTyped DEF Request
    <3>2. CASE run[w].left # 1
      <4>1. run[w].left - 1 \in Nat \ {0} /\ run' = [run EXCEPT ![w].left = @ - 1]
        BY <1>4, <3>2 DEF Request, RunType, Asking
      <4> QED
        BY <4>1 DEF RunType, Asking, At
    <3> QED
      BY <3>1, <3>2
  <2>2. used' \in [Buckets -> Nat]
    BY <1>4, BucketsOfWorkers DEF Request
  <2> QED
    BY <1>4, <2>1, <2>2, QuietPacing DEF Request
<1>5. ASSUME NEW w \in Workers, Fail(w) PROVE PacingInv'
  <2>1. run' \in [Workers -> RunType] /\ \A v \in Workers : Asking(v)'
    BY <1>5, RunTyped DEF Fail
  <2> QED
    BY <1>5, <2>1, QuietPacing DEF Fail, server
<1>6. ASSUME NEW w \in Workers, Refused(w) PROVE PacingInv'
  <2>1. run' \in [Workers -> RunType] /\ \A v \in Workers : Asking(v)'
    <3>1. CASE Typed429
      BY <1>6, <3>1, BucketsOfWorkers DEF Refused, RunType, Asking, At
    <3>2. CASE ~Typed429
      BY <1>6, <3>2, RunTyped DEF Refused
    <3> QED
      BY <3>1, <3>2
  <2> QED
    BY <1>6, <2>1, QuietPacing DEF Refused, server
<1>7. CASE UNCHANGED vars
  <2>1. \A v \in Workers : Asking(v)'
    BY <1>7 DEF vars, Asking, At
  <2> QED
    BY <1>7, <2>1, QuietPacing DEF vars, server
<1> QED
  BY <1>1, <1>2, <1>3, <1>4, <1>5, <1>6, <1>7, GrantPacing, BackoffPacing, TickPacing
     DEF Next, Step, Attempt, Answer

(* Types, reservations and punishments hold in every reachable state.       *)
THEOREM PacingAlways == Spec => []PacingInv
BY InitPacing, NextPacing, PTL DEF Spec

(* In particular every variable keeps its type, attempt numbers included.   *)
THEOREM TypeCorrect == Spec => []TypeOK
BY PacingAlways, PTL DEF PacingInv

(* An attempt starts only through Grant, which finds nextAllowed passed.    *)
LEMMA StartsGranted ==
  ASSUME PacingInv, [Next]_vars, NEW w \in Workers, Starts(w)
  PROVE  nextAllowed[BucketKey(w)] = 0
<1>1. run' # run
  BY DEF Starts, At
<1>2. ASSUME NEW v \in Workers, run' = [run EXCEPT ![v] = Idle] PROVE FALSE
  BY <1>2 DEF Starts, At, Idle, PacingInv, TypeOK
<1>3. ASSUME NEW v \in Workers, NEW n, run' = [run EXCEPT ![v] = Waiting(n)] PROVE FALSE
  BY <1>3 DEF Starts, At, Waiting, Idle, PacingInv, TypeOK
<1>4. ASSUME NEW v \in Workers, Grant(v) PROVE v = w
  BY <1>4 DEF Grant, Begin, Starts, At, PacingInv, TypeOK
<1>5. ~Tick
  BY DEF Tick, Starts, At, PacingInv, TypeOK, RunType
<1>6. ASSUME NEW v \in Workers PROVE ~RunRemote(v) /\ ~Fail(v) /\ ~Backoff(v)
  BY <1>2, <1>3 DEF RunRemote, Fail, Return, Backoff, Retry
<1>7. ASSUME NEW v \in Workers PROVE ~Sleep(v) /\ ~Wake(v)
  BY DEF Sleep, Wake, Starts, At, PacingInv, TypeOK, RunType
<1>8. ASSUME NEW v \in Workers PROVE ~Request(v) /\ ~Refused(v)
  <2>1. ~Refused(v)
    BY <1>2 DEF Refused, Return, Starts, At, PacingInv, TypeOK, RunType
  <2>2. ~Request(v)
    BY <1>2 DEF Request, Return, Starts, At, PacingInv, TypeOK, RunType
  <2> QED
    BY <2>1, <2>2
<1>9. PICK v \in Workers : Grant(v)
  BY <1>1, <1>5, <1>6, <1>7, <1>8 DEF Next, Step, Attempt, Answer, vars
<1> QED
  BY <1>4, <1>9 DEF Grant

(* Attempts in a bucket are an interval apart.                              *)
THEOREM Spacing == Spec => GrantsSpaced
<1>1. ASSUME PacingInv, [Next]_vars, NEW w \in Workers, Starts(w)
      PROVE  sinceGrant[BucketKey(w)] >= MinInterval(BucketKey(w))
  <2>1. nextAllowed[BucketKey(w)] = 0 /\ BucketKey(w) \in Buckets
    BY <1>1, StartsGranted, BucketsOfWorkers
  <2> QED
    BY <1>1, <2>1, Typing DEF PacingInv, TypeOK, Reserved
<1>2. PacingInv /\ [Next]_vars =>
        [\A w \in Workers : Starts(w) => sinceGrant[BucketKey(w)] >= MinInterval(BucketKey(w))]_vars
  BY <1>1
<1> QED
  BY <1>2, PacingAlways, PTL DEF Spec, GrantsSpaced

(* No attempt starts while a Retry-After reported to the limiter lasts.     *)
THEOREM Honoured == Spec => BackoffHonoured
<1>1. ASSUME PacingInv, [Next]_vars, NEW w \in Workers, Starts(w)
      PROVE  punished[BucketKey(w)] = 0
  <2>1. nextAllowed[BucketKey(w)] = 0 /\ BucketKey(w) \in Buckets
    BY <1>1, StartsGranted, BucketsOfWorkers
  <2> QED
    BY <1>1, <2>1 DEF PacingInv, TypeOK, Punishing
<1>2. PacingInv /\ [Next]_vars =>
        [\A w \in Workers : Starts(w) => punished[BucketKey(w)] = 0]_vars
  BY <1>1
<1> QED
  BY <1>2, PacingAlways, PTL DEF Spec, BackoffHonoured

(* In any window of Stoat, k attempts take k - 1 intervals.                 *)
LEMMA NextPaced ==
  ASSUME PacingInv, [Next]_vars, NEW b \in Buckets, Paced(b)
  PROVE  Paced(b)'
<1>1. /\ granted[b] \in Nat /\ sinceGrant[b] \in Nat /\ MinInterval(b) \in Nat
      /\ window[b] \in 1..Window /\ Window \in Nat
  BY Typing DEF PacingInv, TypeOK
<1>2. CASE Tick
  <2>1. CASE window[b] = 1
    BY <1>2, <2>1 DEF Tick, Paced
  <2>2. CASE window[b] # 1
    <3>1. /\ granted'[b] = granted[b] /\ window'[b] = window[b] - 1
          /\ sinceGrant'[b] \in Nat /\ sinceGrant'[b] <= sinceGrant[b] + 1
      BY <1>1, <1>2, <2>2 DEF Tick
    <3>2. CASE granted[b] > 0
      <4> DEFINE spent == (granted[b] - 1) * MinInterval(b)
      <4>1. spent \in Nat
        BY <1>1, <3>2
      <4>2. spent + sinceGrant[b] <= Window - window[b]
        BY <3>2 DEF Paced
      <4>3. spent + sinceGrant'[b] <= Window - window'[b]
        <5> HIDE DEF spent
        <5> QED
          BY <1>1, <3>1, <4>1, <4>2
      <4> QED
        BY <3>1, <4>3 DEF Paced
    <3>3. CASE ~(granted[b] > 0)
      BY <3>1, <3>3 DEF Paced
    <3> QED
      BY <3>2, <3>3
  <2> QED
    BY <2>1, <2>2
<1>3. ASSUME NEW w \in Workers, Grant(w) PROVE Paced(b)'
  <2>1. CASE b = BucketKey(w)
    <3>1. /\ granted'[b] = granted[b] + 1 /\ sinceGrant'[b] = 0 /\ window' = window
          /\ nextAllowed[b] = 0
      BY <1>3, <2>1 DEF Grant, Begin, server, PacingInv, TypeOK
    <3>2. sinceGrant[b] >= MinInterval(b)
      BY <1>1, <3>1 DEF PacingInv, TypeOK, Reserved
    <3>3. granted[b] * MinInterval(b) <= Window - window[b]
      <4>1. CASE granted[b] = 0
        BY <1>1, <4>1
      <4>2. CASE granted[b] > 0
        <5> DEFINE spent == (granted[b] - 1) * MinInterval(b)
        <5>1. spent \in Nat /\ granted[b] * MinInterval(b) = spent + MinInterval(b)
          BY <1>1, <4>2
        <5>2. spent + sinceGrant[b] <= Window - window[b]
          BY <4>2 DEF Paced
        <5>3. spent + MinInterval(b) <= Window - window[b]
          <6> HIDE DEF spent
          <6> QED
            BY <1>1, <3>2, <5>1, <5>2
        <5> QED
          BY <5>1, <5>3
      <4> QED
        BY <1>1, <4>1, <4>2
    <3>4. granted'[b] - 1 = granted[b]
      BY <1>1, <3>1
    <3>5. granted[b] * MinInterval(b) + 0 <= Window - window[b]
      BY <1>1, <3>3
    <3> QED
      BY <3>1, <3>4, <3>5 DEF Paced
  <2>2. CASE b # BucketKey(w)
    BY <1>3, <2>2 DEF Grant, Begin, server, PacingInv, TypeOK, Paced
  <2> QED
    BY <2>1, <2>2
<1>4. ASSUME UNCHANGED <<sinceGrant, granted, window>> PROVE Paced(b)'
  BY <1>4 DEF Paced
<1>5. ASSUME NEW w \in Workers, RunRemote(w) \/ Sleep(w) \/ Wake(w) \/ Answer(w) \/ Backoff(w)
      PROVE  UNCHANGED <<sinceGrant, granted, window>>
  BY <1>5 DEF RunRemote, Sleep, Wake, Answer, Request, Fail, Refused, Backoff, server, history
<1> QED
  BY <1>2, <1>3, <1>4, <1>5 DEF Next, Step, Attempt, vars, server, history

LEMMA PacedFits ==
  ASSUME PacingInv, NEW b \in Buckets, Paced(b)
  PROVE  granted[b] <= Limit(b)
<1> DEFINE g == granted[b]
           i == MinInterval(b)
           n == Limit(b)
<1>1. g \in Nat /\ sinceGrant[b] \in Nat /\ i \in Nat /\ window[b] \in 1..Window /\ n \in Nat
      /\ Window \in Nat
  BY Typing DEF PacingInv, TypeOK
<1>2. n * i >= Window
  BY IntervalsCoverWindow
<1>3. SUFFICES ASSUME g > n PROVE FALSE
  BY <1>1
<1>4. (g - 1) * i <= Window - 1
  <2> DEFINE spent == (g - 1) * i
  <2>1. spent \in Nat
    BY <1>1, <1>3
  <2>2. spent + sinceGrant[b] <= Window - window[b]
    BY <1>1, <1>3 DEF Paced
  <2> HIDE DEF spent
  <2>3. spent <= Window - 1
    BY <1>1, <2>1, <2>2
  <2> QED
    BY <2>3 DEF spent
<1>5. (g - 1) * i >= n * i
  <2> HIDE DEF g, i, n
  <2>1. g - 1 - n \in Nat
    BY <1>1, <1>3
  <2>2. (g - 1 - n) * i \in Nat
    BY <1>1, <2>1
  <2>3. (g - 1) * i = (g - 1 - n) * i + n * i
    BY <1>1, <2>1
  <2>4. n * i \in Nat
    BY <1>1
  <2> QED
    BY <2>2, <2>3, <2>4
<1> QED
  <2> DEFINE spent == (g - 1) * i
             cover == n * i
  <2>1. spent \in Nat /\ cover \in Nat
    BY <1>1, <1>3
  <2>2. spent <= Window - 1 /\ spent >= cover /\ cover >= Window
    BY <1>2, <1>4, <1>5
  <2> HIDE DEF spent, cover
  <2> QED
    BY <1>1, <2>1, <2>2

(* Whatever the configured intervals, if they cover Stoat's window then the *)
(* attempts that Wait lets through in one of its windows stay within the    *)
(* limit.                                                                   *)
THEOREM FitsWindow == Spec => []GrantsFitWindow
<1>1. Init => \A b \in Buckets : Paced(b)
  BY DEF Init, Paced
<1>2. PacingInv /\ (\A b \in Buckets : Paced(b)) /\ [Next]_vars
        => (\A b \in Buckets : Paced(b))'
  BY NextPaced
<1>3. PacingInv /\ (\A b \in Buckets : Paced(b)) => GrantsFitWindow
  BY PacedFits DEF GrantsFitWindow
<1> QED
  BY <1>1, <1>2, <1>3, PacingAlways, PTL DEF Spec
=============================================================================
