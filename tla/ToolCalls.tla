------------------------------ MODULE ToolCalls ------------------------------
(***************************************************************************)
(* The rate-limiting layer of the MCP server's middleware chain            *)
(* (internal/mcpserve/middleware/ratelimit.go): concurrent tool, resource  *)
(* and prompt calls take a concurrency slot of their category, then a      *)
(* token of their (principal, category) bucket, run their handler and      *)
(* release the slot.  Buckets are created on first use, refilled lazily,   *)
(* evicted when idle or full, and bounded in number.                       *)
(*                                                                         *)
(* Time is counted in ticks long enough that Rate is whole; fractions of a *)
(* token are left out.  The clock is read before the limiter's mutex is    *)
(* taken, so a call may use a reading that is already old.  The layers     *)
(* around this one hold no state.                                          *)
(***************************************************************************)
EXTENDS Integers, FiniteSets

CONSTANTS
    Calls,        \* concurrent requests
    Principals,   \* transport-stable caller identities (rateKey)
    Overflow,     \* overflowPrincipal
    Categories,   \* tool categories (categories.go)
    Rate,         \* [Categories -> Nat]: Limit.Rate, in tokens per tick
    Burst,        \* [Categories -> Nat \ {0}]: Limit.Burst
    Concurrency,  \* [Categories -> Nat]: Limit.Concurrency, 0 for no limit
    BucketTTL,    \* idle horizon of a bucket, in ticks
    MaxBuckets,   \* maxBuckets
    TimedOut,     \* categories whose handlers stop at a timeout
    NoBucket,     \* "no such key in buckets"
    MaxTime       \* bound: ticks in one behaviour

Times == 0..MaxTime
Keys  == (Principals \cup {Overflow}) \X Categories

\* bucket
Bucket == [tokens : Nat, last : Nat]

ASSUME ToolCallsAssumption ==
    /\ Overflow \notin Principals
    /\ Rate \in [Categories -> Nat]
    /\ Burst \in [Categories -> Nat \ {0}]
    /\ Concurrency \in [Categories -> Nat]
    /\ BucketTTL \in Nat \ {0}
    /\ MaxBuckets \in Nat \ {0}
    /\ TimedOut \subseteq Categories
    /\ NoBucket \notin Bucket
    /\ MaxTime \in Nat

\* An idle bucket has refilled before its TTL is over (defaultBucketTTL).
ASSUME TTLAssumption == \A c \in Categories : BucketTTL * Rate[c] >= Burst[c]

ASSUME FiniteKeys ==
    IsFiniteSet(Principals) /\ IsFiniteSet(Categories) /\ IsFiniteSet(Calls)

VARIABLES
    now,        \* the clock
    buckets,    \* token bucket of each key, NoBucket when the map has none
    lastSweep,  \* clock time of the last idle eviction
    held,       \* slots taken in each category's semaphore
    call,       \* each request: what it does next, for whom, in which category
                \*   and the clock reading it uses
    served      \* history: calls of each category served since the last tick
                \*   with an up-to-date reading

vars == <<now, buckets, lastSweep, held, call, served>>

NoCall == [pc |-> "idle"]

Init ==
    /\ now = 0
    /\ buckets = [key \in Keys |-> NoBucket]
    /\ lastSweep = 0
    /\ held = [c \in Categories |-> 0]
    /\ call = [k \in Calls |-> NoCall]
    /\ served = [c \in Categories |-> 0]

-----------------------------------------------------------------------------
(* The limiter's map of buckets. *)

Present == {key \in Keys : buckets[key] # NoBucket}

\* refillLocked
Refill(b, c, t) ==
    LET topped == b.tokens + (t - b.last) * Rate[c]
    IN  IF t > b.last
        THEN [tokens |-> IF topped > Burst[c] THEN Burst[c] ELSE topped,
              last |-> t]
        ELSE b

SweepDue(t) == t - lastSweep >= BucketTTL

\* An eviction that takes a bucket for idle as soon as a tick has passed.
IdleTooSoon(t) ==
    {key \in Present : SweepDue(t) /\ t - buckets[key].last >= 1}

\* evictIdleLocked: the keys it drops.
IdleKeys(t) ==
    {key \in Present : SweepDue(t) /\ t - buckets[key].last > BucketTTL}

\* An eviction that takes a bucket with any token left for full.
FullIfAny(t) ==
    {key \in Present :
        buckets[key].tokens + (t - buckets[key].last) * Rate[key[2]] >= 1}

\* evictFullLocked: the keys it drops.
FullKeys(t) ==
    {key \in Present :
        buckets[key].tokens + (t - buckets[key].last) * Rate[key[2]]
            >= Burst[key[2]]}

\* The keys left when allow has made room for the bucket of own.
Kept(own, t) ==
    LET fresh == Present \ IdleKeys(t)
    IN  IF own \notin fresh /\ Cardinality(fresh) >= MaxBuckets
        THEN fresh \ FullKeys(t) ELSE fresh

\* A newcomer gets a bucket of its own even when the map is full.
OwnBucketAlways(kept, own) == own

\* The bucket a call is charged to: its own, or the category's overflow bucket
\* when the map has no room for a new one.
ChargedKey(kept, own) ==
    IF own \notin kept /\ Cardinality(kept) >= MaxBuckets
    THEN <<Overflow, own[2]>> ELSE own

FreshBucket(c, t) == [tokens |-> Burst[c], last |-> t]

-----------------------------------------------------------------------------
(* One call through RateLimit.Handle. *)

\* acquire succeeds on a category without a limit and on a free slot.
SlotFree(c) == Concurrency[c] = 0 \/ held[c] < Concurrency[c]

TakesSlot(c) == Concurrency[c] # 0

\* acquire, then allow up to its mutex: a slot is taken and the clock is read.
\* A call that finds no slot is answered at once and changes nothing.
Acquire(k, p, c) ==
    /\ call[k].pc = "idle" /\ SlotFree(c)
    /\ held' = IF TakesSlot(c) THEN [held EXCEPT ![c] = @ + 1] ELSE held
    /\ call' = [call EXCEPT ![k] = [pc |-> "allow", who |-> p, cat |-> c,
                                    reading |-> now]]
    /\ UNCHANGED <<now, buckets, lastSweep, served>>

\* A release that is skipped when the bucket refuses the call.
ReleasedIfServed(k) ==
    IF TakesSlot(call[k].cat) /\ call[k].pc = "run"
    THEN [held EXCEPT ![call[k].cat] = @ - 1] ELSE held

\* The deferred release.
Released(k) ==
    IF TakesSlot(call[k].cat) THEN [held EXCEPT ![call[k].cat] = @ - 1] ELSE held

\* The bucket the call is charged to, as allow sees it.
Charged(k) ==
    LET own  == <<call[k].who, call[k].cat>>
        kept == Kept(own, call[k].reading)
        key  == ChargedKey(kept, own)
    IN  [kept |-> kept, key |-> key,
         bucket |-> Refill(IF key \in kept THEN buckets[key]
                           ELSE FreshBucket(call[k].cat, call[k].reading),
                           call[k].cat, call[k].reading)]

\* The map once the call has left bucket b at its key.
MapAfter(c, b) ==
    [key \in Keys |-> IF key = c.key THEN b
                      ELSE IF key \in c.kept THEN buckets[key] ELSE NoBucket]

SweptAt(t) == IF SweepDue(t) THEN t ELSE lastSweep

\* allow, when the bucket has a token.
Allow(k) ==
    LET c == Charged(k)
    IN  /\ call[k].pc = "allow" /\ c.bucket.tokens >= 1
        /\ buckets' = MapAfter(c, [c.bucket EXCEPT !.tokens = @ - 1])
        /\ lastSweep' = SweptAt(call[k].reading)
        /\ served' = IF call[k].reading = now
                     THEN [served EXCEPT ![call[k].cat] = @ + 1] ELSE served
        /\ call' = [call EXCEPT ![k].pc = "run"]
        /\ UNCHANGED <<now, held>>

\* allow, when it has none: the call is answered and its slot released.
Limited(k) ==
    LET c == Charged(k)
    IN  /\ call[k].pc = "allow" /\ c.bucket.tokens < 1
        /\ buckets' = MapAfter(c, c.bucket)
        /\ lastSweep' = SweptAt(call[k].reading)
        /\ held' = Released(k)
        /\ call' = [call EXCEPT ![k] = NoCall]
        /\ UNCHANGED <<now, served>>

\* The handler returns, fails, panics or is cancelled: all the same to the
\* deferred release.
Return(k) ==
    /\ call[k].pc = "run"
    /\ held' = Released(k)
    /\ call' = [call EXCEPT ![k] = NoCall]
    /\ UNCHANGED <<now, buckets, lastSweep, served>>

Tick ==
    /\ now < MaxTime /\ now' = now + 1
    /\ served' = [c \in Categories |-> 0]
    /\ UNCHANGED <<buckets, lastSweep, held, call>>

Next ==
    \/ Tick
    \/ \E k \in Calls :
         \/ \E p \in Principals, c \in Categories : Acquire(k, p, c)
         \/ Allow(k) \/ Limited(k) \/ Return(k)

\* Request k moves on: from the limiter, where only Allow and Limited take it,
\* or from its handler.
Decided(k) ==
    /\ call[k].pc = "allow"
    /\ call' \in {[call EXCEPT ![k].pc = "run"], [call EXCEPT ![k] = NoCall]}

Answered(k) ==
    /\ call[k].pc = "run" /\ call[k].cat \in TimedOut
    /\ call' = [call EXCEPT ![k] = NoCall]

\* Calls in the limiter go on; handlers return only where a timeout makes them.
Fairness == \A k \in Calls : WF_call(Decided(k)) /\ WF_call(Answered(k))

Spec == Init /\ [][Next]_vars /\ Fairness

-----------------------------------------------------------------------------
(* Properties. *)

Pcs == {"allow", "run"}

\* The types, with what the limiter's arithmetic relies on: no bucket above its
\* burst, refilled in the future, or negative.
TypeOK ==
    /\ now \in Times
    /\ buckets \in [Keys -> Bucket \cup {NoBucket}]
    /\ \A key \in Present :
         buckets[key].tokens <= Burst[key[2]] /\ buckets[key].last <= now
    /\ lastSweep \in 0..now
    /\ held \in [Categories -> Nat]
    /\ call \in [Calls -> {NoCall} \cup
                   [pc : Pcs, who : Principals, cat : Categories, reading : Times]]
    /\ \A k \in Calls : call[k].pc \in Pcs => call[k].reading <= now
    /\ served \in [Categories -> Nat]

\* The calls of category c inside the layer.
InFlight(c) == {k \in Calls : call[k].pc \in Pcs /\ call[k].cat = c}

\* A category's semaphore holds exactly one slot per call inside the layer,
\* whatever became of earlier calls, and never more than its Concurrency: no
\* path out of Handle leaks a slot or gives it back twice (acquire, Handle).
SlotsMatchCalls ==
    \A c \in Categories :
        IF TakesSlot(c)
        THEN held[c] = Cardinality(InFlight(c)) /\ held[c] <= Concurrency[c]
        ELSE held[c] = 0

\* However many principals call, the map holds at most maxBuckets buckets and
\* one overflow bucket for each category (allow).
BucketsBounded ==
    Cardinality(Present) <= MaxBuckets + Cardinality(Categories)

\* Between two ticks, all principals together are served no more calls of a
\* category than maxBuckets full buckets and its overflow bucket hold, however
\* identities and evictions follow one another: dropping a bucket never lets a
\* newcomer spend what was spent already (allow, evictFullLocked).
BurstBounded ==
    \A c \in Categories : served[c] <= (MaxBuckets + 1) * Burst[c]

\* What a payer could spend now.
Credit(key) ==
    IF buckets[key] = NoBucket THEN Burst[key[2]]
    ELSE Refill(buckets[key], key[2], now).tokens

AbstractCall(k) ==
    IF call[k].pc = "idle" THEN [phase |-> "idle"]
    ELSE [phase |-> IF call[k].pc = "allow" THEN "waiting" ELSE "running",
          who |-> call[k].who, cat |-> call[k].cat, since |-> call[k].reading]

Promise == INSTANCE Quota WITH
    Shared <- Overflow,
    credit <- [key \in Keys |-> Credit(key)],
    call   <- [k \in Calls |-> AbstractCall(k)]

\* Lazy refills, evictions and recreated buckets are invisible: every step is a
\* step of Quota.  A call is charged to its own credit or the shared one, no
\* other caller's credit changes, and a call whose reading is current is
\* refused only for want of credit (allow, evictIdleLocked, evictFullLocked).
QuotaKept == Promise!Spec

\* A category whose handlers are bounded by a timeout never stays saturated,
\* even when handlers of other categories never return (acquire, nix_run.go).
SlotsComeBack ==
    \A c \in TimedOut : TakesSlot(c) => []<>(held[c] < Concurrency[c])
=============================================================================
