-------------------------- MODULE ToolCalls_proofs --------------------------
(***************************************************************************)
(* Proofs about ToolCalls, for any finite number of requests, principals   *)
(* and categories and any rates, bursts and limits: the types, the balance *)
(* of slots and requests, the bound on the buckets, and that the limiter   *)
(* with its lazy refills and evictions implements Quota.                   *)
(***************************************************************************)
EXTENDS ToolCalls, FiniteSetTheorems, TLAPS

Request == [pc : Pcs, who : Principals, cat : Categories, reading : Times]

-----------------------------------------------------------------------------
(* Arithmetic of the refill. *)

LEMMA Products ==
  /\ \A a, b \in Nat : a * b \in Nat
  /\ \A a, b, r \in Int : (a + b) * r = a * r + b * r
  /\ \A a, b, r \in Nat : a <= b => a * r <= b * r
<1>1. \A a, b \in Nat : a * b \in Nat
  BY SMT
<1>2. \A a, b, r \in Int : (a + b) * r = a * r + b * r
  BY SMT
<1>3. ASSUME NEW a \in Nat, NEW b \in Nat, NEW r \in Nat, a <= b
      PROVE  a * r <= b * r
  <2>1. PICK d \in Nat : b = a + d
    <3>1. b - a \in Nat /\ b = a + (b - a)
      BY <1>3
    <3>2. QED
      BY <3>1
  <2>2. b * r = a * r + d * r
    BY <1>2, <2>1
  <2>3. d * r \in Nat /\ a * r \in Nat
    BY <1>1
  <2>4. QED
    BY <2>2, <2>3
<1>4. QED
  BY <1>1, <1>2, <1>3

\* A refilled bucket is a bucket, no fuller than its burst, and not refilled
\* later than the clock it was refilled with or had been refilled with.
LEMMA RefillTyped ==
  ASSUME NEW b \in Bucket, NEW c \in Categories, NEW t \in Nat,
         b.tokens <= Burst[c]
  PROVE  /\ Refill(b, c, t) \in Bucket
         /\ Refill(b, c, t).tokens <= Burst[c]
         /\ Refill(b, c, t).last = IF t > b.last THEN t ELSE b.last
<1> DEFINE topped == b.tokens + (t - b.last) * Rate[c]
<1>1. Rate[c] \in Nat /\ Burst[c] \in Nat /\ b.tokens \in Nat /\ b.last \in Nat
  BY ToolCallsAssumption DEF Bucket
<1>2. CASE t > b.last
  <2>1. t - b.last \in Nat
    BY <1>1, <1>2
  <2>2. topped \in Nat
    BY <1>1, <2>1, Products
  <2>3. Refill(b, c, t) = [tokens |-> IF topped > Burst[c] THEN Burst[c] ELSE topped,
                           last |-> t]
    BY <1>2 DEF Refill
  <2>4. QED
    BY <1>1, <1>2, <2>2, <2>3 DEF Bucket
<1>3. CASE ~(t > b.last)
  BY <1>3 DEF Refill
<1>4. QED
  BY <1>2, <1>3

\* The tokens of a bucket refilled at n.
LEMMA RefillTokens ==
  ASSUME NEW b \in Bucket, NEW c \in Categories, NEW n \in Nat,
         b.tokens <= Burst[c], b.last <= n
  PROVE  LET sum == b.tokens + (n - b.last) * Rate[c]
         IN  /\ sum \in Nat
             /\ Refill(b, c, n).tokens = IF sum > Burst[c] THEN Burst[c] ELSE sum
<1> DEFINE sum == b.tokens + (n - b.last) * Rate[c]
<1>1. Rate[c] \in Nat /\ Burst[c] \in Nat /\ b.tokens \in Nat /\ b.last \in Nat
  BY ToolCallsAssumption DEF Bucket
<1>2. n - b.last \in Nat
  BY <1>1
<1>3. sum \in Nat
  BY <1>1, <1>2, Products
<1>4. CASE n > b.last
  BY <1>3, <1>4 DEF Refill
<1>5. CASE n = b.last
  <2>1. (n - b.last) * Rate[c] = 0
    BY <1>1, <1>5
  <2>2. Refill(b, c, n) = b
    BY <1>1, <1>5 DEF Refill
  <2>3. QED
    BY <1>1, <2>1, <2>2
<1>6. QED
  BY <1>1, <1>3, <1>4, <1>5

\* Refilling on the way to n changes nothing at n.
LEMMA RefillTwice ==
  ASSUME NEW b \in Bucket, NEW c \in Categories, NEW t \in Nat, NEW n \in Nat,
         b.tokens <= Burst[c], b.last <= n, t <= n
  PROVE  /\ Refill(Refill(b, c, t), c, n).tokens = Refill(b, c, n).tokens
         /\ Refill(b, c, t).tokens <= Refill(b, c, n).tokens
<1> DEFINE m == Refill(b, c, t)
           x == (t - b.last) * Rate[c]
           y == (n - t) * Rate[c]
<1>1. Rate[c] \in Nat /\ Burst[c] \in Nat /\ b.tokens \in Nat /\ b.last \in Nat
  BY ToolCallsAssumption DEF Bucket
<1>2. m \in Bucket /\ m.tokens <= Burst[c] /\ m.last = IF t > b.last THEN t ELSE b.last
  BY RefillTyped
<1>3. m.last <= n
  BY <1>1, <1>2
<1>4. CASE t > b.last
  <2>1. t - b.last \in Nat /\ n - t \in Nat /\ n - b.last = (t - b.last) + (n - t)
    BY <1>1, <1>4
  <2>2. (n - b.last) * Rate[c] = x + y
    BY <1>1, <2>1, Products
  <2>3. x \in Nat /\ y \in Nat
    BY <1>1, <2>1, Products
  <2>4. m.last = t /\ m.tokens = IF b.tokens + x > Burst[c] THEN Burst[c] ELSE b.tokens + x
    BY <1>2, <1>4 DEF Refill
  <2>5. Refill(m, c, n).tokens = IF m.tokens + y > Burst[c] THEN Burst[c] ELSE m.tokens + y
    BY <1>2, <1>3, <2>4, RefillTokens
  <2>6. Refill(b, c, n).tokens = IF b.tokens + (x + y) > Burst[c] THEN Burst[c]
                                 ELSE b.tokens + (x + y)
    BY <2>2, RefillTokens
  <2>7. /\ Refill(m, c, n).tokens = Refill(b, c, n).tokens
        /\ m.tokens <= Refill(b, c, n).tokens
    <3> HIDE DEF x, y, m
    <3> QED
      BY <1>1, <2>3, <2>4, <2>5, <2>6
  <2>8. QED
    BY <2>7
<1>5. CASE ~(t > b.last)
  <2>1. m = b
    BY <1>5 DEF Refill
  <2>2. (n - b.last) * Rate[c] \in Nat
    <3>1. n - b.last \in Nat
      BY <1>1
    <3>2. QED
      BY <1>1, <3>1, Products
  <2>3. Refill(b, c, n).tokens >= b.tokens
    <3> DEFINE s == (n - b.last) * Rate[c]
    <3>1. Refill(b, c, n).tokens = IF b.tokens + s > Burst[c] THEN Burst[c] ELSE b.tokens + s
      BY RefillTokens
    <3>2. s \in Nat
      BY <2>2
    <3> HIDE DEF s
    <3>3. QED
      BY <1>1, <3>1, <3>2
  <2>4. QED
    BY <1>1, <2>1, <2>3
<1>6. QED
  BY <1>4, <1>5

-----------------------------------------------------------------------------
(* Types. *)

LEMMA CallIs ==
  ASSUME TypeOK, NEW k \in Calls
  PROVE  /\ call[k] = NoCall \/ call[k] \in Request
         /\ call[k].pc = "idle" => call[k] = NoCall
         /\ call[k].pc \in Pcs => call[k] \in Request /\ call[k].reading \in 0..now
<1>1. call[k] = NoCall \/ call[k] \in Request
  BY DEF TypeOK, Request
<1>2. call[k] \in Request => call[k].pc \in Pcs /\ call[k].reading \in Nat
  BY ToolCallsAssumption DEF Request, Times
<1>3. NoCall.pc = "idle" /\ "idle" \notin Pcs
  BY DEF NoCall, Pcs
<1>4. call[k].pc \in Pcs => call[k].reading <= now
  BY DEF TypeOK
<1>5. now \in Nat
  BY ToolCallsAssumption DEF TypeOK, Times
<1>6. QED
  BY <1>1, <1>2, <1>3, <1>4, <1>5

\* The bucket a call is charged to is one of the map, well formed, and within
\* its burst and the clock.
LEMMA ChargedTyped ==
  ASSUME TypeOK, NEW k \in Calls, call[k].pc = "allow"
  PROVE  LET c == Charged(k)
         IN  /\ call[k] \in Request /\ call[k].reading \in 0..now
             /\ c.key \in {<<call[k].who, call[k].cat>>, <<Overflow, call[k].cat>>}
             /\ c.key \in Keys /\ c.key[2] = call[k].cat
             /\ c.kept \subseteq Present
             /\ c.bucket \in Bucket /\ c.bucket.tokens <= Burst[call[k].cat]
             /\ c.bucket.last <= now
<1> DEFINE own  == <<call[k].who, call[k].cat>>
           kept == Kept(own, call[k].reading)
           key  == ChargedKey(kept, own)
           t    == call[k].reading
           from == IF key \in kept THEN buckets[key] ELSE FreshBucket(call[k].cat, t)
<1>1. call[k] \in Request /\ t \in 0..now
  BY CallIs DEF Pcs
<1>2. call[k].who \in Principals /\ call[k].cat \in Categories
  BY <1>1 DEF Request
<1>3. now \in Nat /\ t \in Nat /\ t <= now
  BY <1>1, ToolCallsAssumption DEF TypeOK, Times
<1>4. kept \subseteq Present
  BY DEF Kept
<1>5. key \in {own, <<Overflow, call[k].cat>>}
  BY DEF ChargedKey
<1>6. key \in Keys /\ key[2] = call[k].cat
  BY <1>2, <1>5 DEF Keys
<1>7. Burst[call[k].cat] \in Nat
  BY <1>2, ToolCallsAssumption
<1>8. from \in Bucket /\ from.tokens <= Burst[call[k].cat] /\ from.last <= now
  <2>1. CASE key \in kept
    <3>1. key \in Present
      BY <1>4, <2>1
    <3>2. buckets[key] \in Bucket
      BY <1>6, <3>1 DEF TypeOK, Present
    <3>3. buckets[key].tokens <= Burst[key[2]] /\ buckets[key].last <= now
      BY <3>1 DEF TypeOK
    <3>4. QED
      BY <1>6, <2>1, <3>2, <3>3
  <2>2. CASE key \notin kept
    BY <1>3, <1>7, <2>2 DEF FreshBucket, Bucket
  <2>3. QED
    BY <2>1, <2>2
<1>9. from.last \in Nat
  BY <1>8 DEF Bucket
<1>10. /\ Refill(from, call[k].cat, t) \in Bucket
       /\ Refill(from, call[k].cat, t).tokens <= Burst[call[k].cat]
       /\ Refill(from, call[k].cat, t).last <= now
  BY <1>2, <1>3, <1>8, <1>9, RefillTyped
<1>11. Charged(k) = [kept |-> kept, key |-> key, bucket |-> Refill(from, call[k].cat, t)]
  BY DEF Charged
<1>12. QED
  BY <1>1, <1>4, <1>5, <1>6, <1>10, <1>11

\* The map stays well formed when a call leaves a bucket behind.
LEMMA MapTyped ==
  ASSUME TypeOK, NEW c, c.key \in Keys, c.kept \subseteq Present,
         NEW b \in Bucket, b.tokens <= Burst[c.key[2]], b.last <= now,
         buckets' = MapAfter(c, b), now' = now
  PROVE  /\ buckets' \in [Keys -> Bucket \cup {NoBucket}]
         /\ Present' = c.kept \cup {c.key}
         /\ buckets'[c.key] = b
         /\ \A key \in Present' :
              /\ key # c.key => buckets'[key] = buckets[key]
              /\ buckets'[key].tokens <= Burst[key[2]] /\ buckets'[key].last <= now'
<1>1. \A key \in Present : key \in Keys /\ buckets[key] \in Bucket
  BY DEF Present, TypeOK
<1>2. buckets' = [key \in Keys |-> IF key = c.key THEN b
                      ELSE IF key \in c.kept THEN buckets[key] ELSE NoBucket]
  BY DEF MapAfter
<1>3. buckets' \in [Keys -> Bucket \cup {NoBucket}]
  BY <1>1, <1>2
<1>4. Present' = c.kept \cup {c.key}
  BY <1>1, <1>2, ToolCallsAssumption DEF Present
<1>5. \A key \in Present' : key # c.key => key \in Present /\ buckets'[key] = buckets[key]
  BY <1>1, <1>2, <1>4
<1>6. buckets'[c.key] = b
  BY <1>2
<1>7. QED
  BY <1>3, <1>4, <1>5, <1>6 DEF TypeOK

LEMMA ReleasedTyped ==
  ASSUME TypeOK, SlotsMatchCalls, NEW k \in Calls, call[k].pc \in Pcs
  PROVE  Released(k) \in [Categories -> Nat]
<1>1. call[k].cat \in Categories
  BY CallIs DEF Request
<1>2. k \in InFlight(call[k].cat)
  BY DEF InFlight
<1>3. IsFiniteSet(InFlight(call[k].cat))
  BY FiniteKeys, FS_Subset DEF InFlight
<1>4. TakesSlot(call[k].cat) => held[call[k].cat] # 0
  BY <1>1, <1>2, <1>3, FS_EmptySet DEF SlotsMatchCalls
<1>5. TakesSlot(call[k].cat) => held[call[k].cat] - 1 \in Nat
  BY <1>1, <1>4 DEF TypeOK
<1>6. QED
  BY <1>5 DEF Released, TypeOK

LEMMA SweptTyped ==
  ASSUME TypeOK, NEW t \in 0..now
  PROVE  SweptAt(t) \in 0..now
  BY DEF SweptAt, TypeOK

LEMMA TypeInit == Init => TypeOK
<1>1. SUFFICES ASSUME Init PROVE TypeOK
  OBVIOUS
<1>2. 0 \in Times /\ 0 \in 0..0
  BY ToolCallsAssumption DEF Times
<1>3. Present = {}
  BY <1>1 DEF Init, Present
<1>4. \A k \in Calls : call[k] = NoCall /\ call[k].pc \notin Pcs
  BY <1>1 DEF Init, NoCall, Pcs
<1>5. QED
  BY <1>1, <1>2, <1>3, <1>4 DEF Init, TypeOK

LEMMA TypeStep ==
  ASSUME TypeOK, SlotsMatchCalls, [Next]_vars
  PROVE  TypeOK'
<1>0. now \in Nat /\ Pcs = {"allow", "run"}
  BY ToolCallsAssumption DEF TypeOK, Times, Pcs
<1>1. CASE Tick
  <2>1. now' \in Times /\ now' = now + 1
    BY <1>0, <1>1, ToolCallsAssumption DEF Tick, Times
  <2>2. \A key \in Present' :
          buckets'[key].tokens <= Burst[key[2]] /\ buckets'[key].last <= now'
    <3>1. \A key \in Present : buckets[key] \in Bucket
      BY DEF TypeOK, Present
    <3>2. \A key \in Present : buckets[key].last \in Nat
      BY <3>1 DEF Bucket
    <3>3. Present' = Present /\ buckets' = buckets
      BY <1>1 DEF Tick, Present
    <3>4. QED
      BY <1>0, <2>1, <3>2, <3>3 DEF TypeOK
  <2>3. \A k \in Calls : call'[k].pc \in Pcs => call'[k].reading <= now'
    BY <1>0, <1>1, <2>1, CallIs DEF Tick
  <2>4. served' \in [Categories -> Nat]
    BY <1>1 DEF Tick
  <2>5. lastSweep' \in 0..now'
    BY <1>0, <1>1, <2>1 DEF Tick, TypeOK
  <2>6. QED
    BY <1>1, <2>1, <2>2, <2>3, <2>4, <2>5 DEF Tick, TypeOK
<1>2. ASSUME NEW k \in Calls, NEW p \in Principals, NEW c \in Categories, Acquire(k, p, c)
      PROVE  TypeOK'
  <2> DEFINE r == [pc |-> "allow", who |-> p, cat |-> c, reading |-> now]
  <2>1. r \in Request
    BY <1>0 DEF Request, TypeOK
  <2>2. call' = [call EXCEPT ![k] = r]
    BY <1>2 DEF Acquire
  <2>3. call' \in [Calls -> {NoCall} \cup Request]
    BY <2>1, <2>2 DEF TypeOK, Request
  <2>4. \A q \in Calls : call'[q].pc \in Pcs => call'[q].reading <= now
    BY <1>0, <2>2 DEF TypeOK
  <2>5. held' \in [Categories -> Nat]
    BY <1>2 DEF Acquire, TypeOK
  <2>6. UNCHANGED <<now, buckets, lastSweep, served>> /\ Present' = Present
    BY <1>2 DEF Acquire, Present
  <2>7. QED
    BY <2>3, <2>4, <2>5, <2>6 DEF TypeOK, Request
<1>3. ASSUME NEW k \in Calls, Allow(k) PROVE TypeOK'
  <2> DEFINE c == Charged(k)
             b == [c.bucket EXCEPT !.tokens = @ - 1]
  <2>1. call[k].pc = "allow" /\ c.bucket.tokens >= 1 /\ buckets' = MapAfter(c, b)
    BY <1>3 DEF Allow
  <2>2. /\ call[k] \in Request /\ call[k].reading \in 0..now
        /\ c.key \in Keys /\ c.key[2] = call[k].cat /\ c.kept \subseteq Present
        /\ c.bucket \in Bucket /\ c.bucket.tokens <= Burst[call[k].cat]
        /\ c.bucket.last <= now
    BY <2>1, ChargedTyped
  <2>3. call[k].cat \in Categories /\ Burst[call[k].cat] \in Nat
    BY <2>2, ToolCallsAssumption DEF Request
  <2>4. b \in Bucket /\ b.tokens <= Burst[c.key[2]] /\ b.last <= now
    BY <2>1, <2>2, <2>3 DEF Bucket
  <2>5. UNCHANGED <<now, held>>
    BY <1>3 DEF Allow
  <2>6. /\ buckets' \in [Keys -> Bucket \cup {NoBucket}]
        /\ \A key \in Present' :
             buckets'[key].tokens <= Burst[key[2]] /\ buckets'[key].last <= now'
    <3> HIDE DEF b, c
    <3>1. QED
      BY <2>1, <2>2, <2>4, <2>5, MapTyped
  <2>7. call' = [call EXCEPT ![k] = [call[k] EXCEPT !.pc = "run"]]
    BY <1>3 DEF Allow
  <2>8. [call[k] EXCEPT !.pc = "run"] \in Request
    BY <1>0, <2>2 DEF Request
  <2>9. call' \in [Calls -> {NoCall} \cup Request]
    BY <2>7, <2>8 DEF TypeOK, Request
  <2>10. \A q \in Calls : call'[q].pc \in Pcs => call'[q].reading <= now
    BY <2>2, <2>7 DEF TypeOK, Request
  <2>11. lastSweep' \in 0..now
    BY <1>3, <2>2, SweptTyped DEF Allow
  <2>12. served' \in [Categories -> Nat]
    BY <1>3, <2>3 DEF Allow, TypeOK
  <2>13. QED
    BY <2>5, <2>6, <2>9, <2>10, <2>11, <2>12 DEF TypeOK, Request
<1>4. ASSUME NEW k \in Calls, Limited(k) PROVE TypeOK'
  <2> DEFINE c == Charged(k)
             b == c.bucket
  <2>1. call[k].pc = "allow" /\ buckets' = MapAfter(c, b)
    BY <1>4 DEF Limited
  <2>2. /\ call[k] \in Request /\ call[k].reading \in 0..now
        /\ c.key \in Keys /\ c.key[2] = call[k].cat /\ c.kept \subseteq Present
        /\ b \in Bucket /\ b.tokens <= Burst[c.key[2]] /\ b.last <= now
    BY <2>1, ChargedTyped
  <2>3. UNCHANGED <<now, served>>
    BY <1>4 DEF Limited
  <2>4. /\ buckets' \in [Keys -> Bucket \cup {NoBucket}]
        /\ \A key \in Present' :
             buckets'[key].tokens <= Burst[key[2]] /\ buckets'[key].last <= now'
    <3> HIDE DEF b, c
    <3>1. QED
      BY <2>1, <2>2, <2>3, MapTyped
  <2>5. held' \in [Categories -> Nat]
    BY <1>0, <1>4, <2>1, ReleasedTyped DEF Limited
  <2>6. call' = [call EXCEPT ![k] = NoCall]
    BY <1>4 DEF Limited
  <2>7. /\ call' \in [Calls -> {NoCall} \cup Request]
        /\ \A q \in Calls : call'[q].pc \in Pcs => call'[q].reading <= now
    BY <1>0, <2>6 DEF TypeOK, NoCall, Request
  <2>8. lastSweep' \in 0..now
    BY <1>4, <2>2, SweptTyped DEF Limited
  <2>9. QED
    BY <2>3, <2>4, <2>5, <2>7, <2>8 DEF TypeOK, Request
<1>5. ASSUME NEW k \in Calls, Return(k) PROVE TypeOK'
  <2>1. held' \in [Categories -> Nat]
    BY <1>0, <1>5, ReleasedTyped DEF Return
  <2>2. call' = [call EXCEPT ![k] = NoCall]
    BY <1>5 DEF Return
  <2>3. /\ call' \in [Calls -> {NoCall} \cup Request]
        /\ \A q \in Calls : call'[q].pc \in Pcs => call'[q].reading <= now
    BY <1>0, <2>2 DEF TypeOK, NoCall, Request
  <2>4. UNCHANGED <<now, buckets, lastSweep, served>> /\ Present' = Present
    BY <1>5 DEF Return, Present
  <2>5. QED
    BY <2>1, <2>3, <2>4 DEF TypeOK, Request
<1>6. CASE UNCHANGED vars
  BY <1>6 DEF vars, TypeOK, Present
<1>7. QED
  BY <1>1, <1>2, <1>3, <1>4, <1>5, <1>6 DEF Next

-----------------------------------------------------------------------------
(* Slots. *)

LEMMA InFlightFinite ==
  ASSUME NEW c \in Categories
  PROVE  IsFiniteSet(InFlight(c)) /\ Cardinality(InFlight(c)) \in Nat
<1>1. IsFiniteSet(InFlight(c))
  BY FiniteKeys, FS_Subset DEF InFlight
<1>2. QED
  BY <1>1, FS_CardinalityType

LEMMA SlotsInit == Init => SlotsMatchCalls
<1>1. SUFFICES ASSUME Init, NEW c \in Categories
      PROVE  IF TakesSlot(c)
             THEN held[c] = Cardinality(InFlight(c)) /\ held[c] <= Concurrency[c]
             ELSE held[c] = 0
  BY DEF SlotsMatchCalls
<1>2. InFlight(c) = {}
  BY <1>1 DEF Init, NoCall, InFlight, Pcs
<1>3. held[c] = 0 /\ Concurrency[c] \in Nat
  BY <1>1, ToolCallsAssumption DEF Init
<1>4. QED
  BY <1>2, <1>3, FS_EmptySet

\* A call that leaves gives back the one slot it took.
LEMMA SlotsLeave ==
  ASSUME TypeOK, SlotsMatchCalls, NEW k \in Calls, call[k].pc \in Pcs,
         held' = Released(k), call' = [call EXCEPT ![k] = NoCall]
  PROVE  SlotsMatchCalls'
<1> DEFINE own == call[k].cat
<1>1. own \in Categories
  BY CallIs DEF Request
<1>2. SUFFICES ASSUME NEW c \in Categories
      PROVE  IF TakesSlot(c)
             THEN held'[c] = Cardinality(InFlight(c)') /\ held'[c] <= Concurrency[c]
             ELSE held'[c] = 0
  BY DEF SlotsMatchCalls, TakesSlot
<1>3. InFlight(c)' = InFlight(c) \ {k}
  BY DEF InFlight, NoCall, Pcs, TypeOK
<1>4. k \in InFlight(c) <=> c = own
  BY DEF InFlight
<1>5. /\ IsFiniteSet(InFlight(c))
      /\ Cardinality(InFlight(c)') = IF c = own THEN Cardinality(InFlight(c)) - 1
                                     ELSE Cardinality(InFlight(c))
  BY <1>3, <1>4, InFlightFinite, FS_RemoveElement
<1>6. held'[c] = IF TakesSlot(c) /\ c = own THEN held[c] - 1 ELSE held[c]
  BY <1>1 DEF Released, TypeOK
<1>7. held[c] \in Nat /\ Concurrency[c] \in Nat
  BY ToolCallsAssumption DEF TypeOK
<1>8. QED
  BY <1>5, <1>6, <1>7 DEF SlotsMatchCalls

LEMMA SlotsStep ==
  ASSUME TypeOK, SlotsMatchCalls, [Next]_vars
  PROVE  SlotsMatchCalls'
<1>0. Pcs = {"allow", "run"}
  BY DEF Pcs
<1>1. ASSUME UNCHANGED <<held, call>> PROVE SlotsMatchCalls'
  BY <1>1 DEF SlotsMatchCalls, InFlight, TakesSlot
<1>2. ASSUME NEW k \in Calls, NEW p \in Principals, NEW d \in Categories, Acquire(k, p, d)
      PROVE  SlotsMatchCalls'
  <2>1. SUFFICES ASSUME NEW c \in Categories
        PROVE  IF TakesSlot(c)
               THEN held'[c] = Cardinality(InFlight(c)') /\ held'[c] <= Concurrency[c]
               ELSE held'[c] = 0
    BY DEF SlotsMatchCalls, TakesSlot
  <2>2. call[k].pc = "idle" /\ k \notin InFlight(c)
    BY <1>0, <1>2 DEF Acquire, InFlight
  <2>3. InFlight(c)' = IF c = d THEN InFlight(c) \cup {k} ELSE InFlight(c)
    BY <1>0, <1>2, <2>2 DEF Acquire, InFlight, TypeOK
  <2>4. Cardinality(InFlight(c)') = IF c = d THEN Cardinality(InFlight(c)) + 1
                                    ELSE Cardinality(InFlight(c))
    BY <2>2, <2>3, InFlightFinite, FS_AddElement
  <2>5. held'[c] = IF TakesSlot(d) /\ c = d THEN held[c] + 1 ELSE held[c]
    BY <1>2 DEF Acquire, TypeOK
  <2>6. c = d /\ TakesSlot(c) => held[c] < Concurrency[c]
    BY <1>2 DEF Acquire, SlotFree, TakesSlot
  <2>7. held[c] \in Nat /\ Concurrency[c] \in Nat
    BY ToolCallsAssumption DEF TypeOK
  <2>8. QED
    BY <2>4, <2>5, <2>6, <2>7, InFlightFinite DEF SlotsMatchCalls
<1>3. ASSUME NEW k \in Calls, Allow(k) PROVE SlotsMatchCalls'
  <2>1. held' = held /\ call' = [call EXCEPT ![k].pc = "run"] /\ call[k].pc = "allow"
    BY <1>3 DEF Allow
  <2>2. call[k] \in Request
    BY <1>0, <2>1, CallIs
  <2>3. call'[k].pc = "run" /\ call'[k].cat = call[k].cat
    BY <2>1, <2>2 DEF TypeOK, Request
  <2>4. \A q \in Calls : q # k => call'[q] = call[q]
    BY <2>1 DEF TypeOK
  <2>5. \A c \in Categories : InFlight(c)' = InFlight(c)
    BY <1>0, <2>1, <2>3, <2>4 DEF InFlight
  <2>6. QED
    BY <2>1, <2>5 DEF SlotsMatchCalls, TakesSlot
<1>4. ASSUME NEW k \in Calls, Limited(k) PROVE SlotsMatchCalls'
  BY <1>0, <1>4, SlotsLeave DEF Limited
<1>5. ASSUME NEW k \in Calls, Return(k) PROVE SlotsMatchCalls'
  BY <1>0, <1>5, SlotsLeave DEF Return
<1>6. CASE Tick
  BY <1>1, <1>6 DEF Tick
<1>7. CASE UNCHANGED vars
  BY <1>1, <1>7 DEF vars
<1>8. QED
  BY <1>2, <1>3, <1>4, <1>5, <1>6, <1>7 DEF Next

-----------------------------------------------------------------------------
(* The bound on the buckets. *)

\* The buckets callers have of their own.
OwnBuckets == {key \in Present : key[1] # Overflow}

\* Only the overflow buckets may go past MaxBuckets.
OwnBounded == Cardinality(OwnBuckets) <= MaxBuckets

OverflowKeys == {Overflow} \X Categories

LEMMA KeysFinite ==
  /\ IsFiniteSet(Keys)
  /\ IsFiniteSet(OverflowKeys) /\ Cardinality(OverflowKeys) <= Cardinality(Categories)
<1>1. IsFiniteSet(Principals \cup {Overflow})
  BY FiniteKeys, FS_AddElement
<1>2. IsFiniteSet(Keys)
  BY <1>1, FiniteKeys, FS_Product DEF Keys
<1>3. [key \in OverflowKeys |-> key[2]] \in Injection(OverflowKeys, Categories)
  BY DEF OverflowKeys, Injection, IsInjective
<1>4. QED
  BY <1>2, <1>3, FiniteKeys, FS_Injection

LEMMA BoundFollows ==
  ASSUME OwnBounded
  PROVE  BucketsBounded
<1>1. Present \subseteq Keys /\ OwnBuckets \subseteq Keys
  BY DEF Present, OwnBuckets
<1>2. Present \subseteq OwnBuckets \cup OverflowKeys
  BY DEF Present, OwnBuckets, OverflowKeys, Keys
<1>3. IsFiniteSet(OwnBuckets) /\ IsFiniteSet(OwnBuckets \cup OverflowKeys)
  BY <1>1, KeysFinite, FS_Subset, FS_Union
<1>4. Cardinality(Present) <= Cardinality(OwnBuckets \cup OverflowKeys)
  BY <1>2, <1>3, FS_Subset
<1>5. Cardinality(OwnBuckets \cup OverflowKeys)
        <= Cardinality(OwnBuckets) + Cardinality(OverflowKeys)
  <2>1. /\ Cardinality(OwnBuckets \cup OverflowKeys)
             = Cardinality(OwnBuckets) + Cardinality(OverflowKeys)
               - Cardinality(OwnBuckets \cap OverflowKeys)
        /\ IsFiniteSet(OwnBuckets \cap OverflowKeys)
    BY <1>3, KeysFinite, FS_Union, FS_Intersection
  <2>2. /\ Cardinality(OwnBuckets \cap OverflowKeys) \in Nat
        /\ Cardinality(OwnBuckets) \in Nat /\ Cardinality(OverflowKeys) \in Nat
    BY <1>3, <2>1, KeysFinite, FS_CardinalityType
  <2>3. QED
    BY <2>1, <2>2
<1>6. /\ Cardinality(Present) \in Nat /\ Cardinality(OwnBuckets) \in Nat
      /\ Cardinality(OverflowKeys) \in Nat /\ Cardinality(Categories) \in Nat
      /\ Cardinality(OwnBuckets \cup OverflowKeys) \in Nat
  BY <1>1, <1>3, KeysFinite, FiniteKeys, FS_Subset, FS_CardinalityType
<1>7. QED
  BY <1>4, <1>5, <1>6, KeysFinite, ToolCallsAssumption DEF OwnBounded, BucketsBounded

\* A call that leaves a bucket behind adds none of its own to a full map.
LEMMA OwnCharged ==
  ASSUME TypeOK, OwnBounded, NEW k \in Calls, call[k].pc = "allow",
         NEW b \in Bucket, buckets' = MapAfter(Charged(k), b)
  PROVE  OwnBounded'
<1> DEFINE c    == Charged(k)
           own  == <<call[k].who, call[k].cat>>
           left == {key \in c.kept : key[1] # Overflow}
<1>1. /\ c.kept \subseteq Present /\ c.key = ChargedKey(c.kept, own)
      /\ c.key \in Keys
  BY ChargedTyped DEF Charged
<1>2. Present' \subseteq c.kept \cup {c.key}
  BY DEF MapAfter, Present
<1>3. Present \subseteq Keys /\ Present' \subseteq Keys
  BY DEF Present
<1>4. /\ IsFiniteSet(c.kept) /\ IsFiniteSet(left) /\ IsFiniteSet(OwnBuckets)
      /\ left \subseteq OwnBuckets /\ left \subseteq c.kept
  <2>1. left \subseteq OwnBuckets /\ left \subseteq c.kept /\ OwnBuckets \subseteq Keys
    BY <1>1, <1>3 DEF OwnBuckets
  <2>2. QED
    BY <1>1, <1>3, <2>1, KeysFinite, FS_Subset
<1>5. /\ Cardinality(left) <= Cardinality(OwnBuckets)
      /\ Cardinality(left) <= Cardinality(c.kept)
      /\ Cardinality(left) \in Nat /\ Cardinality(c.kept) \in Nat
      /\ Cardinality(OwnBuckets) \in Nat /\ MaxBuckets \in Nat
  BY <1>4, FS_Subset, FS_CardinalityType, ToolCallsAssumption
<1>6. IsFiniteSet(left \cup {c.key})
  BY <1>4, FS_AddElement
<1>7. CASE c.key \in c.kept \/ c.key[1] = Overflow
  <2>1. OwnBuckets' \subseteq left
    BY <1>2, <1>7 DEF OwnBuckets
  <2>2. Cardinality(OwnBuckets') <= Cardinality(left) /\ Cardinality(OwnBuckets') \in Nat
    BY <1>4, <2>1, FS_Subset, FS_CardinalityType
  <2>3. QED
    BY <1>5, <2>2 DEF OwnBounded
<1>8. CASE ~(c.key \in c.kept \/ c.key[1] = Overflow)
  <2>1. c.key = own /\ ~(Cardinality(c.kept) >= MaxBuckets)
    BY <1>1, <1>8 DEF ChargedKey
  <2>2. OwnBuckets' \subseteq left \cup {c.key}
    BY <1>2 DEF OwnBuckets
  <2>3. /\ Cardinality(OwnBuckets') <= Cardinality(left \cup {c.key})
        /\ Cardinality(OwnBuckets') \in Nat
        /\ Cardinality(left \cup {c.key}) <= Cardinality(left) + 1
        /\ Cardinality(left \cup {c.key}) \in Nat
    BY <1>4, <1>5, <1>6, <2>2, FS_Subset, FS_AddElement, FS_CardinalityType
  <2>4. QED
    BY <1>5, <2>1, <2>3 DEF OwnBounded
<1>9. QED
  BY <1>7, <1>8

LEMMA OwnStep ==
  ASSUME TypeOK, OwnBounded, [Next]_vars
  PROVE  OwnBounded'
<1>1. ASSUME UNCHANGED buckets PROVE OwnBounded'
  BY <1>1 DEF OwnBounded, OwnBuckets, Present
<1>2. ASSUME NEW k \in Calls, Allow(k) PROVE OwnBounded'
  <2> DEFINE c == Charged(k)
             b == [c.bucket EXCEPT !.tokens = @ - 1]
  <2>1. call[k].pc = "allow" /\ c.bucket.tokens >= 1 /\ buckets' = MapAfter(c, b)
    BY <1>2 DEF Allow
  <2>2. c.bucket \in Bucket
    BY <2>1, ChargedTyped
  <2>3. b \in Bucket
    BY <2>1, <2>2 DEF Bucket
  <2> HIDE DEF b
  <2>4. QED
    BY <2>1, <2>3, OwnCharged
<1>3. ASSUME NEW k \in Calls, Limited(k) PROVE OwnBounded'
  <2>1. /\ call[k].pc = "allow" /\ Charged(k).bucket \in Bucket
        /\ buckets' = MapAfter(Charged(k), Charged(k).bucket)
    BY <1>3, ChargedTyped DEF Limited
  <2>2. QED
    BY <2>1, OwnCharged
<1>4. QED
  BY <1>1, <1>2, <1>3 DEF Next, Tick, Acquire, Return, vars

LEMMA OwnInit == Init => OwnBounded
<1>1. Init => OwnBuckets = {}
  BY DEF Init, OwnBuckets, Present
<1>2. Cardinality({}) = 0
  BY FS_EmptySet
<1>3. Init => Cardinality(OwnBuckets) = 0
  BY <1>1, <1>2
<1>4. QED
  BY <1>1, <1>3, FS_EmptySet, ToolCallsAssumption DEF OwnBounded

-----------------------------------------------------------------------------
(* The limiter implements Quota. *)

LEMMA MapBound == TypeOK => \A key \in Present :
    /\ key \in Keys /\ key[2] \in Categories
    /\ buckets[key] \in Bucket /\ buckets[key].tokens <= Burst[key[2]]
    /\ buckets[key].last \in Nat /\ buckets[key].last <= now
<1>1. ASSUME TypeOK, NEW key \in Present
      PROVE  /\ key \in Keys /\ key[2] \in Categories /\ buckets[key] \in Bucket
  BY <1>1 DEF TypeOK, Present, Keys
<1>2. QED
  BY <1>1 DEF TypeOK, Bucket

\* A credit is a number of calls no higher than the burst.
LEMMA CreditTyped ==
  ASSUME TypeOK, NEW key \in Keys
  PROVE  Credit(key) \in Nat /\ Credit(key) <= Burst[key[2]]
<1>1. key[2] \in Categories /\ Burst[key[2]] \in Nat /\ now \in Nat
  BY ToolCallsAssumption DEF Keys, TypeOK, Times
<1>2. CASE buckets[key] = NoBucket
  BY <1>1, <1>2 DEF Credit
<1>3. CASE buckets[key] # NoBucket
  <2>1. key \in Present
    BY <1>3 DEF Present
  <2>2. buckets[key] \in Bucket /\ buckets[key].tokens <= Burst[key[2]]
    BY <2>1, MapBound
  <2>3. Refill(buckets[key], key[2], now).tokens \in Nat
    BY <1>1, <2>2, RefillTyped DEF Bucket
  <2>4. QED
    BY <1>1, <1>3, <2>2, <2>3, RefillTyped DEF Credit
<1>4. QED
  BY <1>2, <1>3

\* A bucket that is evicted held a full credit.
LEMMA EvictedAreFull ==
  ASSUME TypeOK, NEW own, NEW t \in 0..now, NEW key \in Present \ Kept(own, t)
  PROVE  Credit(key) = Burst[key[2]]
<1> DEFINE b == buckets[key]
           x == (t - b.last) * Rate[key[2]]
           y == (now - b.last) * Rate[key[2]]
<1>1. /\ key \in Keys /\ key[2] \in Categories
      /\ b \in Bucket /\ b.tokens <= Burst[key[2]]
      /\ b.last \in Nat /\ b.last <= now /\ b.tokens \in Nat
  BY MapBound DEF Bucket
<1>2. now \in Nat /\ t \in Nat /\ t <= now /\ Rate[key[2]] \in Nat /\ Burst[key[2]] \in Nat
  BY <1>1, ToolCallsAssumption DEF TypeOK, Times
<1>3. Credit(key) = IF b.tokens + y > Burst[key[2]] THEN Burst[key[2]] ELSE b.tokens + y
  <2>1. Credit(key) = Refill(b, key[2], now).tokens
    BY DEF Credit, Present
  <2>2. QED
    BY <1>1, <1>2, <2>1, RefillTokens
<1>4. now - b.last \in Nat /\ y \in Nat
  <2>1. now - b.last \in Nat
    BY <1>1, <1>2
  <2>2. QED
    BY <1>2, <2>1, Products
<1>5. CASE key \in IdleKeys(t)
  <2>1. t - b.last > BucketTTL
    BY <1>5 DEF IdleKeys
  <2>2. BucketTTL \in Nat /\ BucketTTL <= now - b.last
    BY <1>1, <1>2, <2>1, ToolCallsAssumption
  <2>3. BucketTTL * Rate[key[2]] <= y /\ BucketTTL * Rate[key[2]] \in Nat
    BY <1>2, <1>4, <2>2, Products
  <2>4. BucketTTL * Rate[key[2]] >= Burst[key[2]]
    BY <1>1, TTLAssumption
  <2> HIDE DEF y, b
  <2>5. QED
    BY <1>1, <1>2, <1>3, <1>4, <2>3, <2>4
<1>6. CASE key \in FullKeys(t)
  <2>1. b.tokens + x >= Burst[key[2]]
    BY <1>6 DEF FullKeys
  <2>2. CASE t >= b.last
    <3>1. t - b.last \in Nat /\ t - b.last <= now - b.last
      BY <1>1, <1>2, <2>2
    <3>2. x \in Nat /\ x <= y
      BY <1>2, <1>4, <3>1, Products
    <3> HIDE DEF x, y, b
    <3>3. QED
      BY <1>1, <1>2, <1>3, <1>4, <2>1, <3>2
  <2>3. CASE t < b.last
    <3>1. b.last - t \in Nat
      BY <1>1, <1>2, <2>3
    <3>2. (b.last - t) * Rate[key[2]] \in Nat
      BY <1>2, <3>1, Products
    <3>3. ((t - b.last) + (b.last - t)) * Rate[key[2]]
             = x + (b.last - t) * Rate[key[2]]
      BY <1>1, <1>2, Products
    <3>4. ((t - b.last) + (b.last - t)) * Rate[key[2]] = 0
      <4>1. (t - b.last) + (b.last - t) = 0
        BY <1>1, <1>2
      <4>2. 0 * Rate[key[2]] = 0
        BY <1>2
      <4>3. QED
        BY <4>1, <4>2
    <3>5. x \in Int
      BY <1>1, <1>2
    <3> DEFINE z == (b.last - t) * Rate[key[2]]
    <3>6. z \in Nat /\ x + z = 0
      BY <3>2, <3>3, <3>4
    <3> HIDE DEF x, y, z, b
    <3>7. QED
      BY <1>1, <1>2, <1>3, <1>4, <2>1, <3>5, <3>6
  <2>4. QED
    BY <1>1, <1>2, <2>2, <2>3
<1>7. key \in IdleKeys(t) \cup FullKeys(t)
  BY DEF Kept
<1>8. QED
  BY <1>5, <1>6, <1>7

\* What a call does to the credits: only its key's changes, which before was
\* what the bucket it left would have had with the tokens it found.
LEMMA CreditsAfter ==
  ASSUME TypeOK, NEW k \in Calls, call[k].pc = "allow",
         NEW paid, paid = Charged(k).key,
         NEW b \in Bucket, b.tokens <= Charged(k).bucket.tokens,
         b.last = Charged(k).bucket.last,
         buckets' = MapAfter(Charged(k), b), now' = now
  PROVE  LET c == Charged(k)
         IN  /\ \A key \in Keys : key # paid => Credit(key)' = Credit(key)
             /\ Credit(paid)' = Refill(b, call[k].cat, now).tokens
             /\ Credit(paid) = Refill(c.bucket, call[k].cat, now).tokens
             /\ c.bucket.tokens <= Credit(paid)
             /\ c.bucket.last >= call[k].reading
<1> DEFINE c    == Charged(k)
           t    == call[k].reading
           cat  == call[k].cat
           own  == <<call[k].who, cat>>
           from == IF c.key \in c.kept THEN buckets[c.key] ELSE FreshBucket(cat, t)
<1>1. /\ call[k] \in Request /\ t \in 0..now
      /\ c.key \in Keys /\ c.key[2] = cat /\ c.kept \subseteq Present
      /\ c.bucket \in Bucket /\ c.bucket.tokens <= Burst[cat] /\ c.bucket.last <= now
  BY ChargedTyped
<1>2. /\ cat \in Categories /\ Burst[cat] \in Nat /\ now \in Nat /\ t \in Nat
      /\ t <= now /\ c.bucket.tokens \in Nat /\ c.bucket.last \in Nat /\ b.tokens \in Nat
  BY <1>1, ToolCallsAssumption DEF TypeOK, Request, Times, Bucket
<1>3. c.kept = Kept(own, t) /\ c.bucket = Refill(from, cat, t)
  BY DEF Charged
<1>4. b.tokens <= Burst[cat] /\ b.last <= now
  BY <1>1, <1>2
<1>5. /\ Present' = c.kept \cup {c.key} /\ buckets'[c.key] = b
      /\ \A key \in Present' : key # c.key => buckets'[key] = buckets[key]
  <2> HIDE DEF c, cat, t
  <2>1. QED
    BY <1>1, <1>4, MapTyped DEF c, cat
<1>6. \A key \in Keys : key # paid => Credit(key)' = Credit(key)
  <2>1. SUFFICES ASSUME NEW key \in Keys, key # paid
        PROVE  Credit(key)' = Credit(key)
    OBVIOUS
  <2>2. CASE key \in c.kept
    <3>1. buckets'[key] = buckets[key]
      BY <1>5, <2>1, <2>2
    <3>2. QED
      BY <3>1 DEF Credit
  <2>3. CASE key \in Present \ c.kept
    <3>1. Credit(key) = Burst[key[2]]
      BY <1>1, <1>3, <2>3, EvictedAreFull
    <3>2. buckets'[key] = NoBucket
      BY <1>5, <2>1, <2>3 DEF Present
    <3>3. QED
      BY <3>1, <3>2 DEF Credit
  <2>4. CASE key \notin Present
    <3>1. buckets[key] = NoBucket /\ buckets'[key] = NoBucket
      BY <1>1, <1>5, <2>1, <2>4 DEF Present
    <3>2. QED
      BY <3>1 DEF Credit
  <2>5. QED
    BY <2>2, <2>3, <2>4
<1>7. Credit(paid)' = Refill(b, cat, now).tokens
  <2>1. b # NoBucket
    BY ToolCallsAssumption
  <2>2. buckets'[paid] = b /\ paid[2] = cat
    BY <1>1, <1>5
  <2>3. QED
    BY <2>1, <2>2 DEF Credit
<1>8. /\ from \in Bucket /\ from.tokens <= Burst[cat] /\ from.last \in Nat
      /\ from.last <= now /\ Credit(paid) = Refill(from, cat, now).tokens
  <2>1. CASE c.key \in c.kept
    BY <1>1, <2>1, MapBound DEF Credit, Present
  <2>2. CASE c.key \notin c.kept
    <3>1. from = [tokens |-> Burst[cat], last |-> t] /\ from \in Bucket
      BY <1>2, <2>2 DEF FreshBucket, Bucket
    <3>2. Credit(paid) = Burst[cat]
      <4>1. CASE c.key \in Present
        BY <1>1, <1>3, <2>2, <4>1, EvictedAreFull
      <4>2. CASE c.key \notin Present
        BY <1>1, <4>2 DEF Present, Credit
      <4>3. QED
        BY <4>1, <4>2
    <3>3. Refill(from, cat, now).tokens = Burst[cat]
      <4> DEFINE y == (now - from.last) * Rate[cat]
      <4>1. now - from.last \in Nat /\ Rate[cat] \in Nat
        BY <1>2, <3>1, ToolCallsAssumption
      <4>2. y \in Nat
        BY <4>1, Products
      <4>3. Refill(from, cat, now).tokens
              = IF from.tokens + y > Burst[cat] THEN Burst[cat] ELSE from.tokens + y
        <5>1. from.tokens <= Burst[cat] /\ from.last <= now
          BY <1>2, <3>1
        <5>2. QED
          BY <1>2, <3>1, <5>1, RefillTokens
      <4>4. from.tokens = Burst[cat]
        BY <3>1
      <4> HIDE DEF y, from
      <4>5. QED
        BY <1>2, <4>2, <4>3, <4>4
    <3>4. QED
      BY <1>2, <3>1, <3>2, <3>3
  <2>3. QED
    BY <2>1, <2>2
<1>9. /\ Refill(c.bucket, cat, now).tokens = Refill(from, cat, now).tokens
      /\ c.bucket.tokens <= Refill(from, cat, now).tokens
  BY <1>2, <1>3, <1>8, RefillTwice
<1>10. c.bucket.last >= t
  <2> HIDE DEF from, c, t, cat
  <2>1. c.bucket.last = IF t > from.last THEN t ELSE from.last
    BY <1>2, <1>3, <1>8, RefillTyped
  <2>2. QED
    BY <1>2, <1>8, <2>1
<1>11. /\ Credit(paid) = Refill(c.bucket, cat, now).tokens
       /\ c.bucket.tokens <= Credit(paid)
  BY <1>8, <1>9
<1>12. QED
  <2> HIDE DEF from
  <2>1. QED
    BY <1>6, <1>7, <1>10, <1>11

Credits == [key \in Keys |-> Credit(key)]
Asked   == [k \in Calls |-> AbstractCall(k)]

LEMMA QuotaInit == Init => Promise!Init
<1>1. SUFFICES ASSUME Init PROVE Promise!Init
  OBVIOUS
<1>2. Credits = [key \in Keys |-> Burst[key[2]]]
  BY <1>1 DEF Init, Credits, Credit
<1>3. Asked = [k \in Calls |-> [phase |-> "idle"]]
  BY <1>1 DEF Init, Asked, AbstractCall, NoCall
<1>4. now = 0
  BY <1>1 DEF Init
<1>5. QED
  BY <1>2, <1>3, <1>4
     DEF Promise!Init, Promise!Payers, Promise!NoCall, Keys, Credits, Asked

\* A tick gives every payer its rate, up to its burst.
LEMMA CreditsGrow ==
  ASSUME TypeOK, UNCHANGED buckets, now' = now + 1, NEW key \in Keys
  PROVE  Credit(key)' = Promise!AtMost(Credit(key) + Rate[key[2]], Burst[key[2]])
<1> DEFINE R == Rate[key[2]]
           B == Burst[key[2]]
<1>1. key[2] \in Categories /\ R \in Nat /\ B \in Nat /\ now \in Nat
  BY ToolCallsAssumption DEF Keys, TypeOK, Times
<1>2. CASE buckets[key] = NoBucket
  <2>1. Credit(key)' = B /\ Credit(key) = B
    BY <1>2 DEF Credit
  <2>2. QED
    BY <1>1, <2>1 DEF Promise!AtMost
<1>3. CASE buckets[key] # NoBucket
  <2> DEFINE b == buckets[key]
             y == (now - b.last) * R
             z == (now + 1 - b.last) * R
  <2>1. b \in Bucket /\ b.tokens <= B /\ b.last \in Nat /\ b.last <= now /\ b.tokens \in Nat
    BY <1>3, MapBound DEF Present, Bucket
  <2>2. Credit(key) = Refill(b, key[2], now).tokens
    BY <1>3 DEF Credit
  <2>3. Credit(key)' = Refill(b, key[2], now + 1).tokens
    BY <1>3 DEF Credit
  <2>4. y \in Nat /\ Credit(key) = IF b.tokens + y > B THEN B ELSE b.tokens + y
    <3>1. now - b.last \in Nat
      BY <1>1, <2>1
    <3>2. y \in Nat
      BY <1>1, <3>1, Products
    <3>3. QED
      BY <1>1, <2>1, <2>2, <3>2, RefillTokens
  <2>5. z = y + R
    <3>1. now + 1 - b.last = (now - b.last) + 1 /\ now - b.last \in Int /\ 1 \in Int
      BY <1>1, <2>1
    <3>2. z = y + 1 * R
      BY <1>1, <3>1, Products
    <3>3. 1 * R = R
      BY <1>1
    <3>4. QED
      BY <3>2, <3>3
  <2>6. Credit(key)' = IF b.tokens + z > B THEN B ELSE b.tokens + z
    <3>1. now + 1 \in Nat /\ b.last <= now + 1
      BY <1>1, <2>1
    <3>2. QED
      BY <1>1, <2>1, <2>3, <3>1, RefillTokens
  <2>7. QED
    <3> DEFINE n == b.tokens
               u == Credit(key)
               v == Credit(key)'
    <3>1. n \in Nat /\ u = (IF n + y > B THEN B ELSE n + y) /\ v = (IF n + z > B THEN B ELSE n + z)
      BY <2>1, <2>4, <2>6
    <3>2. v = IF u + R > B THEN B ELSE u + R
      <4> HIDE DEF n, u, v, y, z, R, B
      <4>1. QED
        BY <1>1, <2>4, <2>5, <3>1
    <3>3. QED
      BY <3>2 DEF Promise!AtMost
<1>4. QED
  BY <1>2, <1>3

LEMMA TickIsTick ==
  ASSUME TypeOK, Tick
  PROVE  Promise!Tick
<1>1. UNCHANGED <<buckets, call>> /\ now < MaxTime /\ now' = now + 1
  BY DEF Tick
<1>2. Asked' = Asked
  BY <1>1 DEF Asked, AbstractCall
<1>3. Credits' = [key \in Keys |-> Promise!AtMost(Credits[key] + Rate[key[2]], Burst[key[2]])]
  BY <1>1, CreditsGrow DEF Credits
<1>4. QED
  BY <1>1, <1>2, <1>3 DEF Promise!Tick, Promise!Payers, Keys, Credits, Asked

LEMMA AskIsAsk ==
  ASSUME TypeOK, NEW k \in Calls, NEW p \in Principals, NEW c \in Categories, Acquire(k, p, c)
  PROVE  Promise!Ask(k, p, c)
<1>1. /\ call[k].pc = "idle" /\ UNCHANGED <<now, buckets>>
      /\ call' = [call EXCEPT ![k] = [pc |-> "allow", who |-> p, cat |-> c, reading |-> now]]
  BY DEF Acquire
<1>2. Credits' = Credits
  BY <1>1 DEF Credits, Credit
<1>3. Asked[k].phase = "idle"
  BY <1>1 DEF Asked, AbstractCall
<1>4. AbstractCall(k)' = [phase |-> "waiting", who |-> p, cat |-> c, since |-> now]
  BY <1>1 DEF AbstractCall, TypeOK
<1>5. \A q \in Calls : q # k => AbstractCall(q)' = AbstractCall(q)
  BY <1>1 DEF AbstractCall, TypeOK
<1>6. Asked' = [Asked EXCEPT ![k] = [phase |-> "waiting", who |-> p, cat |-> c, since |-> now]]
  BY <1>4, <1>5 DEF Asked
<1>7. QED
  BY <1>1, <1>2, <1>3, <1>6 DEF Promise!Ask, Credits, Asked

\* A call that leaves the layer.
LEMMA LeaveIsIdle ==
  ASSUME TypeOK, NEW k \in Calls, call' = [call EXCEPT ![k] = NoCall]
  PROVE  Asked' = [Asked EXCEPT ![k] = Promise!NoCall]
<1>1. AbstractCall(k)' = [phase |-> "idle"]
  BY DEF AbstractCall, NoCall, TypeOK
<1>2. \A q \in Calls : q # k => AbstractCall(q)' = AbstractCall(q)
  BY DEF AbstractCall, TypeOK
<1>3. QED
  BY <1>1, <1>2 DEF Asked, Promise!NoCall

LEMMA ReturnIsReturn ==
  ASSUME TypeOK, NEW k \in Calls, Return(k)
  PROVE  Promise!Return(k)
<1>1. /\ call[k].pc = "run" /\ UNCHANGED <<now, buckets>>
      /\ call' = [call EXCEPT ![k] = NoCall]
  BY DEF Return
<1>2. Asked[k].phase = "running"
  BY <1>1 DEF Asked, AbstractCall
<1>3. Credits' = Credits
  BY <1>1 DEF Credits, Credit
<1>4. QED
  BY <1>1, <1>2, <1>3, LeaveIsIdle DEF Promise!Return, Credits, Asked

\* What a call in the limiter looks like to Quota.
LEMMA WaitingCall ==
  ASSUME TypeOK, NEW k \in Calls, call[k].pc = "allow"
  PROVE  /\ Asked[k].phase = "waiting" /\ Asked[k].who = call[k].who
         /\ Asked[k].cat = call[k].cat /\ Asked[k].since = call[k].reading
  BY DEF Asked, AbstractCall

\* The credit of the payer, before and after.
LEMMA Payment ==
  ASSUME TypeOK, NEW k \in Calls, call[k].pc = "allow",
         NEW paid, paid = Charged(k).key, NEW d \in {0, 1},
         NEW b \in Bucket, b.tokens = Charged(k).bucket.tokens - d,
         b.last = Charged(k).bucket.last,
         buckets' = MapAfter(Charged(k), b), now' = now
  PROVE  /\ paid \in Keys
         /\ \E payer \in {call[k].who, Overflow} : paid = <<payer, call[k].cat>>
         /\ \A key \in Keys : key # paid => Credit(key)' = Credit(key)
         /\ Charged(k).bucket.tokens <= Credit(paid)
         /\ Charged(k).bucket.tokens \in Nat
         /\ Credit(paid) \in Nat
         /\ \/ Credit(paid)' = Credit(paid) - d
            \/ call[k].reading < now /\ Credit(paid)' = Credit(paid)
         /\ call[k].reading < now \/ Credit(paid) = Charged(k).bucket.tokens
<1> DEFINE c   == Charged(k)
           t   == call[k].reading
           cat == call[k].cat
           x   == c.bucket.tokens
           y   == (now - c.bucket.last) * Rate[cat]
           B   == Burst[cat]
<1>1. /\ call[k] \in Request /\ t \in 0..now
      /\ paid \in Keys /\ \E payer \in {call[k].who, Overflow} : paid = <<payer, cat>>
      /\ c.bucket \in Bucket /\ x <= B /\ c.bucket.last <= now
  BY ChargedTyped
<1>2. /\ cat \in Categories /\ B \in Nat /\ Rate[cat] \in Nat /\ now \in Nat /\ t \in Nat
      /\ x \in Nat /\ c.bucket.last \in Nat /\ t <= now /\ b.tokens \in Nat
  BY <1>1, ToolCallsAssumption DEF TypeOK, Request, Times, Bucket
<1>3. /\ \A key \in Keys : key # paid => Credit(key)' = Credit(key)
      /\ Credit(paid)' = Refill(b, cat, now).tokens
      /\ Credit(paid) = Refill(c.bucket, cat, now).tokens
      /\ x <= Credit(paid) /\ c.bucket.last >= t
  <2>1. b.tokens <= c.bucket.tokens
    BY <1>2
  <2>2. QED
    BY <2>1, CreditsAfter
<1>4. y \in Nat
  <2>1. now - c.bucket.last \in Nat
    BY <1>1, <1>2
  <2>2. QED
    BY <1>2, <2>1, Products
<1>5. Credit(paid) = IF x + y > B THEN B ELSE x + y
  <2>1. Refill(c.bucket, cat, now).tokens = IF x + y > B THEN B ELSE x + y
    BY <1>1, <1>2, RefillTokens
  <2>2. QED
    BY <1>3, <2>1
<1>6. Credit(paid)' = IF x - d + y > B THEN B ELSE x - d + y
  <2>1. b.tokens <= B /\ b.last <= now
    BY <1>1, <1>2
  <2>2. Refill(b, cat, now).tokens
          = IF b.tokens + (now - b.last) * Rate[cat] > B THEN B
            ELSE b.tokens + (now - b.last) * Rate[cat]
    BY <1>2, <2>1, RefillTokens
  <2>3. QED
    BY <1>3, <2>2
<1>7. t = now => y = 0
  <2>1. t = now => now - c.bucket.last = 0
    BY <1>1, <1>2, <1>3
  <2>2. 0 * Rate[cat] = 0
    BY <1>2
  <2>3. QED
    BY <2>1, <2>2
<1>8. Credit(paid) \in Nat
  <2> HIDE DEF x, y, B
  <2>1. QED
    BY <1>2, <1>4, <1>5
<1>9. /\ Credit(paid)' = Credit(paid) - d \/ (t < now /\ Credit(paid)' = Credit(paid))
      /\ t < now \/ Credit(paid) = x
  <2> DEFINE u == Credit(paid)
             v == Credit(paid)'
  <2>1. v = (IF x - d + y > B THEN B ELSE x - d + y) /\ u = (IF x + y > B THEN B ELSE x + y)
    BY <1>5, <1>6
  <2>2. (v = u - d \/ (t < now /\ v = u)) /\ (t < now \/ u = x)
    <3>1. x <= B
      BY <1>1
    <3> HIDE DEF x, y, B, u, v, t
    <3>2. QED
      BY <1>2, <1>4, <1>7, <2>1, <3>1
  <2>3. QED
    BY <2>2
<1>10. QED
  BY <1>1, <1>2, <1>3, <1>8, <1>9

LEMMA AllowIsServe ==
  ASSUME TypeOK, NEW k \in Calls, Allow(k)
  PROVE  Promise!Serve(k)
<1>1. PICK c : c = Charged(k)
  OBVIOUS
<1>2. PICK b : b = [c.bucket EXCEPT !.tokens = @ - 1]
  OBVIOUS
<1>3. PICK paid : paid = c.key
  OBVIOUS
<1>4. /\ call[k].pc = "allow" /\ c.bucket.tokens >= 1 /\ now' = now
      /\ buckets' = MapAfter(Charged(k), b)
      /\ call' = [call EXCEPT ![k].pc = "run"]
  BY <1>1, <1>2 DEF Allow
<1>5. c.bucket \in Bucket
  BY <1>1, <1>4, ChargedTyped
<1>6. b \in Bucket /\ b.tokens = c.bucket.tokens - 1 /\ b.last = c.bucket.last
  BY <1>2, <1>4, <1>5 DEF Bucket
<1>7. /\ paid \in Keys
      /\ \E payer \in {call[k].who, Overflow} : paid = <<payer, call[k].cat>>
      /\ \A key \in Keys : key # paid => Credit(key)' = Credit(key)
      /\ c.bucket.tokens <= Credit(paid) /\ c.bucket.tokens \in Nat /\ Credit(paid) \in Nat
      /\ \/ Credit(paid)' = Credit(paid) - 1
         \/ call[k].reading < now /\ Credit(paid)' = Credit(paid)
  BY <1>1, <1>3, <1>4, <1>6, Payment
<1>8. Credits[paid] >= 1
  BY <1>4, <1>7 DEF Credits
<1>9. \/ Credits' = [Credits EXCEPT ![paid] = @ - 1]
      \/ call[k].reading < now /\ Credits' = Credits
  BY <1>7 DEF Credits
<1>10. Asked' = [Asked EXCEPT ![k].phase = "running"]
  <2>1. call[k] \in Request
    BY <1>4, CallIs DEF Pcs
  <2>2. /\ call'[k].pc = "run" /\ call'[k].who = call[k].who
        /\ call'[k].cat = call[k].cat /\ call'[k].reading = call[k].reading
    BY <1>4, <2>1 DEF TypeOK, Request
  <2>3. AbstractCall(k)' = [AbstractCall(k) EXCEPT !.phase = "running"]
    BY <1>4, <2>2 DEF AbstractCall
  <2>4. \A q \in Calls : q # k => AbstractCall(q)' = AbstractCall(q)
    BY <1>4 DEF AbstractCall, TypeOK
  <2>5. QED
    BY <2>3, <2>4 DEF Asked
<1>11. PICK payer \in {call[k].who, Overflow} : paid = <<payer, call[k].cat>>
  BY <1>7
<1>12. QED
  BY <1>4, <1>8, <1>9, <1>10, <1>11, WaitingCall DEF Promise!Serve, Credits, Asked

LEMMA LimitedIsRefuse ==
  ASSUME TypeOK, NEW k \in Calls, Limited(k)
  PROVE  Promise!Refuse(k)
<1>1. PICK paid : paid = Charged(k).key
  OBVIOUS
<1>2. PICK b : b = Charged(k).bucket
  OBVIOUS
<1>3. /\ call[k].pc = "allow" /\ b.tokens < 1 /\ now' = now
      /\ buckets' = MapAfter(Charged(k), b)
      /\ call' = [call EXCEPT ![k] = NoCall]
  BY <1>2 DEF Limited
<1>4. b \in Bucket /\ b.tokens = b.tokens - 0
  BY <1>2, <1>3, ChargedTyped DEF Bucket
<1>5. /\ paid \in Keys
      /\ \E payer \in {call[k].who, Overflow} : paid = <<payer, call[k].cat>>
      /\ \A key \in Keys : key # paid => Credit(key)' = Credit(key)
      /\ b.tokens \in Nat /\ Credit(paid) \in Nat
      /\ \/ Credit(paid)' = Credit(paid) - 0
         \/ call[k].reading < now /\ Credit(paid)' = Credit(paid)
      /\ call[k].reading < now \/ Credit(paid) = b.tokens
  BY <1>1, <1>2, <1>3, <1>4, Payment
<1>6. Credits' = Credits
  BY <1>5 DEF Credits
<1>7. call[k].reading < now \/ Credits[paid] = 0
  BY <1>3, <1>5 DEF Credits
<1>8. PICK payer \in {call[k].who, Overflow} : paid = <<payer, call[k].cat>>
  BY <1>5
<1>9. QED
  BY <1>3, <1>6, <1>7, <1>8, WaitingCall, LeaveIsIdle DEF Promise!Refuse, Credits, Asked

LEMMA QuotaStep ==
  ASSUME TypeOK, [Next]_vars
  PROVE  [Promise!Next]_(Promise!vars)
<1>1. CASE Tick
  BY <1>1, TickIsTick DEF Promise!Next
<1>2. ASSUME NEW k \in Calls, NEW p \in Principals, NEW c \in Categories, Acquire(k, p, c)
      PROVE  Promise!Next
  BY <1>2, AskIsAsk DEF Promise!Next
<1>3. ASSUME NEW k \in Calls, Allow(k) PROVE Promise!Next
  BY <1>3, AllowIsServe DEF Promise!Next
<1>4. ASSUME NEW k \in Calls, Limited(k) PROVE Promise!Next
  BY <1>4, LimitedIsRefuse DEF Promise!Next
<1>5. ASSUME NEW k \in Calls, Return(k) PROVE Promise!Next
  BY <1>5, ReturnIsReturn DEF Promise!Next
<1>6. CASE UNCHANGED vars
  BY <1>6 DEF vars, Promise!vars, Credit, AbstractCall
<1>7. QED
  BY <1>1, <1>2, <1>3, <1>4, <1>5, <1>6 DEF Next

-----------------------------------------------------------------------------
(* What is served between two ticks. *)

\* The calls of category c that payers could have had and have spent: the i-th
\* call of a full bucket is spent when the credit is below i.
Spent(c) ==
    {x \in Keys \X (1..Burst[c]) : x[1][2] = c /\ x[2] > Credit(x[1])}

\* Every call served since the last tick was paid with a credit that no later
\* eviction or new bucket has given back.
ServedIsPaid == \A c \in Categories : served[c] <= Cardinality(Spent(c))

LEMMA SpentFinite ==
  ASSUME NEW c \in Categories
  PROVE  IsFiniteSet(Spent(c)) /\ Cardinality(Spent(c)) \in Nat
<1>1. Burst[c] \in Nat
  BY ToolCallsAssumption
<1>2. IsFiniteSet(1..Burst[c])
  BY <1>1, FS_Interval
<1>3. IsFiniteSet(Keys \X (1..Burst[c]))
  BY <1>2, KeysFinite, FS_Product
<1>4. Spent(c) \subseteq Keys \X (1..Burst[c])
  BY DEF Spent
<1>5. QED
  BY <1>3, <1>4, FS_Subset, FS_CardinalityType

\* Only the buckets in the map have spent anything.
LEMMA SpentBounded ==
  ASSUME TypeOK, OwnBounded, NEW c \in Categories
  PROVE  Cardinality(Spent(c)) <= (MaxBuckets + 1) * Burst[c]
<1> DEFINE holders == {key \in Present : key[2] = c}
           full    == OwnBuckets \cup {<<Overflow, c>>}
<1>1. Burst[c] \in Nat /\ MaxBuckets \in Nat
  BY ToolCallsAssumption
<1>2. Spent(c) \subseteq holders \X (1..Burst[c])
  <2>1. SUFFICES ASSUME NEW x \in Spent(c)
        PROVE  x \in holders \X (1..Burst[c])
    OBVIOUS
  <2>2. x \in Keys \X (1..Burst[c]) /\ x[1][2] = c /\ x[2] > Credit(x[1])
    BY DEF Spent
  <2>3. PICK key \in Keys, i \in 1..Burst[c] : x = <<key, i>>
    BY <2>2
  <2>4. key[2] = c /\ i > Credit(key)
    BY <2>2, <2>3
  <2>5. buckets[key] # NoBucket
    <3>1. SUFFICES ASSUME buckets[key] = NoBucket PROVE FALSE
      OBVIOUS
    <3>2. Credit(key) = Burst[c]
      BY <2>4, <3>1 DEF Credit
    <3>3. i \in Nat /\ i <= Burst[c]
      BY <1>1
    <3>4. QED
      BY <1>1, <2>4, <3>2, <3>3
  <2>6. key \in holders
    BY <2>4, <2>5 DEF Present
  <2>7. QED
    BY <2>3, <2>6
<1>3. holders \subseteq full
  BY DEF OwnBuckets, Present, Keys
<1>4. /\ IsFiniteSet(OwnBuckets) /\ Cardinality(OwnBuckets) \in Nat
      /\ IsFiniteSet(full) /\ Cardinality(full) <= MaxBuckets + 1
  <2>1. OwnBuckets \subseteq Keys
    BY DEF OwnBuckets, Present
  <2>2. IsFiniteSet(OwnBuckets)
    BY <2>1, KeysFinite, FS_Subset
  <2>3. Cardinality(OwnBuckets) \in Nat
    BY <2>2, FS_CardinalityType
  <2>4. /\ IsFiniteSet(full)
        /\ Cardinality(full) = IF <<Overflow, c>> \in OwnBuckets
                               THEN Cardinality(OwnBuckets)
                               ELSE Cardinality(OwnBuckets) + 1
    BY <2>2, FS_AddElement
  <2> HIDE DEF full
  <2>5. QED
    BY <1>1, <2>2, <2>3, <2>4 DEF OwnBounded
<1>5. /\ IsFiniteSet(holders) /\ Cardinality(holders) \in Nat
      /\ Cardinality(holders) <= MaxBuckets + 1
  <2>1. IsFiniteSet(holders) /\ Cardinality(holders) <= Cardinality(full)
    BY <1>3, <1>4, FS_Subset
  <2>2. Cardinality(holders) \in Nat /\ Cardinality(full) \in Nat
    BY <1>4, <2>1, FS_CardinalityType
  <2> HIDE DEF holders, full
  <2>3. QED
    BY <1>1, <1>4, <2>1, <2>2
<1>6. IsFiniteSet(1..Burst[c]) /\ Cardinality(1..Burst[c]) = Burst[c]
  <2>1. /\ IsFiniteSet(1..Burst[c])
        /\ Cardinality(1..Burst[c]) = IF 1 > Burst[c] THEN 0 ELSE Burst[c] - 1 + 1
    BY <1>1, FS_Interval
  <2>2. QED
    BY <1>1, <2>1
<1>7. /\ IsFiniteSet(holders \X (1..Burst[c]))
      /\ Cardinality(holders \X (1..Burst[c])) = Cardinality(holders) * Burst[c]
  BY <1>5, <1>6, FS_Product
<1>8. Cardinality(Spent(c)) <= Cardinality(holders) * Burst[c]
  BY <1>2, <1>7, FS_Subset
<1>9. Cardinality(holders) * Burst[c] <= (MaxBuckets + 1) * Burst[c]
  BY <1>1, <1>5, Products
<1>10. /\ Cardinality(Spent(c)) \in Nat /\ Cardinality(holders) * Burst[c] \in Nat
       /\ (MaxBuckets + 1) * Burst[c] \in Nat
  BY <1>1, <1>5, SpentFinite, Products
<1>11. QED
  BY <1>8, <1>9, <1>10

\* A step that leaves the clock alone gives no credit back.
LEMMA SpentGrows ==
  ASSUME NEW c \in Categories, TypeOK,
         \A key \in Keys : Credit(key)' \in Int /\ Credit(key)' <= Credit(key)
  PROVE  /\ Spent(c) \subseteq Spent(c)' /\ IsFiniteSet(Spent(c)')
         /\ Cardinality(Spent(c)) <= Cardinality(Spent(c)')
         /\ Cardinality(Spent(c)') \in Nat
<1>1. Burst[c] \in Nat
  BY ToolCallsAssumption
<1>2. \A key \in Keys : Credit(key) \in Nat /\ Credit(key)' \in Int
  BY CreditTyped
<1>3. \A x \in Keys \X (1..Burst[c]) : x[2] > Credit(x[1]) => x[2] > Credit(x[1])'
  BY <1>1, <1>2
<1>4. Spent(c)' = {x \in Keys \X (1..Burst[c]) : x[1][2] = c /\ x[2] > Credit(x[1])'}
  BY DEF Spent
<1>5. Spent(c) \subseteq Spent(c)'
  BY <1>3, <1>4 DEF Spent
<1>6. IsFiniteSet(Spent(c)')
  <2>1. IsFiniteSet(1..Burst[c])
    BY <1>1, FS_Interval
  <2>2. IsFiniteSet(Keys \X (1..Burst[c]))
    BY <2>1, KeysFinite, FS_Product
  <2>3. QED
    BY <1>4, <2>2, FS_Subset
<1>7. QED
  BY <1>5, <1>6, FS_Subset, FS_CardinalityType

\* The credits of a call that is decided only go down, and the payer's goes
\* down by one when the call is served with a current reading.
LEMMA ServeSpends ==
  ASSUME TypeOK, NEW k \in Calls, Allow(k), NEW paid, paid = Charged(k).key
  PROVE  /\ paid \in Keys /\ paid[2] = call[k].cat
         /\ \A key \in Keys : Credit(key)' \in Int /\ Credit(key)' <= Credit(key)
         /\ call[k].reading = now =>
              Credit(paid) >= 1 /\ Credit(paid)' = Credit(paid) - 1
<1>1. PICK b : b = [Charged(k).bucket EXCEPT !.tokens = @ - 1]
  OBVIOUS
<1>2. /\ call[k].pc = "allow" /\ Charged(k).bucket.tokens >= 1 /\ now' = now
      /\ buckets' = MapAfter(Charged(k), b)
  BY <1>1 DEF Allow
<1>3. /\ Charged(k).bucket \in Bucket /\ Charged(k).key[2] = call[k].cat
      /\ call[k].reading \in 0..now
  BY <1>2, ChargedTyped
<1>4. /\ b \in Bucket /\ b.tokens = Charged(k).bucket.tokens - 1
      /\ b.last = Charged(k).bucket.last
  BY <1>1, <1>2, <1>3 DEF Bucket
<1>5. /\ paid \in Keys
      /\ \A key \in Keys : key # paid => Credit(key)' = Credit(key)
      /\ Charged(k).bucket.tokens <= Credit(paid)
      /\ Charged(k).bucket.tokens \in Nat /\ Credit(paid) \in Nat
      /\ \/ Credit(paid)' = Credit(paid) - 1
         \/ call[k].reading < now /\ Credit(paid)' = Credit(paid)
  BY <1>2, <1>4, Payment
<1>6. \A key \in Keys : Credit(key) \in Nat
  BY CreditTyped
<1>7. \A key \in Keys : Credit(key)' \in Int /\ Credit(key)' <= Credit(key)
  BY <1>5, <1>6
<1>8. ASSUME call[k].reading = now
      PROVE  Credit(paid) >= 1 /\ Credit(paid)' = Credit(paid) - 1
  <2>1. now \in Nat
    BY ToolCallsAssumption DEF TypeOK, Times
  <2>2. ~(call[k].reading < now)
    BY <1>8, <2>1
  <2>3. QED
    BY <1>2, <1>5, <2>2
<1>9. QED
  BY <1>3, <1>5, <1>7, <1>8

LEMMA RefuseSpends ==
  ASSUME TypeOK, NEW k \in Calls, Limited(k)
  PROVE  \A key \in Keys : Credit(key)' \in Int /\ Credit(key)' <= Credit(key)
<1>1. PICK paid : paid = Charged(k).key
  OBVIOUS
<1>2. PICK b : b = Charged(k).bucket
  OBVIOUS
<1>3. /\ call[k].pc = "allow" /\ now' = now /\ buckets' = MapAfter(Charged(k), b)
  BY <1>2 DEF Limited
<1>4. b \in Bucket /\ b.tokens = b.tokens - 0
  BY <1>2, <1>3, ChargedTyped DEF Bucket
<1>5. /\ \A key \in Keys : key # paid => Credit(key)' = Credit(key)
      /\ Credit(paid) \in Nat
      /\ \/ Credit(paid)' = Credit(paid) - 0
         \/ call[k].reading < now /\ Credit(paid)' = Credit(paid)
  BY <1>1, <1>2, <1>3, <1>4, Payment
<1>6. \A key \in Keys : Credit(key) \in Nat
  BY CreditTyped
<1>7. QED
  BY <1>5, <1>6

LEMMA ServedInit == Init => ServedIsPaid
<1>1. SUFFICES ASSUME Init, NEW c \in Categories
      PROVE  served[c] <= Cardinality(Spent(c))
  BY DEF ServedIsPaid
<1>2. served[c] = 0
  BY <1>1 DEF Init
<1>3. QED
  BY <1>2, SpentFinite

LEMMA ServedStep ==
  ASSUME TypeOK, ServedIsPaid, [Next]_vars
  PROVE  ServedIsPaid'
<1>1. SUFFICES ASSUME NEW c \in Categories
      PROVE  served'[c] <= Cardinality(Spent(c)')
  BY DEF ServedIsPaid
<1>2. /\ served[c] \in Nat /\ Cardinality(Spent(c)) \in Nat
      /\ served[c] <= Cardinality(Spent(c))
  BY SpentFinite DEF TypeOK, ServedIsPaid
<1>3. \A key \in Keys : Credit(key) \in Nat
  BY CreditTyped
<1>4. CASE Tick
  <2>1. served'[c] = 0
    BY <1>4 DEF Tick
  <2>2. Cardinality(Spent(c)') \in Nat
    <3>1. IsFiniteSet(1..Burst[c])
      BY FS_Interval, ToolCallsAssumption
    <3>2. IsFiniteSet(Keys \X (1..Burst[c]))
      BY <3>1, KeysFinite, FS_Product
    <3>3. Spent(c)' \subseteq Keys \X (1..Burst[c])
      BY DEF Spent
    <3>4. QED
      BY <3>2, <3>3, FS_Subset, FS_CardinalityType
  <2>3. QED
    BY <2>1, <2>2
<1>5. ASSUME UNCHANGED <<now, buckets, served>>
      PROVE  served'[c] <= Cardinality(Spent(c)')
  <2>1. Spent(c)' = Spent(c)
    BY <1>5 DEF Spent, Credit
  <2>2. QED
    BY <1>2, <1>5, <2>1
<1>6. ASSUME NEW k \in Calls, Allow(k)
      PROVE  served'[c] <= Cardinality(Spent(c)')
  <2>1. PICK paid : paid = Charged(k).key
    OBVIOUS
  <2>2. /\ paid \in Keys /\ paid[2] = call[k].cat
        /\ \A key \in Keys : Credit(key)' \in Int /\ Credit(key)' <= Credit(key)
        /\ call[k].reading = now =>
             Credit(paid) >= 1 /\ Credit(paid)' = Credit(paid) - 1
    BY <1>6, <2>1, ServeSpends
  <2>3. /\ Spent(c) \subseteq Spent(c)' /\ IsFiniteSet(Spent(c)')
        /\ Cardinality(Spent(c)') \in Nat
        /\ Cardinality(Spent(c)) <= Cardinality(Spent(c)')
    BY <2>2, SpentGrows
  <2>4. CASE call[k].reading = now /\ call[k].cat = c
    <3> DEFINE new == <<paid, Credit(paid)>>
    <3>1. /\ Credit(paid) \in 1..Burst[c]
          /\ Credit(paid)' = Credit(paid) - 1
      BY <2>2, <2>4, CreditTyped, ToolCallsAssumption
    <3>2. new \in Keys \X (1..Burst[c]) /\ new[1] = paid /\ new[2] = Credit(paid)
      BY <2>2, <3>1
    <3>3. new \notin Spent(c)
      <4>1. ~(Credit(paid) > Credit(paid))
        BY <3>1
      <4>2. QED
        BY <3>2, <4>1 DEF Spent
    <3>4. new \in Spent(c)'
      <4>1. Credit(paid) > Credit(paid)'
        BY <3>1
      <4>2. Spent(c)' = {x \in Keys \X (1..Burst[c]) :
                           x[1][2] = c /\ x[2] > Credit(x[1])'}
        BY DEF Spent
      <4>3. QED
        BY <2>2, <2>4, <3>2, <4>1, <4>2
    <3>5. Cardinality(Spent(c)) + 1 <= Cardinality(Spent(c)')
      <4> HIDE DEF new
      <4>1. IsFiniteSet(Spent(c))
        BY SpentFinite
      <4>2. Cardinality(Spent(c) \cup {new}) = Cardinality(Spent(c)) + 1
        BY <3>3, <4>1, FS_AddElement
      <4>3. Spent(c) \cup {new} \subseteq Spent(c)'
        BY <2>3, <3>4
      <4>4. Cardinality(Spent(c) \cup {new}) <= Cardinality(Spent(c)')
        BY <2>3, <4>3, FS_Subset
      <4>5. QED
        BY <4>2, <4>4
    <3>6. served'[c] = served[c] + 1
      BY <1>6, <2>4 DEF Allow, TypeOK
    <3>7. QED
      BY <1>2, <2>3, <3>5, <3>6
  <2>5. CASE ~(call[k].reading = now /\ call[k].cat = c)
    <3>1. served'[c] = served[c]
      BY <1>6, <2>5 DEF Allow, TypeOK
    <3>2. QED
      BY <1>2, <2>3, <3>1
  <2>6. QED
    BY <2>4, <2>5
<1>7. ASSUME NEW k \in Calls, Limited(k)
      PROVE  served'[c] <= Cardinality(Spent(c)')
  <2>1. \A key \in Keys : Credit(key)' \in Int /\ Credit(key)' <= Credit(key)
    BY <1>7, RefuseSpends
  <2>2. /\ Cardinality(Spent(c)') \in Nat
        /\ Cardinality(Spent(c)) <= Cardinality(Spent(c)')
    BY <2>1, SpentGrows
  <2>3. served' = served
    BY <1>7 DEF Limited
  <2>4. QED
    BY <1>2, <2>2, <2>3
<1>8. QED
  BY <1>4, <1>5, <1>6, <1>7 DEF Next, Acquire, Return, vars

LEMMA PaidIsBounded ==
  ASSUME TypeOK, OwnBounded, ServedIsPaid
  PROVE  BurstBounded
<1>1. SUFFICES ASSUME NEW c \in Categories
      PROVE  served[c] <= (MaxBuckets + 1) * Burst[c]
  BY DEF BurstBounded
<1>2. /\ served[c] \in Nat /\ Cardinality(Spent(c)) \in Nat
      /\ served[c] <= Cardinality(Spent(c))
  BY SpentFinite DEF TypeOK, ServedIsPaid
<1>3. Cardinality(Spent(c)) <= (MaxBuckets + 1) * Burst[c]
  BY SpentBounded
<1>4. (MaxBuckets + 1) * Burst[c] \in Nat
  BY ToolCallsAssumption, Products
<1>5. QED
  BY <1>2, <1>3, <1>4

-----------------------------------------------------------------------------
(* The theorems. *)

\* The limiter keeps its types: every bucket within its burst and the clock,
\* and every semaphore never negative.
THEOREM TypesKept == Spec => []TypeOK
<1>1. Init => TypeOK /\ SlotsMatchCalls
  BY TypeInit, SlotsInit
<1>2. TypeOK /\ SlotsMatchCalls /\ [Next]_vars => (TypeOK /\ SlotsMatchCalls)'
  BY TypeStep, SlotsStep
<1>3. QED
  BY <1>1, <1>2, PTL DEF Spec

\* Every category's semaphore holds one slot per call inside the layer, for any
\* number of concurrent requests (acquire, Handle).
THEOREM SlotsBalance == Spec => []SlotsMatchCalls
<1>1. Init => TypeOK /\ SlotsMatchCalls
  BY TypeInit, SlotsInit
<1>2. TypeOK /\ SlotsMatchCalls /\ [Next]_vars => (TypeOK /\ SlotsMatchCalls)'
  BY TypeStep, SlotsStep
<1>3. QED
  BY <1>1, <1>2, PTL DEF Spec

\* The map of buckets stays bounded for any number of principals (allow).
THEOREM MapBounded == Spec => []BucketsBounded
<1>1. Init => OwnBounded
  BY OwnInit
<1>2. TypeOK /\ OwnBounded /\ [Next]_vars => OwnBounded'
  BY OwnStep
<1>3. OwnBounded => BucketsBounded
  BY BoundFollows
<1>4. QED
  BY <1>1, <1>2, <1>3, TypesKept, PTL DEF Spec

\* Between two ticks all callers together are served no more calls of a category
\* than MaxBuckets full buckets and the overflow bucket hold, for any number of
\* callers, rates and evictions (allow, evictFullLocked, evictIdleLocked).
THEOREM BurstIsBounded == Spec => []BurstBounded
<1>1. Init => OwnBounded /\ ServedIsPaid
  BY OwnInit, ServedInit
<1>2. TypeOK /\ OwnBounded /\ ServedIsPaid /\ [Next]_vars => (OwnBounded /\ ServedIsPaid)'
  BY OwnStep, ServedStep
<1>3. TypeOK /\ OwnBounded /\ ServedIsPaid => BurstBounded
  BY PaidIsBounded
<1>4. QED
  BY <1>1, <1>2, <1>3, TypesKept, PTL DEF Spec

\* The limiter implements Quota for all rates and bursts whose buckets refill
\* within the idle horizon (TTLAssumption): lazy refills, evictions and
\* recreated buckets give no caller more or less than an eager account would.
THEOREM LimiterKeepsQuota == Spec => QuotaKept
<1>1. Init => Promise!Init
  BY QuotaInit
<1>2. TypeOK /\ [Next]_vars => [Promise!Next]_(Promise!vars)
  BY QuotaStep
<1>3. QED
  BY <1>1, <1>2, TypesKept, PTL DEF Spec, QuotaKept, Promise!Spec
=============================================================================
