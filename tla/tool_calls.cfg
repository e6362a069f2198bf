SPECIFICATION Spec
CONSTANTS
    search = search
    process = process
    Calls = {k1, k2}
    Principals = {p1, p2}
    Overflow = Overflow
    Categories <- CallCategories
    Rate <- CallRate
    Burst <- CallBurst
    Concurrency <- CallConcurrency
    BucketTTL = 2
    MaxBuckets = 1
    TimedOut = {process}
    NoBucket = NoBucket
    MaxTime = 3
INVARIANTS
    SlotsMatchCalls
    BucketsBounded
    BurstBounded
PROPERTIES
    QuotaKept
    SlotsComeBack
