-------------------------------- MODULE Quota --------------------------------
(***************************************************************************)
(* What the rate-limiting layer promises a caller: every (principal,       *)
(* category) has a credit of at most Burst calls that grows by Rate with   *)
(* every tick, and a served call pays one.  Nothing is cached, dropped or  *)
(* recreated here; ToolCalls shows that its buckets, created lazily and    *)
(* evicted, keep the same promise.                                         *)
(***************************************************************************)
EXTENDS Naturals

CONSTANTS
    Calls,        \* concurrent requests
    Principals,   \* transport-stable caller identities
    Shared,       \* payer of the callers that have no bucket of their own
    Categories,   \* tool categories
    Rate,         \* [Categories -> Nat]: credit per tick
    Burst,        \* [Categories -> Nat]: most credit
    MaxTime       \* bound: ticks

VARIABLES
    now,     \* the clock
    credit,  \* what each payer may still spend in each category
    call     \* each request: its phase, who asks, in which category, since when

vars == <<now, credit, call>>

Payers == Principals \cup {Shared}
NoCall == [phase |-> "idle"]

Requests == {NoCall} \cup
    [phase : {"waiting", "running"}, who : Principals, cat : Categories,
     since : 0..MaxTime]

AtMost(n, limit) == IF n > limit THEN limit ELSE n

Init ==
    /\ now = 0
    /\ credit = [key \in Payers \X Categories |-> Burst[key[2]]]
    /\ call = [k \in Calls |-> NoCall]

Tick ==
    /\ now < MaxTime /\ now' = now + 1
    /\ credit' = [key \in Payers \X Categories |->
                    AtMost(credit[key] + Rate[key[2]], Burst[key[2]])]
    /\ UNCHANGED call

Ask(k, p, c) ==
    /\ call[k].phase = "idle"
    /\ call' = [call EXCEPT ![k] = [phase |-> "waiting", who |-> p, cat |-> c,
                                    since |-> now]]
    /\ UNCHANGED <<now, credit>>

\* The caller, or the shared payer in its stead, pays one.  A call that waited
\* past a tick may have its price back from the refill it waited through.
Serve(k) ==
    /\ call[k].phase = "waiting"
    /\ \E payer \in {call[k].who, Shared} :
         LET key == <<payer, call[k].cat>>
         IN  /\ credit[key] >= 1
             /\ \/ credit' = [credit EXCEPT ![key] = @ - 1]
                \/ call[k].since < now /\ credit' = credit
    /\ call' = [call EXCEPT ![k].phase = "running"]
    /\ UNCHANGED now

\* A call that did not wait past a tick is refused only if a payer is out of
\* credit.
Refuse(k) ==
    /\ call[k].phase = "waiting"
    /\ \/ call[k].since < now
       \/ \E payer \in {call[k].who, Shared} :
            credit[<<payer, call[k].cat>>] = 0
    /\ call' = [call EXCEPT ![k] = NoCall]
    /\ UNCHANGED <<now, credit>>

Return(k) ==
    /\ call[k].phase = "running"
    /\ call' = [call EXCEPT ![k] = NoCall]
    /\ UNCHANGED <<now, credit>>

Next ==
    \/ Tick
    \/ \E k \in Calls :
         \/ \E p \in Principals, c \in Categories : Ask(k, p, c)
         \/ Serve(k) \/ Refuse(k) \/ Return(k)

Spec == Init /\ [][Next]_vars
=============================================================================
