---------------------------- MODULE BypassStore ----------------------------
(***************************************************************************)
(* One-shot and session bypasses of policy rules                           *)
(* (internal/policyengine/policy/bypass.go, orchestrator.go,               *)
(* pkg/fileutil/lock.go): a JSON file of grants shared by every qsdev      *)
(* process of the user.  The PreToolUse hook of a tool call reads it       *)
(* without a lock to see which rules are lifted, then redeems the tokens   *)
(* it relied on by reading, changing and replacing the file under a lock   *)
(* it waits for at most a bounded time.  `qsdev session allow` and         *)
(* `session clear` change the file under the same lock.                    *)
(***************************************************************************)
EXTENDS Naturals

CONSTANTS
    Calls,         \* tool calls, each with its hook process
    Humans,        \* terminals running `qsdev session allow` and `clear`
    NoProc,        \* no lock holder
    Rules,         \* bypassable rules
    CommandRules,  \* those of the command tier: a grant is a one-shot token
    Scopes,        \* project and session pairs
    Scope,         \* [Calls -> Scopes]
    Denied,        \* [Calls -> SUBSET Rules]: rules the deputy check finds to
                   \*   deny the call (MCP calls only)
    Inputs,        \* [Calls -> SUBSET SUBSET Rules]: the sets of rules its
                   \*   input may match
    Requests,      \* sets of rules a human may ask to bypass
    Ttls,          \* lifetimes a grant may be given
    MaxGrants,     \* bound: grant commands issued, each numbered
    MaxTime,       \* bound: the clock
    Horizon        \* bound: no grant outlives it

ASSUME BypassStoreAssumption ==
    /\ NoProc \notin Calls \cup Humans
    /\ Calls \cap Humans = {}
    /\ CommandRules \subseteq Rules
    /\ Scope \in [Calls -> Scopes]
    /\ Denied \in [Calls -> SUBSET Rules]
    /\ Inputs \in [Calls -> SUBSET SUBSET Rules]
    /\ Requests \subseteq SUBSET Rules
    /\ Ttls \subseteq Nat
    /\ MaxGrants \in Nat
    /\ MaxTime \in Nat
    /\ Horizon \in Nat /\ MaxTime <= Horizon
    /\ \A ttl \in Ttls : MaxTime + ttl <= Horizon

Procs == Calls \cup Humans

\* sameSlot: a grant replaces the grant of its rule (hence tier) and scope.
Slots    == Rules \X Scopes
GrantIds == 1..MaxGrants
Grant    == [id : 0..MaxGrants, exp : 0..Horizon]
NoGrant  == [id |-> 0, exp |-> 0]
Empty    == [s \in Slots |-> NoGrant]

VARIABLES
    file,       \* the grants in the session state file
    clock,      \* wall-clock time
    issued,     \* grant commands issued so far; a grant carries its number
    holder,     \* who holds the file lock
    pc,         \* where each process is
    matched,    \* the rules that match each call
    job,        \* what each process does with the store
    asOf,       \* the time each process passes to the store
    wants,      \* the slots it redeems or grants
    newGrant,   \* the grant it adds
    loaded,     \* the grants it read under the lock
    done,       \* whether its update succeeded
    redeemed,   \* history: tokens each call spent, as <<slot, id>>
    stored      \* history: the grants ever written to the file

worldVars == <<file, clock, issued, holder, matched, redeemed, stored>>
procVars  == <<pc, job, asOf, wants, newGrant, loaded, done>>
vars      == <<worldVars, procVars>>

Jobs == {"none", "redeem", "allow", "clear"}
Pcs  == {"idle", "deputy", "session", "lock", "load", "write", "unlock",
         "allowed", "blocked", "dead"}

Init ==
    /\ file = Empty /\ clock = 0 /\ issued = 0 /\ holder = NoProc
    /\ pc = [p \in Procs |-> "idle"] /\ job = [p \in Procs |-> "none"]
    /\ matched = [c \in Calls |-> {}]
    /\ asOf = [p \in Procs |-> 0] /\ wants = [p \in Procs |-> {}]
    /\ newGrant = [p \in Procs |-> NoGrant]
    /\ loaded = [p \in Procs |-> Empty] /\ done = [p \in Procs |-> FALSE]
    /\ redeemed = [c \in Calls |-> {}] /\ stored = {}

Go(p, to) == pc' = [pc EXCEPT ![p] = to]

\* The process ends, and its locals with it.
Ends(p, to) ==
    /\ Go(p, to)
    /\ job' = [job EXCEPT ![p] = "none"] /\ asOf' = [asOf EXCEPT ![p] = 0]
    /\ wants' = [wants EXCEPT ![p] = {}]
    /\ newGrant' = [newGrant EXCEPT ![p] = NoGrant]
    /\ loaded' = [loaded EXCEPT ![p] = Empty]
    /\ done' = [done EXCEPT ![p] = FALSE]

\* BypassGrant.Active, for a grant of the process's own scope.
Active(g, now) == g.id # 0 /\ now < g.exp

-----------------------------------------------------------------------------
(* The hook: RunPreToolUse. *)

SlotsOf(c, R) == R \X {Scope[c]}

\* ActiveOverrides, read without the lock, lifts every rule of R for call c.
Lifted(c, R) == \A s \in SlotsOf(c, R) : Active(file[s], clock)

CallStarts(c) ==
    /\ pc[c] = "idle"
    /\ \E M \in Inputs[c] : matched' = [matched EXCEPT ![c] = M]
    /\ Go(c, "deputy")
    /\ UNCHANGED <<file, clock, issued, holder, redeemed, stored, job, asOf,
                   wants, newGrant, loaded, done>>

\* The enforce pass reads the overrides the deputy check uses.
DeputyCheck(c) ==
    /\ pc[c] = "deputy" /\ Lifted(c, Denied[c])
    /\ wants' = [wants EXCEPT ![c] = SlotsOf(c, Denied[c] \cap CommandRules)]
    /\ Go(c, "session")
    /\ UNCHANGED <<worldVars, job, asOf, newGrant, loaded, done>>

Tokens(c) == wants[c] \cup SlotsOf(c, matched[c] \cap CommandRules)

\* The session pass reads them again.  The tokens of both checks are redeemed
\* as of now.
SessionCheck(c) ==
    /\ pc[c] = "session" /\ Lifted(c, matched[c]) /\ Tokens(c) # {}
    /\ wants' = [wants EXCEPT ![c] = Tokens(c)]
    /\ job' = [job EXCEPT ![c] = "redeem"]
    /\ asOf' = [asOf EXCEPT ![c] = clock]
    /\ Go(c, "lock")
    /\ UNCHANGED <<worldVars, newGrant, loaded, done>>

\* A call that relies on no token needs no redemption.
CallAllowed(c) ==
    /\ pc[c] = "session" /\ Lifted(c, matched[c]) /\ Tokens(c) = {}
    /\ Ends(c, "allowed")
    /\ UNCHANGED worldVars

CallBlocked(c) ==
    /\ \/ pc[c] = "deputy" /\ ~Lifted(c, Denied[c])
       \/ pc[c] = "session" /\ ~Lifted(c, matched[c])
    /\ Ends(c, "blocked")
    /\ UNCHANGED worldVars

-----------------------------------------------------------------------------
(* The human: session allow and session clear. *)

\* runSessionAllow fixes the time and the grants before it asks to confirm.
AllowStarts(h) ==
    /\ pc[h] = "idle" /\ issued < MaxGrants
    /\ issued' = issued + 1
    /\ \E R \in Requests, s \in Scopes, ttl \in Ttls :
          /\ wants' = [wants EXCEPT ![h] = R \X {s}]
          /\ newGrant' = [newGrant EXCEPT ![h] =
                            [id |-> issued + 1, exp |-> clock + ttl]]
    /\ job' = [job EXCEPT ![h] = "allow"]
    /\ asOf' = [asOf EXCEPT ![h] = clock]
    /\ Go(h, "lock")
    /\ UNCHANGED <<file, matched, clock, holder, redeemed, stored, loaded,
                   done>>

ClearStarts(h) ==
    /\ pc[h] = "idle"
    /\ job' = [job EXCEPT ![h] = "clear"]
    /\ Go(h, "lock")
    /\ UNCHANGED <<worldVars, asOf, wants, newGrant, loaded, done>>

-----------------------------------------------------------------------------
(* The store: update and Clear under the lock. *)

\* A lock anyone may take at any time.
NeverHeld(p) == TRUE

\* tryLockFile
LockFree(p) == holder = NoProc

TakeLock(p) ==
    /\ pc[p] = "lock" /\ LockFree(p)
    /\ holder' = p
    /\ Go(p, IF job[p] = "clear" THEN "write" ELSE "load")
    /\ UNCHANGED <<file, matched, clock, issued, redeemed, stored, job, asOf,
                   wants, newGrant, loaded, done>>

\* A hook that fails on a store error instead of blocking the call.
ErrorOutcome(p, ok) ==
    IF p \in Humans THEN "idle" ELSE IF ok THEN "allowed" ELSE "error"

\* What the process reports once the store has answered: an error redeeming
\* tokens blocks the call.
Outcome(p, ok) ==
    IF p \in Humans THEN "idle" ELSE IF ok THEN "allowed" ELSE "blocked"

\* A wait without a deadline.
WaitsForever(p) == FALSE

\* waitLock may find the lock held until the deadline passes.
DeadlinePasses(p) == pc[p] = "lock"

LockTimeout(p) ==
    /\ DeadlinePasses(p)
    /\ Ends(p, Outcome(p, FALSE))
    /\ UNCHANGED worldVars

Load(p) ==
    /\ pc[p] = "load"
    /\ loaded' = [loaded EXCEPT ![p] = file]
    /\ Go(p, "write")
    /\ UNCHANGED <<worldVars, job, asOf, wants, newGrant, done>>

\* Redeems what tokens there are.
SomeToken(p) == \E s \in wants[p] : Active(loaded[p][s], asOf[p])

\* ConsumeCommandTokens: every token must be there, unexpired.
AllTokens(p) == \A s \in wants[p] : Active(loaded[p][s], asOf[p])

\* unexpired
Unexpired(p) == [s \in Slots |-> IF Active(loaded[p][s], asOf[p])
                                 THEN loaded[p][s] ELSE NoGrant]

\* Leaves in the file what was redeemed.
StillThere(p) == Unexpired(p)

\* The grants ConsumeCommandTokens writes back.
Consumed(p) == [s \in Slots |-> IF s \in wants[p] THEN NoGrant
                                ELSE Unexpired(p)[s]]

\* The grants AddGrants writes back.
Added(p) == [s \in Slots |-> IF s \in wants[p] THEN newGrant[p]
                             ELSE Unexpired(p)[s]]

WriteRedeem(c) ==
    /\ pc[c] = "write" /\ job[c] = "redeem" /\ AllTokens(c)
    /\ file' = Consumed(c)
    /\ redeemed' = [redeemed EXCEPT ![c] = {<<s, loaded[c][s].id>> : s \in
                        {t \in wants[c] : Active(loaded[c][t], asOf[c])}}]
    /\ done' = [done EXCEPT ![c] = TRUE]
    /\ Go(c, "unlock")
    /\ UNCHANGED <<clock, matched, issued, holder, stored, job, asOf, wants,
                   newGrant, loaded>>

WriteAllow(h) ==
    /\ pc[h] = "write" /\ job[h] = "allow"
    /\ file' = Added(h)
    /\ stored' = stored \cup {newGrant[h].id}
    /\ done' = [done EXCEPT ![h] = TRUE]
    /\ Go(h, "unlock")
    /\ UNCHANGED <<clock, matched, issued, holder, redeemed, job, asOf, wants,
                   newGrant, loaded>>

\* Clear removes the file.
WriteClear(h) ==
    /\ pc[h] = "write" /\ job[h] = "clear"
    /\ file' = Empty
    /\ done' = [done EXCEPT ![h] = TRUE]
    /\ Go(h, "unlock")
    /\ UNCHANGED <<clock, matched, issued, holder, redeemed, stored, job,
                   asOf, wants, newGrant, loaded>>

\* A token is gone, or reading or writing the file fails: nothing is written.
UpdateFails(p) ==
    /\ pc[p] \in {"load", "write"}
    /\ done' = [done EXCEPT ![p] = FALSE]
    /\ Go(p, "unlock")
    /\ UNCHANGED <<worldVars, job, asOf, wants, newGrant, loaded>>

Unlock(p) ==
    /\ pc[p] = "unlock"
    /\ holder' = NoProc
    /\ Ends(p, Outcome(p, done[p]))
    /\ UNCHANGED <<file, matched, clock, issued, redeemed, stored>>

-----------------------------------------------------------------------------
(* Crashes and time. *)

\* A process dies and the kernel drops its lock.  A human may run another.
Dies(p) ==
    /\ pc[p] \notin {"idle", "allowed", "blocked", "dead"}
    /\ Ends(p, IF p \in Humans THEN "idle" ELSE "dead")
    /\ holder' = IF holder = p THEN NoProc ELSE holder
    /\ UNCHANGED <<file, matched, clock, issued, redeemed, stored>>

Tick ==
    /\ clock < MaxTime /\ clock' = clock + 1
    /\ UNCHANGED <<file, matched, issued, holder, redeemed, stored, procVars>>

StoreStep(p) ==
    \/ TakeLock(p) \/ LockTimeout(p) \/ Load(p) \/ UpdateFails(p) \/ Unlock(p)

CallStep(c) ==
    \/ DeputyCheck(c) \/ SessionCheck(c) \/ CallAllowed(c) \/ CallBlocked(c)
    \/ WriteRedeem(c) \/ StoreStep(c)

HumanStep(h) ==
    \/ AllowStarts(h) \/ ClearStarts(h)
    \/ WriteAllow(h) \/ WriteClear(h) \/ StoreStep(h)

Next ==
    \/ \E c \in Calls : CallStarts(c) \/ CallStep(c)
    \/ \E h \in Humans : HumanStep(h)
    \/ \E p \in Procs : Dies(p)
    \/ Tick

\* A started hook process is scheduled; a human's command may hang, even with
\* the lock.
Fairness == \A c \in Calls : WF_vars(CallStep(c))

Spec == Init /\ [][Next]_vars /\ Fairness

TypeOK ==
    /\ file \in [Slots -> Grant] /\ clock \in 0..MaxTime /\ issued \in 0..MaxGrants
    /\ holder \in Procs \cup {NoProc}
    /\ pc \in [Procs -> Pcs] /\ job \in [Procs -> Jobs]
    /\ asOf \in [Procs -> 0..MaxTime] /\ wants \in [Procs -> SUBSET Slots]
    /\ newGrant \in [Procs -> Grant] /\ loaded \in [Procs -> [Slots -> Grant]]
    /\ done \in [Procs -> BOOLEAN] /\ matched \in [Calls -> SUBSET Rules]
    /\ redeemed \in [Calls -> SUBSET (Slots \X (0..MaxGrants))]
    /\ stored \subseteq 0..MaxGrants

-----------------------------------------------------------------------------
(* Properties. *)

\* A one-shot token is redeemed by at most one tool call, however hooks, human
\* commands and crashes interleave (ConsumeCommandTokens: "a concurrent call
\* cannot reuse a token another call already spent").
OneShot ==
    \A c, d \in Calls : c # d => redeemed[c] \cap redeemed[d] = {}

\* A call runs only after redeeming a token for every command-tier rule that
\* matched it or denied it, and a call that is blocked has spent nothing
\* (RunPreToolUse, ConsumeCommandTokens: all-or-nothing).
NothingUnpaid ==
    \A c \in Calls :
        /\ pc[c] = "allowed" =>
              \A s \in SlotsOf(c, (matched[c] \cup Denied[c]) \cap CommandRules) :
                  \E id \in GrantIds : <<s, id>> \in redeemed[c]
        /\ pc[c] = "blocked" => redeemed[c] = {}

\* The locked read-modify-replace of the file is as good as one atomic step:
\* no grant is lost to a concurrent command, none comes back after it was
\* redeemed, replaced, cleared or pruned (FileSessionStateStore's comment).
Promise == INSTANCE BypassGrants WITH
    grants <- file, used <- stored, Ids <- GrantIds, NoId <- 0,
    Times <- 0..Horizon

ActsAtomically == Promise!GrantsSpec

\* A started hook always decides, also when the process that holds the lock
\* never lets go of it (sessionStateLockTimeout): otherwise the hook would
\* outlive its own timeout and the call would run unchecked.
EveryCallDecided ==
    \A c \in Calls :
        pc[c] = "deputy" ~> pc[c] \in {"allowed", "blocked", "dead"}
=============================================================================
