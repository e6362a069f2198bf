--------------------------- MODULE BypassGrants ----------------------------
(***************************************************************************)
(* What the bypass store promises (FileSessionStateStore's contract): a    *)
(* set of human grants that are added, redeemed, cleared and pruned in     *)
(* single atomic steps.  A command-tier grant is a one-shot token.         *)
(***************************************************************************)
EXTENDS Naturals

CONSTANTS
    Calls,   \* tool calls, each evaluated once by a PreToolUse hook
    Slots,   \* what a grant is for: a rule in a scope
    Ids,     \* identities of grants
    NoId,    \* the identity in an empty slot, none of Ids
    Times    \* points in time, natural numbers

VARIABLES
    grants,    \* the grant in each slot
    redeemed,  \* the tokens each call spent, as <<slot, id>>
    used       \* the identities of all grants added so far

Empty == [s \in Slots |-> [id |-> NoId, exp |-> 0]]

\* Stored, and not expired at now.
Live(g, now) == g.id # NoId /\ now < g.exp

GrantsInit ==
    /\ grants = Empty
    /\ redeemed = [c \in Calls |-> {}]
    /\ used = {}

\* A call that has spent nothing yet spends one token for each slot of S, all
\* or none; the same write may prune expired grants.
Redeem(c, S, now) ==
    /\ redeemed[c] = {}
    /\ \A s \in S : Live(grants[s], now)
    /\ redeemed' = [redeemed EXCEPT ![c] = {<<s, grants[s].id>> : s \in S}]
    /\ grants' = [s \in Slots |-> IF s \notin S /\ Live(grants[s], now)
                                  THEN grants[s] ELSE Empty[s]]
    /\ UNCHANGED used

\* A new grant for the slots of S replaces what they held.
AddGrants(S, id, exp, now) ==
    /\ id \notin used /\ used' = used \cup {id}
    /\ grants' = [s \in Slots |->
                    IF s \in S THEN [id |-> id, exp |-> exp]
                    ELSE IF Live(grants[s], now) THEN grants[s] ELSE Empty[s]]
    /\ UNCHANGED redeemed

Clear == grants' = Empty /\ UNCHANGED <<redeemed, used>>

GrantsNext ==
    \/ \E c \in Calls, S \in SUBSET Slots, now \in Times : Redeem(c, S, now)
    \/ \E S \in SUBSET Slots, id \in Ids, exp, now \in Times :
          AddGrants(S, id, exp, now)
    \/ Clear

GrantsSpec == GrantsInit /\ [][GrantsNext]_<<grants, redeemed, used>>
=============================================================================
