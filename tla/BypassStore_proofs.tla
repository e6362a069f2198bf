------------------------- MODULE BypassStore_proofs -------------------------
(***************************************************************************)
(* Proofs about BypassStore, for every number of hooks, terminals, rules   *)
(* and grants.  The inductive invariant says that the lock protects the    *)
(* read-modify-replace of the file (Locked, ReadIsCurrent), that a grant   *)
(* is written at most once (GrantsNumbered), that what was redeemed is no  *)
(* longer in the file (SpentIsGone), and how far each hook has paid.       *)
(***************************************************************************)
EXTENDS BypassStore, TLAPS

\* Only the lock's holder is between taking and releasing it.
Locked == \A p \in Procs : pc[p] \in {"load", "write", "unlock"} => holder = p

\* Hooks redeem; humans allow or clear.
JobsFit ==
    /\ \A p \in Procs : job[p] = "redeem" => p \in Calls
    /\ \A p \in Procs : job[p] \in {"allow", "clear"} => p \in Humans
    /\ \A c \in Calls : pc[c] \in {"lock", "load", "write"} => job[c] = "redeem"

\* What was read under the lock is still what the file holds.
ReadIsCurrent ==
    \A p \in Procs : pc[p] = "write" /\ job[p] # "clear" => loaded[p] = file

Pending(h) == job[h] = "allow" /\ pc[h] \in {"lock", "load", "write"}

\* A grant reaches the file at most once, under a number of its own.
GrantsNumbered ==
    /\ \A s \in Slots : file[s].id # 0 => file[s].id \in stored
    /\ \A id \in stored : 1 <= id /\ id <= issued
    /\ \A c \in Calls, s \in Slots, id \in 0..MaxGrants :
          <<s, id>> \in redeemed[c] => id \in stored
    /\ \A h \in Humans : Pending(h) =>
          /\ 1 <= newGrant[h].id /\ newGrant[h].id <= issued
          /\ newGrant[h].id \notin stored
    /\ \A g, h \in Humans :
          g # h /\ Pending(g) /\ Pending(h) => newGrant[g].id # newGrant[h].id

\* A redeemed token is not in the file.
SpentIsGone ==
    \A c \in Calls, s \in Slots :
        file[s].id # 0 => <<s, file[s].id>> \notin redeemed[c]

\* A hook has spent tokens only once its update has succeeded.
SpentMeansDone ==
    \A c \in Calls : redeemed[c] # {} =>
        pc[c] \in {"allowed", "dead"} \/ (pc[c] = "unlock" /\ done[c])

\* The tokens call c must pay for its matched and its denying rules.
Owed(c)   == SlotsOf(c, (matched[c] \cup Denied[c]) \cap CommandRules)
HasPaid(c) == \A s \in Owed(c) : \E id \in GrantIds : <<s, id>> \in redeemed[c]

\* A hook asks for all it owes, and goes on only once it has paid.
PaysInFull ==
    \A c \in Calls :
        /\ pc[c] = "session" =>
              SlotsOf(c, Denied[c] \cap CommandRules) \subseteq wants[c]
        /\ pc[c] \in {"lock", "load", "write"} => Owed(c) \subseteq wants[c]
        /\ pc[c] = "allowed" \/ (pc[c] = "unlock" /\ done[c]) => HasPaid(c)

IInv ==
    /\ TypeOK /\ Locked /\ JobsFit /\ ReadIsCurrent /\ GrantsNumbered
    /\ SpentIsGone /\ SpentMeansDone /\ PaysInFull /\ OneShot

-----------------------------------------------------------------------------
(* Types. *)

\* The three kinds of process steps cover Next: StoreStep is every process's.
ProcStep(p) == StoreStep(p) \/ Dies(p)

LEMMA ProcsAre == Calls \subseteq Procs /\ Humans \subseteq Procs /\ NoProc \notin Procs
  BY BypassStoreAssumption DEF Procs

\* The grants a redeeming or granting process writes back are grants.
LEMMA WritesGrants ==
  ASSUME TypeOK, NEW p \in Procs
  PROVE  Consumed(p) \in [Slots -> Grant] /\ Added(p) \in [Slots -> Grant]
<1>1. NoGrant \in Grant
  BY BypassStoreAssumption DEF NoGrant, Grant
<1>2. Unexpired(p) \in [Slots -> Grant]
  BY <1>1 DEF Unexpired, TypeOK
<1>3. QED
  BY <1>1, <1>2 DEF Consumed, Added, TypeOK

\* A process that ends resets its locals to their initial values.
LEMMA EndsTyped ==
  ASSUME TypeOK, NEW p \in Procs, NEW to \in Pcs, Ends(p, to)
  PROVE  /\ pc' \in [Procs -> Pcs] /\ job' \in [Procs -> Jobs]
         /\ asOf' \in [Procs -> 0..MaxTime]
         /\ wants' \in [Procs -> SUBSET Slots]
         /\ newGrant' \in [Procs -> Grant]
         /\ loaded' \in [Procs -> [Slots -> Grant]]
         /\ done' \in [Procs -> BOOLEAN]
<1>1. NoGrant \in Grant
  BY BypassStoreAssumption DEF NoGrant, Grant
<1>2. Empty \in [Slots -> Grant]
  BY <1>1 DEF Empty
<1>3. 0 \in 0..MaxTime
  BY BypassStoreAssumption
<1>4. QED
  BY <1>1, <1>2, <1>3 DEF Ends, Go, TypeOK, Jobs

LEMMA TypeStep ==
  ASSUME TypeOK, [Next]_vars
  PROVE  TypeOK'
<1> USE ProcsAre
<1>1. ASSUME NEW c \in Calls, CallStarts(c) PROVE TypeOK'
  <2>1. PICK M \in Inputs[c] : matched' = [matched EXCEPT ![c] = M]
    BY <1>1 DEF CallStarts
  <2>2. M \subseteq Rules
    BY BypassStoreAssumption
  <2>3. matched' \in [Calls -> SUBSET Rules]
    BY <2>1, <2>2 DEF TypeOK
  <2>4. QED
    BY <1>1, <2>3 DEF CallStarts, Go, TypeOK, Pcs
<1>2. ASSUME NEW c \in Calls, DeputyCheck(c) PROVE TypeOK'
  <2>1. SlotsOf(c, Denied[c] \cap CommandRules) \subseteq Slots
    BY BypassStoreAssumption DEF SlotsOf, Slots
  <2>2. QED
    BY <1>2, <2>1 DEF DeputyCheck, Go, TypeOK, Pcs, worldVars
<1>3. ASSUME NEW c \in Calls, SessionCheck(c) PROVE TypeOK'
  <2>1. Tokens(c) \subseteq Slots
    BY BypassStoreAssumption DEF Tokens, SlotsOf, Slots, TypeOK
  <2>2. QED
    BY <1>3, <2>1 DEF SessionCheck, Go, TypeOK, Pcs, Jobs, worldVars
<1>4. ASSUME NEW c \in Calls, CallAllowed(c) PROVE TypeOK'
  BY <1>4, EndsTyped DEF CallAllowed, TypeOK, Pcs, worldVars
<1>5. ASSUME NEW c \in Calls, CallBlocked(c) PROVE TypeOK'
  BY <1>5, EndsTyped DEF CallBlocked, TypeOK, Pcs, worldVars
<1>6. ASSUME NEW h \in Humans, AllowStarts(h) PROVE TypeOK'
  <2>1. PICK R \in Requests, s \in Scopes, ttl \in Ttls :
           /\ wants' = [wants EXCEPT ![h] = R \X {s}]
           /\ newGrant' = [newGrant EXCEPT ![h] =
                             [id |-> issued + 1, exp |-> clock + ttl]]
    BY <1>6 DEF AllowStarts
  <2>2. R \X {s} \subseteq Slots
    BY BypassStoreAssumption DEF Slots
  <2>3. [id |-> issued + 1, exp |-> clock + ttl] \in Grant /\ issued + 1 \in 0..MaxGrants
    BY <1>6, BypassStoreAssumption DEF AllowStarts, Grant, TypeOK
  <2>4. QED
    BY <1>6, <2>1, <2>2, <2>3 DEF AllowStarts, Go, TypeOK, Pcs, Jobs
<1>7. ASSUME NEW h \in Humans, ClearStarts(h) PROVE TypeOK'
  BY <1>7 DEF ClearStarts, Go, TypeOK, Pcs, Jobs, worldVars
<1>8. ASSUME NEW p \in Procs, TakeLock(p) PROVE TypeOK'
  BY <1>8 DEF TakeLock, Go, TypeOK, Pcs
<1>9. ASSUME NEW p \in Procs, LockTimeout(p) PROVE TypeOK'
  BY <1>9, EndsTyped DEF LockTimeout, Outcome, TypeOK, Pcs, worldVars
<1>10. ASSUME NEW p \in Procs, Load(p) PROVE TypeOK'
  BY <1>10 DEF Load, Go, TypeOK, Pcs, worldVars
<1>11. ASSUME NEW c \in Calls, WriteRedeem(c) PROVE TypeOK'
  <2>1. {<<s, loaded[c][s].id>> : s \in {t \in wants[c] : Active(loaded[c][t], asOf[c])}}
          \subseteq Slots \X (0..MaxGrants)
    BY DEF TypeOK, Grant
  <2>2. QED
    BY <1>11, <2>1, WritesGrants DEF WriteRedeem, Go, TypeOK, Pcs
<1>12. ASSUME NEW h \in Humans, WriteAllow(h) PROVE TypeOK'
  BY <1>12, WritesGrants DEF WriteAllow, Go, TypeOK, Pcs, Grant
<1>13. ASSUME NEW h \in Humans, WriteClear(h) PROVE TypeOK'
  BY <1>13, BypassStoreAssumption
  DEF WriteClear, Go, TypeOK, Pcs, Grant, Empty, NoGrant
<1>14. ASSUME NEW p \in Procs, UpdateFails(p) PROVE TypeOK'
  BY <1>14 DEF UpdateFails, Go, TypeOK, Pcs, worldVars
<1>15. ASSUME NEW p \in Procs, Unlock(p) PROVE TypeOK'
  BY <1>15, EndsTyped DEF Unlock, Outcome, TypeOK, Pcs
<1>16. ASSUME NEW p \in Procs, Dies(p) PROVE TypeOK'
  BY <1>16, EndsTyped DEF Dies, TypeOK, Pcs
<1>17. ASSUME Tick PROVE TypeOK'
  BY <1>17, BypassStoreAssumption DEF Tick, TypeOK, procVars
<1>18. ASSUME UNCHANGED vars PROVE TypeOK'
  BY <1>18 DEF vars, worldVars, procVars, TypeOK
<1>19. QED
  BY <1>1, <1>2, <1>3, <1>4, <1>5, <1>6, <1>7, <1>8, <1>9, <1>10, <1>11,
     <1>12, <1>13, <1>14, <1>15, <1>16, <1>17, <1>18
  DEF Next, CallStep, HumanStep, StoreStep

LEMMA TypeInit == Init => TypeOK
  BY BypassStoreAssumption, ProcsAre
  DEF Init, TypeOK, Pcs, Jobs, Grant, Empty, NoGrant

\* The store's and the processes' variables keep their types.
THEOREM TypeCorrect == Spec => []TypeOK
  BY TypeInit, TypeStep, PTL DEF Spec

-----------------------------------------------------------------------------
(* The lock. *)

\* What a step of p may do to the program counters: only p's own moves.
LEMMA LockedStep ==
  ASSUME TypeOK, Locked, [Next]_vars
  PROVE  Locked'
<1> USE ProcsAre DEF Locked, TypeOK, Go, Ends
<1>1. ASSUME NEW c \in Calls,
             \/ CallStarts(c) \/ DeputyCheck(c) \/ SessionCheck(c)
             \/ CallAllowed(c) \/ CallBlocked(c)
      PROVE  Locked'
  BY <1>1 DEF CallStarts, DeputyCheck, SessionCheck, CallAllowed, CallBlocked,
              worldVars
<1>2. ASSUME NEW h \in Humans, AllowStarts(h) \/ ClearStarts(h)
      PROVE  Locked'
  BY <1>2 DEF AllowStarts, ClearStarts, worldVars
<1>3. ASSUME NEW p \in Procs, TakeLock(p) PROVE Locked'
  BY <1>3 DEF TakeLock, LockFree
<1>4. ASSUME NEW p \in Procs, LockTimeout(p) PROVE Locked'
  BY <1>4 DEF LockTimeout, Outcome, worldVars
<1>5. ASSUME NEW p \in Procs, Load(p) \/ UpdateFails(p) PROVE Locked'
  BY <1>5 DEF Load, UpdateFails, worldVars
<1>6. ASSUME NEW c \in Calls, WriteRedeem(c) PROVE Locked'
  BY <1>6 DEF WriteRedeem
<1>7. ASSUME NEW h \in Humans, WriteAllow(h) \/ WriteClear(h) PROVE Locked'
  BY <1>7 DEF WriteAllow, WriteClear
<1>8. ASSUME NEW p \in Procs, Unlock(p) PROVE Locked'
  BY <1>8 DEF Unlock, Outcome
<1>9. ASSUME NEW p \in Procs, Dies(p) PROVE Locked'
  BY <1>9 DEF Dies
<1>10. CASE Tick \/ UNCHANGED vars
  BY <1>10 DEF Tick, vars, worldVars, procVars
<1>11. QED
  BY <1>1, <1>2, <1>3, <1>4, <1>5, <1>6, <1>7, <1>8, <1>9, <1>10
  DEF Next, CallStep, HumanStep, StoreStep

\* A process that ends has no job.
LEMMA EndsJobsFit ==
  ASSUME TypeOK, JobsFit, NEW p \in Procs, NEW to, Ends(p, to),
         to \notin {"lock", "load", "write"}
  PROVE  JobsFit'
  BY ProcsAre DEF JobsFit, TypeOK, Go, Ends

LEMMA JobsFitStep ==
  ASSUME TypeOK, JobsFit, [Next]_vars
  PROVE  JobsFit'
<1> USE ProcsAre
<1>1. ASSUME NEW c \in Calls,
             CallStarts(c) \/ DeputyCheck(c) \/ SessionCheck(c) \/ WriteRedeem(c)
      PROVE  JobsFit'
  BY <1>1 DEF CallStarts, DeputyCheck, SessionCheck, WriteRedeem, worldVars,
              JobsFit, TypeOK, Go
<1>2. ASSUME NEW c \in Calls, CallAllowed(c) \/ CallBlocked(c)
      PROVE  JobsFit'
  BY <1>2, EndsJobsFit DEF CallAllowed, CallBlocked
<1>3. ASSUME NEW h \in Humans, AllowStarts(h) \/ ClearStarts(h)
      PROVE  JobsFit'
  <2>1. h \notin Calls
    BY BypassStoreAssumption
  <2>2. QED
    BY <1>3, <2>1 DEF AllowStarts, ClearStarts, JobsFit, TypeOK, Go
<1>4. ASSUME NEW h \in Humans, WriteAllow(h) \/ WriteClear(h)
      PROVE  JobsFit'
  BY <1>4 DEF WriteAllow, WriteClear, JobsFit, TypeOK, Go
<1>5. ASSUME NEW p \in Procs, TakeLock(p) \/ Load(p) \/ UpdateFails(p)
      PROVE  JobsFit'
  BY <1>5 DEF TakeLock, Load, UpdateFails, JobsFit, TypeOK, Go
<1>6. ASSUME NEW p \in Procs, LockTimeout(p) \/ Unlock(p) \/ Dies(p)
      PROVE  JobsFit'
  BY <1>6, EndsJobsFit DEF LockTimeout, Unlock, Dies, Outcome
<1>7. CASE Tick \/ UNCHANGED vars
  BY <1>7 DEF Tick, vars, procVars, JobsFit
<1>8. QED
  BY <1>1, <1>2, <1>3, <1>4, <1>5, <1>6, <1>7
  DEF Next, CallStep, HumanStep, StoreStep

\* Nobody else writes the file between p's read and p's write.
LEMMA ReadIsCurrentStep ==
  ASSUME TypeOK, Locked, ReadIsCurrent, [Next]_vars
  PROVE  ReadIsCurrent'
<1> USE ProcsAre DEF ReadIsCurrent, TypeOK, Go, Ends
<1>1. ASSUME NEW c \in Calls,
             \/ CallStarts(c) \/ DeputyCheck(c) \/ SessionCheck(c)
             \/ CallAllowed(c) \/ CallBlocked(c)
      PROVE  ReadIsCurrent'
  BY <1>1 DEF CallStarts, DeputyCheck, SessionCheck, CallAllowed, CallBlocked,
              worldVars
<1>2. ASSUME NEW h \in Humans, AllowStarts(h) \/ ClearStarts(h)
      PROVE  ReadIsCurrent'
  BY <1>2 DEF AllowStarts, ClearStarts, worldVars
<1>3. ASSUME NEW p \in Procs, TakeLock(p) \/ Load(p) \/ UpdateFails(p)
      PROVE  ReadIsCurrent'
  BY <1>3 DEF TakeLock, Load, UpdateFails, worldVars
<1>4. ASSUME NEW c \in Calls, WriteRedeem(c) PROVE ReadIsCurrent'
  BY <1>4 DEF WriteRedeem, Locked
<1>5. ASSUME NEW h \in Humans, WriteAllow(h) \/ WriteClear(h)
      PROVE  ReadIsCurrent'
  BY <1>5 DEF WriteAllow, WriteClear, Locked
<1>6. ASSUME NEW p \in Procs, LockTimeout(p) \/ Unlock(p) \/ Dies(p)
      PROVE  ReadIsCurrent'
  BY <1>6 DEF LockTimeout, Unlock, Dies, Outcome, worldVars
<1>7. CASE Tick \/ UNCHANGED vars
  BY <1>7 DEF Tick, vars, worldVars, procVars
<1>8. QED
  BY <1>1, <1>2, <1>3, <1>4, <1>5, <1>6, <1>7
  DEF Next, CallStep, HumanStep, StoreStep

-----------------------------------------------------------------------------
(* What the file may hold. *)

\* A step that stores no grant leaves each slot as it was, or empties it.
OnlyEmpties == \A s \in Slots : file'[s].id \in {0, file[s].id}

\* The slots that ConsumeCommandTokens and AddGrants do not replace are kept
\* or, expired, emptied.
LEMMA PruneEmpties ==
  ASSUME NEW p \in Procs, NEW s \in Slots, loaded[p] = file
  PROVE  Unexpired(p)[s].id \in {0, file[s].id}
  BY DEF Unexpired, NoGrant

\* Every step but a write of new grants only empties slots.
LEMMA FileSteps ==
  ASSUME TypeOK, JobsFit, ReadIsCurrent, [Next]_vars
  PROVE  \/ OnlyEmpties /\ UNCHANGED stored
         \/ \E h \in Humans : WriteAllow(h)
<1> USE ProcsAre
<1>1. ASSUME NEW c \in Calls, WriteRedeem(c)
      PROVE  OnlyEmpties /\ UNCHANGED stored
  <2>1. loaded[c] = file
    BY <1>1 DEF WriteRedeem, ReadIsCurrent
  <2>2. file' = Consumed(c) /\ UNCHANGED stored
    BY <1>1 DEF WriteRedeem
  <2>3. QED
    BY <2>1, <2>2, PruneEmpties DEF Consumed, OnlyEmpties, NoGrant
<1>2. ASSUME NEW h \in Humans, WriteClear(h)
      PROVE  OnlyEmpties /\ UNCHANGED stored
  BY <1>2 DEF WriteClear, OnlyEmpties, Empty, NoGrant
<1>3. ASSUME UNCHANGED <<file, stored>>
      PROVE  OnlyEmpties /\ UNCHANGED stored
  BY <1>3 DEF OnlyEmpties
<1>4. QED
  BY <1>1, <1>2, <1>3
  DEF Next, CallStep, HumanStep, StoreStep, CallStarts, DeputyCheck,
      SessionCheck, CallAllowed, CallBlocked, AllowStarts, ClearStarts,
      TakeLock, LockTimeout, Load, UpdateFails, Unlock, Dies, Tick, vars,
      worldVars

\* A redeeming write spends exactly the grants of the slots it wanted, which
\* were in the file.
LEMMA RedeemSpends ==
  ASSUME TypeOK, ReadIsCurrent, NEW c \in Calls, WriteRedeem(c)
  PROVE  /\ redeemed' = [redeemed EXCEPT ![c] =
                           {<<s, file[s].id>> : s \in wants[c]}]
         /\ \A s \in wants[c] : Active(file[s], asOf[c])
         /\ \A s \in wants[c] : file'[s].id = 0
<1>1. loaded[c] = file
  BY ProcsAre DEF WriteRedeem, ReadIsCurrent
<1>2. \A s \in wants[c] : Active(file[s], asOf[c])
  BY <1>1 DEF WriteRedeem, AllTokens
<1>3. {t \in wants[c] : Active(loaded[c][t], asOf[c])} = wants[c]
  BY <1>1, <1>2
<1>4. redeemed' = [redeemed EXCEPT ![c] = {<<s, file[s].id>> : s \in wants[c]}]
  BY <1>1, <1>3 DEF WriteRedeem
<1>5. wants[c] \subseteq Slots
  BY ProcsAre DEF TypeOK
<1>6. \A s \in wants[c] : file'[s].id = 0
  BY <1>5 DEF WriteRedeem, Consumed, NoGrant
<1>7. QED
  BY <1>2, <1>4, <1>6

\* Only a redeeming write adds to what was redeemed.
LEMMA RedeemedSteps ==
  ASSUME [Next]_vars
  PROVE  UNCHANGED redeemed \/ \E c \in Calls : WriteRedeem(c)
  BY DEF Next, CallStep, HumanStep, StoreStep, CallStarts, DeputyCheck,
      SessionCheck, CallAllowed, CallBlocked, AllowStarts, ClearStarts,
      TakeLock, LockTimeout, Load, UpdateFails, Unlock, Dies, Tick, vars,
      WriteAllow, WriteClear, worldVars

\* Only a new grant command makes a grant pending.
LEMMA PendingSteps ==
  ASSUME TypeOK, [Next]_vars
  PROVE  \/ /\ UNCHANGED issued
            /\ \A h \in Humans :
                  Pending(h)' => Pending(h) /\ newGrant'[h] = newGrant[h]
         \/ \E h \in Humans : AllowStarts(h)
<1> DEFINE Quiet == /\ UNCHANGED issued
                    /\ \A h \in Humans :
                          Pending(h)' => Pending(h) /\ newGrant'[h] = newGrant[h]
<1> USE ProcsAre
<1>1. ASSUME NEW p \in Procs, NEW to, Ends(p, to), UNCHANGED issued
      PROVE  Quiet
  BY <1>1 DEF Ends, Go, Pending, TypeOK
<1>2. ASSUME NEW c \in Calls,
             CallStarts(c) \/ DeputyCheck(c) \/ SessionCheck(c) \/ WriteRedeem(c)
      PROVE  Quiet
  BY <1>2 DEF CallStarts, DeputyCheck, SessionCheck, WriteRedeem, worldVars,
              Go, Pending, TypeOK
<1>3. ASSUME NEW h \in Humans, ClearStarts(h) \/ WriteAllow(h) \/ WriteClear(h)
      PROVE  Quiet
  BY <1>3 DEF ClearStarts, WriteAllow, WriteClear, worldVars, Go, Pending, TypeOK
<1>4. ASSUME NEW p \in Procs, TakeLock(p) \/ Load(p) \/ UpdateFails(p)
      PROVE  Quiet
  BY <1>4 DEF TakeLock, Load, UpdateFails, worldVars, Go, Pending, TypeOK
<1>5. CASE Tick \/ UNCHANGED vars
  BY <1>5 DEF Tick, vars, worldVars, procVars, Pending
<1>6. QED
  BY <1>1, <1>2, <1>3, <1>4, <1>5
  DEF Next, CallStep, HumanStep, StoreStep, CallAllowed, CallBlocked,
      LockTimeout, Unlock, Dies, worldVars

LEMMA GrantsNumberedStep ==
  ASSUME TypeOK, TypeOK', Locked, JobsFit, ReadIsCurrent, GrantsNumbered,
         [Next]_vars
  PROVE  GrantsNumbered'
<1> USE ProcsAre
<1>1. CASE \E h \in Humans : AllowStarts(h)
  <2>1. PICK h \in Humans : AllowStarts(h)
    BY <1>1
  <2>2. newGrant'[h].id = issued + 1 /\ issued' = issued + 1
    BY <2>1 DEF AllowStarts, TypeOK
  <2>3. UNCHANGED <<file, stored, redeemed>>
    BY <2>1 DEF AllowStarts
  <2>4. \A g \in Humans \ {h} :
           Pending(g)' => Pending(g) /\ newGrant'[g] = newGrant[g]
    BY <2>1 DEF AllowStarts, Go, Pending, TypeOK
  <2>5. issued \in Nat /\ \A g \in Humans : newGrant[g].id \in Nat
    BY DEF TypeOK, Grant
  <2>6. \A id \in stored : 1 <= id /\ id <= issued /\ id \in Nat
    BY DEF GrantsNumbered, TypeOK
  <2>7. \A id \in stored' : 1 <= id /\ id <= issued'
    BY <2>2, <2>3, <2>5, <2>6
  <2>8. issued + 1 \notin stored /\ 1 <= issued + 1
    BY <2>5, <2>6 DEF TypeOK
  <2>9. \A g \in Humans \ {h} : Pending(g)' =>
           /\ 1 <= newGrant'[g].id /\ newGrant'[g].id <= issued
           /\ newGrant'[g].id \notin stored
    BY <2>4 DEF GrantsNumbered
  <2>10. \A g \in Humans : Pending(g)' =>
           /\ 1 <= newGrant'[g].id /\ newGrant'[g].id <= issued'
           /\ newGrant'[g].id \notin stored'
    BY <2>2, <2>3, <2>4, <2>5, <2>8, <2>9
  <2>11. \A g, k \in Humans :
           g # k /\ Pending(g)' /\ Pending(k)' => newGrant'[g].id # newGrant'[k].id
    <3>1. \A g \in Humans \ {h} : Pending(g)' => newGrant'[g].id # newGrant'[h].id
      BY <2>2, <2>4, <2>5, <2>9
    <3>2. \A g, k \in Humans \ {h} : g # k /\ Pending(g)' /\ Pending(k)'
             => newGrant'[g].id # newGrant'[k].id
      BY <2>4 DEF GrantsNumbered
    <3>3. QED
      BY <3>1, <3>2
  <2>12. QED
    BY <2>3, <2>7, <2>10, <2>11 DEF GrantsNumbered
<1>2. CASE /\ UNCHANGED issued
           /\ \A h \in Humans :
                 Pending(h)' => Pending(h) /\ newGrant'[h] = newGrant[h]
  <2>1. CASE \E h \in Humans : WriteAllow(h)
    <3>1. PICK h \in Humans : WriteAllow(h)
      BY <2>1
    <3>2. Pending(h) /\ ~Pending(h)'
      BY <3>1 DEF WriteAllow, Pending, Go, TypeOK
    <3>3. stored' = stored \cup {newGrant[h].id} /\ UNCHANGED redeemed
      BY <3>1 DEF WriteAllow
    <3>4. \A s \in Slots : file'[s].id \in {0, file[s].id, newGrant[h].id}
      <4>1. loaded[h] = file
        BY <3>1 DEF WriteAllow, ReadIsCurrent
      <4>2. QED
        BY <3>1, <4>1, PruneEmpties DEF WriteAllow, Added
    <3>5. QED
      BY <1>2, <3>2, <3>3, <3>4 DEF GrantsNumbered
  <2>2. CASE OnlyEmpties /\ UNCHANGED stored
    <3>1. \A s \in Slots : file'[s].id # 0 => file'[s].id \in stored'
      BY <2>2 DEF OnlyEmpties, GrantsNumbered
    <3>2. \A c \in Calls, s \in Slots, id \in 0..MaxGrants :
             <<s, id>> \in redeemed'[c] => id \in stored'
      <4>1. CASE UNCHANGED redeemed
        BY <2>2, <4>1 DEF GrantsNumbered
      <4>2. ASSUME NEW c \in Calls, WriteRedeem(c)
            PROVE  \A d \in Calls, s \in Slots, id \in 0..MaxGrants :
                      <<s, id>> \in redeemed'[d] => id \in stored'
        <5>1. wants[c] \subseteq Slots
          BY DEF TypeOK
        <5>2. \A s \in wants[c] : file[s].id \in stored
          BY <4>2, <5>1, RedeemSpends DEF Active, GrantsNumbered
        <5>3. redeemed'[c] = {<<s, file[s].id>> : s \in wants[c]}
          BY <4>2, RedeemSpends DEF TypeOK
        <5>4. \A d \in Calls \ {c} : redeemed'[d] = redeemed[d]
          BY <4>2, RedeemSpends DEF TypeOK
        <5>5. \A s \in Slots, id \in 0..MaxGrants :
                 <<s, id>> \in redeemed'[c] => id \in stored
          BY <5>2, <5>3
        <5>6. QED
          BY <2>2, <5>4, <5>5 DEF GrantsNumbered
      <4>3. QED
        BY <4>1, <4>2, RedeemedSteps
    <3>3. QED
      BY <1>2, <2>2, <3>1, <3>2 DEF GrantsNumbered
  <2>3. QED
    BY <2>1, <2>2, FileSteps
<1>3. QED
  BY <1>1, <1>2, PendingSteps

-----------------------------------------------------------------------------
(* What hooks spend. *)

\* A grant cannot reappear in a slot it was redeemed from.
LEMMA SpentIsGoneStep ==
  ASSUME TypeOK, TypeOK', JobsFit, ReadIsCurrent, GrantsNumbered, SpentIsGone,
         [Next]_vars
  PROVE  SpentIsGone'
<1> USE ProcsAre
<1>1. CASE \E h \in Humans : WriteAllow(h)
  <2>1. PICK h \in Humans : WriteAllow(h)
    BY <1>1
  <2>2. UNCHANGED redeemed
    BY <2>1 DEF WriteAllow
  <2>3. newGrant[h].id \notin stored
    BY <2>1 DEF WriteAllow, GrantsNumbered, Pending
  <2>4. newGrant[h].id \in 0..MaxGrants
    BY DEF TypeOK, Grant
  <2>5. \A c \in Calls, s \in Slots : <<s, newGrant[h].id>> \notin redeemed[c]
    BY <2>3, <2>4 DEF GrantsNumbered
  <2>6. \A s \in Slots : file'[s].id \in {0, file[s].id, newGrant[h].id}
    <3>1. loaded[h] = file
      BY <2>1 DEF WriteAllow, ReadIsCurrent
    <3>2. QED
      BY <2>1, <3>1, PruneEmpties DEF WriteAllow, Added
  <2>7. QED
    BY <2>2, <2>5, <2>6 DEF SpentIsGone
<1>2. CASE OnlyEmpties
  <2>1. CASE UNCHANGED redeemed
    BY <1>2, <2>1 DEF OnlyEmpties, SpentIsGone
  <2>2. ASSUME NEW c \in Calls, WriteRedeem(c) PROVE SpentIsGone'
    <3>1. \A d \in Calls \ {c} : redeemed'[d] = redeemed[d]
      BY <2>2, RedeemSpends DEF TypeOK
    <3>2. redeemed'[c] = {<<s, file[s].id>> : s \in wants[c]}
      BY <2>2, RedeemSpends DEF TypeOK
    <3>3. \A s \in Slots : file'[s].id # 0 => <<s, file'[s].id>> \notin redeemed'[c]
      BY <2>2, <3>2, RedeemSpends
    <3>4. \A d \in Calls \ {c}, s \in Slots :
             file'[s].id # 0 => <<s, file'[s].id>> \notin redeemed'[d]
      BY <1>2, <3>1 DEF OnlyEmpties, SpentIsGone
    <3>5. QED
      BY <3>3, <3>4 DEF SpentIsGone
  <2>3. QED
    BY <2>1, <2>2, RedeemedSteps
<1>3. QED
  BY <1>1, <1>2, FileSteps

\* A token is redeemed from the file, where no redeemed token is.
LEMMA OneShotStep ==
  ASSUME TypeOK, ReadIsCurrent, SpentIsGone, OneShot, [Next]_vars
  PROVE  OneShot'
<1>1. CASE UNCHANGED redeemed
  BY <1>1 DEF OneShot
<1>2. ASSUME NEW c \in Calls, WriteRedeem(c) PROVE OneShot'
  <2>1. \A d \in Calls \ {c} : redeemed'[d] = redeemed[d]
    BY <1>2, RedeemSpends DEF TypeOK
  <2>2. redeemed'[c] = {<<s, file[s].id>> : s \in wants[c]}
    BY <1>2, RedeemSpends DEF TypeOK
  <2>3. \A s \in wants[c] : s \in Slots /\ file[s].id # 0
    BY <1>2, ProcsAre, RedeemSpends DEF Active, TypeOK
  <2>4. \A d \in Calls \ {c} : redeemed'[c] \cap redeemed'[d] = {}
    BY <2>1, <2>2, <2>3 DEF SpentIsGone
  <2>5. \A d, e \in Calls \ {c} : d # e => redeemed'[d] \cap redeemed'[e] = {}
    BY <2>1 DEF OneShot
  <2>6. QED
    BY <2>4, <2>5 DEF OneShot
<1>3. QED
  BY <1>1, <1>2, RedeemedSteps

LEMMA SpentMeansDoneStep ==
  ASSUME TypeOK, JobsFit, SpentMeansDone, [Next]_vars
  PROVE  SpentMeansDone'
<1> USE ProcsAre
<1>1. ASSUME NEW c \in Calls,
             CallStarts(c) \/ DeputyCheck(c) \/ SessionCheck(c) \/ WriteRedeem(c)
      PROVE  SpentMeansDone'
  BY <1>1 DEF CallStarts, DeputyCheck, SessionCheck, WriteRedeem, worldVars,
              Go, SpentMeansDone, TypeOK
<1>2. ASSUME NEW c \in Calls, CallAllowed(c) \/ CallBlocked(c)
      PROVE  SpentMeansDone'
  BY <1>2 DEF CallAllowed, CallBlocked, Ends, Go, worldVars, SpentMeansDone, TypeOK
<1>3. ASSUME NEW h \in Humans,
             AllowStarts(h) \/ ClearStarts(h) \/ WriteAllow(h) \/ WriteClear(h)
      PROVE  SpentMeansDone'
  <2>1. h \notin Calls
    BY BypassStoreAssumption
  <2>2. QED
    BY <1>3, <2>1 DEF AllowStarts, ClearStarts, WriteAllow, WriteClear,
                      worldVars, Go, SpentMeansDone, TypeOK
<1>4. ASSUME NEW p \in Procs, TakeLock(p) \/ Load(p) \/ UpdateFails(p)
      PROVE  SpentMeansDone'
  BY <1>4 DEF TakeLock, Load, UpdateFails, worldVars, Go, SpentMeansDone, TypeOK
<1>5. ASSUME NEW p \in Procs, LockTimeout(p) PROVE SpentMeansDone'
  BY <1>5 DEF LockTimeout, DeadlinePasses, Outcome, Ends, Go, worldVars,
              SpentMeansDone, TypeOK
<1>6. ASSUME NEW p \in Procs, Unlock(p) PROVE SpentMeansDone'
  <2>1. p \in Calls => p \notin Humans
    BY BypassStoreAssumption
  <2>2. QED
    BY <1>6, <2>1 DEF Unlock, Outcome, Ends, Go, SpentMeansDone, TypeOK
<1>7. ASSUME NEW p \in Procs, Dies(p) PROVE SpentMeansDone'
  <2>1. p \in Calls => p \notin Humans
    BY BypassStoreAssumption
  <2>2. QED
    BY <1>7, <2>1 DEF Dies, Ends, Go, SpentMeansDone, TypeOK
<1>8. CASE Tick \/ UNCHANGED vars
  BY <1>8 DEF Tick, vars, worldVars, procVars, SpentMeansDone
<1>9. QED
  BY <1>1, <1>2, <1>3, <1>4, <1>5, <1>6, <1>7, <1>8
  DEF Next, CallStep, HumanStep, StoreStep

\* The rules a call owes for are those it was denied by and those it matched.
LEMMA OwedIs ==
  ASSUME NEW c \in Calls
  PROVE  Owed(c) = SlotsOf(c, Denied[c] \cap CommandRules)
                     \cup SlotsOf(c, matched[c] \cap CommandRules)
  BY DEF Owed, SlotsOf

LEMMA PaysInFullStep ==
  ASSUME TypeOK, JobsFit, ReadIsCurrent, GrantsNumbered, PaysInFull, [Next]_vars
  PROVE  PaysInFull'
<1> DEFINE Paying(c) ==
      /\ pc[c] = "session" =>
            SlotsOf(c, Denied[c] \cap CommandRules) \subseteq wants[c]
      /\ pc[c] \in {"lock", "load", "write"} => Owed(c) \subseteq wants[c]
      /\ pc[c] = "allowed" \/ (pc[c] = "unlock" /\ done[c]) => HasPaid(c)
<1> SUFFICES ASSUME NEW c \in Calls PROVE Paying(c)'
  BY DEF PaysInFull
<1> USE ProcsAre
<1>1. Paying(c)
  BY DEF PaysInFull
<1>2. c \notin Humans
  BY BypassStoreAssumption
\* A step of another process touches nothing of c's.
<1>3. ASSUME UNCHANGED <<pc[c], wants[c], matched[c], redeemed[c], done[c]>>
      PROVE  Paying(c)'
  BY <1>1, <1>3 DEF Owed, HasPaid
<1>4. CASE CallStarts(c)
  BY <1>4 DEF CallStarts, Go, TypeOK
<1>5. CASE DeputyCheck(c)
  BY <1>5 DEF DeputyCheck, Go, TypeOK
<1>6. CASE SessionCheck(c)
  <2>1. wants'[c] = Tokens(c) /\ pc'[c] = "lock" /\ UNCHANGED matched
    BY <1>6 DEF SessionCheck, Go, TypeOK, worldVars
  <2>2. Owed(c) \subseteq Tokens(c)
    BY <1>1, <1>6, OwedIs DEF SessionCheck, Tokens
  <2>3. Owed(c)' = Owed(c)
    BY <2>1 DEF Owed
  <2>4. QED
    BY <2>1, <2>2, <2>3
<1>7. CASE CallAllowed(c)
  <2>1. pc'[c] = "allowed" /\ UNCHANGED <<matched, redeemed>>
    BY <1>7 DEF CallAllowed, Ends, Go, TypeOK, worldVars
  <2>2. Owed(c) = {}
    BY <1>1, <1>7, OwedIs DEF CallAllowed, Tokens
  <2>3. QED
    BY <2>1, <2>2 DEF Owed, HasPaid
<1>8. CASE CallBlocked(c)
  BY <1>8 DEF CallBlocked, Ends, Go, TypeOK
<1>9. CASE TakeLock(c) \/ Load(c)
  BY <1>1, <1>9 DEF TakeLock, Load, JobsFit, Go, TypeOK, Owed, worldVars
<1>10. CASE UpdateFails(c)
  BY <1>10 DEF UpdateFails, Go, TypeOK
<1>11. CASE LockTimeout(c)
  BY <1>2, <1>11 DEF LockTimeout, Outcome, Ends, Go, TypeOK
<1>12. CASE WriteRedeem(c)
  <2>1. pc'[c] = "unlock" /\ UNCHANGED matched
    BY <1>12 DEF WriteRedeem, Go, TypeOK
  <2>2. Owed(c) \subseteq wants[c]
    BY <1>1, <1>12 DEF WriteRedeem
  <2>3. redeemed'[c] = {<<s, file[s].id>> : s \in wants[c]}
    BY <1>12, RedeemSpends DEF TypeOK
  <2>4. \A s \in wants[c] : file[s].id \in GrantIds
    BY <1>12, RedeemSpends DEF Active, TypeOK, Grant, GrantIds
  <2>5. \A s \in Owed(c) : \E id \in GrantIds : <<s, id>> \in redeemed'[c]
    BY <2>2, <2>3, <2>4
  <2>6. QED
    BY <2>1, <2>5 DEF Owed, HasPaid
<1>13. CASE Unlock(c)
  <2>1. UNCHANGED <<matched, redeemed>>
    BY <1>13 DEF Unlock
  <2>2. pc'[c] = IF done[c] THEN "allowed" ELSE "blocked"
    BY <1>2, <1>13 DEF Unlock, Outcome, Ends, Go, TypeOK
  <2>3. pc[c] = "unlock"
    BY <1>13 DEF Unlock
  <2>4. CASE done[c]
    BY <1>1, <2>1, <2>2, <2>3, <2>4 DEF Owed, HasPaid
  <2>5. CASE ~done[c]
    BY <2>2, <2>5
  <2>6. QED
    BY <2>4, <2>5
<1>14. CASE Dies(c)
  BY <1>2, <1>14 DEF Dies, Ends, Go, TypeOK
<1>15. ASSUME NEW d \in Calls \ {c},
              \/ CallStarts(d) \/ DeputyCheck(d) \/ SessionCheck(d)
              \/ CallAllowed(d) \/ CallBlocked(d) \/ WriteRedeem(d)
       PROVE  Paying(c)'
  BY <1>3, <1>15
  DEF CallStarts, DeputyCheck, SessionCheck, CallAllowed, CallBlocked,
      WriteRedeem, Ends, Go, TypeOK, worldVars
<1>16. ASSUME NEW h \in Humans,
              AllowStarts(h) \/ ClearStarts(h) \/ WriteAllow(h) \/ WriteClear(h)
       PROVE  Paying(c)'
  BY <1>2, <1>3, <1>16
  DEF AllowStarts, ClearStarts, WriteAllow, WriteClear, Go, TypeOK, worldVars
<1>17. ASSUME NEW p \in Procs \ {c}, TakeLock(p) \/ Load(p) \/ UpdateFails(p)
       PROVE  Paying(c)'
  BY <1>3, <1>17 DEF TakeLock, Load, UpdateFails, Go, TypeOK, worldVars
<1>18. ASSUME NEW p \in Procs \ {c}, LockTimeout(p) \/ Unlock(p) \/ Dies(p)
       PROVE  Paying(c)'
  <2>1. ASSUME NEW to, Ends(p, to), UNCHANGED <<matched, redeemed>>
        PROVE  Paying(c)'
    BY <1>3, <2>1 DEF Ends, Go, TypeOK
  <2>2. QED
    BY <1>18, <2>1 DEF LockTimeout, Unlock, Dies, worldVars
<1>19. CASE Tick \/ UNCHANGED vars
  BY <1>3, <1>19 DEF Tick, vars, worldVars, procVars
<1>20. QED
  BY <1>4, <1>5, <1>6, <1>7, <1>8, <1>9, <1>10, <1>11, <1>12, <1>13, <1>14,
     <1>15, <1>16, <1>17, <1>18, <1>19
  DEF Next, CallStep, HumanStep, StoreStep

-----------------------------------------------------------------------------
(* The inductive invariant and what follows from it. *)

LEMMA InvInit == Init => IInv
<1> SUFFICES ASSUME Init PROVE IInv
  OBVIOUS
<1>1. TypeOK
  BY TypeInit
<1>2. Locked /\ JobsFit /\ ReadIsCurrent
  BY ProcsAre DEF Init, Locked, JobsFit, ReadIsCurrent
<1>3. GrantsNumbered /\ SpentIsGone
  BY ProcsAre DEF Init, GrantsNumbered, SpentIsGone, Pending, Empty, NoGrant
<1>4. SpentMeansDone /\ PaysInFull /\ OneShot
  BY ProcsAre DEF Init, SpentMeansDone, PaysInFull, OneShot
<1>5. QED
  BY <1>1, <1>2, <1>3, <1>4 DEF IInv

LEMMA InvStep == IInv /\ [Next]_vars => IInv'
<1> SUFFICES ASSUME IInv, [Next]_vars PROVE IInv'
  OBVIOUS
<1>1. TypeOK'
  BY TypeStep DEF IInv
<1>2. Locked' /\ JobsFit' /\ ReadIsCurrent'
  BY LockedStep, JobsFitStep, ReadIsCurrentStep DEF IInv
<1>3. GrantsNumbered' /\ SpentIsGone'
  BY <1>1, GrantsNumberedStep, SpentIsGoneStep DEF IInv
<1>4. SpentMeansDone' /\ PaysInFull' /\ OneShot'
  BY SpentMeansDoneStep, PaysInFullStep, OneShotStep DEF IInv
<1>5. QED
  BY <1>1, <1>2, <1>3, <1>4 DEF IInv

\* The lock, the numbering of grants and what each hook paid stay as IInv says.
THEOREM Invariant == Spec => []IInv
  BY InvInit, InvStep, PTL DEF Spec

\* However hooks, human commands and crashes interleave, no one-shot token is
\* redeemed by two tool calls (ConsumeCommandTokens).
THEOREM TokensAreOneShot == Spec => []OneShot
<1>1. IInv => OneShot
  BY DEF IInv
<1>2. QED
  BY <1>1, Invariant, PTL

\* A tool call that runs has redeemed a token for every command-tier rule it
\* relied on, and a blocked one has spent nothing (ConsumeCommandTokens).
THEOREM AllowedIsPaid == Spec => []NothingUnpaid
<1>1. IInv => NothingUnpaid
  BY DEF IInv, NothingUnpaid, PaysInFull, SpentMeansDone, Owed, HasPaid
<1>2. QED
  BY <1>1, Invariant, PTL

-----------------------------------------------------------------------------
(* The store implements BypassGrants. *)

LEMMA PromiseInit == Init => Promise!GrantsInit
  BY DEF Init, Promise!GrantsInit, Promise!Empty, Empty, NoGrant

\* Redeeming is one atomic Redeem as of the time the process passed.
LEMMA RedeemIsAtomic ==
  ASSUME IInv, NEW c \in Calls, WriteRedeem(c)
  PROVE  Promise!Redeem(c, wants[c], asOf[c])
<1> USE ProcsAre
<1>1. TypeOK /\ loaded[c] = file
  BY DEF IInv, WriteRedeem, ReadIsCurrent
<1>2. redeemed[c] = {}
  BY DEF IInv, WriteRedeem, SpentMeansDone
<1>3. \A s \in wants[c] : Active(file[s], asOf[c])
  BY <1>1, RedeemSpends DEF IInv
<1>4. redeemed' = [redeemed EXCEPT ![c] = {<<s, file[s].id>> : s \in wants[c]}]
  BY <1>1, RedeemSpends DEF IInv
<1>5. file' = [s \in Slots |->
                 IF s \notin wants[c] /\ Active(file[s], asOf[c])
                 THEN file[s] ELSE NoGrant]
  BY <1>1 DEF WriteRedeem, Consumed, Unexpired
<1>6. UNCHANGED stored
  BY DEF WriteRedeem
<1>7. QED
  BY <1>2, <1>3, <1>4, <1>5, <1>6
  DEF Promise!Redeem, Promise!Live, Promise!Empty, Active, NoGrant

\* Granting is one atomic AddGrants of a grant never stored before.
LEMMA AllowIsAtomic ==
  ASSUME IInv, NEW h \in Humans, WriteAllow(h)
  PROVE  /\ newGrant[h].id \in GrantIds
         /\ Promise!AddGrants(wants[h], newGrant[h].id, newGrant[h].exp, asOf[h])
<1> USE ProcsAre
<1>1. TypeOK /\ loaded[h] = file
  BY DEF IInv, WriteAllow, ReadIsCurrent
<1>2. /\ newGrant[h].id \notin stored
      /\ 1 <= newGrant[h].id /\ newGrant[h].id <= issued
  BY DEF IInv, GrantsNumbered, Pending, WriteAllow
<1>3. newGrant[h].id \in GrantIds
  BY <1>1, <1>2 DEF TypeOK, Grant, GrantIds
<1>4. newGrant[h] = [id |-> newGrant[h].id, exp |-> newGrant[h].exp]
  BY <1>1 DEF TypeOK, Grant
<1>5. file' = [s \in Slots |->
                 IF s \in wants[h] THEN newGrant[h]
                 ELSE IF Active(file[s], asOf[h]) THEN file[s] ELSE NoGrant]
  BY <1>1 DEF WriteAllow, Added, Unexpired
<1>6. stored' = stored \cup {newGrant[h].id} /\ UNCHANGED redeemed
  BY DEF WriteAllow
<1>7. QED
  BY <1>2, <1>3, <1>4, <1>5, <1>6
  DEF Promise!AddGrants, Promise!Live, Promise!Empty, Active, NoGrant

\* Every step of the store is a step of BypassGrants or changes nothing there.
LEMMA PromiseStep ==
  ASSUME IInv, [Next]_vars
  PROVE  [Promise!GrantsNext]_<<file, redeemed, stored>>
<1> USE ProcsAre
<1>1. ASSUME NEW c \in Calls, WriteRedeem(c) PROVE Promise!GrantsNext
  <2>1. wants[c] \in SUBSET Slots /\ asOf[c] \in 0..Horizon
    BY BypassStoreAssumption DEF IInv, TypeOK
  <2>2. QED
    BY <1>1, <2>1, RedeemIsAtomic DEF Promise!GrantsNext
<1>2. ASSUME NEW h \in Humans, WriteAllow(h) PROVE Promise!GrantsNext
  <2>1. /\ wants[h] \in SUBSET Slots /\ asOf[h] \in 0..Horizon
        /\ newGrant[h].exp \in 0..Horizon
    BY BypassStoreAssumption DEF IInv, TypeOK, Grant
  <2>2. QED
    BY <1>2, <2>1, AllowIsAtomic DEF Promise!GrantsNext
<1>3. ASSUME NEW h \in Humans, WriteClear(h) PROVE Promise!GrantsNext
  BY <1>3 DEF WriteClear, Promise!GrantsNext, Promise!Clear, Promise!Empty,
              Empty, NoGrant
<1>4. ASSUME UNCHANGED <<file, redeemed, stored>>
      PROVE  [Promise!GrantsNext]_<<file, redeemed, stored>>
  BY <1>4
<1>5. QED
  BY <1>1, <1>2, <1>3, <1>4
  DEF Next, CallStep, HumanStep, StoreStep, CallStarts, DeputyCheck,
      SessionCheck, CallAllowed, CallBlocked, AllowStarts, ClearStarts,
      TakeLock, LockTimeout, Load, UpdateFails, Unlock, Dies, Tick, vars,
      worldVars

\* The locked read-modify-replace of the file implements the atomic grant
\* store: no grant is lost to a concurrent command and none comes back.
THEOREM StoreIsAtomic == Spec => ActsAtomically
<1>1. Init => Promise!GrantsInit
  BY PromiseInit
<1>2. IInv /\ [Next]_vars => [Promise!GrantsNext]_<<file, redeemed, stored>>
  BY PromiseStep
<1>3. QED
  BY <1>1, <1>2, Invariant, PTL DEF Spec, ActsAtomically, Promise!GrantsSpec
=============================================================================
