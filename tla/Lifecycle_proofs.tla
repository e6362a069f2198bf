-------------------------- MODULE Lifecycle_proofs --------------------------
(***************************************************************************)
(* Proofs about Lifecycle, for every set of files, strategies, profiles    *)
(* and releases.  The inductive invariant says what the ledger may hold    *)
(* (LedgerClean: no base with user text, no user text recorded for a file  *)
(* qsdev does not merge) and what a plan step may count on until it runs   *)
(* (PlanFits: it still fits the file unless the user changed the file      *)
(* after the plan was made).                                               *)
(***************************************************************************)
EXTENDS Lifecycle, UpdatePlan_proofs

LedgerClean ==
    \A p \in Paths : EntryClean(p, state[p]) /\ EntryClean(p, out[p])

PlanFits ==
    op = "update" =>
        \A p \in todo :
            /\ p \notin fresh => ActionFits(p, plan[p], disk[p], force)
            /\ plan[p] = "merge" => Mergeable(Strategy[p])

IInv == TypeOK /\ LedgerClean /\ PlanFits

-----------------------------------------------------------------------------
(* Types. *)

\* Every file gets one of the planned actions.
LEMMA PlanType ==
  ASSUME NEW st, NEW d, NEW v, NEW f, NEW gen, NEW en
  PROVE  UpdatePlanOf(st, d, v, f, gen, en) \in [Paths -> PlanActions]
<1> DEFINE draft == [p \in Paths |->
                       IF p \in gen THEN PlanGenerated(p, st[p], d[p], v, f)
                       ELSE "none"]
<1>1. \A p \in Paths : draft[p] \in PlanActions
  BY PlanUntrackedType, PlanTrackedType DEF PlanGenerated, PlanActions
<1>2. \A p \in Paths : HoldPaired(p, draft, gen, d) \in PlanActions
  BY <1>1 DEF HoldPaired, PlanActions
<1>3. \A p \in Paths : PlanOrphan(p, st[p], d[p]) \in PlanActions
  BY DEF PlanOrphan, PlanActions
<1>4. "none" \in PlanActions
  BY DEF PlanActions
<1> HIDE DEF draft
<1>5. \A p \in Paths : UpdatePlanOf(st, d, v, f, gen, en)[p] \in PlanActions
  BY <1>2, <1>3, <1>4 DEF UpdatePlanOf, draft
<1>6. QED
  BY <1>5 DEF UpdatePlanOf

LEMMA ReleaseIsVersion ==
  ASSUME TypeOK
  PROVE  version \in Versions /\ version \in 0..MaxVersion
  BY LifecycleAssumption, ContentTypes DEF TypeOK

\* A file's step leaves adrift alone, or takes the file off it.
LEMMA AdriftStep ==
  ASSUME NEW p \in Paths, FileStep(p)
  PROVE  adrift' = adrift \/ adrift' = adrift \ {p}
  BY DEF FileStep, InitWrite, InitMerge, InitMergeFails, InitKeep, InitSidecar,
         InitFails, InitWriteError, UpdateWrite, UpdateMerge, UpdateFails,
         UpdateSidecar, UpdateRemove, UpdateRemoveFails, UpdateUntrack,
         UpdateSkip, UpdateStops, LeaveAlone, Fails

\* The content a file is written with, and what that makes of its entry.
LEMMA WriteInPlaceType ==
  ASSUME TypeOK, NEW p \in Paths, NEW c \in Content,
         NEW o \in Tools \cup {NoTool}, WriteInPlace(p, c, o)
  PROVE  /\ disk' \in [Paths -> Content] /\ out' \in [Paths -> Entry]
         /\ touched' \subseteq Paths
         /\ failed' \subseteq Paths /\ dropped' \subseteq Paths
<1>1. RecordFile(p, c, Gen(version), o) \in Entry
  BY RecordFileType, ContentTypes, ReleaseIsVersion
<1>2. QED
  BY <1>1 DEF WriteInPlace, TypeOK

LEMMA FileStepTypes ==
  ASSUME TypeOK, NEW p \in Paths, FileStep(p)
  PROVE  TypeOK'
<1>1. /\ Owner[p] \in Tools \cup {NoTool} /\ NoTool \in Tools \cup {NoTool}
      /\ Gen(version) \in Content /\ Absent \in Content
      /\ disk[p] \in Content /\ state[p].base \in Content
  BY LedgerAssumption, ContentTypes, ReleaseIsVersion DEF TypeOK, Entry
<1>2. /\ MergeContent(p, Absent, disk[p], version) \in Content
      /\ MergeContent(p, state[p].base, disk[p], version) \in Content
  BY <1>1, MergeContentType, ReleaseIsVersion
<1> DEFINE Rest == /\ state \in [Paths -> Entry] /\ savedVersion \in 0..MaxVersion
                   /\ manifest \in [Paths -> Content] /\ present \subseteq OwnFiles
                   /\ version \in Releases /\ profile \in Profiles
                   /\ changes \in 0..MaxChanges
                   /\ op \in Ops /\ force \in BOOLEAN /\ pc \in Pcs
                   /\ plan \in [Paths -> PlanActions]
                   /\ fresh \subseteq Paths /\ torn \subseteq Paths
                   /\ settled \in BOOLEAN
<1>3. Rest
  BY DEF TypeOK
<1>4. FileStepUnchanged => Rest'
  BY <1>3 DEF FileStepUnchanged, ledgerVars
<1>5. Turn(p) => todo' \subseteq Paths
  BY DEF Turn, TypeOK
<1>6. /\ sidecar \in [Paths -> Content]
      /\ [sidecar EXCEPT ![p] = Gen(version)] \in [Paths -> Content]
      /\ [sidecar EXCEPT ![p] = Absent] \in [Paths -> Content]
  BY <1>1 DEF TypeOK
<1>7. faults \in 0..MaxFaults /\ (faults < MaxFaults => faults + 1 \in 0..MaxFaults)
  BY LifecycleAssumption DEF TypeOK
<1> DEFINE Touched == /\ disk' \in [Paths -> Content] /\ out' \in [Paths -> Entry]
                      /\ touched' \subseteq Paths /\ failed' \subseteq Paths
                      /\ dropped' \subseteq Paths
<1>8. LeaveAlone \/ Fails(p) => Touched
  BY DEF LeaveAlone, Fails, TypeOK
<1>9. ASSUME FileStepUnchanged, Touched, todo' \subseteq Paths,
             sidecar' \in [Paths -> Content], faults' \in 0..MaxFaults
      PROVE  TypeOK'
  <2>1. adrift' \subseteq Paths
    BY AdriftStep DEF TypeOK
  <2>2. QED
    BY <1>4, <1>9, <2>1 DEF TypeOK
<1> HIDE DEF Rest
<1>10. CASE InitWrite(p) \/ InitMerge(p) \/ InitMergeFails(p)
  BY <1>1, <1>2, <1>5, <1>6, <1>7, <1>8, <1>9, <1>10, WriteInPlaceType
  DEF InitWrite, InitMerge, InitMergeFails
<1>11. CASE InitKeep(p) \/ InitSidecar(p) \/ InitFails(p) \/ InitWriteError(p)
  BY <1>5, <1>6, <1>7, <1>8, <1>9, <1>11
  DEF InitKeep, InitSidecar, InitFails, InitWriteError
<1>12. CASE UpdateWrite(p) \/ UpdateMerge(p)
  BY <1>1, <1>2, <1>5, <1>6, <1>7, <1>9, <1>12, WriteInPlaceType
  DEF UpdateWrite, UpdateMerge
<1>13. CASE UpdateFails(p) \/ UpdateSidecar(p) \/ UpdateSkip(p)
  BY <1>5, <1>6, <1>7, <1>8, <1>9, <1>13 DEF UpdateFails, UpdateSidecar, UpdateSkip
<1>14. CASE UpdateRemove(p) \/ UpdateUntrack(p)
  <2>1. Touched
    BY <1>1, <1>14 DEF UpdateRemove, UpdateUntrack, fileVars, TypeOK
  <2>2. QED
    BY <1>5, <1>6, <1>7, <1>9, <1>14, <2>1 DEF UpdateRemove, UpdateUntrack, fileVars
<1>15. CASE UpdateRemoveFails(p) \/ UpdateStops(p)
  BY <1>5, <1>6, <1>7, <1>8, <1>9, <1>15
  DEF UpdateRemoveFails, UpdateStops
<1>16. QED
  BY <1>10, <1>11, <1>12, <1>13, <1>14, <1>15 DEF FileStep

LEMMA IdleTypes ==
  ASSUME TypeOK, Idle,
         UNCHANGED <<fileVars, state, savedVersion, manifest, version, profile,
                     changes, touched>>,
         present' \subseteq OwnFiles, faults' \in 0..MaxFaults,
         torn' \subseteq Paths, adrift' \subseteq Paths, settled' \in BOOLEAN
  PROVE  TypeOK'
<1>1. NoEntries \in [Paths -> Entry] /\ NoPlan \in [Paths -> PlanActions]
  BY ContentTypes DEF NoEntries, NoPlan, PlanActions
<1>2. QED
  BY <1>1 DEF Idle, TypeOK, fileVars, Ops, Pcs

LEMMA BeginTypes ==
  ASSUME TypeOK, NEW o \in Ops, NEW f \in BOOLEAN,
         NEW pl \in [Paths -> PlanActions], NEW work \in SUBSET Paths,
         Begin(o, f, pl, work)
  PROVE  TypeOK'
<1>1. NoEntries \in [Paths -> Entry]
  BY ContentTypes DEF NoEntries
<1>2. QED
  BY <1>1 DEF Begin, TypeOK, fileVars, ledgerVars, envVars, Pcs

LEMMA UserChangesTypes ==
  ASSUME TypeOK, NEW p \in Paths, NEW c \in Content, UserChanges(p, c),
         sidecar' \in [Paths -> Content]
  PROVE  TypeOK'
<1>1. disk' \in [Paths -> Content] /\ changes' \in 0..MaxChanges
  BY LifecycleAssumption DEF UserChanges, TypeOK
<1>2. fresh' \subseteq Paths /\ touched' \subseteq Paths /\ settled' \in BOOLEAN
  BY DEF UserChanges, TypeOK
<1>3. QED
  BY <1>1, <1>2 DEF UserChanges, TypeOK, ledgerVars, cmdVars

LEMMA TypeInit == Init => TypeOK
<1>1. /\ NoContent \in [Paths -> Content] /\ NoEntries \in [Paths -> Entry]
      /\ NoPlan \in [Paths -> PlanActions]
  BY ContentTypes DEF NoContent, NoEntries, NoPlan, PlanActions
<1>2. 0 \in 0..MaxVersion /\ 0 \in 0..MaxFaults /\ 0 \in 0..MaxChanges
  BY LifecycleAssumption, LedgerAssumption
<1>3. QED
  BY <1>1, <1>2 DEF Init, TypeOK, Ops, Pcs, OwnFiles

LEMMA TypeStep ==
  ASSUME TypeOK, [Next]_vars
  PROVE  TypeOK'
<1>1. NoPlan \in [Paths -> PlanActions] /\ Generated \in SUBSET Paths
  BY LifecycleAssumption DEF NoPlan, PlanActions, Generated, TypeOK
<1>2. ASSUME NEW f \in BOOLEAN, StartCreate(f) PROVE TypeOK'
  BY <1>1, <1>2, BeginTypes DEF StartCreate, Ops
<1>3. ASSUME StartJoin PROVE TypeOK'
  BY <1>1, <1>3, BeginTypes DEF StartJoin, Ops
<1>4. ASSUME NEW f \in BOOLEAN, NEW d \in BOOLEAN, StartUpdate(f, d)
      PROVE  TypeOK'
  <2> DEFINE pl == UpdatePlanOf(state, disk, version, f, Generated,
                                profile.enabled)
  <2>1. pl \in [Paths -> PlanActions]
    BY PlanType
  <2>2. Generated \cup {p \in Paths : pl[p] \in {"remove", "untrack"}}
          \in SUBSET Paths
    BY <1>1
  <2>3. QED
    BY <1>4, <2>1, <2>2, BeginTypes DEF StartUpdate, Ops
<1>5. ASSUME NEW p \in Paths, FileStep(p) PROVE TypeOK'
  BY <1>5, FileStepTypes
<1>6. ASSUME SaveState PROVE TypeOK'
  <2>1. state' \in [Paths -> Entry]
    BY <1>6, ContentTypes DEF SaveState, SavedEntry, TypeOK
  <2>2. savedVersion' \in 0..MaxVersion
    BY <1>6, ReleaseIsVersion DEF SaveState
  <2>3. QED
    BY <1>6, <2>1, <2>2
    DEF SaveState, TypeOK, fileVars, envVars, histVars, Pcs, OwnFiles
<1>7. ASSUME SaveManifest PROVE TypeOK'
  <2>1. BuildManifest(state) \in [Paths -> Content]
    BY ContentTypes DEF BuildManifest, TypeOK, Entry
  <2>2. QED
    BY <1>7, <2>1 DEF SaveManifest, TypeOK, fileVars, envVars, Pcs
<1>8. ASSUME SaveAnswers PROVE TypeOK'
  BY <1>8 DEF SaveAnswers, TypeOK, fileVars, envVars, histVars, Pcs, OwnFiles
<1>9. ASSUME Finish PROVE TypeOK'
  <2>1. /\ present' \subseteq OwnFiles /\ settled' \in BOOLEAN
        /\ UNCHANGED <<version, profile, faults, changes, torn, adrift>>
    BY <1>9 DEF Finish, TypeOK, OwnFiles, envVars
  <2>2. QED
    BY <1>9, <2>1, IdleTypes DEF Finish, TypeOK
<1>10. ASSUME Crash PROVE TypeOK'
  <2>1. faults' \in 0..MaxFaults
    BY <1>10, LifecycleAssumption DEF Crash, TypeOK
  <2>2. torn' \subseteq Paths /\ adrift' \subseteq Paths
    BY <1>10 DEF Crash, TypeOK, Written
  <2>3. QED
    BY <1>10, <2>1, <2>2, IdleTypes DEF Crash, TypeOK, ledgerVars
<1>11. ASSUME NEW p \in Paths, UserEdit(p) PROVE TypeOK'
  <2>1. PICK c \in UserEdits(p, disk[p]) : UserChanges(p, c)
    BY <1>11 DEF UserEdit
  <2>2. c \in Content
    BY UserEditsType DEF TypeOK
  <2>3. sidecar' \in [Paths -> Content]
    BY <1>11 DEF UserEdit, TypeOK
  <2>4. QED
    BY <2>1, <2>2, <2>3, UserChangesTypes
<1>12. ASSUME NEW p \in Paths, UserDelete(p) PROVE TypeOK'
  BY <1>12, ContentTypes, UserChangesTypes DEF UserDelete, TypeOK
<1>13. ASSUME NEW p \in Paths, AcceptSidecar(p) PROVE TypeOK'
  <2>1. sidecar[p] \in Content /\ sidecar' \in [Paths -> Content]
    BY <1>13, ContentTypes DEF AcceptSidecar, TypeOK
  <2>2. QED
    BY <1>13, <2>1, UserChangesTypes DEF AcceptSidecar
<1>14. ASSUME NEW pr \in Profiles, Reconfigure(pr) PROVE TypeOK'
  BY <1>14 DEF Reconfigure, TypeOK, fileVars, ledgerVars, cmdVars
<1>15. ASSUME NEW v \in Releases, SwitchBinary(v) PROVE TypeOK'
  BY <1>15 DEF SwitchBinary, TypeOK, fileVars, ledgerVars, cmdVars
<1>16. ASSUME FreshClone PROVE TypeOK'
  <2>1. NoContent \in [Paths -> Content] /\ NoEntries \in [Paths -> Entry]
    BY ContentTypes DEF NoContent, NoEntries
  <2>2. 0 \in 0..MaxVersion /\ {"config"} \subseteq OwnFiles
    BY LedgerAssumption DEF OwnFiles
  <2>3. QED
    BY <1>16, <2>1, <2>2 DEF FreshClone, TypeOK, envVars, cmdVars
<1>17. ASSUME UNCHANGED vars PROVE TypeOK'
  BY <1>17 DEF vars, TypeOK, fileVars, ledgerVars, envVars, cmdVars, histVars
<1>18. QED
  BY <1>2, <1>3, <1>4, <1>5, <1>6, <1>7, <1>8, <1>9, <1>10, <1>11, <1>12,
     <1>13, <1>14, <1>15, <1>16, <1>17
  DEF Next, Command

\* The project's, the ledger's and the command's variables keep their types.
THEOREM TypeCorrect == Spec => []TypeOK
  BY TypeInit, TypeStep, PTL DEF Spec

-----------------------------------------------------------------------------
(* The ledger. *)

\* What a file's step records is clean: its base is generator output or empty,
\* and user text is recorded only by a merge.
LEMMA RecordIsClean ==
  ASSUME LedgerClean, NEW p \in Paths, NEW c, NEW o,
         WriteInPlace(p, c, o), version \in Versions,
         out \in [Paths -> Entry],
         c.edit # 0 => Mergeable(Strategy[p])
  PROVE  \A q \in Paths : EntryClean(q, out'[q])
<1>1. EntryClean(p, RecordFile(p, c, Gen(version), o))
  BY DEF EntryClean, RecordFile, Gen, Absent
<1>2. QED
  BY <1>1 DEF WriteInPlace, LedgerClean

LEMMA LedgerCleanFileStep ==
  ASSUME TypeOK, LedgerClean, PlanFits, NEW p \in Paths, FileStep(p)
  PROVE  LedgerClean'
<1>1. version \in Versions /\ out \in [Paths -> Entry] /\ Gen(version).edit = 0
  BY ReleaseIsVersion DEF TypeOK, Gen
<1>2. UNCHANGED state
  BY DEF FileStep, InitWrite, InitMerge, InitMergeFails, InitKeep, InitSidecar,
         InitFails, InitWriteError, UpdateWrite, UpdateMerge, UpdateFails,
         UpdateSidecar, UpdateRemove, UpdateRemoveFails, UpdateUntrack,
         UpdateSkip, UpdateStops,
         FileStepUnchanged, ledgerVars
<1>3. CASE InitMerge(p)
  <2>1. Mergeable(Strategy[p])
    BY <1>3 DEF InitMerge, Decision, InitDecision
  <2>2. QED
    BY <1>1, <1>2, <1>3, <2>1, RecordIsClean DEF InitMerge, LedgerClean
<1>4. CASE UpdateMerge(p)
  <2>1. Mergeable(Strategy[p])
    BY <1>4 DEF UpdateMerge, Turn, PlanFits
  <2>2. QED
    BY <1>1, <1>2, <1>4, <2>1, RecordIsClean DEF UpdateMerge, LedgerClean
<1>5. CASE \E o : WriteInPlace(p, Gen(version), o)
  BY <1>1, <1>2, <1>5, RecordIsClean DEF LedgerClean
<1>6. CASE UNCHANGED out
  BY <1>2, <1>6 DEF LedgerClean
<1>7. QED
  BY <1>3, <1>4, <1>5, <1>6
  DEF FileStep, InitWrite, InitMergeFails, InitKeep, InitSidecar, InitFails,
      InitWriteError, UpdateWrite, UpdateFails, UpdateSidecar, UpdateRemove,
      UpdateRemoveFails, UpdateUntrack, UpdateSkip, UpdateStops, LeaveAlone,
      Fails

LEMMA NoEntriesClean == \A p \in Paths : EntryClean(p, NoEntries[p])
  BY DEF EntryClean, NoEntries, Untracked, Absent

LEMMA LedgerCleanStep ==
  ASSUME TypeOK, LedgerClean, PlanFits, [Next]_vars
  PROVE  LedgerClean'
<1>1. ASSUME NEW p \in Paths, FileStep(p) PROVE LedgerClean'
  BY <1>1, LedgerCleanFileStep
<1>2. CASE SaveState
  <2>1. \A p \in Paths : EntryClean(p, Untracked)
    BY DEF EntryClean, Untracked, Absent
  <2>2. \A p \in Paths : EntryClean(p, SavedEntry(p))
    BY <2>1 DEF LedgerClean, SavedEntry
  <2>3. QED
    BY <1>2, <2>2 DEF SaveState, LedgerClean
<1>3. CASE UNCHANGED state /\ out' \in {out, NoEntries}
  BY <1>3, NoEntriesClean DEF LedgerClean
<1>4. CASE FreshClone
  BY <1>4, NoEntriesClean DEF FreshClone, LedgerClean, cmdVars
<1>5. ASSUME NEW p \in Paths, UserEdit(p) \/ UserDelete(p) \/ AcceptSidecar(p)
      PROVE  UNCHANGED <<state, out>>
  BY <1>5 DEF UserEdit, UserDelete, AcceptSidecar, UserChanges, ledgerVars, cmdVars
<1>6. QED
  BY <1>1, <1>2, <1>3, <1>4, <1>5
  DEF Next, Command, StartCreate, StartJoin, StartUpdate, Begin, SaveManifest,
      SaveAnswers, Finish, Crash, Idle, Reconfigure, SwitchBinary,
      ledgerVars, cmdVars, vars

-----------------------------------------------------------------------------
(* The update plan. *)

\* A fresh plan fits every file it names.
LEMMA PlanIsFit ==
  ASSUME LedgerClean, NEW p \in Paths, NEW f \in BOOLEAN, NEW v, NEW gen, NEW en
  PROVE  ActionFits(p, UpdatePlanOf(state, disk, v, f, gen, en)[p], disk[p], f)
<1> DEFINE draft == [q \in Paths |->
                       IF q \in gen THEN PlanGenerated(q, state[q], disk[q], v, f)
                       ELSE "none"]
<1>1. EntryClean(p, state[p])
  BY DEF LedgerClean
<1>2. p \in gen => ActionFits(p, draft[p], disk[p], f)
  BY <1>1, UntrackedFits, TrackedFits DEF PlanGenerated
<1>3. ActionFits(p, "hold", disk[p], f) /\ ActionFits(p, "none", disk[p], f)
  BY DEF ActionFits
<1>4. p \in gen => ActionFits(p, HoldPaired(p, draft, gen, disk), disk[p], f)
  BY <1>2, <1>3 DEF HoldPaired
<1>5. ActionFits(p, PlanOrphan(p, state[p], disk[p]), disk[p], f)
  BY <1>1, OrphanFits
<1> HIDE DEF draft
<1>6. QED
  BY <1>3, <1>4, <1>5 DEF UpdatePlanOf, draft

\* A file's step changes no file but its own, and finishes with it.
LEMMA FileStepTouchesOne ==
  ASSUME TypeOK, NEW p \in Paths, FileStep(p)
  PROVE  /\ \A q \in Paths \ {p} : disk'[q] = disk[q]
         /\ UNCHANGED <<op, plan, force, fresh>>
         /\ todo' \subseteq todo \ {p}
<1>1. UNCHANGED <<op, plan, force, fresh>>
  BY DEF FileStep, InitWrite, InitMerge, InitMergeFails, InitKeep, InitSidecar,
         InitFails, InitWriteError, UpdateWrite, UpdateMerge, UpdateFails,
         UpdateSidecar, UpdateRemove, UpdateRemoveFails, UpdateUntrack,
         UpdateSkip, UpdateStops,
         FileStepUnchanged
<1>2. todo' \subseteq todo \ {p}
  BY DEF FileStep, InitWrite, InitMerge, InitMergeFails, InitKeep, InitSidecar,
         InitFails, InitWriteError, UpdateWrite, UpdateMerge, UpdateFails,
         UpdateSidecar, UpdateRemove, UpdateRemoveFails, UpdateUntrack,
         UpdateSkip, UpdateStops,
         Turn
<1>3. UNCHANGED disk \/ \E c : disk' = [disk EXCEPT ![p] = c]
  BY DEF FileStep, InitWrite, InitMerge, InitMergeFails, InitKeep, InitSidecar,
         InitFails, InitWriteError, UpdateWrite, UpdateMerge, UpdateFails,
         UpdateSidecar, UpdateRemove, UpdateRemoveFails, UpdateUntrack,
         UpdateSkip, UpdateStops,
         WriteInPlace, LeaveAlone, Fails, fileVars
<1>4. \A q \in Paths \ {p} : disk'[q] = disk[q]
  BY <1>3 DEF TypeOK
<1>5. QED
  BY <1>1, <1>2, <1>4

LEMMA PlanFitsStep ==
  ASSUME TypeOK, LedgerClean, PlanFits, [Next]_vars
  PROVE  PlanFits'
<1>1. ASSUME NEW p \in Paths, FileStep(p) PROVE PlanFits'
  <2>1. /\ UNCHANGED <<op, plan, force, fresh>>
        /\ todo' \subseteq todo \ {p}
        /\ \A q \in Paths \ {p} : disk'[q] = disk[q]
    BY <1>1, FileStepTouchesOne
  <2>2. todo \subseteq Paths
    BY DEF TypeOK
  <2>3. QED
    BY <2>1, <2>2 DEF PlanFits
<1>2. ASSUME NEW f \in BOOLEAN, NEW d \in BOOLEAN, StartUpdate(f, d)
      PROVE  PlanFits'
  <2> DEFINE pl == UpdatePlanOf(state, disk, version, f, Generated,
                                profile.enabled)
  <2>1. \A p \in Paths : ActionFits(p, pl[p], disk[p], f)
    BY PlanIsFit
  <2>2. /\ plan' = pl /\ force' = f /\ UNCHANGED disk
        /\ todo' = Generated \cup {p \in Paths : pl[p] \in {"remove", "untrack"}}
    BY <1>2 DEF StartUpdate, Begin, fileVars
  <2>3. todo' \subseteq Paths
    BY <2>2, LifecycleAssumption DEF Generated, TypeOK
  <2> HIDE DEF pl
  <2>4. \A p \in todo' : ActionFits(p, plan'[p], disk'[p], force')
    BY <2>1, <2>2, <2>3
  <2>5. QED
    BY <2>4 DEF PlanFits, ActionFits
<1>3. CASE op' # "update"
  BY <1>3 DEF PlanFits
<1>4. CASE UNCHANGED <<op, plan, force, fresh, todo, disk>>
  BY <1>4 DEF PlanFits
<1>5. ASSUME NEW p \in Paths, UserEdit(p) \/ UserDelete(p) \/ AcceptSidecar(p)
      PROVE  PlanFits'
  <2>1. /\ UNCHANGED <<op, plan, force, todo>>
        /\ op # "none" => fresh' = fresh \cup {p}
        /\ \A q \in Paths \ {p} : disk'[q] = disk[q]
    BY <1>5 DEF UserEdit, UserDelete, AcceptSidecar, UserChanges, cmdVars, TypeOK
  <2>2. todo \subseteq Paths
    BY DEF TypeOK
  <2>3. QED
    BY <2>1, <2>2 DEF PlanFits
<1>6. QED
  BY <1>1, <1>2, <1>3, <1>4, <1>5
  DEF Next, Command, StartCreate, StartJoin, Begin, SaveState, SaveManifest,
      SaveAnswers, Finish, Crash, Idle, Reconfigure, SwitchBinary, FreshClone,
      fileVars, cmdVars, histVars, vars

-----------------------------------------------------------------------------
(* The inductive invariant and what follows from it. *)

LEMMA InvInit == Init => IInv
<1> SUFFICES ASSUME Init PROVE IInv
  OBVIOUS
<1>1. LedgerClean
  BY NoEntriesClean DEF Init, LedgerClean
<1>2. PlanFits
  BY DEF Init, PlanFits
<1>3. QED
  BY <1>1, <1>2, TypeInit DEF IInv

LEMMA InvStep == IInv /\ [Next]_vars => IInv'
  BY TypeStep, LedgerCleanStep, PlanFitsStep DEF IInv

\* The ledger stays clean and plans stay fit, as IInv says.
THEOREM Invariant == Spec => []IInv
  BY InvInit, InvStep, PTL DEF Spec

\* The recorded three-way base is generator output, never the merge result, and
\* only a merge records a hash with user text in it (RecordFiles).
THEOREM RecordedBase == Spec => []BaseIsGenerated
<1>1. IInv => BaseIsGenerated
  BY DEF IInv, LedgerClean, EntryClean, BaseIsGenerated
<1>2. QED
  BY <1>1, Invariant, PTL

-----------------------------------------------------------------------------
(* User edits. *)

\* EditsSurvive for one file, in one step.
MayLose(p) == \/ MayDiscard(p)
              \/ PlannedBefore(p)
              \/ plan[p] = "remove" /\ Mergeable(Strategy[p])

\* Init replaces a file holding an edit only where it has a licence to.
LEMMA InitWriteLicensed ==
  ASSUME IInv, NEW p \in Paths, InitWrite(p), disk[p].edit # 0
  PROVE  MayDiscard(p)
<1>1. disk[p] # Absent /\ disk[p] # Gen(version)
  BY DEF Absent, Gen
<1>2. Decision(p) = "write" /\ Initializing
  BY DEF InitWrite
<1>3. EntryClean(p, state[p])
  BY DEF IInv, LedgerClean
<1>4. disk[p] = state[p].hash => Mergeable(Strategy[p])
  BY <1>3 DEF EntryClean
<1>5. QED
  BY <1>1, <1>2, <1>4 DEF Decision, InitDecision, MayDiscard, Mergeable

\* A step of a file's own either keeps the edit in it or may lose it.
LEMMA OwnStepKeepsEdit ==
  ASSUME IInv, NEW p \in Paths, FileStep(p), disk[p].edit # 0,
         disk'[p].edit # disk[p].edit
  PROVE  MayLose(p)
<1>1. TypeOK /\ LedgerClean /\ PlanFits
  BY DEF IInv
<1>2. \A c, o : WriteInPlace(p, c, o) => disk'[p] = c
  BY <1>1 DEF WriteInPlace, TypeOK
<1>3. disk[p] # Absent
  BY DEF Absent
<1>4. CASE InitWrite(p)
  BY <1>4, InitWriteLicensed DEF MayLose
<1>5. CASE InitMerge(p)
  <2>1. disk'[p] = MergeContent(p, Absent, disk[p], version)
    BY <1>2, <1>5 DEF InitMerge
  <2>2. Absent.edit = 0
    BY DEF Absent
  <2>3. QED
    BY <2>1, <2>2, MergeKeepsEdit
<1>6. CASE InitMergeFails(p)
  <2>1. Mergeable(Strategy[p])
    BY <1>6 DEF InitMergeFails, Decision, InitDecision
  <2>2. CASE force
    BY <2>1, <2>2 DEF MayLose, MayDiscard, Mergeable
  <2>3. CASE ~force
    BY <1>6, <2>3 DEF InitMergeFails, Fails
  <2>4. QED
    BY <2>2, <2>3
<1>7. CASE UpdateMerge(p)
  <2>1. disk'[p] = MergeContent(p, state[p].base, disk[p], version)
    BY <1>2, <1>7 DEF UpdateMerge
  <2>2. state[p].base.edit = 0
    BY <1>1 DEF LedgerClean, EntryClean
  <2>3. QED
    BY <2>1, <2>2, MergeKeepsEdit
<1>8. CASE UpdateWrite(p)
  <2>1. op = "update" /\ p \in todo /\ plan[p] \in {"create", "regenerate"}
    BY <1>8 DEF UpdateWrite, Turn
  <2>2. CASE p \in fresh
    BY <2>1, <2>2 DEF MayLose, PlannedBefore
  <2>3. CASE p \notin fresh
    <3>1. ActionFits(p, plan[p], disk[p], force)
      BY <1>1, <2>1, <2>3 DEF PlanFits
    <3>2. QED
      BY <1>3, <2>1, <3>1 DEF ActionFits, MayLose, MayDiscard
  <2>4. QED
    BY <2>2, <2>3
<1>9. CASE UpdateRemove(p)
  <2>1. op = "update" /\ p \in todo /\ plan[p] = "remove"
    BY <1>9 DEF UpdateRemove, Turn
  <2>2. CASE p \in fresh
    BY <2>1, <2>2 DEF MayLose, PlannedBefore
  <2>3. CASE p \notin fresh
    <3>1. ActionFits(p, plan[p], disk[p], force)
      BY <1>1, <2>1, <2>3 DEF PlanFits
    <3>2. QED
      BY <2>1, <3>1 DEF ActionFits, MayLose
  <2>4. QED
    BY <2>2, <2>3
<1>10. CASE UNCHANGED disk
  BY <1>10
<1>11. QED
  BY <1>4, <1>5, <1>6, <1>7, <1>8, <1>9, <1>10
  DEF FileStep, InitKeep, InitSidecar, InitFails, InitWriteError, UpdateFails,
      UpdateSidecar, UpdateRemoveFails, UpdateUntrack, UpdateSkip, UpdateStops,
      LeaveAlone, Fails, fileVars

\* Only a file's own step, or the user, changes it; the user's changes leave
\* the command's work list alone.
LEMMA StepKeepsEdit ==
  ASSUME IInv, [Next]_vars, NEW p \in Paths, Handled(p), disk[p].edit # 0,
         disk'[p].edit # disk[p].edit
  PROVE  MayLose(p)
<1>1. ASSUME NEW q \in Paths, FileStep(q) PROVE MayLose(p)
  BY <1>1, FileStepTouchesOne, OwnStepKeepsEdit DEF IInv
<1>2. CASE UNCHANGED todo
  BY <1>2 DEF Handled
<1>3. CASE UNCHANGED disk
  BY <1>3
<1>4. QED
  BY <1>1, <1>2, <1>3
  DEF Next, Command, StartCreate, StartJoin, StartUpdate, Begin, SaveState,
      SaveManifest, SaveAnswers, Finish, Crash, UserEdit, UserDelete,
      AcceptSidecar, UserChanges, Reconfigure, SwitchBinary, FreshClone,
      fileVars, cmdVars, vars

\* No command discards a user's edit it had no licence to discard, whatever was
\* edited, retired, crashed or upgraded before (existingContent,
\* buildUpdatePlan, planOrphans).
THEOREM UserEditsSurvive == Spec => EditsSurvive
<1>1. IInv /\ [Next]_vars =>
        [\A p \in Paths :
           Handled(p) /\ disk[p].edit # 0 /\ disk'[p].edit # disk[p].edit
             => \/ MayDiscard(p)
                \/ PlannedBefore(p)
                \/ plan[p] = "remove" /\ Mergeable(Strategy[p])]_vars
  BY StepKeepsEdit DEF MayLose
<1>2. QED
  BY <1>1, Invariant, PTL DEF Spec, EditsSurvive
=============================================================================
