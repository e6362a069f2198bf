------------------------- MODULE DocsCorpus_proofs -------------------------
(***************************************************************************)
(* Proofs about DocsCorpus, for any number of doc sets, archives, workers  *)
(* and processes.  The inductive invariant says what a job has made of its *)
(* keys so far (Progress, Aside), that a key no overlap touched is one     *)
(* job's alone (Exclusive), that what was loaded under the mutex is still  *)
(* the manifest unless another process saved (LoadedCurrent), and that a   *)
(* set on disk is recorded or a job of the process will see to it          *)
(* (OnRecord), however the jobs of the process overlap.                    *)
(***************************************************************************)
EXTENDS DocsCorpus, TLAPS

Downloads == {"fetch", "look", "aside", "install", "restore", "wait", "update", "tidy"}

\* A download is for one key; what a job fetched, staged and superseded fits it.
Shaped(w) ==
    /\ pc[w] = "idle" => keys[w] = {}
    /\ pc[w] \in Downloads => \E k \in Keys : keys[w] = {k}
    /\ stage[w] \in {0, got[w]}
    /\ pc[w] \in Downloads \ {"fetch"} => got[w] # 0
    /\ pc[w] \notin {"install", "restore", "wait", "update", "tidy"} => backup[w] = 0
    /\ gone[w] \subseteq Reach(keys[w]) \ keys[w]
    /\ pc[w] # "tidy" => gone[w] = {}
    /\ pc[w] \in {"look", "aside"} \/ backup[w] # 0 => keys[w] \subseteq DevDocs

JobShape == \A w \in Workers : Shaped(w)

LoadedCurrent ==
    \A w \in Workers : pc[w] \in Loaded /\ ~stale[w] => loaded[w] = manifest

\* Jobs that share a key are not alone, and the key is raced.
Exclusive ==
    \A v, w \in Workers : v # w /\ Busy(v) /\ Busy(w) =>
        /\ Reach(keys[v]) \cap Reach(keys[w]) \subseteq raced
        /\ Reach(keys[v]) \cap Reach(keys[w]) # {} => ~alone[v] /\ ~alone[w]

\* Jobs of two processes that share a key have crossed on it.
Crossing ==
    \A v, w \in Workers : Busy(v) /\ Busy(w) /\ ProcOf[v] # ProcOf[w] =>
        Reach(keys[v]) \cap Reach(keys[w]) \subseteq crossed

\* A manifest, and each that is loaded, has one release of an archive.
OneEach(m) ==
    \A j, k \in Keys : j # k /\ Archive[j] = Archive[k] => m[j] = 0 \/ m[k] = 0

ManifestSingle ==
    OneEach(manifest) /\ \A w \in Workers : pc[w] \in Loaded => OneEach(loaded[w])

\* A copy of k is installed or moved aside.
Exists(k) ==
    \/ place[k] # 0
    \/ \E w \in Workers :
          k \in keys[w] /\ pc[w] \in {"install", "restore"} /\ backup[w] # 0

\* k is recorded, will be, or is about to be removed.
Waits(k) == \E w \in Workers : k \in keys[w] /\ pc[w] = "wait"
Known(k) ==
    \/ manifest[k] # 0 \/ Waits(k)
    \/ \E w \in Workers : (k \in keys[w] /\ pc[w] = "update") \/ k \in gone[w]

\* The cleaning job w has removed k and will forget it.
Swept(w, k) ==
    k \in keys[w] /\ (pc[w] = "forget" \/ (pc[w] = "devdocs" /\ k \in Zims))

OnRecord ==
    \A k \in Keys \ (crossed \cup torn) :
        Exists(k) => Known(k) /\ ((\E w \in Workers : Swept(w, k)) => Waits(k))

\* What an alone job has recorded stays recorded.
Held(w) ==
    alone[w] /\ pc[w] = "tidy" => \A k \in keys[w] \ crossed : manifest[k] # 0

Mine(w, j) == alone[w] \/ j \notin raced

\* How far the job of w has brought the key j.
Agrees(w, j) ==
    /\ pc[w] \in {"fetch", "look", "aside", "clean", "zims"} => manifest[j] = place[j]
    /\ j \notin keys[w] \cup gone[w] => manifest[j] = place[j]
    /\ pc[w] = "devdocs" /\ j \in DevDocs => manifest[j] = place[j]
    /\ pc[w] \in {"install", "restore"} /\ j \in keys[w] =>
          IF backup[w] = 0 THEN manifest[j] = place[j]
          ELSE manifest[j] = backup[w] /\ place[j] = 0

\* What it has installed or removed.
Placed(w) ==
    /\ pc[w] \in {"wait", "update", "tidy"} =>
          \A j \in keys[w] : Mine(w, j) => place[j] = got[w]
    /\ pc[w] = "devdocs" => \A j \in keys[w] \cap Zims : Mine(w, j) => place[j] = 0
    /\ pc[w] = "forget" => \A j \in keys[w] : Mine(w, j) => place[j] = 0

\* What it has recorded.
Entered(w) ==
    pc[w] = "tidy" =>
       \A j \in (keys[w] \cup gone[w]) \ raced :
          manifest[j] = IF j \in keys[w] THEN got[w] ELSE 0

Progress(w) ==
    /\ \A j \in Reach(keys[w]) \ (raced \cup torn) : Agrees(w, j)
    /\ Placed(w) /\ Entered(w)

\* Where the set a download found is, while the job is alone.
Aside(w) ==
    alone[w] =>
        /\ pc[w] \in {"fetch", "look", "aside"} =>
              \A k \in keys[w] : place[k] = before[w][k]
        /\ pc[w] \in {"install", "restore"} =>
              \A k \in keys[w] :
                 IF backup[w] = 0 THEN place[k] = before[w][k]
                 ELSE backup[w] = before[w][k] /\ place[k] = 0
        /\ pc[w] = "restore" => backup[w] # 0
        /\ pc[w] \in {"wait", "update", "tidy"} => \A k \in keys[w] : place[k] # 0

IInv ==
    /\ TypeOK /\ MutexLent /\ JobShape /\ LoadedCurrent /\ Exclusive
    /\ \A w \in Workers : Progress(w)
    /\ \A w \in Workers : Aside(w)
    /\ RecordTrue /\ Crossing /\ ManifestSingle /\ OnRecord
    /\ \A w \in Workers : Held(w)

-----------------------------------------------------------------------------
(* Types. *)

LEMMA ContentTyped ==
  /\ 0 \in Contents /\ 1 \in Contents
  /\ \A v \in 1..MaxContent : v \in Contents /\ v # 0
BY DocsCorpusAssumption DEF Contents

LEMMA OverTyped ==
  ASSUME TypeOK, NEW W \in SUBSET Workers, NEW late \in [Workers -> BOOLEAN],
         Over(W, late)
  PROVE  /\ pc' \in [Workers -> Pcs] /\ keys' \in [Workers -> SUBSET Keys]
         /\ stage' \in [Workers -> Contents] /\ backup' \in [Workers -> Contents]
         /\ got' \in [Workers -> Contents] /\ gone' \in [Workers -> SUBSET Keys]
         /\ loaded' \in [Workers -> [Keys -> Contents]]
         /\ before' \in [Workers -> [Keys -> Contents]]
         /\ alone' \in [Workers -> BOOLEAN] /\ stale' \in [Workers -> BOOLEAN]
<1>1. Nothing \in [Keys -> Contents]
  BY ContentTyped DEF Nothing
<1>2. pc' \in [Workers -> Pcs] /\ keys' \in [Workers -> SUBSET Keys]
  BY DEF TypeOK, Over, Pcs
<1>3. /\ stage' \in [Workers -> Contents] /\ backup' \in [Workers -> Contents]
      /\ got' \in [Workers -> Contents] /\ gone' \in [Workers -> SUBSET Keys]
  BY ContentTyped DEF TypeOK, Over
<1>4. /\ loaded' \in [Workers -> [Keys -> Contents]]
      /\ before' \in [Workers -> [Keys -> Contents]]
  BY <1>1 DEF TypeOK, Over
<1>5. alone' \in [Workers -> BOOLEAN] /\ stale' \in [Workers -> BOOLEAN]
  BY DEF TypeOK, Over
<1>6. QED
  BY <1>2, <1>3, <1>4, <1>5

LEMMA FailsTyped ==
  ASSUME TypeOK, NEW w \in Workers, Fails(w)
  PROVE  /\ pc' \in [Workers -> Pcs] /\ keys' \in [Workers -> SUBSET Keys]
         /\ stage' \in [Workers -> Contents] /\ backup' \in [Workers -> Contents]
         /\ got' \in [Workers -> Contents] /\ gone' \in [Workers -> SUBSET Keys]
         /\ loaded' \in [Workers -> [Keys -> Contents]]
         /\ before' \in [Workers -> [Keys -> Contents]]
         /\ alone' \in [Workers -> BOOLEAN] /\ stale' \in [Workers -> BOOLEAN]
         /\ torn' \subseteq Keys
<1>1. Over({w}, stale) /\ stale \in [Workers -> BOOLEAN] /\ {w} \in SUBSET Workers
  BY DEF Fails, TypeOK
<1>2. torn' \subseteq Keys
  BY DEF Fails, TypeOK, Apart
<1>3. QED
  BY <1>1, <1>2, OverTyped

LEMMA FaultTyped ==
  ASSUME TypeOK, Fault
  PROVE  faults' \in 0..MaxFaults /\ faults' # faults
BY DocsCorpusAssumption DEF TypeOK, Fault

LEMMA InitTyped == Init => TypeOK
<1> SUFFICES ASSUME Init PROVE TypeOK
  OBVIOUS
<1>1. Nothing \in [Keys -> Contents]
  BY ContentTyped DEF Nothing
<1>2. jobs \in 0..MaxJobs /\ faults \in 0..MaxFaults
  BY DocsCorpusAssumption DEF Init
<1>3. QED
  BY <1>1, <1>2, ContentTyped DEF Init, TypeOK, Pcs

LEMMA OneKey ==
  ASSUME JobShape, NEW w \in Workers, pc[w] \in Downloads
  PROVE  Key(w) \in Keys /\ keys[w] = {Key(w)}
<1>1. PICK k \in Keys : keys[w] = {k}
  BY DEF JobShape, Shaped
<1>2. Key(w) = k
  BY <1>1 DEF Key
<1>3. QED
  BY <1>1, <1>2

LEMMA StartForms ==
  ASSUME NEW w \in Workers, StartDownload(w) \/ StartClean(w)
  PROVE  \E S \in SUBSET Keys, first \in {"fetch", "clean"} : Start(w, S, first)
<1>1. Zims \in SUBSET Keys /\ DevDocs \in SUBSET Keys
  BY DocsCorpusAssumption DEF Zims
<1>2. QED
  BY <1>1 DEF StartDownload, StartClean

LEMMA StepTyped ==
  ASSUME TypeOK, JobShape, [Next]_vars
  PROVE  TypeOK'
<1> USE DEF TypeOK
<1>1. ASSUME NEW w \in Workers, NEW S \in SUBSET Keys, NEW first \in {"fetch", "clean"},
             Start(w, S, first)
      PROVE  TypeOK'
  <2> DEFINE found == [k \in Keys |-> IF k \in S THEN place[k] ELSE 0]
             rivals == {v \in Workers : Busy(v) /\ Reach(keys[v]) \cap Reach(S) # {}}
  <2>1. pc' \in [Workers -> Pcs] /\ keys' \in [Workers -> SUBSET Keys]
    BY <1>1 DEF Start, Pcs
  <2>2. before' \in [Workers -> [Keys -> Contents]]
    <3>1. found \in [Keys -> Contents]
      BY ContentTyped
    <3>2. before' = [before EXCEPT ![w] = found]
      BY <1>1 DEF Start
    <3> HIDE DEF found
    <3>3. QED
      BY <3>1, <3>2
  <2>3. alone' \in [Workers -> BOOLEAN] /\ raced' \subseteq Keys /\ crossed' \subseteq Keys
    <3>1. alone' = [v \in Workers |-> IF v = w THEN rivals = {}
                                     ELSE alone[v] /\ v \notin rivals]
      BY <1>1 DEF Start
    <3>2. raced' = raced \cup UNION {Reach(keys[v]) \cap Reach(S) : v \in rivals}
      BY <1>1 DEF Start
    <3>3. \A v : Reach(keys[v]) \cap Reach(S) \subseteq Keys
      BY DEF Reach, Family
    <3> HIDE DEF rivals
    <3>4. alone' \in [Workers -> BOOLEAN]
      BY <3>1, Zenon
    <3>5. raced' \subseteq Keys
      BY <3>2, <3>3
    <3>6. \E W : crossed' = crossed \cup UNION {Reach(keys[v]) \cap Reach(S) : v \in W}
      BY <1>1 DEF Start
    <3>7. crossed' \subseteq Keys
      BY <3>3, <3>6
    <3>8. QED
      BY <3>4, <3>5, <3>7
  <2>4. jobs' \in 0..MaxJobs
    BY <1>1, DocsCorpusAssumption DEF Start
  <2>5. QED
    BY <1>1, <2>1, <2>2, <2>3, <2>4 DEF Start, diskVars
<1>2. ASSUME NEW w \in Workers, Fetch(w) PROVE TypeOK'
  <2>1. PICK v \in Contents : /\ stage' = [stage EXCEPT ![w] = v]
                              /\ got' = [got EXCEPT ![w] = v]
    BY <1>2, ContentTyped DEF Fetch
  <2>2. pc' \in [Workers -> Pcs]
    BY <1>2 DEF Fetch, Goes, Pcs
  <2>3. QED
    BY <1>2, <2>1, <2>2 DEF Fetch, histVars
<1>3. ASSUME NEW w \in Workers, FetchFails(w) PROVE TypeOK'
  BY <1>3, FailsTyped DEF FetchFails
<1>4. ASSUME NEW w \in Workers, Look(w) PROVE TypeOK'
  BY <1>4 DEF Look, Goes, Pcs, diskVars, histVars
<1>5. ASSUME NEW w \in Workers, MoveAside(w) PROVE TypeOK'
  <2>1. pc[w] = "aside"
    BY <1>5 DEF MoveAside
  <2>2. Key(w) \in Keys
    BY <2>1, OneKey DEF Downloads
  <2>3. QED
    BY <1>5, <2>2, ContentTyped DEF MoveAside, Goes, Pcs, histVars
<1>6. ASSUME NEW w \in Workers, MoveAsideFails(w) PROVE TypeOK'
  BY <1>6, FailsTyped, FaultTyped DEF MoveAsideFails
<1>7. ASSUME NEW w \in Workers, Install(w) PROVE TypeOK'
  BY <1>7, ContentTyped DEF Install, Goes, Pcs, histVars
<1>8. ASSUME NEW w \in Workers, InstallFails(w) PROVE TypeOK'
  <2>1. faults' \in 0..MaxFaults
    BY <1>8, FaultTyped DEF InstallFails
  <2>2. CASE backup[w] # 0
    BY <1>8, <2>1, <2>2 DEF InstallFails, Goes, Pcs
  <2>3. CASE backup[w] = 0
    BY <1>8, <2>1, <2>3, FailsTyped DEF InstallFails
  <2>4. QED
    BY <2>2, <2>3
<1>9. ASSUME NEW w \in Workers, Restore(w) PROVE TypeOK'
  <2>1. CASE Fails(w)
    <3>1. place' \in [Keys -> Contents] /\ faults' \in 0..MaxFaults
      BY <1>9, FaultTyped DEF Restore
    <3>2. QED
      BY <1>9, <2>1, <3>1, FailsTyped DEF Restore
  <2>2. CASE ~Fails(w)
    <3>1. /\ Over({w}, stale) /\ {w} \in SUBSET Workers
          /\ place' \in [Keys -> Contents] /\ UNCHANGED <<torn, faults>>
      BY <1>9, <2>2 DEF Restore
    <3>2. QED
      BY <1>9, <3>1, OverTyped DEF Restore
  <2>3. QED
    BY <2>1, <2>2
<1>10. ASSUME NEW w \in Workers, Lock(w) PROVE TypeOK'
  <2>1. ProcOf[w] \in Procs
    BY DocsCorpusAssumption
  <2>2. QED
    BY <1>10, <2>1 DEF Lock, Goes, Pcs, diskVars, histVars
<1>11. ASSUME NEW w \in Workers, Record(w) PROVE TypeOK'
  <2>1. manifest' \in [Keys -> Contents]
    BY <1>11, ContentTyped DEF Record, Save, Recorded
  <2>2. holder' \in [Procs -> Workers \cup {NoWorker}]
    BY <1>11 DEF Record, Save, Unlock
  <2>3. Nothing \in [Keys -> Contents]
    BY ContentTyped DEF Nothing
  <2>4. gone' \in [Workers -> SUBSET Keys] /\ gone'[w] \subseteq Keys
    BY <1>11 DEF Record, Family
  <2>5. raced' \subseteq Keys /\ crossed' \subseteq Keys
    BY <1>11 DEF Record, Overwritten
  <2>6. stale' \in [Workers -> BOOLEAN] /\ loaded' \in [Workers -> [Keys -> Contents]]
    BY <1>11, <2>3 DEF Record, Outdated
  <2>7. pc' \in [Workers -> Pcs]
    BY <1>11 DEF Record, Goes, Pcs
  <2>8. QED
    BY <1>11, <2>1, <2>2, <2>4, <2>5, <2>6, <2>7 DEF Record
<1>12. ASSUME NEW w \in Workers, Tidy(w) PROVE TypeOK'
  <2>1. Over({w}, stale) /\ {w} \in SUBSET Workers
    BY <1>12 DEF Tidy
  <2>2. place' \in [Keys -> Contents] /\ torn' \subseteq Keys
    BY <1>12, ContentTyped DEF Tidy
  <2>3. faults' \in 0..MaxFaults
    BY <1>12, FaultTyped DEF Tidy
  <2>4. QED
    BY <1>12, <2>1, <2>2, <2>3, OverTyped DEF Tidy
<1>13. ASSUME NEW w \in Workers, SweepZims(w) \/ SweepDevDocs(w) PROVE TypeOK'
  <2>1. PICK S \in SUBSET Keys, from \in Pcs, to \in Pcs : Sweep(w, S, from, to)
    <3>1. keys[w] \cap Zims \in SUBSET Keys /\ keys[w] \cap DevDocs \in SUBSET Keys
      OBVIOUS
    <3>2. /\ SweepZims(w) => Sweep(w, keys[w] \cap Zims, "zims", "devdocs")
          /\ SweepDevDocs(w) => Sweep(w, keys[w] \cap DevDocs, "devdocs", "forget")
      BY DEF SweepZims, SweepDevDocs
    <3>3. "zims" \in Pcs /\ "devdocs" \in Pcs /\ "forget" \in Pcs
      BY DEF Pcs
    <3> HIDE DEF TypeOK
    <3>4. QED
      BY <1>13, <3>1, <3>2, <3>3, Zenon
  <2>2. QED
    BY <2>1, ContentTyped DEF Sweep, Goes, histVars
<1>14. ASSUME NEW w \in Workers, Forget(w) PROVE TypeOK'
  <2>1. Over({w}, Outdated(w)) /\ {w} \in SUBSET Workers
    BY <1>14 DEF Forget
  <2>2. Outdated(w) \in [Workers -> BOOLEAN]
    BY DEF Outdated
  <2>3. manifest' \in [Keys -> Contents]
    BY <1>14, ContentTyped DEF Forget, Save
  <2>4. holder' \in [Procs -> Workers \cup {NoWorker}]
    BY <1>14 DEF Forget, Save, Unlock
  <2>5. raced' \subseteq Keys /\ crossed' \subseteq Keys /\ torn' \subseteq Keys
    BY <1>14 DEF Forget, Overwritten
  <2>6. QED
    BY <1>14, <2>1, <2>2, <2>3, <2>4, <2>5, OverTyped DEF Forget
<1>15. ASSUME NEW w \in Workers, UpdateFails(w) PROVE TypeOK'
  <2>1. holder' \in [Procs -> Workers \cup {NoWorker}]
    BY <1>15 DEF UpdateFails, Unlock
  <2>2. faults' \in 0..MaxFaults
    BY <1>15, FaultTyped DEF UpdateFails
  <2>3. QED
    BY <1>15, <2>1, <2>2, FailsTyped DEF UpdateFails
<1>16. ASSUME NEW p \in Procs, Crash(p) PROVE TypeOK'
  <2> DEFINE W == {w \in Workers : ProcOf[w] = p}
  <2>1. Over(W, stale) /\ W \in SUBSET Workers
    BY <1>16 DEF Crash
  <2>2. torn' \subseteq Keys
    BY <1>16 DEF Crash, Apart
  <2>3. holder' \in [Procs -> Workers \cup {NoWorker}] /\ faults' \in 0..MaxFaults
    BY <1>16, FaultTyped DEF Crash
  <2> HIDE DEF W
  <2>4. QED
    BY <1>16, <2>1, <2>2, <2>3, OverTyped DEF Crash
<1>17. CASE UNCHANGED vars
  BY <1>17 DEF vars, diskVars, jobVars, histVars
<1>18. ASSUME NEW w \in Workers, StartDownload(w) \/ StartClean(w) PROVE TypeOK'
  <2>1. PICK S \in SUBSET Keys, first \in {"fetch", "clean"} : Start(w, S, first)
    BY <1>18, StartForms
  <2> HIDE DEF TypeOK
  <2>2. QED
    BY <1>1, <2>1
<1>19. QED
  BY <1>2, <1>3, <1>4, <1>5, <1>6, <1>7, <1>8, <1>9, <1>10, <1>11, <1>12, <1>13,
     <1>14, <1>15, <1>16, <1>17, <1>18 DEF Next, Step

-----------------------------------------------------------------------------
(* What a step leaves of the jobs, and their shape. *)

\* The job of v goes on: a step of another worker may only have swept away what
\* v staged or moved aside, raised its stale mark or ended its being alone.
Kept(v) ==
    /\ pc'[v] = pc[v] /\ keys'[v] = keys[v] /\ got'[v] = got[v]
    /\ gone'[v] = gone[v] /\ loaded'[v] = loaded[v] /\ before'[v] = before[v]
    /\ stage'[v] \in {stage[v], 0} /\ backup'[v] \in {backup[v], 0}
    /\ alone'[v] => alone[v]

\* The job of v is over.
Ended(v) ==
    /\ pc'[v] = "idle" /\ keys'[v] = {} /\ got'[v] = 0 /\ gone'[v] = {}
    /\ stage'[v] = 0 /\ backup'[v] = 0 /\ alone'[v]

LEMMA OverKeeps ==
  ASSUME TypeOK, NEW W \in SUBSET Workers, NEW late, Over(W, late)
  PROVE  /\ \A v \in W : Ended(v)
         /\ \A v \in Workers \ W :
               Kept(v) /\ stage'[v] = stage[v] /\ backup'[v] = backup[v]
               /\ alone'[v] = alone[v]
         /\ \A v \in Workers \ W : stale'[v] = late[v]
BY DEF TypeOK, Over, Kept, Ended

\* The steps that end jobs.
Ending(W) == Over(W, stale) \/ \E v \in W : Forget(v) /\ W = {v}

Alive(w) ==
    \/ Fetch(w) \/ Look(w) \/ MoveAside(w) \/ Install(w)
    \/ (InstallFails(w) /\ ~Fails(w)) \/ Lock(w) \/ Record(w)
    \/ SweepZims(w) \/ SweepDevDocs(w)

LEMMA StepKinds ==
  ASSUME [Next]_vars
  PROVE  \/ \E w \in Workers : StartDownload(w) \/ StartClean(w)
         \/ \E w \in Workers : Alive(w)
         \/ \E w \in Workers : Ending({w})
         \/ \E p \in Procs : Ending({w \in Workers : ProcOf[w] = p})
         \/ UNCHANGED vars
<1>1. ASSUME NEW w \in Workers, Step(w) \/ Lock(w)
      PROVE  Alive(w) \/ Ending({w})
  <2>2. MoveAsideFails(w) => Fails(w)
    BY DEF MoveAsideFails
  <2>3. FetchFails(w) => Fails(w)
    BY DEF FetchFails
  <2>4. UpdateFails(w) => Fails(w)
    BY DEF UpdateFails
  <2>5. Restore(w) => Over({w}, stale)
    BY DEF Restore, Fails
  <2>6. Tidy(w) => Over({w}, stale)
    BY DEF Tidy
  <2>7. Fails(w) => Over({w}, stale)
    BY DEF Fails
  <2>8. QED
    BY <1>1, <2>2, <2>3, <2>4, <2>5, <2>6, <2>7, Zenon DEF Step, Alive, Ending
<1>2. ASSUME NEW p \in Procs, Crash(p)
      PROVE  Ending({w \in Workers : ProcOf[w] = p})
  BY <1>2, Zenon DEF Crash, Ending
<1>3. QED
  BY <1>1, <1>2, Zenon DEF Next

LEMMA EndingKeeps ==
  ASSUME TypeOK, NEW W \in SUBSET Workers, Ending(W)
  PROVE  /\ \A v \in W : Ended(v)
         /\ \A v \in Workers \ W :
               Kept(v) /\ stage'[v] = stage[v] /\ backup'[v] = backup[v]
               /\ alone'[v] = alone[v]
<1>1. CASE Over(W, stale)
  BY <1>1, OverKeeps
<1>2. ASSUME NEW v \in W, Forget(v), W = {v} PROVE Over(W, Outdated(v))
  BY <1>2 DEF Forget
<1>3. QED
  BY <1>1, <1>2, OverKeeps DEF Ending

LEMMA StartKeeps ==
  ASSUME TypeOK, NEW w \in Workers, NEW S, NEW first, Start(w, S, first),
         NEW v \in Workers \ {w}
  PROVE  Kept(v) /\ stage'[v] = stage[v] /\ backup'[v] = backup[v]
<1>1. alone'[v] => alone[v]
  BY DEF Start
<1>2. pc'[v] = pc[v] /\ keys'[v] = keys[v] /\ before'[v] = before[v]
  BY DEF Start, TypeOK
<1>3. UNCHANGED <<stage, backup, got, gone, loaded>>
  BY DEF Start, diskVars
<1>4. QED
  BY <1>1, <1>2, <1>3 DEF Kept

LEMMA AliveKeeps ==
  ASSUME TypeOK, NEW w \in Workers, Alive(w), NEW v \in Workers \ {w}
  PROVE  Kept(v)
<1> USE DEF Kept, TypeOK, Goes
<1>1. CASE Fetch(w)
  BY <1>1 DEF Fetch, histVars
<1>2. CASE Look(w)
  BY <1>2 DEF Look, diskVars, histVars
<1>3. CASE MoveAside(w)
  BY <1>3 DEF MoveAside, histVars
<1>4. CASE Install(w)
  BY <1>4 DEF Install, histVars
<1>5. CASE InstallFails(w) /\ ~Fails(w)
  BY <1>5 DEF InstallFails
<1>6. CASE Lock(w)
  BY <1>6 DEF Lock, diskVars, histVars
<1>7. CASE Record(w)
  BY <1>7 DEF Record
<1>8. ASSUME NEW S, NEW from, NEW to, Sweep(w, S, from, to) PROVE Kept(v)
  BY <1>8 DEF Sweep, histVars
<1>9. CASE SweepZims(w) \/ SweepDevDocs(w)
  BY <1>8, <1>9, Zenon DEF SweepZims, SweepDevDocs
<1>10. QED
  BY <1>1, <1>2, <1>3, <1>4, <1>5, <1>6, <1>7, <1>9, Zenon DEF Alive

LEMMA KeptShaped ==
  ASSUME TypeOK, JobShape, NEW v \in Workers, Kept(v)
  PROVE  Shaped(v)'
<1>1. Shaped(v)
  BY DEF JobShape
<1>2. Reach(keys'[v]) = Reach(keys[v])
  BY DEF Kept
<1>3. QED
  BY <1>1, <1>2 DEF Kept, Shaped

LEMMA EndedShaped ==
  ASSUME NEW v \in Workers, Ended(v)
  PROVE  Shaped(v)'
BY DEF Ended, Shaped, Downloads, Reach

LEMMA InitShaped == Init => JobShape
BY DEF Init, JobShape, Shaped, Downloads

LEMMA AliveShaped ==
  ASSUME TypeOK, JobShape, NEW w \in Workers, Alive(w)
  PROVE  Shaped(w)'
<1>0. Shaped(w)
  BY DEF JobShape
<1> USE DEF Shaped, TypeOK, Goes, Downloads, Loaded
<1>1. CASE Fetch(w)
  <2>1. PICK v \in Contents : /\ stage' = [stage EXCEPT ![w] = v] /\ v # 0
                              /\ got' = [got EXCEPT ![w] = v]
    <3>1. PICK v \in IF Key(w) \in DevDocs THEN 1..MaxContent ELSE {1} :
             stage' = [stage EXCEPT ![w] = v] /\ got' = [got EXCEPT ![w] = v]
      BY <1>1 DEF Fetch
    <3>2. v \in Contents /\ v # 0
      BY ContentTyped
    <3>3. QED
      BY <3>1, <3>2
  <2>2. /\ pc'[w] \in {"look", "install"} /\ pc[w] = "fetch" /\ keys' = keys
        /\ pc'[w] = "look" => Key(w) \in DevDocs
    BY <1>1 DEF Fetch
  <2>3. keys[w] = {Key(w)} /\ backup'[w] = 0
    BY <1>0, <1>1, OneKey DEF Fetch
  <2>4. pc'[w] \in {"look", "aside"} \/ backup'[w] # 0 => keys'[w] \subseteq DevDocs
    BY <2>2, <2>3
  <2>5. QED
    BY <1>0, <1>1, <2>1, <2>2, <2>4 DEF Fetch
<1>2. CASE Look(w)
  BY <1>0, <1>2 DEF Look, diskVars
<1>3. CASE MoveAside(w)
  BY <1>0, <1>3 DEF MoveAside
<1>4. CASE Install(w)
  BY <1>0, <1>4 DEF Install
<1>5. CASE InstallFails(w) /\ ~Fails(w)
  BY <1>0, <1>5 DEF InstallFails
<1>6. CASE Lock(w)
  BY <1>0, <1>6 DEF Lock, diskVars
<1>7. CASE Record(w)
  <2>1. keys[w] = {Key(w)} /\ Key(w) \in Keys
    BY <1>7, OneKey DEF Record
  <2>2. gone'[w] \subseteq Reach(keys[w]) \ keys[w]
    BY <1>7, <2>1 DEF Record, Reach
  <2>3. Reach(keys'[w]) = Reach(keys[w])
    BY <1>7 DEF Record
  <2>4. QED
    BY <1>0, <1>7, <2>2, <2>3 DEF Record
<1>8. CASE SweepZims(w) \/ SweepDevDocs(w)
  <2>1. /\ pc[w] \in {"zims", "devdocs"} /\ pc'[w] \in {"devdocs", "forget"}
        /\ UNCHANGED <<keys, got, gone>>
        /\ stage'[w] \in {stage[w], 0} /\ backup'[w] \in {backup[w], 0}
    BY <1>8 DEF SweepZims, SweepDevDocs, Sweep
  <2>2. QED
    BY <1>0, <2>1
<1>9. QED
  BY <1>1, <1>2, <1>3, <1>4, <1>5, <1>6, <1>7, <1>8, Zenon DEF Alive

LEMMA StartShaped ==
  ASSUME TypeOK, JobShape, NEW w \in Workers, StartDownload(w) \/ StartClean(w)
  PROVE  Shaped(w)'
<1>0. Shaped(w) /\ Reach({}) = {}
  BY DEF JobShape, Reach
<1>1. ASSUME NEW k \in Keys, Start(w, {k}, "fetch") PROVE Shaped(w)'
  BY <1>0, <1>1 DEF Start, Shaped, TypeOK, Downloads, diskVars
<1>2. ASSUME NEW S, Start(w, S, "clean") PROVE Shaped(w)'
  BY <1>0, <1>2 DEF Start, Shaped, TypeOK, Downloads, diskVars
<1>3. QED
  BY <1>1, <1>2, Zenon DEF StartDownload, StartClean

\* Every job of a step is started, goes on, is kept or ends.
LEMMA StepShaped ==
  ASSUME TypeOK, JobShape, [Next]_vars
  PROVE  JobShape'
<1>1. ASSUME NEW w \in Workers, StartDownload(w) \/ StartClean(w) PROVE JobShape'
  <2>1. PICK S, first : Start(w, S, first)
    BY <1>1 DEF StartDownload, StartClean
  <2>2. QED
    BY <1>1, <2>1, StartShaped, StartKeeps, KeptShaped DEF JobShape
<1>2. ASSUME NEW w \in Workers, Alive(w) PROVE JobShape'
  BY <1>2, AliveShaped, AliveKeeps, KeptShaped DEF JobShape
<1>3. ASSUME NEW W \in SUBSET Workers, Ending(W) PROVE JobShape'
  BY <1>3, EndingKeeps, EndedShaped, KeptShaped DEF JobShape
<1>4. CASE UNCHANGED vars
  BY <1>4, KeptShaped DEF vars, diskVars, jobVars, histVars, Kept, JobShape
<1>5. \A w \in Workers : {w} \in SUBSET Workers
  OBVIOUS
<1>6. \A p \in Procs : {w \in Workers : ProcOf[w] = p} \in SUBSET Workers
  OBVIOUS
<1>7. QED
  BY <1>1, <1>2, <1>3, <1>4, <1>5, <1>6, StepKinds

-----------------------------------------------------------------------------
(* The mutex. *)

Lent ==
    /\ \A w \in Workers : pc[w] \in Loaded <=> holder[ProcOf[w]] = w
    /\ \A p \in Procs : holder[p] \in Workers => ProcOf[holder[p]] = p

LEMMA LentAlways ==
  ASSUME TypeOK
  PROVE  MutexLent <=> Lent
<1>0. /\ \A w \in Workers : ProcOf[w] \in Procs /\ w # NoWorker
      /\ \A p \in Procs : holder[p] \in Workers \cup {NoWorker}
  BY DocsCorpusAssumption DEF TypeOK
<1>1. ASSUME MutexLent PROVE Lent
  <2>1. ASSUME NEW w \in Workers PROVE pc[w] \in Loaded <=> holder[ProcOf[w]] = w
    BY <1>0, <1>1 DEF MutexLent
  <2>2. ASSUME NEW p \in Procs, holder[p] \in Workers PROVE ProcOf[holder[p]] = p
    BY <1>0, <1>1, <2>2 DEF MutexLent
  <2>3. QED
    BY <2>1, <2>2 DEF Lent
<1>2. ASSUME Lent, NEW p \in Procs
      PROVE  {w \in Workers : ProcOf[w] = p /\ pc[w] \in Loaded} = {holder[p]} \ {NoWorker}
  <2>1. ASSUME NEW w \in Workers, ProcOf[w] = p, pc[w] \in Loaded
        PROVE  w = holder[p] /\ w # NoWorker
    BY <1>0, <1>2, <2>1 DEF Lent
  <2>2. ASSUME holder[p] # NoWorker
        PROVE  /\ holder[p] \in Workers /\ ProcOf[holder[p]] = p
               /\ pc[holder[p]] \in Loaded
    BY <1>0, <1>2, <2>2 DEF Lent
  <2>3. QED
    BY <2>1, <2>2
<1>3. QED
  BY <1>1, <1>2 DEF MutexLent

\* w neither takes nor gives back the mutex.
LEMMA LentKept ==
  ASSUME Lent, TypeOK, NEW w \in Workers, holder' = holder,
         \A v \in Workers \ {w} : pc'[v] = pc[v],
         pc'[w] \in Loaded <=> pc[w] \in Loaded
  PROVE  Lent'
BY DEF Lent, Loaded

\* The workers of W give back the mutexes they hold.
LEMMA LentBack ==
  ASSUME Lent, TypeOK, NEW w \in Workers, Unlock(w), pc[w] \in Loaded,
         \A v \in Workers \ {w} : pc'[v] = pc[v], pc'[w] \notin Loaded
  PROVE  Lent'
<1>1. ProcOf[w] \in Procs /\ NoWorker \notin Workers
  BY DocsCorpusAssumption
<1>2. /\ holder'[ProcOf[w]] = NoWorker
      /\ \A p \in Procs \ {ProcOf[w]} : holder'[p] = holder[p]
  BY <1>1 DEF Unlock, TypeOK
<1>3. holder[ProcOf[w]] = w
  BY DEF Lent
<1>4. ASSUME NEW v \in Workers PROVE pc'[v] \in Loaded <=> holder'[ProcOf[v]] = v
  <2>1. ProcOf[v] \in Procs
    BY DocsCorpusAssumption
  <2>2. QED
    BY <1>1, <1>2, <1>3, <2>1 DEF Lent
<1>5. QED
  BY <1>1, <1>2, <1>4 DEF Lent, Loaded

LEMMA StepLent ==
  ASSUME TypeOK, Lent, [Next]_vars
  PROVE  Lent'
<1> USE DEF TypeOK
<1>1. ASSUME NEW w \in Workers, Fails(w) \/ Over({w}, stale), holder' = holder,
             pc[w] \notin Loaded
      PROVE  Lent'
  <2>1. Over({w}, stale) /\ {w} \in SUBSET Workers
    BY <1>1 DEF Fails
  <2>2. pc'[w] = "idle" /\ \A v \in Workers \ {w} : pc'[v] = pc[v]
    BY <2>1, OverKeeps DEF Ended, Kept
  <2>3. QED
    BY <1>1, <2>2, LentKept DEF Loaded
<1>2. ASSUME NEW w \in Workers, Goes(w, pc'[w]), holder' = holder,
             pc'[w] \in Loaded <=> pc[w] \in Loaded
      PROVE  Lent'
  BY <1>2, LentKept DEF Goes
<1>3. ASSUME NEW w \in Workers, StartDownload(w) \/ StartClean(w) PROVE Lent'
  <2>1. PICK S \in SUBSET Keys, first \in {"fetch", "clean"} : Start(w, S, first)
    BY <1>3, StartForms
  <2>2. QED
    BY <2>1, LentKept DEF Start, Loaded
<1>4. ASSUME NEW w \in Workers, Fetch(w) PROVE Lent'
  BY <1>2, <1>4 DEF Fetch, Goes, Loaded
<1>5. ASSUME NEW w \in Workers, FetchFails(w) PROVE Lent'
  BY <1>1, <1>5 DEF FetchFails, Loaded
<1>6. ASSUME NEW w \in Workers, Look(w) PROVE Lent'
  BY <1>2, <1>6 DEF Look, Goes, Loaded
<1>7. ASSUME NEW w \in Workers, MoveAside(w) PROVE Lent'
  BY <1>2, <1>7 DEF MoveAside, Goes, Loaded
<1>8. ASSUME NEW w \in Workers, MoveAsideFails(w) PROVE Lent'
  BY <1>1, <1>8 DEF MoveAsideFails, Loaded
<1>9. ASSUME NEW w \in Workers, Install(w) PROVE Lent'
  BY <1>2, <1>9 DEF Install, Goes, Loaded
<1>10. ASSUME NEW w \in Workers, InstallFails(w) PROVE Lent'
  <2>1. CASE Fails(w)
    BY <1>1, <1>10, <2>1 DEF InstallFails, Loaded
  <2>2. CASE ~Fails(w)
    BY <1>2, <1>10, <2>2 DEF InstallFails, Goes, Loaded
  <2>3. QED
    BY <2>1, <2>2
<1>11. ASSUME NEW w \in Workers, Restore(w) PROVE Lent'
  BY <1>1, <1>11 DEF Restore, Loaded
<1>12. ASSUME NEW w \in Workers, Lock(w) PROVE Lent'
  <2>1. /\ ProcOf[w] \in Procs /\ NoWorker \notin Workers
        /\ \A v \in Workers : ProcOf[v] \in Procs
    BY DocsCorpusAssumption
  <2>2. pc'[w] \in Loaded /\ \A v \in Workers \ {w} : pc'[v] = pc[v]
    BY <1>12 DEF Lock, Goes, Loaded
  <2>3. /\ holder'[ProcOf[w]] = w /\ holder[ProcOf[w]] = NoWorker
        /\ \A p \in Procs \ {ProcOf[w]} : holder'[p] = holder[p]
    BY <1>12, <2>1 DEF Lock, Admitted
  <2>4. ASSUME NEW v \in Workers PROVE pc'[v] \in Loaded <=> holder'[ProcOf[v]] = v
    <3>1. CASE ProcOf[v] = ProcOf[w]
      <4>1. v # w => pc[v] \notin Loaded
        BY <2>1, <2>3, <3>1 DEF Lent
      <4>2. QED
        BY <2>2, <2>3, <3>1, <4>1 DEF Loaded
    <3>2. CASE ProcOf[v] # ProcOf[w]
      BY <2>1, <2>2, <2>3, <3>2 DEF Lent, Loaded
    <3>3. QED
      BY <3>1, <3>2
  <2>5. ASSUME NEW q \in Procs, holder'[q] \in Workers PROVE ProcOf[holder'[q]] = q
    BY <2>1, <2>3, <2>5 DEF Lent
  <2>6. QED
    BY <2>4, <2>5 DEF Lent, Loaded
<1>13. ASSUME NEW w \in Workers, Record(w) PROVE Lent'
  BY <1>13, LentBack DEF Record, Save, Goes, Loaded
<1>14. ASSUME NEW w \in Workers, Tidy(w) PROVE Lent'
  BY <1>1, <1>14 DEF Tidy, Loaded
<1>15. ASSUME NEW w \in Workers, SweepZims(w) \/ SweepDevDocs(w) PROVE Lent'
  BY <1>2, <1>15 DEF SweepZims, SweepDevDocs, Sweep, Goes, Loaded
<1>16. ASSUME NEW w \in Workers, Forget(w) \/ UpdateFails(w) PROVE Lent'
  <2>1. Ending({w}) /\ {w} \in SUBSET Workers
    BY <1>16 DEF Ending, UpdateFails, Fails
  <2>2. pc'[w] = "idle" /\ \A v \in Workers \ {w} : pc'[v] = pc[v]
    BY <2>1, EndingKeeps DEF Ended, Kept
  <2>3. Unlock(w) /\ pc[w] \in Loaded
    BY <1>16 DEF Forget, UpdateFails, Save, Loaded
  <2>4. QED
    BY <2>2, <2>3, LentBack DEF Loaded
<1>17. ASSUME NEW p \in Procs, Crash(p) PROVE Lent'
  <2> DEFINE W == {w \in Workers : ProcOf[w] = p}
  <2>1. Over(W, stale) /\ W \in SUBSET Workers
    BY <1>17 DEF Crash
  <2>2. /\ \A v \in W : pc'[v] = "idle"
        /\ \A v \in Workers \ W : pc'[v] = pc[v]
    <3> HIDE DEF W, TypeOK
    <3>1. (\A v \in W : Ended(v)) /\ (\A v \in Workers \ W : Kept(v))
      BY <2>1, OverKeeps
    <3>2. QED
      BY <3>1 DEF Ended, Kept
  <2>3. /\ holder'[p] = NoWorker /\ \A q \in Procs \ {p} : holder'[q] = holder[q]
        /\ NoWorker \notin Workers /\ \A v \in Workers : ProcOf[v] \in Procs
    BY <1>17, DocsCorpusAssumption DEF Crash
  <2>4. ASSUME NEW v \in Workers PROVE pc'[v] \in Loaded <=> holder'[ProcOf[v]] = v
    <3>1. CASE ProcOf[v] = p
      BY <2>2, <2>3, <3>1 DEF Loaded
    <3>2. CASE ProcOf[v] # p
      BY <2>2, <2>3, <3>2 DEF Lent
    <3>3. QED
      BY <3>1, <3>2
  <2>5. ASSUME NEW q \in Procs, holder'[q] \in Workers PROVE ProcOf[holder'[q]] = q
    <3>1. q # p
      BY <2>3, <2>5
    <3>2. QED
      BY <2>3, <2>5, <3>1 DEF Lent
  <2>6. QED
    BY <2>4, <2>5 DEF Lent, Loaded
<1>18. CASE UNCHANGED vars
  BY <1>18 DEF vars, jobVars, Lent, Loaded
<1>19. QED
  BY <1>3, <1>4, <1>5, <1>6, <1>7, <1>8, <1>9, <1>10, <1>11, <1>12, <1>13, <1>14,
     <1>15, <1>16, <1>17, <1>18, Zenon DEF Next, Step

-----------------------------------------------------------------------------
(* Keys that jobs share. *)

LEMMA ReachOwn ==
  /\ \A S \in SUBSET Keys : S \subseteq Reach(S) /\ Reach(S) \subseteq Keys
  /\ Reach({}) = {}
BY DEF Reach, Family

LEMMA ReachKeys ==
  ASSUME TypeOK, NEW v \in Workers
  PROVE  keys[v] \subseteq Keys /\ keys[v] \subseteq Reach(keys[v]) /\ Reach(keys[v]) \subseteq Keys
<1>1. keys[v] \in SUBSET Keys
  BY DEF TypeOK
<1>2. QED
  BY <1>1, ReachOwn

LEMMA NoReach ==
  ASSUME JobShape, NEW v \in Workers, pc[v] = "idle"
  PROVE  Reach(keys[v]) = {}
BY ReachOwn DEF JobShape, Shaped

\* A step takes keys off the raced ones only for a job that is alone on them.
LEMMA RacedKept ==
  ASSUME TypeOK, JobShape, [Next]_vars
  PROVE  \/ raced \subseteq raced'
         \/ \E w \in Workers : /\ alone[w] /\ Busy(w) /\ pc[w] \in {"update", "forget"}
                              /\ raced \ Reach(keys[w]) \subseteq raced'
<1>1. ASSUME NEW w \in Workers, Record(w)
      PROVE  \/ raced \subseteq raced'
             \/ /\ alone[w] /\ Busy(w) /\ pc[w] = "update"
                /\ raced \ Reach(keys[w]) \subseteq raced'
  <2>1. keys[w] = {Key(w)} /\ keys[w] \in SUBSET Keys /\ pc[w] = "update"
    BY <1>1, OneKey DEF Record, Downloads
  <2>2. gone'[w] \subseteq Reach(keys[w])
    BY <1>1, <2>1 DEF Record, Reach, TypeOK
  <2>3. raced' = (raced \ Settled(w, {Key(w)} \cup gone'[w])) \cup Overwritten(w)
    BY <1>1 DEF Record
  <2>4. {Key(w)} \cup gone'[w] \subseteq Reach(keys[w])
    BY <2>1, <2>2, ReachOwn
  <2>5. QED
    BY <2>1, <2>3, <2>4 DEF Settled, Busy
<1>2. ASSUME NEW w \in Workers, Forget(w)
      PROVE  \/ raced \subseteq raced'
             \/ /\ alone[w] /\ Busy(w) /\ pc[w] = "forget"
                /\ raced \ Reach(keys[w]) \subseteq raced'
  <2>1. keys[w] \subseteq Reach(keys[w])
    BY ReachKeys
  <2>2. QED
    BY <1>2, <2>1 DEF Forget, Settled, Busy
<1>3. ASSUME NEW w \in Workers, StartDownload(w) \/ StartClean(w)
      PROVE  raced \subseteq raced'
  BY <1>3 DEF StartDownload, StartClean, Start
<1>4. ASSUME NEW w \in Workers,
             \/ Fetch(w) \/ FetchFails(w) \/ Look(w) \/ MoveAside(w) \/ MoveAsideFails(w)
             \/ Install(w) \/ InstallFails(w) \/ Restore(w) \/ Tidy(w) \/ UpdateFails(w)
             \/ SweepZims(w) \/ SweepDevDocs(w) \/ Lock(w)
      PROVE  raced' = raced
  BY <1>4, Zenon DEF Fetch, FetchFails, Look, MoveAside, MoveAsideFails, Install,
     InstallFails, Restore, Tidy, UpdateFails, SweepZims, SweepDevDocs, Sweep, Lock,
     histVars
<1>5. ASSUME NEW p \in Procs, Crash(p) PROVE raced' = raced
  BY <1>5 DEF Crash
<1>6. CASE UNCHANGED vars
  BY <1>6 DEF vars, histVars
<1>7. QED
  BY <1>1, <1>2, <1>3, <1>4, <1>5, <1>6 DEF Next, Step

LEMMA InitExclusive == Init => Exclusive
BY DEF Init, Exclusive, Busy

\* The job of v goes on, or is over.
Continues(v) ==
    /\ keys'[v] = keys[v] /\ pc[v] # "idle" /\ (alone'[v] => alone[v])

LEMMA StepJobs ==
  ASSUME TypeOK, JobShape, [Next]_vars
  PROVE  \/ \E w \in Workers : StartDownload(w) \/ StartClean(w)
         \/ \A v \in Workers : pc'[v] # "idle" => Continues(v)
<1>1. ASSUME NEW v \in Workers, Kept(v), pc'[v] # "idle" PROVE Continues(v)
  BY <1>1 DEF Kept, Continues
<1>2. ASSUME NEW w \in Workers, Alive(w) PROVE Continues(w)
  <2>1. CASE Record(w)
    BY <2>1 DEF Record, Continues
  <2>2. CASE InstallFails(w) /\ ~Fails(w)
    BY <2>2 DEF InstallFails, Continues
  <2>3. CASE ~Record(w) /\ ~(InstallFails(w) /\ ~Fails(w))
    BY <1>2, <2>3, Zenon DEF Alive, Fetch, Look, MoveAside, Install, Lock,
       SweepZims, SweepDevDocs, Sweep, histVars, Continues
  <2>4. QED
    BY <1>2, <2>1, <2>2, <2>3 DEF Alive
<1>3. ASSUME NEW w \in Workers, Alive(w), NEW v \in Workers, pc'[v] # "idle"
      PROVE  Continues(v)
  BY <1>1, <1>2, <1>3, AliveKeeps
<1>4. ASSUME NEW W \in SUBSET Workers, Ending(W), NEW v \in Workers, pc'[v] # "idle"
      PROVE  Continues(v)
  <2>1. v \notin W
    BY <1>4, EndingKeeps DEF Ended
  <2>2. QED
    BY <1>1, <1>4, <2>1, EndingKeeps
<1>5. ASSUME UNCHANGED vars, NEW v \in Workers, pc'[v] # "idle" PROVE Continues(v)
  BY <1>5 DEF vars, jobVars, histVars, Continues
<1>6. \A w \in Workers : {w} \in SUBSET Workers
  OBVIOUS
<1>7. \A p \in Procs : {w \in Workers : ProcOf[w] = p} \in SUBSET Workers
  OBVIOUS
<1>8. QED
  BY <1>3, <1>4, <1>5, <1>6, <1>7, StepKinds

LEMMA StepExclusive ==
  ASSUME TypeOK, JobShape, Exclusive, [Next]_vars
  PROVE  Exclusive'
<1> SUFFICES ASSUME NEW u \in Workers, NEW v \in Workers, u # v,
                    pc'[u] # "idle", pc'[v] # "idle"
             PROVE  /\ Reach(keys'[u]) \cap Reach(keys'[v]) \subseteq raced'
                    /\ Reach(keys'[u]) \cap Reach(keys'[v]) # {} =>
                          ~alone'[u] /\ ~alone'[v]
  BY DEF Exclusive, Busy
<1>1. CASE \A w \in Workers : pc'[w] # "idle" => Continues(w)
  <2>1. Continues(u) /\ Continues(v)
    BY <1>1
  <2> DEFINE shared == Reach(keys[u]) \cap Reach(keys[v])
  <2>2. shared = Reach(keys'[u]) \cap Reach(keys'[v])
    BY <2>1 DEF Continues
  <2>3. shared \subseteq raced /\ (shared # {} => ~alone[u] /\ ~alone[v])
    BY <2>1 DEF Exclusive, Busy, Continues
  <2>4. shared \subseteq raced'
    <3>1. CASE raced \subseteq raced'
      BY <2>3, <3>1
    <3>2. ASSUME NEW w \in Workers, alone[w], Busy(w), raced \ Reach(keys[w]) \subseteq raced'
          PROVE  shared \subseteq raced'
      <4>1. ASSUME NEW k \in shared, k \in Reach(keys[w]) PROVE FALSE
        <5>1. w # u /\ w # v
          BY <2>3, <3>2, <4>1
        <5>2. Busy(u) /\ k \in Reach(keys[w]) \cap Reach(keys[u])
          BY <2>1, <4>1 DEF Continues, Busy
        <5>3. QED
          BY <3>2, <5>1, <5>2 DEF Exclusive
      <4>2. QED
        BY <2>3, <3>2, <4>1
    <3>3. QED
      BY <3>1, <3>2, RacedKept
  <2>5. QED
    BY <2>1, <2>2, <2>3, <2>4 DEF Continues
<1>2. ASSUME NEW w \in Workers, NEW S \in SUBSET Keys, NEW first, Start(w, S, first),
             NEW x \in Workers, NEW y \in Workers, x # y, x # w,
             pc'[x] # "idle", pc'[y] # "idle"
      PROVE  /\ Reach(keys'[x]) \cap Reach(keys'[y]) \subseteq raced'
             /\ Reach(keys'[x]) \cap Reach(keys'[y]) # {} => ~alone'[x] /\ ~alone'[y]
  <2> DEFINE rivals == {z \in Workers : Busy(z) /\ Reach(keys[z]) \cap Reach(S) # {}}
  <2>1. /\ keys'[w] = S /\ \A z \in Workers \ {w} : keys'[z] = keys[z] /\ pc'[z] = pc[z]
        /\ pc[w] = "idle"
    BY <1>2 DEF Start, TypeOK
  <2>2. /\ alone'[w] = (rivals = {})
        /\ \A z \in Workers \ {w} : alone'[z] = (alone[z] /\ z \notin rivals)
    BY <1>2 DEF Start
  <2>3. raced' = raced \cup UNION {Reach(keys[z]) \cap Reach(S) : z \in rivals}
    BY <1>2 DEF Start
  <2>4. Busy(x)
    BY <1>2, <2>1 DEF Busy
  <2>5. CASE y = w
    <3>1. CASE Reach(keys[x]) \cap Reach(S) = {}
      BY <1>2, <2>1, <2>5, <3>1
    <3>2. CASE Reach(keys[x]) \cap Reach(S) # {}
      <4>1. x \in rivals
        BY <2>4, <3>2
      <4>2. Reach(keys[x]) \cap Reach(S) \subseteq raced'
        BY <2>3, <4>1
      <4> HIDE DEF rivals
      <4>3. ~alone'[x] /\ ~alone'[y]
        BY <1>2, <2>2, <2>5, <4>1
      <4>4. QED
        BY <1>2, <2>1, <2>5, <4>2, <4>3
    <3>3. QED
      BY <3>1, <3>2
  <2>6. CASE y # w
    <3>1. Busy(y)
      BY <1>2, <2>1, <2>6 DEF Busy
    <3>2. /\ Reach(keys[x]) \cap Reach(keys[y]) \subseteq raced
          /\ Reach(keys[x]) \cap Reach(keys[y]) # {} => ~alone[x] /\ ~alone[y]
      BY <1>2, <2>4, <3>1 DEF Exclusive
    <3> HIDE DEF rivals
    <3>3. raced \subseteq raced' /\ (~alone[x] => ~alone'[x]) /\ (~alone[y] => ~alone'[y])
      BY <1>2, <2>2, <2>3, <2>6
    <3>4. keys'[x] = keys[x] /\ keys'[y] = keys[y]
      BY <1>2, <2>1, <2>6
    <3>5. QED
      BY <3>2, <3>3, <3>4
  <2>7. QED
    BY <2>5, <2>6
<1>3. ASSUME NEW w \in Workers, StartDownload(w) \/ StartClean(w)
      PROVE  /\ Reach(keys'[u]) \cap Reach(keys'[v]) \subseteq raced'
             /\ Reach(keys'[u]) \cap Reach(keys'[v]) # {} => ~alone'[u] /\ ~alone'[v]
  <2>1. PICK S \in SUBSET Keys, first \in {"fetch", "clean"} : Start(w, S, first)
    BY <1>3, StartForms
  <2>2. CASE u # w
    BY <1>2, <2>1, <2>2
  <2>3. CASE u = w
    BY <1>2, <2>1, <2>3
  <2>4. QED
    BY <2>2, <2>3
<1>4. QED
  BY <1>1, <1>3, StepJobs

-----------------------------------------------------------------------------
(* What was loaded under the mutex, and the releases of an archive. *)

\* Everything but Record and Forget leaves the manifest and the raced keys, and
\* loads it or leaves what was loaded.
LEMMA ManifestSteps ==
  ASSUME TypeOK, [Next]_vars
  PROVE  \/ \E w \in Workers : Record(w) \/ Forget(w)
         \/ /\ manifest' = manifest /\ raced \subseteq raced'
            /\ \A v \in Workers : pc'[v] \in Loaded =>
                  \/ loaded'[v] = manifest
                  \/ pc[v] \in Loaded /\ loaded'[v] = loaded[v] /\ (stale[v] => stale'[v])
<1> DEFINE Same(v) == pc'[v] \in Loaded =>
              \/ loaded'[v] = manifest
              \/ pc[v] \in Loaded /\ loaded'[v] = loaded[v] /\ (stale[v] => stale'[v])
<1>1. ASSUME NEW W \in SUBSET Workers, Over(W, stale), NEW v \in Workers PROVE Same(v)
  <2>1. CASE v \in W
    BY <1>1, <2>1, OverKeeps DEF Ended, Loaded
  <2>2. CASE v \notin W
    <3>1. Kept(v) /\ stale'[v] = stale[v]
      BY <1>1, <2>2, OverKeeps
    <3>2. QED
      BY <3>1 DEF Kept
  <2>3. QED
    BY <2>1, <2>2
<1>2. ASSUME NEW w \in Workers, StartDownload(w) \/ StartClean(w)
      PROVE  /\ manifest' = manifest /\ raced \subseteq raced'
             /\ \A v \in Workers : Same(v)
  <2>1. PICK S \in SUBSET Keys, first \in {"fetch", "clean"} : Start(w, S, first)
    BY <1>2, StartForms
  <2>2. QED
    BY <2>1 DEF Start, diskVars, TypeOK, Loaded
<1>3. ASSUME NEW w \in Workers, Step(w) \/ Lock(w), ~Record(w), ~Forget(w)
      PROVE  /\ manifest' = manifest /\ raced' = raced
             /\ \A v \in Workers : Same(v)
  <2>1. \/ Fails(w)
        \/ Over({w}, stale)
        \/ Alive(w) /\ ~(Record(w) \/ Forget(w))
    BY <1>3, Zenon DEF Step, Alive, FetchFails, MoveAsideFails, Restore, Tidy, UpdateFails
  <2>2. manifest' = manifest /\ raced' = raced
    BY <1>3, Zenon DEF Step, Fetch, FetchFails, Look, MoveAside, MoveAsideFails, Install,
       InstallFails, Restore, Tidy, UpdateFails, SweepZims, SweepDevDocs, Sweep, Lock,
       histVars, diskVars
  <2>3. CASE Fails(w) \/ Over({w}, stale)
    <3>1. Over({w}, stale) /\ {w} \in SUBSET Workers
      BY <2>3 DEF Fails
    <3>2. QED
      BY <1>1, <2>2, <3>1
  <2>4. CASE Alive(w) /\ ~Fails(w)
    <3>1. ASSUME NEW v \in Workers, v # w PROVE Same(v)
      <4>1. pc'[v] = pc[v] /\ loaded'[v] = loaded[v]
        BY <2>4, <3>1, AliveKeeps DEF Kept
      <4>2. stale' = stale
        BY <1>3, <2>4, Zenon DEF Alive, Fetch, Look, MoveAside, Install, InstallFails, Lock,
           SweepZims, SweepDevDocs, Sweep
      <4>3. QED
        BY <4>1, <4>2
    <3>2. Same(w)
      <4>1. CASE Lock(w)
        BY <4>1 DEF Lock, TypeOK
      <4>2. CASE SweepZims(w) \/ SweepDevDocs(w)
        BY <4>2 DEF SweepZims, SweepDevDocs, Sweep, Loaded
      <4>3. CASE Fetch(w) \/ Look(w) \/ MoveAside(w) \/ Install(w) \/ InstallFails(w)
        <5>1. pc' = [pc EXCEPT ![w] = pc'[w]] /\ pc'[w] \in {"look", "aside", "install", "wait", "restore"}
          BY <2>4, <4>3 DEF Fetch, Look, MoveAside, Install, InstallFails, Goes, TypeOK
        <5>2. QED
          BY <5>1 DEF Loaded
      <4>4. QED
        BY <1>3, <2>4, <4>1, <4>2, <4>3 DEF Alive
    <3>3. QED
      BY <2>2, <3>1, <3>2
  <2>5. QED
    BY <2>1, <2>3, <2>4
<1>4. ASSUME NEW p \in Procs, Crash(p)
      PROVE  /\ manifest' = manifest /\ raced' = raced
             /\ \A v \in Workers : Same(v)
  <2> DEFINE W == {w \in Workers : ProcOf[w] = p}
  <2>1. Over(W, stale) /\ W \in SUBSET Workers /\ manifest' = manifest /\ raced' = raced
    BY <1>4 DEF Crash
  <2> HIDE DEF W, Same
  <2>2. QED
    BY <1>1, <2>1
<1>5. ASSUME UNCHANGED vars
      PROVE  /\ manifest' = manifest /\ raced' = raced
             /\ \A v \in Workers : Same(v)
  BY <1>5 DEF vars, diskVars, jobVars, histVars
<1> HIDE DEF Same
<1>6. \/ \E w \in Workers : Record(w) \/ Forget(w)
      \/ manifest' = manifest /\ raced \subseteq raced' /\ \A v \in Workers : Same(v)
  <2>1. raced' = raced => raced \subseteq raced'
    OBVIOUS
  <2>2. QED
    BY <1>2, <1>3, <1>4, <1>5, <2>1, Zenon DEF Next, Step
<1>7. QED
  BY <1>6 DEF Same

\* What a saving step makes of the manifest: outside of the keys it is about it
\* changes only what another process saved since the load.
LEMMA RecordSaves ==
  ASSUME TypeOK, JobShape, Lent, LoadedCurrent, NEW w \in Workers, Record(w)
  PROVE  /\ Key(w) \in Keys /\ keys[w] = {Key(w)} /\ Reach(keys[w]) = Family(Key(w))
         /\ manifest'[Key(w)] = got[w]
         /\ \A j \in Family(Key(w)) \ {Key(w)} : manifest'[j] = 0
         /\ \A j \in Keys \ Family(Key(w)) : j \in raced' \/ manifest'[j] = manifest[j]
         /\ gone'[w] = {j \in Family(Key(w)) \ {Key(w)} : loaded[w][j] # 0}
         /\ \A j \in Keys : j \in raced' \/ loaded[w][j] = manifest[j]
         /\ \A j \in raced \ ({Key(w)} \cup gone'[w]) : j \in raced'
         /\ alone[w] \/ raced \subseteq raced'
<1>1. Key(w) \in Keys /\ keys[w] = {Key(w)} /\ pc[w] = "update"
  BY OneKey DEF Record, Downloads
<1>2. Reach(keys[w]) = Family(Key(w)) /\ Key(w) \in Family(Key(w))
  BY <1>1 DEF Reach, Family
<1>3. manifest' = Recorded(loaded[w], Key(w), got[w])
  BY DEF Record, Save
<1>4. gone'[w] = {j \in Family(Key(w)) \ {Key(w)} : loaded[w][j] # 0}
  BY DEF Record, TypeOK
<1>5. raced' = (raced \ Settled(w, {Key(w)} \cup gone'[w])) \cup Overwritten(w)
  BY DEF Record
<1>6. ASSUME NEW j \in Keys, j \notin raced' PROVE loaded[w][j] = manifest[j]
  BY <1>1, <1>5, <1>6 DEF Overwritten, LoadedCurrent, Loaded
<1>7. ASSUME NEW j \in Keys
      PROVE  manifest'[j] = IF j = Key(w) THEN got[w]
                            ELSE IF j \in Family(Key(w)) THEN 0 ELSE loaded[w][j]
  BY <1>3 DEF Recorded
<1>8. Family(Key(w)) \subseteq Keys
  BY DEF Family
<1>9. QED
  BY <1>1, <1>2, <1>4, <1>5, <1>6, <1>7, <1>8 DEF Settled

LEMMA ForgetSaves ==
  ASSUME TypeOK, LoadedCurrent, NEW w \in Workers, Forget(w)
  PROVE  /\ \A j \in keys[w] : manifest'[j] = 0
         /\ \A j \in Keys \ keys[w] : j \in raced' \/ manifest'[j] = manifest[j]
         /\ raced \ keys[w] \subseteq raced' /\ (alone[w] \/ raced \subseteq raced')
         /\ torn \ keys[w] \subseteq torn' /\ (alone[w] \/ torn' = torn)
<1>1. pc[w] \in Loaded /\ keys[w] \subseteq Keys
  BY DEF Forget, Loaded, TypeOK
<1>2. raced' = (raced \ Settled(w, keys[w])) \cup Overwritten(w)
  BY DEF Forget
<1>3. ASSUME NEW j \in Keys, j \notin raced' PROVE loaded[w][j] = manifest[j]
  BY <1>1, <1>2, <1>3 DEF Overwritten, LoadedCurrent
<1>4. ASSUME NEW j \in Keys
      PROVE  manifest'[j] = IF j \in keys[w] THEN 0 ELSE loaded[w][j]
  BY DEF Forget, Save
<1>5. torn' = torn \ Settled(w, keys[w])
  BY DEF Forget
<1>6. QED
  BY <1>1, <1>2, <1>3, <1>4, <1>5 DEF Settled

LEMMA StepLoaded ==
  ASSUME TypeOK, Lent, LoadedCurrent, [Next]_vars
  PROVE  LoadedCurrent'
<1>1. ASSUME NEW w \in Workers, pc[w] \in Loaded, NEW v \in Workers, v # w,
             pc[v] \in Loaded
      PROVE  Outdated(w)[v]
  BY <1>1 DEF Lent, Outdated
<1>2. ASSUME NEW w \in Workers, Record(w) PROVE LoadedCurrent'
  <2>1. /\ pc'[w] = "tidy" /\ \A v \in Workers \ {w} : pc'[v] = pc[v]
        /\ pc[w] = "update"
    BY <1>2 DEF Record, Goes, TypeOK
  <2>2. \A v \in Workers \ {w} : stale'[v] = Outdated(w)[v]
    BY <1>2 DEF Record, Outdated
  <2>3. QED
    BY <1>1, <2>1, <2>2 DEF LoadedCurrent, Loaded
<1>3. ASSUME NEW w \in Workers, Forget(w) PROVE LoadedCurrent'
  <2>1. Over({w}, Outdated(w)) /\ {w} \in SUBSET Workers /\ pc[w] = "forget"
    BY <1>3 DEF Forget
  <2>2. /\ pc'[w] = "idle" /\ \A v \in Workers \ {w} : pc'[v] = pc[v]
        /\ \A v \in Workers \ {w} : stale'[v] = Outdated(w)[v]
    <3>1. /\ Ended(w) /\ \A v \in Workers \ {w} : Kept(v)
          /\ \A v \in Workers \ {w} : stale'[v] = Outdated(w)[v]
      BY <2>1, OverKeeps
    <3>2. QED
      BY <3>1 DEF Ended, Kept
  <2>3. QED
    BY <1>1, <2>1, <2>2 DEF LoadedCurrent, Loaded
<1>4. CASE ~\E w \in Workers : Record(w) \/ Forget(w)
  BY <1>4, ManifestSteps DEF LoadedCurrent
<1>5. QED
  BY <1>2, <1>3, <1>4

LEMMA StepSingle ==
  ASSUME TypeOK, JobShape, ManifestSingle, [Next]_vars
  PROVE  ManifestSingle'
<1>1. ASSUME NEW w \in Workers, Record(w) PROVE ManifestSingle'
  <2>1. OneEach(loaded[w]) /\ Key(w) \in Keys
    BY <1>1, OneKey DEF Record, ManifestSingle, Loaded, Downloads
  <2>2. manifest' = Recorded(loaded[w], Key(w), got[w])
    BY <1>1 DEF Record, Save
  <2>3. \A j \in Keys : manifest'[j] = IF j = Key(w) THEN got[w]
                                       ELSE IF j \in Family(Key(w)) THEN 0 ELSE loaded[w][j]
    BY <2>2 DEF Recorded
  <2>4. OneEach(manifest')
    BY <2>1, <2>3 DEF OneEach, Family
  <2>5. /\ pc'[w] = "tidy"
        /\ \A v \in Workers \ {w} : pc'[v] = pc[v] /\ loaded'[v] = loaded[v]
    BY <1>1 DEF Record, Goes, TypeOK
  <2>6. \A v \in Workers : pc'[v] \in Loaded => OneEach(loaded'[v])
    BY <2>5 DEF ManifestSingle, Loaded
  <2>7. QED
    BY <2>4, <2>6 DEF ManifestSingle, OneEach
<1>2. ASSUME NEW w \in Workers, Forget(w) PROVE ManifestSingle'
  <2>1. OneEach(loaded[w])
    BY <1>2 DEF Forget, ManifestSingle, Loaded
  <2>2. \A j \in Keys : manifest'[j] = IF j \in keys[w] THEN 0 ELSE loaded[w][j]
    BY <1>2 DEF Forget, Save
  <2>3. OneEach(manifest')
    BY <2>1, <2>2 DEF OneEach
  <2>4. Over({w}, Outdated(w)) /\ {w} \in SUBSET Workers
    BY <1>2 DEF Forget
  <2>5. Ended(w) /\ \A v \in Workers \ {w} : Kept(v)
    BY <2>4, OverKeeps
  <2>6. \A v \in Workers : pc'[v] \in Loaded => OneEach(loaded'[v])
    BY <2>5 DEF ManifestSingle, Loaded, Ended, Kept
  <2>7. QED
    BY <2>3, <2>6 DEF ManifestSingle, OneEach
<1>3. CASE ~\E w \in Workers : Record(w) \/ Forget(w)
  <2>1. /\ manifest' = manifest
        /\ \A v \in Workers : pc'[v] \in Loaded =>
              loaded'[v] = manifest \/ (pc[v] \in Loaded /\ loaded'[v] = loaded[v])
    BY <1>3, ManifestSteps
  <2>2. QED
    BY <2>1 DEF ManifestSingle, OneEach
<1>4. QED
  BY <1>1, <1>2, <1>3

-----------------------------------------------------------------------------
(* What a job may disturb. *)

\* The step is one of u's job, on its own keys.
Moves(u) ==
    /\ pc[u] # "idle"
    /\ \A v \in Workers \ {u} :
          Kept(v) /\ (keys[v] \cap keys[u] = {} => backup'[v] = backup[v])
    /\ \A j \in Keys \ Reach(keys[u]) :
          place'[j] = place[j] /\ (j \in raced' \/ manifest'[j] = manifest[j])
    /\ raced \ Reach(keys[u]) \subseteq raced' /\ (alone[u] \/ raced \subseteq raced')
    /\ torn \ Reach(keys[u]) \subseteq torn' /\ (alone[u] \/ torn \subseteq torn')

\* Nothing that is installed or recorded changes, though jobs may end.
Still ==
    /\ place' = place /\ manifest' = manifest /\ raced' = raced /\ torn \subseteq torn'
    /\ \A v \in Workers : \/ Ended(v) /\ Apart(v) \subseteq torn'
                          \/ Kept(v) /\ backup'[v] = backup[v]

LEMMA AliveMoves ==
  ASSUME TypeOK, JobShape, Lent, LoadedCurrent, NEW w \in Workers, Alive(w)
  PROVE  Moves(w)
<1>1. \A v \in Workers \ {w} : Kept(v)
  BY AliveKeeps
<1>2. keys[w] \subseteq Reach(keys[w])
  BY ReachKeys
<1>3. ASSUME pc[w] # "idle", manifest' = manifest, UNCHANGED <<raced, torn>>,
             \A j \in Keys \ keys[w] : place'[j] = place[j],
             \A v \in Workers \ {w} : keys[v] \cap keys[w] = {} => backup'[v] = backup[v]
      PROVE  Moves(w)
  BY <1>1, <1>2, <1>3 DEF Moves
<1>4. CASE Fetch(w)
  BY <1>3, <1>4 DEF Fetch, histVars
<1>5. CASE Look(w)
  BY <1>3, <1>5 DEF Look, diskVars, histVars
<1>6. CASE MoveAside(w) \/ Install(w)
  <2>1. keys[w] = {Key(w)} /\ Key(w) \in Keys
    BY <1>6, OneKey DEF MoveAside, Install, Downloads
  <2>2. \A j \in Keys \ keys[w] : place'[j] = place[j]
    BY <1>6, <2>1 DEF MoveAside, Install, TypeOK
  <2>3. \A v \in Workers \ {w} : backup'[v] = backup[v]
    BY <1>6 DEF MoveAside, Install, TypeOK
  <2>4. QED
    BY <1>3, <1>6, <2>2, <2>3 DEF MoveAside, Install, histVars
<1>7. CASE InstallFails(w) /\ ~Fails(w)
  BY <1>3, <1>7 DEF InstallFails
<1>8. CASE Lock(w)
  BY <1>3, <1>8 DEF Lock, diskVars, histVars
<1>9. CASE Record(w)
  <2>1. pc[w] # "idle" /\ UNCHANGED <<place, backup, torn>>
    BY <1>9 DEF Record
  <2>2. gone'[w] \subseteq Reach(keys[w])
    BY <1>9, RecordSaves
  <2>3. QED
    BY <1>1, <1>2, <1>9, <2>1, <2>2, RecordSaves DEF Moves
<1>10. ASSUME NEW S, S \subseteq keys[w], NEW from, from # "idle", NEW to, Sweep(w, S, from, to)
       PROVE  Moves(w)
  <2>1. \A v \in Workers \ {w} : keys[v] \cap keys[w] = {} => backup'[v] = backup[v]
    BY <1>10 DEF Sweep
  <2>2. \A j \in Keys \ keys[w] : place'[j] = place[j]
    BY <1>10 DEF Sweep
  <2>3. QED
    BY <1>3, <1>10, <2>1, <2>2 DEF Sweep, histVars
<1>11. CASE SweepZims(w) \/ SweepDevDocs(w)
  BY <1>10, <1>11 DEF SweepZims, SweepDevDocs
<1>12. QED
  BY <1>4, <1>5, <1>6, <1>7, <1>8, <1>9, <1>11, Zenon DEF Alive

LEMMA StepEnds ==
  ASSUME NEW w \in Workers, Step(w), ~Alive(w)
  PROVE  Ending({w})
<1>1. Fails(w) => Over({w}, stale)
  BY DEF Fails
<1>2. QED
  BY <1>1, Zenon DEF Step, Alive, Ending, FetchFails, MoveAsideFails, Restore, Tidy,
     UpdateFails

LEMMA EndMoves ==
  ASSUME TypeOK, JobShape, Lent, LoadedCurrent, NEW w \in Workers, Step(w), Ending({w})
  PROVE  Moves(w)
<1>1. /\ \A v \in Workers \ {w} : Kept(v) /\ backup'[v] = backup[v]
      /\ Ended(w)
  <2>1. {w} \in SUBSET Workers
    OBVIOUS
  <2>2. QED
    BY <2>1, EndingKeeps
<1>2. keys[w] \subseteq Reach(keys[w])
  BY ReachKeys
<1>3. ASSUME pc[w] # "idle", manifest' = manifest, raced' = raced,
             torn \ Reach(keys[w]) \subseteq torn', alone[w] \/ torn \subseteq torn',
             \A j \in Keys \ Reach(keys[w]) : place'[j] = place[j]
      PROVE  Moves(w)
  BY <1>1, <1>3 DEF Moves
<1>4. ASSUME Fails(w) PROVE torn \subseteq torn'
  BY <1>4 DEF Fails
<1>5. CASE FetchFails(w) \/ MoveAsideFails(w) \/ UpdateFails(w)
  BY <1>3, <1>4, <1>5 DEF FetchFails, MoveAsideFails, UpdateFails, Loaded
<1>6. CASE InstallFails(w) /\ Fails(w)
  BY <1>3, <1>4, <1>6 DEF InstallFails
<1>7. CASE Restore(w)
  <2>1. Key(w) \in keys[w] /\ Key(w) \in Keys
    BY <1>7, OneKey DEF Restore, Downloads
  <2>2. \A j \in Keys \ keys[w] : place'[j] = place[j]
    BY <1>7, <2>1 DEF Restore, TypeOK
  <2>3. torn \subseteq torn' /\ manifest' = manifest /\ raced' = raced /\ pc[w] # "idle"
    BY <1>4, <1>7 DEF Restore
  <2>4. QED
    BY <1>2, <1>3, <2>2, <2>3
<1>8. CASE Tidy(w)
  <2>1. gone[w] \subseteq Reach(keys[w])
    BY DEF JobShape, Shaped
  <2>2. \A j \in Keys \ Reach(keys[w]) : place'[j] = place[j]
    BY <1>8, <2>1 DEF Tidy
  <2>3. torn \ Reach(keys[w]) \subseteq torn' /\ (alone[w] \/ torn \subseteq torn')
    BY <1>2, <1>8, <2>1 DEF Tidy, Settled
  <2>4. QED
    BY <1>3, <1>8, <2>2, <2>3 DEF Tidy
<1>9. CASE Forget(w)
  <2>1. pc[w] # "idle" /\ place' = place
    BY <1>9 DEF Forget
  <2>2. QED
    BY <1>1, <1>2, <1>9, <2>1, ForgetSaves DEF Moves
<1>10. CASE Alive(w)
  BY <1>10, AliveMoves
<1>11. QED
  BY <1>5, <1>6, <1>7, <1>8, <1>9, <1>10, Zenon DEF Step, Alive

LEMMA NextMoves ==
  ASSUME TypeOK, JobShape, Lent, LoadedCurrent, [Next]_vars
  PROVE  \/ \E w \in Workers : StartDownload(w) \/ StartClean(w)
         \/ \E w \in Workers : Moves(w) /\ (Alive(w) \/ (Step(w) /\ Ended(w)))
         \/ Still
<1>1. ASSUME NEW w \in Workers, Step(w) \/ Lock(w)
      PROVE  Moves(w) /\ (Alive(w) \/ (Step(w) /\ Ended(w)))
  <2>1. CASE Alive(w)
    <3>1. Moves(w)
      BY <2>1, AliveMoves
    <3>2. QED
      BY <2>1, <3>1
  <2>2. CASE ~Alive(w)
    <3>1. Step(w)
      BY <1>1, <2>2 DEF Alive
    <3>2. Ending({w}) /\ {w} \in SUBSET Workers
      BY <2>2, <3>1, StepEnds
    <3>3. QED
      BY <3>1, <3>2, EndMoves, EndingKeeps
  <2>3. QED
    BY <2>1, <2>2
<1>2. ASSUME NEW p \in Procs, Crash(p) PROVE Still
  <2> DEFINE W == {w \in Workers : ProcOf[w] = p}
  <2>1. /\ Over(W, stale) /\ W \in SUBSET Workers /\ torn \subseteq torn'
        /\ UNCHANGED <<place, manifest, raced>> /\ \A v \in W : Apart(v) \subseteq torn'
    BY <1>2 DEF Crash
  <2> HIDE DEF W
  <2>2. /\ \A v \in W : Ended(v)
        /\ \A v \in Workers \ W : Kept(v) /\ backup'[v] = backup[v]
    BY <2>1, OverKeeps
  <2>3. \A v \in Workers : \/ Ended(v) /\ Apart(v) \subseteq torn'
                           \/ Kept(v) /\ backup'[v] = backup[v]
    BY <2>1, <2>2
  <2>4. QED
    BY <2>1, <2>3 DEF Still
<1>3. CASE UNCHANGED vars
  BY <1>3 DEF vars, diskVars, jobVars, histVars, Still, Kept
<1>4. QED
  BY <1>1, <1>2, <1>3 DEF Next

\* A job leaves the keys of an alone job, and the keys that are not raced.
LEMMA Undisturbed ==
  ASSUME TypeOK, Exclusive, NEW u \in Workers, Moves(u), NEW v \in Workers, v # u,
         pc[v] # "idle"
  PROVE  /\ \A j \in Reach(keys[v]) : alone[v] \/ j \notin raced' => place'[j] = place[j]
         /\ \A j \in Reach(keys[v]) \ raced' :
               j \notin raced /\ manifest'[j] = manifest[j] /\ (j \in torn => j \in torn')
         /\ \A k : keys[v] = {k} /\ (alone[v] \/ k \notin raced') => backup'[v] = backup[v]
<1> DEFINE shared == Reach(keys[v]) \cap Reach(keys[u])
<1>1. shared \subseteq raced /\ (shared # {} => ~alone[v] /\ ~alone[u])
  BY DEF Exclusive, Busy, Moves
<1>2. shared \subseteq raced'
  <2>1. alone[u] \/ raced \subseteq raced'
    BY DEF Moves
  <2> HIDE DEF shared
  <2>2. QED
    BY <1>1, <2>1
<1>3. /\ Reach(keys[v]) \subseteq Keys /\ keys[v] \subseteq Reach(keys[v])
      /\ keys[u] \subseteq Reach(keys[u])
  BY ReachKeys
<1>4. ASSUME NEW j \in Reach(keys[v]), alone[v] \/ j \notin raced'
      PROVE  j \in Keys \ Reach(keys[u])
  BY <1>1, <1>2, <1>3, <1>4
<1> HIDE DEF shared
<1>5. \A j \in Reach(keys[v]) : alone[v] \/ j \notin raced' => place'[j] = place[j]
  BY <1>4 DEF Moves
<1>6. ASSUME NEW j \in Reach(keys[v]), j \notin raced'
      PROVE  j \notin raced /\ manifest'[j] = manifest[j] /\ (j \in torn => j \in torn')
  BY <1>4, <1>6 DEF Moves
<1>7. ASSUME NEW k, keys[v] = {k}, alone[v] \/ k \notin raced' PROVE backup'[v] = backup[v]
  <2>1. k \in Reach(keys[v])
    BY <1>3, <1>7
  <2>2. k \notin Reach(keys[u])
    BY <1>4, <1>7, <2>1
  <2>3. keys[v] \cap keys[u] = {}
    BY <1>3, <1>7, <2>2
  <2>4. QED
    BY <2>3 DEF Moves
<1>8. QED
  BY <1>5, <1>6, <1>7

-----------------------------------------------------------------------------
(* The set a download is to replace. *)

LEMMA InitAside == Init => \A w \in Workers : Aside(w)
BY DEF Init, Aside

\* The step is a start of w's job.
LEMMA StartFacts ==
  ASSUME TypeOK, NEW w \in Workers, NEW S \in SUBSET Keys,
         NEW first \in {"fetch", "clean"}, Start(w, S, first)
  PROVE  /\ pc[w] = "idle" /\ pc'[w] = first /\ keys'[w] = S /\ gone' = gone /\ torn' = torn
         /\ raced \subseteq raced' /\ UNCHANGED <<place, manifest, stage, backup>>
         /\ \A v \in Workers \ {w} : Kept(v)
         /\ \A k \in S : before'[w][k] = place[k]
         /\ \A v \in Workers : pc[v] # "idle" => Reach(keys[v]) \cap Reach(S) \subseteq raced'
<1>1. \A v \in Workers \ {w} : Kept(v)
  BY StartKeeps
<1>2. ASSUME NEW k \in S PROVE before'[w][k] = place[k]
  BY <1>2 DEF Start, TypeOK
<1>3. ASSUME NEW v \in Workers, pc[v] # "idle"
      PROVE  Reach(keys[v]) \cap Reach(S) \subseteq raced'
  <2> DEFINE rivals == {z \in Workers : Busy(z) /\ Reach(keys[z]) \cap Reach(S) # {}}
  <2>1. raced' = raced \cup UNION {Reach(keys[z]) \cap Reach(S) : z \in rivals}
    BY DEF Start
  <2>2. CASE v \in rivals
    BY <2>1, <2>2
  <2>3. CASE v \notin rivals
    BY <1>3, <2>3 DEF Busy
  <2>4. QED
    BY <2>2, <2>3
<1>4. pc[w] = "idle" /\ pc'[w] = first /\ keys'[w] = S
  BY DEF Start, TypeOK
<1>5. /\ UNCHANGED <<place, manifest, stage, backup, gone, torn>>
      /\ raced \subseteq raced'
  BY DEF Start, diskVars
<1>6. QED
  BY <1>1, <1>2, <1>3, <1>4, <1>5

LEMMA KeptAside ==
  ASSUME NEW v \in Workers, Kept(v), Aside(v),
         alone[v] /\ pc[v] # "idle" => \A k \in keys[v] : place'[k] = place[k],
         alone[v] /\ pc[v] \in {"install", "restore"} => backup'[v] = backup[v]
  PROVE  Aside(v)'
BY DEF Kept, Aside

LEMMA AliveAside ==
  ASSUME TypeOK, JobShape, NEW w \in Workers, Alive(w), Aside(w)
  PROVE  Aside(w)'
<1>0. Shaped(w)
  BY DEF JobShape
<1>1. \A k \in Keys : keys[w] = {k} => Key(w) = k
  BY DEF Key
<1>2. CASE Fetch(w)
  <2>1. pc[w] = "fetch" /\ pc'[w] \in {"look", "install"} /\ backup[w] = 0
    BY <1>0, <1>2 DEF Fetch, Goes, TypeOK, Shaped
  <2>2. UNCHANGED <<place, backup, keys, before, alone>>
    BY <1>2 DEF Fetch, histVars
  <2>3. QED
    BY <2>1, <2>2 DEF Aside
<1>3. CASE Look(w)
  <2>1. pc[w] = "look" /\ pc'[w] \in {"aside", "install"} /\ backup[w] = 0
    BY <1>0, <1>3 DEF Look, Goes, TypeOK, Shaped
  <2>2. UNCHANGED <<place, backup, keys, before, alone>>
    BY <1>3 DEF Look, histVars, diskVars
  <2>3. QED
    BY <2>1, <2>2 DEF Aside
<1>4. CASE MoveAside(w)
  <2>1. pc[w] = "aside" /\ pc'[w] = "install" /\ UNCHANGED <<keys, before, alone>>
    BY <1>4 DEF MoveAside, Goes, TypeOK, histVars
  <2>2. keys[w] = {Key(w)} /\ Key(w) \in Keys
    BY <2>1, OneKey DEF Downloads
  <2>3. backup'[w] = place[Key(w)] /\ place'[Key(w)] = 0 /\ place[Key(w)] # 0
    BY <1>4, <2>2 DEF MoveAside, TypeOK
  <2>4. QED
    BY <2>1, <2>2, <2>3 DEF Aside
<1>5. CASE Install(w)
  <2>1. pc[w] = "install" /\ pc'[w] = "wait" /\ keys' = keys
    BY <1>5 DEF Install, Goes, TypeOK
  <2>2. keys[w] = {Key(w)} /\ Key(w) \in Keys
    BY <2>1, OneKey DEF Downloads
  <2>3. place'[Key(w)] # 0
    BY <1>5, <2>2 DEF Install, TypeOK
  <2>4. QED
    BY <2>1, <2>2, <2>3 DEF Aside
<1>6. CASE InstallFails(w) /\ ~Fails(w)
  <2>1. /\ pc[w] = "install" /\ pc'[w] = "restore" /\ backup[w] # 0
        /\ UNCHANGED <<place, backup, keys, before, alone>>
    BY <1>6 DEF InstallFails, Goes, TypeOK
  <2>2. QED
    BY <2>1 DEF Aside
<1>7. CASE Lock(w) \/ Record(w)
  <2>1. /\ pc'[w] \in {"update", "tidy", "zims"} /\ UNCHANGED <<place, keys, alone>>
        /\ pc'[w] # "zims" => pc[w] \in {"wait", "update"}
    BY <1>7 DEF Lock, Record, Goes, TypeOK, diskVars, histVars
  <2>2. QED
    BY <2>1 DEF Aside
<1>8. CASE SweepZims(w) \/ SweepDevDocs(w)
  <2>1. pc'[w] \in {"devdocs", "forget"}
    BY <1>8 DEF SweepZims, SweepDevDocs, Sweep, Goes, TypeOK
  <2>2. QED
    BY <2>1 DEF Aside
<1>9. QED
  BY <1>2, <1>3, <1>4, <1>5, <1>6, <1>7, <1>8, Zenon DEF Alive

LEMMA StepAside ==
  ASSUME TypeOK, JobShape, Lent, LoadedCurrent, Exclusive, \A w \in Workers : Aside(w),
         [Next]_vars, NEW v \in Workers
  PROVE  Aside(v)'
<1>1. ASSUME pc'[v] \in {"idle", "clean"} PROVE Aside(v)'
  BY <1>1 DEF Aside
<1>2. ASSUME NEW w \in Workers, StartDownload(w) \/ StartClean(w) PROVE Aside(v)'
  <2>1. PICK S \in SUBSET Keys, first \in {"fetch", "clean"} : Start(w, S, first)
    BY <1>2, StartForms
  <2>2. CASE v = w
    BY <1>1, <2>1, <2>2, StartFacts DEF Aside
  <2>3. CASE v # w
    BY <2>1, <2>3, StartFacts, KeptAside
  <2>4. QED
    BY <2>2, <2>3
<1>3. ASSUME NEW u \in Workers, Moves(u), v # u PROVE Aside(v)'
  <2>1. Kept(v)
    BY <1>3 DEF Moves
  <2>2. CASE pc[v] = "idle"
    BY <1>1, <2>1, <2>2 DEF Kept
  <2>3. CASE pc[v] # "idle"
    <3>1. keys[v] \subseteq Reach(keys[v])
      BY ReachKeys
    <3>2. alone[v] => \A k \in keys[v] : place'[k] = place[k]
      BY <1>3, <2>3, <3>1, Undisturbed
    <3>3. alone[v] /\ pc[v] \in {"install", "restore"} => backup'[v] = backup[v]
      <4>1. pc[v] \in {"install", "restore"} => keys[v] = {Key(v)}
        BY OneKey DEF Downloads
      <4>2. QED
        BY <1>3, <2>3, <4>1, Undisturbed
    <3>4. QED
      BY <2>1, <3>2, <3>3, KeptAside
  <2>4. QED
    BY <2>2, <2>3
<1>4. ASSUME NEW u \in Workers, Alive(u) \/ (Step(u) /\ Ended(u)), v = u PROVE Aside(v)'
  BY <1>1, <1>4, AliveAside DEF Ended
<1>5. CASE Still
  <2>1. CASE Ended(v)
    BY <1>1, <2>1 DEF Ended
  <2>2. CASE Kept(v) /\ backup'[v] = backup[v]
    BY <1>5, <2>2, KeptAside DEF Still
  <2>3. QED
    BY <1>5, <2>1, <2>2 DEF Still
<1>6. QED
  BY <1>2, <1>3, <1>4, <1>5, NextMoves

\* A job that a step ends without a fault, before it has installed its set,
\* leaves what it found.
LEMMA EndingLeaves ==
  ASSUME TypeOK, JobShape, Lent, LoadedCurrent, Exclusive, \A w \in Workers : Aside(w),
         [Next]_vars, NEW w \in Workers, Busy(w), pc'[w] = "idle", alone[w],
         faults' = faults, pc[w] \in {"fetch", "look", "aside", "install", "restore"},
         NEW k \in keys[w]
  PROVE  place'[k] = before[w][k]
<1>1. keys[w] = {Key(w)} /\ Key(w) \in Keys /\ k = Key(w)
  BY OneKey DEF Downloads
<1>2. Aside(w)
  OBVIOUS
<1>3. ~Fault
  BY FaultTyped
<1>4. ASSUME NEW v \in Workers, Alive(v) PROVE FALSE
  <2>1. CASE v # w
    BY <1>4, <2>1, AliveKeeps DEF Kept, Busy
  <2>2. CASE v = w
    BY <1>4, <2>2 DEF Alive, Fetch, Look, MoveAside, Install, InstallFails, Lock, Record,
       SweepZims, SweepDevDocs, Sweep, Goes, TypeOK
  <2>3. QED
    BY <2>1, <2>2
<1>5. ASSUME NEW v \in Workers, StartDownload(v) \/ StartClean(v) PROVE FALSE
  <2>1. PICK S \in SUBSET Keys, first \in {"fetch", "clean"} : Start(v, S, first)
    BY <1>5, StartForms
  <2>2. QED
    BY <2>1, StartFacts DEF Kept, Busy
<1>6. ASSUME NEW v \in Workers, Step(v) PROVE place'[k] = before[w][k]
  <2>1. v = w
    <3>1. Ending({v}) /\ {v} \in SUBSET Workers
      BY <1>4, <1>6, StepEnds
    <3>2. QED
      BY <1>6, <3>1, EndingKeeps DEF Kept, Busy
  <2>2. FetchFails(w) \/ MoveAsideFails(w) \/ InstallFails(w) \/ Restore(w)
    BY <1>4, <1>6, <2>1, Zenon DEF Step, Alive, Tidy, Forget, UpdateFails, Loaded
  <2>3. CASE FetchFails(w) \/ MoveAsideFails(w)
    BY <1>2, <2>3 DEF Aside, FetchFails, MoveAsideFails
  <2>4. CASE InstallFails(w)
    <3>1. pc[w] = "install" /\ place' = place /\ backup[w] = 0
      BY <2>4 DEF InstallFails, Goes, TypeOK
    <3>2. QED
      BY <1>2, <3>1 DEF Aside
  <2>5. CASE Restore(w)
    <3>1. pc[w] = "restore" /\ backup[w] = before[w][k] /\ backup[w] # 0 /\ place[k] = 0
      BY <1>2, <2>5 DEF Aside, Restore
    <3>2. QED
      BY <1>1, <1>3, <2>5, <3>1 DEF Restore, TypeOK
  <2>6. QED
    BY <2>2, <2>3, <2>4, <2>5
<1>7. QED
  <2>1. ~\E p \in Procs : Crash(p)
    BY <1>3 DEF Crash
  <2>2. ~UNCHANGED vars
    BY DEF vars, jobVars, Busy
  <2>3. \A v \in Workers : ~Lock(v)
    BY <1>4 DEF Alive
  <2>4. QED
    BY <1>5, <1>6, <2>1, <2>2, <2>3, Zenon DEF Next

-----------------------------------------------------------------------------
(* The manifest and the files. *)

LEMMA InitProgress == Init => (\A w \in Workers : Progress(w)) /\ RecordTrue
BY ReachOwn DEF Init, Progress, Agrees, Placed, Entered, RecordTrue

LEMMA KeptProgress ==
  ASSUME TypeOK, JobShape, NEW v \in Workers, Kept(v), Progress(v),
         \A j \in Reach(keys[v]) : alone[v] \/ j \notin raced' => place'[j] = place[j],
         \A j \in Reach(keys[v]) \ raced' :
            j \notin raced /\ manifest'[j] = manifest[j] /\ (j \in torn => j \in torn'),
         \A k : keys[v] = {k} /\ k \notin raced' => backup'[v] = backup[v]
  PROVE  Progress(v)'
<1>1. /\ Reach(keys'[v]) = Reach(keys[v]) /\ keys[v] \subseteq Reach(keys[v])
      /\ gone[v] \subseteq Reach(keys[v])
  BY ReachKeys DEF Kept, JobShape, Shaped
<1>2. /\ pc'[v] = pc[v] /\ keys'[v] = keys[v] /\ gone'[v] = gone[v] /\ got'[v] = got[v]
      /\ (alone'[v] => alone[v])
  BY DEF Kept
<1>3. ASSUME NEW j \in Reach(keys[v]) \ (raced' \cup torn') PROVE Agrees(v, j)'
  <2>1. Agrees(v, j) /\ place'[j] = place[j] /\ manifest'[j] = manifest[j]
    BY <1>3 DEF Progress
  <2>2. pc[v] \in {"install", "restore"} /\ j \in keys[v] => backup'[v] = backup[v]
    <3>1. pc[v] \in {"install", "restore"} => keys[v] = {Key(v)}
      BY OneKey DEF Downloads
    <3>2. QED
      BY <1>3, <3>1
  <2>3. QED
    BY <1>2, <2>1, <2>2 DEF Agrees
<1>4. \A j \in keys[v] : alone'[v] \/ j \notin raced' => Mine(v, j) /\ place'[j] = place[j]
  BY <1>1, <1>2 DEF Mine
<1>5. Placed(v)'
  BY <1>2, <1>4 DEF Progress, Placed, Mine
<1>6. Entered(v)'
  BY <1>1, <1>2 DEF Progress, Entered
<1>7. QED
  BY <1>1, <1>3, <1>5, <1>6 DEF Progress

\* The steps of w's job that record nothing and change no files.
LEMMA QuietProgress ==
  ASSUME JobShape, NEW w \in Workers, Progress(w),
         UNCHANGED <<place, manifest, backup, keys, got, gone, alone, raced, torn>>,
         \/ /\ pc[w] \in {"fetch", "look"} /\ pc'[w] \in {"look", "aside", "install"}
         \/ /\ pc[w] = "install" /\ pc'[w] = "restore"
         \/ /\ pc[w] = "wait" /\ pc'[w] = "update"
         \/ /\ pc[w] = "clean" /\ pc'[w] = "zims"
  PROVE  Progress(w)'
<1>1. backup[w] = 0 \/ pc[w] \notin {"fetch", "look"}
  BY DEF JobShape, Shaped
<1>2. Placed(w)' /\ Entered(w)'
  BY DEF Progress, Placed, Entered, Mine
<1>3. \A j \in Reach(keys[w]) \ (raced \cup torn) : Agrees(w, j)'
  BY <1>1 DEF Progress, Agrees
<1>4. QED
  BY <1>2, <1>3 DEF Progress

LEMMA RecordProgress ==
  ASSUME TypeOK, JobShape, Lent, LoadedCurrent, NEW w \in Workers, Record(w), Progress(w)
  PROVE  Progress(w)'
<1> DEFINE k == Key(w)
<1>1. /\ pc[w] = "update" /\ pc'[w] = "tidy" /\ gone[w] = {}
      /\ UNCHANGED <<place, keys, got, alone, torn>>
  BY DEF Record, Goes, TypeOK, JobShape, Shaped
<1>2. /\ k \in Keys /\ keys[w] = {k} /\ Reach(keys[w]) = Family(k) /\ manifest'[k] = got[w]
      /\ \A j \in Family(k) \ {k} : manifest'[j] = 0
      /\ gone'[w] = {j \in Family(k) \ {k} : loaded[w][j] # 0}
      /\ \A j \in Keys : j \in raced' \/ loaded[w][j] = manifest[j]
      /\ \A j \in raced \ ({k} \cup gone'[w]) : j \in raced'
      /\ alone[w] \/ raced \subseteq raced'
  BY RecordSaves
<1>3. Family(k) \subseteq Keys
  BY DEF Family
<1> HIDE DEF k
<1>4. ASSUME NEW j \in Family(k) \ (raced' \cup torn') PROVE Agrees(w, j)'
  <2>1. CASE j \in keys[w] \cup gone'[w]
    BY <1>1, <2>1 DEF Agrees
  <2>2. CASE j \notin keys[w] \cup gone'[w]
    <3>1. manifest'[j] = 0 /\ manifest[j] = 0 /\ j \notin raced
      BY <1>2, <1>3, <1>4, <2>2
    <3>2. manifest[j] = place[j]
      BY <1>1, <1>2, <1>4, <2>2, <3>1 DEF Progress, Agrees
    <3>3. QED
      BY <1>1, <3>1, <3>2 DEF Agrees
  <2>3. QED
    BY <2>1, <2>2
<1>5. Entered(w)'
  BY <1>1, <1>2 DEF Entered
<1>6. Placed(w)'
  BY <1>1, <1>2 DEF Progress, Placed, Mine
<1>7. QED
  BY <1>1, <1>2, <1>4, <1>5, <1>6 DEF Progress

LEMMA SweepProgress ==
  ASSUME TypeOK, JobShape, NEW w \in Workers, SweepZims(w) \/ SweepDevDocs(w), Progress(w)
  PROVE  Progress(w)'
<1>1. /\ UNCHANGED <<manifest, keys, got, gone, alone, raced, torn>>
      /\ keys[w] \subseteq Keys
  BY DEF SweepZims, SweepDevDocs, Sweep, TypeOK, histVars
<1>2. Reach(keys[w]) \subseteq Keys /\ Zims = Keys \ DevDocs
  BY ReachKeys DEF Zims
<1>3. CASE SweepZims(w)
  <2>1. pc[w] = "zims" /\ pc'[w] = "devdocs"
    BY <1>3 DEF SweepZims, Sweep, Goes, TypeOK
  <2>2. \A j \in Keys : place'[j] = IF j \in keys[w] \cap Zims THEN 0 ELSE place[j]
    BY <1>3 DEF SweepZims, Sweep
  <2>3. \A j \in Reach(keys[w]) \ (raced \cup torn) : Agrees(w, j)'
    BY <1>1, <1>2, <2>1, <2>2 DEF Progress, Agrees
  <2>4. Placed(w)' /\ Entered(w)'
    BY <1>1, <2>1, <2>2 DEF Placed, Entered
  <2>5. QED
    BY <1>1, <2>3, <2>4 DEF Progress
<1>4. CASE SweepDevDocs(w)
  <2>1. pc[w] = "devdocs" /\ pc'[w] = "forget"
    BY <1>4 DEF SweepDevDocs, Sweep, Goes, TypeOK
  <2>2. \A j \in Keys : place'[j] = IF j \in keys[w] \cap DevDocs THEN 0 ELSE place[j]
    BY <1>4 DEF SweepDevDocs, Sweep
  <2>3. \A j \in Reach(keys[w]) \ (raced \cup torn) : Agrees(w, j)'
    BY <1>1, <1>2, <2>1, <2>2 DEF Progress, Agrees
  <2>4. Placed(w)' /\ Entered(w)'
    BY <1>1, <1>2, <2>1, <2>2 DEF Progress, Placed, Entered, Mine
  <2>5. QED
    BY <1>1, <2>3, <2>4 DEF Progress
<1>5. QED
  BY <1>3, <1>4

LEMMA AliveProgress ==
  ASSUME TypeOK, JobShape, Lent, LoadedCurrent, NEW w \in Workers, Alive(w), Progress(w)
  PROVE  Progress(w)'
<1>0. CASE Look(w)
  <2>1. pc[w] = "look" /\ pc'[w] \in {"aside", "install"}
    BY <1>0 DEF Look, Goes, TypeOK
  <2>2. UNCHANGED <<place, manifest, backup, keys, got, gone, alone, raced, torn>>
    BY <1>0 DEF Look, diskVars, histVars
  <2>3. QED
    BY <2>1, <2>2, QuietProgress
<1>1. CASE Fetch(w)
  <2>1. pc[w] = "fetch" /\ pc'[w] \in {"look", "install"}
    BY <1>1 DEF Fetch, Goes, TypeOK
  <2>2. UNCHANGED <<place, manifest, backup, keys, gone, alone, raced, torn>>
    BY <1>1 DEF Fetch, histVars
  <2>3. backup[w] = 0
    BY <2>1 DEF JobShape, Shaped
  <2>4. \A j \in Reach(keys[w]) \ (raced \cup torn) : Agrees(w, j)'
    BY <2>1, <2>2, <2>3 DEF Progress, Agrees
  <2>5. Placed(w)' /\ Entered(w)'
    BY <2>1 DEF Placed, Entered
  <2>6. QED
    BY <2>2, <2>4, <2>5 DEF Progress
<1>2. CASE MoveAside(w)
  <2>1. /\ pc[w] = "aside" /\ pc'[w] = "install"
        /\ UNCHANGED <<manifest, keys, gone, raced, torn>>
    BY <1>2 DEF MoveAside, Goes, TypeOK, histVars
  <2>2. keys[w] = {Key(w)} /\ Key(w) \in Keys /\ Reach(keys[w]) \subseteq Keys
    BY <2>1, OneKey, ReachKeys DEF Downloads
  <2>3. /\ backup'[w] = place[Key(w)] /\ place'[Key(w)] = 0 /\ place[Key(w)] # 0
        /\ \A j \in Keys \ {Key(w)} : place'[j] = place[j]
    BY <1>2, <2>2 DEF MoveAside, TypeOK
  <2>4. \A j \in Reach(keys[w]) \ (raced \cup torn) : Agrees(w, j)'
    BY <2>1, <2>2, <2>3 DEF Progress, Agrees
  <2>5. Placed(w)' /\ Entered(w)'
    BY <2>1 DEF Placed, Entered
  <2>6. QED
    BY <2>1, <2>4, <2>5 DEF Progress
<1>3. CASE Install(w)
  <2>1. /\ pc[w] = "install" /\ pc'[w] = "wait"
        /\ UNCHANGED <<manifest, keys, got, gone, raced, torn>>
    BY <1>3 DEF Install, Goes, TypeOK, histVars
  <2>2. keys[w] = {Key(w)} /\ Key(w) \in Keys /\ Reach(keys[w]) \subseteq Keys
    BY <2>1, OneKey, ReachKeys DEF Downloads
  <2>3. place'[Key(w)] = got[w] /\ \A j \in Keys \ {Key(w)} : place'[j] = place[j]
    BY <1>3, <2>2 DEF Install, TypeOK, JobShape, Shaped
  <2>4. \A j \in Reach(keys[w]) \ (raced \cup torn) : Agrees(w, j)'
    BY <2>1, <2>2, <2>3 DEF Progress, Agrees
  <2>5. Placed(w)' /\ Entered(w)'
    BY <2>1, <2>2, <2>3 DEF Placed, Entered
  <2>6. QED
    BY <2>1, <2>4, <2>5 DEF Progress
<1>4. CASE InstallFails(w) /\ ~Fails(w)
  <2>1. /\ pc[w] = "install" /\ pc'[w] = "restore"
        /\ UNCHANGED <<place, manifest, backup, keys, got, gone, alone, raced, torn>>
    BY <1>4 DEF InstallFails, Goes, TypeOK
  <2>2. QED
    BY <2>1, QuietProgress
<1>5. CASE Lock(w)
  <2>1. /\ \/ pc[w] = "wait" /\ pc'[w] = "update"
           \/ pc[w] = "clean" /\ pc'[w] = "zims"
        /\ UNCHANGED <<place, manifest, backup, keys, got, gone, alone, raced, torn>>
    BY <1>5 DEF Lock, Goes, TypeOK, diskVars, histVars
  <2>2. QED
    BY <2>1, QuietProgress
<1>6. QED
  BY <1>0, <1>1, <1>2, <1>3, <1>4, <1>5, RecordProgress, SweepProgress DEF Alive

\* A started job finds its keys as the manifest has them.
LEMMA StartProgress ==
  ASSUME TypeOK, JobShape, RecordTrue, NEW w \in Workers, NEW S \in SUBSET Keys,
         NEW first \in {"fetch", "clean"}, Start(w, S, first)
  PROVE  Progress(w)'
<1>1. /\ pc'[w] = first /\ keys'[w] = S /\ torn' = torn
      /\ raced \subseteq raced' /\ UNCHANGED <<place, manifest>>
      /\ \A v \in Workers : pc[v] # "idle" => Reach(keys[v]) \cap Reach(S) \subseteq raced'
  BY StartFacts
<1>2. ASSUME NEW j \in Reach(S) \ (raced' \cup torn') PROVE manifest[j] = place[j]
  <2>1. j \in Keys
    BY ReachOwn
  <2>2. ASSUME NEW v \in Workers PROVE j \notin Reach(keys[v])
    <3>1. CASE pc[v] = "idle"
      BY <3>1, NoReach
    <3>2. CASE pc[v] # "idle"
      BY <1>1, <1>2, <3>2
    <3>3. QED
      BY <3>1, <3>2
  <2>3. j \notin AtWork
    BY <2>2 DEF AtWork
  <2>4. QED
    BY <1>1, <1>2, <2>1, <2>3 DEF RecordTrue
<1>3. \A j \in Reach(S) \ (raced' \cup torn') : Agrees(w, j)'
  BY <1>1, <1>2 DEF Agrees
<1>4. Placed(w)' /\ Entered(w)'
  BY <1>1 DEF Placed, Entered
<1>5. QED
  BY <1>1, <1>3, <1>4 DEF Progress

LEMMA EndedProgress ==
  ASSUME NEW v \in Workers, Ended(v)
  PROVE  Progress(v)'
BY ReachOwn DEF Ended, Progress, Placed, Entered

LEMMA StepProgress ==
  ASSUME TypeOK, JobShape, Lent, LoadedCurrent, Exclusive, RecordTrue,
         \A w \in Workers : Progress(w), [Next]_vars, NEW v \in Workers
  PROVE  Progress(v)'
<1>1. ASSUME NEW w \in Workers, StartDownload(w) \/ StartClean(w) PROVE Progress(v)'
  <2>1. PICK S \in SUBSET Keys, first \in {"fetch", "clean"} : Start(w, S, first)
    BY <1>1, StartForms
  <2>2. CASE v = w
    BY <2>1, <2>2, StartProgress
  <2>3. CASE v # w
    <3>1. Kept(v) /\ raced \subseteq raced' /\ torn' = torn
          /\ UNCHANGED <<place, manifest, backup>>
      BY <2>1, <2>3, StartFacts
    <3>2. QED
      BY <3>1, KeptProgress
  <2>4. QED
    BY <2>2, <2>3
<1>2. ASSUME NEW u \in Workers, Moves(u), v # u PROVE Progress(v)'
  <2>1. Kept(v)
    BY <1>2 DEF Moves
  <2>2. CASE pc[v] = "idle"
    <3>1. pc'[v] = "idle" /\ keys'[v] = {}
      BY <2>1, <2>2 DEF Kept, JobShape, Shaped
    <3>2. QED
      BY <3>1, ReachOwn DEF Progress, Placed, Entered
  <2>3. CASE pc[v] # "idle"
    BY <1>2, <2>1, <2>3, Undisturbed, KeptProgress
  <2>4. QED
    BY <2>2, <2>3
<1>3. ASSUME NEW u \in Workers, Alive(u) \/ (Step(u) /\ Ended(u)), v = u PROVE Progress(v)'
  BY <1>3, AliveProgress, EndedProgress
<1>4. CASE Still
  <2>1. CASE Ended(v)
    BY <2>1, EndedProgress
  <2>2. CASE Kept(v) /\ backup'[v] = backup[v]
    BY <1>4, <2>2, KeptProgress DEF Still
  <2>3. QED
    BY <1>4, <2>1, <2>2 DEF Still
<1>5. QED
  BY <1>1, <1>2, <1>3, <1>4, NextMoves

\* The keys a job leaves alone agree with the manifest, however it ends.
LEMMA NotApart ==
  ASSUME JobShape, NEW v \in Workers, Progress(v),
         NEW j \in Reach(keys[v]) \ (raced \cup torn), j \notin Apart(v)
  PROVE  manifest[j] = place[j]
<1>1. Agrees(v, j)
  BY DEF Progress
<1>2. pc[v] # "idle"
  BY NoReach
<1>3. QED
  BY <1>1, <1>2 DEF Agrees, Apart

\* And so do all its keys when it ends by itself.
LEMMA EndTrue ==
  ASSUME TypeOK, JobShape, LoadedCurrent, NEW u \in Workers, Progress(u), Step(u), ~Alive(u),
         NEW j \in Reach(keys[u]) \ (raced' \cup torn')
  PROVE  manifest'[j] = place'[j]
<1>1. j \in Keys /\ keys[u] \subseteq Keys
  BY ReachKeys
<1>2. ASSUME Fails(u), pc[u] # "install", UNCHANGED <<place, manifest, raced>>
      PROVE  manifest'[j] = place'[j]
  <2>1. j \notin raced \cup torn /\ j \notin Apart(u)
    BY <1>2 DEF Fails, Apart
  <2>2. QED
    BY <1>2, <2>1, NotApart
<1>3. CASE FetchFails(u) \/ MoveAsideFails(u) \/ UpdateFails(u)
  BY <1>2, <1>3 DEF FetchFails, MoveAsideFails, UpdateFails, Loaded
<1>4. CASE InstallFails(u) /\ Fails(u)
  <2>1. pc[u] = "install" /\ UNCHANGED <<place, manifest, raced, torn>>
    BY <1>4 DEF InstallFails, Fails
  <2>2. pc'[u] = "idle"
    BY <1>4 DEF Fails, Over
  <2>3. backup[u] = 0
    BY <1>4, <2>2 DEF InstallFails, Goes, TypeOK
  <2>4. Agrees(u, j) /\ gone[u] = {}
    BY <2>1 DEF Progress, JobShape, Shaped
  <2>5. QED
    BY <2>1, <2>3, <2>4 DEF Agrees
<1>5. CASE Restore(u)
  <2>1. pc[u] = "restore" /\ UNCHANGED <<manifest, raced>> /\ keys[u] = {Key(u)}
    BY <1>5, OneKey DEF Restore, Downloads
  <2>2. CASE Fails(u) /\ place' = place
    BY <1>2, <2>1, <2>2
  <2>3. CASE ~(Fails(u) /\ place' = place)
    <3>1. /\ backup[u] # 0 /\ torn' = torn
          /\ place' = [place EXCEPT ![Key(u)] = backup[u]]
      BY <1>5, <2>3 DEF Restore
    <3>2. Agrees(u, j) /\ gone[u] = {}
      BY <2>1, <3>1 DEF Progress, JobShape, Shaped
    <3>3. QED
      BY <1>1, <2>1, <3>1, <3>2 DEF Agrees, TypeOK
  <2>4. QED
    BY <2>2, <2>3
<1>6. CASE Tidy(u)
  <2>1. pc[u] = "tidy" /\ UNCHANGED <<manifest, raced>>
    BY <1>6 DEF Tidy
  <2>2. CASE j \in keys[u]
    <3>1. place[j] = got[u] /\ manifest[j] = got[u] /\ j \notin gone[u]
      BY <2>1, <2>2 DEF Progress, Placed, Mine, Entered, JobShape, Shaped
    <3>2. place'[j] = place[j]
      BY <1>1, <1>6, <3>1 DEF Tidy
    <3>3. QED
      BY <2>1, <3>1, <3>2
  <2>3. CASE j \in gone[u]
    <3>1. manifest[j] = 0
      BY <2>1, <2>3 DEF Progress, Entered, JobShape, Shaped
    <3>2. place'[j] = 0
      BY <1>1, <1>6, <2>3 DEF Tidy
    <3>3. QED
      BY <2>1, <3>1, <3>2
  <2>4. CASE j \notin keys[u] \cup gone[u]
    <3>1. place'[j] = place[j] /\ j \notin torn
      BY <1>1, <1>6, <2>4 DEF Tidy, Settled
    <3>2. QED
      BY <2>1, <2>4, <3>1 DEF Progress, Agrees
  <2>5. QED
    BY <2>2, <2>3, <2>4
<1>7. CASE Forget(u)
  <2>1. pc[u] = "forget" /\ place' = place /\ gone[u] = {}
    BY <1>7 DEF Forget, JobShape, Shaped
  <2>2. CASE j \in keys[u]
    <3>1. Mine(u, j)
      BY <1>7, ForgetSaves DEF Mine
    <3>2. place[j] = 0
      BY <2>1, <2>2, <3>1 DEF Progress, Placed
    <3>3. QED
      BY <1>7, <2>1, <2>2, <3>2, ForgetSaves
  <2>3. CASE j \notin keys[u]
    <3>1. j \notin raced /\ j \notin torn /\ manifest'[j] = manifest[j]
      BY <1>1, <1>7, <2>3, ForgetSaves
    <3>2. QED
      BY <2>1, <2>3, <3>1 DEF Progress, Agrees
  <2>4. QED
    BY <2>2, <2>3
<1>8. QED
  BY <1>3, <1>4, <1>5, <1>6, <1>7, Zenon DEF Step, Alive

LEMMA StepTrue ==
  ASSUME TypeOK, JobShape, Lent, LoadedCurrent, Exclusive, RecordTrue,
         \A w \in Workers : Progress(w), [Next]_vars
  PROVE  RecordTrue'
<1> SUFFICES ASSUME NEW j \in Keys, j \notin raced', j \notin torn', j \notin AtWork'
             PROVE  manifest'[j] = place'[j]
  BY DEF RecordTrue
<1>1. ASSUME NEW v \in Workers PROVE j \notin Reach(keys'[v])
  BY DEF AtWork
<1>2. ASSUME NEW w \in Workers, StartDownload(w) \/ StartClean(w)
      PROVE  manifest'[j] = place'[j]
  <2>1. PICK S \in SUBSET Keys, first \in {"fetch", "clean"} : Start(w, S, first)
    BY <1>2, StartForms
  <2>2. /\ pc[w] = "idle" /\ torn' = torn /\ raced \subseteq raced'
        /\ UNCHANGED <<place, manifest>> /\ \A v \in Workers \ {w} : Kept(v)
    BY <2>1, StartFacts
  <2>3. Reach(keys[w]) = {}
    BY <2>2, NoReach
  <2>4. \A v \in Workers : j \notin Reach(keys[v])
    BY <1>1, <2>2, <2>3 DEF Kept
  <2>5. QED
    BY <2>2, <2>4 DEF RecordTrue, AtWork
<1>3. ASSUME NEW u \in Workers, Moves(u), j \notin Reach(keys[u])
      PROVE  manifest'[j] = place'[j]
  <2>1. \A v \in Workers : j \notin Reach(keys[v])
    BY <1>1, <1>3 DEF Moves, Kept
  <2>2. j \notin AtWork
    BY <2>1 DEF AtWork
  <2>3. /\ place'[j] = place[j] /\ manifest'[j] = manifest[j]
        /\ j \notin raced /\ j \notin torn
    BY <1>3 DEF Moves
  <2>4. QED
    BY <2>2, <2>3 DEF RecordTrue
<1>4. ASSUME NEW u \in Workers, Alive(u) PROVE j \notin Reach(keys[u])
  <2>1. keys'[u] = keys[u]
    BY <1>4, Zenon DEF Alive, Fetch, Look, MoveAside, Install, InstallFails, Lock, Record,
       SweepZims, SweepDevDocs, Sweep
  <2>2. QED
    BY <1>1, <2>1
<1>5. ASSUME NEW u \in Workers, Step(u), ~Alive(u), j \in Reach(keys[u])
      PROVE  manifest'[j] = place'[j]
  BY <1>5, EndTrue
<1>6. CASE Still
  <2>1. CASE j \in AtWork
    <3>1. PICK v \in Workers : j \in Reach(keys[v])
      BY <2>1 DEF AtWork
    <3>2. Apart(v) \subseteq torn'
      BY <1>1, <1>6, <3>1 DEF Still, Kept
    <3>3. j \notin Apart(v) /\ j \notin raced \cup torn
      BY <1>6, <3>2 DEF Still
    <3>4. manifest[j] = place[j]
      BY <3>1, <3>3, NotApart
    <3>5. QED
      BY <1>6, <3>4 DEF Still
  <2>2. CASE j \notin AtWork
    BY <1>6, <2>2 DEF Still, RecordTrue
  <2>3. QED
    BY <2>1, <2>2
<1>7. QED
  BY <1>2, <1>3, <1>4, <1>5, <1>6, NextMoves

-----------------------------------------------------------------------------
(* What is on disk is on record, however the jobs of a process overlap. *)

LEMMA InitOnRecord ==
  ASSUME Init
  PROVE  /\ Crossing /\ ManifestSingle /\ OnRecord
         /\ \A w \in Workers : Held(w)
<1>1. Crossing /\ \A w \in Workers : Held(w)
  BY DEF Init, Crossing, Busy, Held
<1>2. ManifestSingle
  BY DEF Init, ManifestSingle, OneEach, Nothing, Loaded
<1>3. OnRecord
  BY DEF Init, OnRecord, Exists, Nothing
<1>4. QED
  BY <1>1, <1>2, <1>3

\* Only a saving step changes the manifest or takes keys off the crossed ones.
LEMMA CrossedSteps ==
  ASSUME TypeOK, JobShape, Lent, LoadedCurrent, NEW w \in Workers, Step(w) \/ Lock(w)
  PROVE  /\ ~(Record(w) \/ Forget(w)) => UNCHANGED <<manifest, crossed>>
         /\ \A j \in Keys \ Reach(keys[w]) : j \in crossed' \/ manifest'[j] = manifest[j]
         /\ crossed \ Reach(keys[w]) \subseteq crossed'
         /\ alone[w] \/ crossed \subseteq crossed'
<1>1. CASE Record(w)
  <2>1. /\ Key(w) \in Keys /\ keys[w] = {Key(w)} /\ Reach(keys[w]) = Family(Key(w))
        /\ pc[w] = "update"
    BY <1>1, RecordSaves DEF Record
  <2>2. gone'[w] \subseteq Family(Key(w)) /\ {Key(w)} \subseteq Family(Key(w))
    BY <1>1, <2>1, RecordSaves, ReachOwn
  <2>3. crossed' = (crossed \ Settled(w, {Key(w)} \cup gone'[w])) \cup Overwritten(w)
    BY <1>1 DEF Record
  <2>4. ASSUME NEW j \in Keys, j \notin crossed' PROVE loaded[w][j] = manifest[j]
    BY <2>1, <2>3, <2>4 DEF Overwritten, LoadedCurrent, Loaded
  <2>5. \A j \in Keys \ Family(Key(w)) : manifest'[j] = loaded[w][j]
    BY <1>1 DEF Record, Save, Recorded, Family
  <2>6. Settled(w, {Key(w)} \cup gone'[w]) \subseteq Family(Key(w))
    BY <2>2 DEF Settled
  <2>7. alone[w] \/ Settled(w, {Key(w)} \cup gone'[w]) = {}
    BY DEF Settled
  <2>8. QED
    BY <1>1, <2>1, <2>3, <2>4, <2>5, <2>6, <2>7
<1>2. CASE Forget(w)
  <2>1. keys[w] \subseteq Reach(keys[w]) /\ keys[w] \subseteq Keys /\ pc[w] = "forget"
    BY <1>2, ReachKeys DEF Forget
  <2>2. crossed' = (crossed \ Settled(w, keys[w])) \cup Overwritten(w)
    BY <1>2 DEF Forget
  <2>3. ASSUME NEW j \in Keys, j \notin crossed' PROVE loaded[w][j] = manifest[j]
    BY <2>1, <2>2, <2>3 DEF Overwritten, LoadedCurrent, Loaded
  <2>4. \A j \in Keys \ keys[w] : manifest'[j] = loaded[w][j]
    BY <1>2 DEF Forget, Save
  <2>5. QED
    BY <1>2, <2>1, <2>2, <2>3, <2>4 DEF Settled
<1>3. CASE ~Record(w) /\ ~Forget(w)
  <2>1. UNCHANGED <<manifest, crossed>>
    BY <1>3, Zenon DEF Step, Fetch, FetchFails, Look, MoveAside, MoveAsideFails, Install,
       InstallFails, Restore, Tidy, UpdateFails, SweepZims, SweepDevDocs, Sweep, Lock,
       histVars, diskVars
  <2>2. QED
    BY <2>1
<1>4. QED
  BY <1>1, <1>2, <1>3

LEMMA StartCrossing ==
  ASSUME TypeOK, JobShape, Crossing, NEW w \in Workers, NEW S \in SUBSET Keys, NEW first,
         Start(w, S, first)
  PROVE  Crossing' /\ crossed \subseteq crossed'
<1> DEFINE others == {v \in Workers : /\ Busy(v) /\ Reach(keys[v]) \cap Reach(S) # {}
                                      /\ ProcOf[v] # ProcOf[w]}
<1>1. crossed' = crossed \cup UNION {Reach(keys[v]) \cap Reach(S) : v \in others}
  BY DEF Start
<1>2. /\ keys'[w] = S /\ \A v \in Workers \ {w} : keys'[v] = keys[v] /\ pc'[v] = pc[v]
  BY DEF Start, TypeOK
<1>3. ASSUME NEW v \in Workers, Busy(v), ProcOf[v] # ProcOf[w]
      PROVE  Reach(keys[v]) \cap Reach(S) \subseteq crossed'
  BY <1>1, <1>3
<1> HIDE DEF others
<1>4. crossed \subseteq crossed'
  BY <1>1
<1>5. ASSUME NEW u \in Workers, NEW v \in Workers, pc'[u] # "idle", pc'[v] # "idle",
             ProcOf[u] # ProcOf[v]
      PROVE  Reach(keys'[u]) \cap Reach(keys'[v]) \subseteq crossed'
  <2>1. CASE u = w
    <3>1. Busy(v) /\ keys'[v] = keys[v] /\ keys'[u] = S
      BY <1>2, <1>5, <2>1 DEF Busy
    <3>2. QED
      BY <1>3, <1>5, <2>1, <3>1
  <2>2. CASE v = w
    <3>1. Busy(u) /\ keys'[u] = keys[u] /\ keys'[v] = S
      BY <1>2, <1>5, <2>2 DEF Busy
    <3>2. QED
      BY <1>3, <1>5, <2>2, <3>1
  <2>3. CASE u # w /\ v # w
    <3>1. /\ Busy(u) /\ Busy(v) /\ keys'[u] = keys[u] /\ keys'[v] = keys[v]
      BY <1>2, <1>5, <2>3 DEF Busy
    <3>2. QED
      BY <1>4, <1>5, <3>1 DEF Crossing
  <2>4. QED
    BY <2>1, <2>2, <2>3
<1>6. QED
  BY <1>4, <1>5 DEF Crossing, Busy

LEMMA StepCrossing ==
  ASSUME TypeOK, JobShape, Lent, LoadedCurrent, Exclusive, Crossing, [Next]_vars
  PROVE  Crossing'
<1>1. ASSUME NEW w \in Workers, StartDownload(w) \/ StartClean(w) PROVE Crossing'
  <2>1. PICK S \in SUBSET Keys, first \in {"fetch", "clean"} : Start(w, S, first)
    BY <1>1, StartForms
  <2>2. QED
    BY <2>1, StartCrossing
<1>2. CASE \A w \in Workers : pc'[w] # "idle" => Continues(w)
  <2> SUFFICES ASSUME NEW u \in Workers, NEW v \in Workers, pc'[u] # "idle",
                      pc'[v] # "idle", ProcOf[u] # ProcOf[v]
               PROVE  Reach(keys'[u]) \cap Reach(keys'[v]) \subseteq crossed'
    BY DEF Crossing, Busy
  <2> DEFINE shared == Reach(keys[u]) \cap Reach(keys[v])
  <2>1. shared \subseteq crossed /\ Busy(u) /\ Busy(v)
    BY <1>2 DEF Continues, Crossing, Busy
  <2>2. shared = Reach(keys'[u]) \cap Reach(keys'[v])
    BY <1>2 DEF Continues
  <2>3. shared # {} => ~alone[u] /\ ~alone[v]
    BY <2>1 DEF Exclusive
  <2>4. ASSUME NEW w \in Workers, Step(w) \/ Lock(w) PROVE shared \subseteq crossed'
    <3>1. /\ crossed \ Reach(keys[w]) \subseteq crossed'
          /\ alone[w] \/ crossed \subseteq crossed'
      BY <2>4, CrossedSteps
    <3>2. ASSUME alone[w], NEW k \in shared, k \in Reach(keys[w]) PROVE FALSE
      <4>1. w # u /\ w # v
        BY <2>3, <3>2
      <4>2. pc[w] # "idle"
        BY <3>2, NoReach
      <4>3. k \in Reach(keys[w]) \cap Reach(keys[u])
        BY <3>2
      <4>4. QED
        BY <2>1, <3>2, <4>1, <4>2, <4>3 DEF Exclusive, Busy
    <3> HIDE DEF shared
    <3>3. QED
      BY <2>1, <3>1, <3>2
  <2>5. ASSUME NEW p \in Procs, Crash(p) PROVE crossed' = crossed
    BY <2>5 DEF Crash
  <2>6. ASSUME UNCHANGED vars PROVE crossed' = crossed
    BY <2>6 DEF vars, histVars
  <2>7. ASSUME NEW w \in Workers, StartDownload(w) \/ StartClean(w)
        PROVE  shared \subseteq crossed'
    <3>1. PICK S \in SUBSET Keys, first \in {"fetch", "clean"} : Start(w, S, first)
      BY <2>7, StartForms
    <3>2. crossed \subseteq crossed'
      BY <3>1, StartCrossing
    <3>3. QED
      BY <2>1, <3>2
  <2> HIDE DEF shared
  <2>8. QED
    BY <2>1, <2>2, <2>4, <2>5, <2>6, <2>7 DEF Next
<1>3. QED
  BY <1>1, <1>2, StepJobs

\* Jobs beside one that steps on a key are of its process, unless they crossed.
LEMMA Beside ==
  ASSUME TypeOK, JobShape, Lent, LoadedCurrent, Exclusive, Crossing, NEW u \in Workers,
         Step(u) \/ Lock(u), NEW k \in Reach(keys[u]), k \notin crossed',
         NEW v \in Workers, v # u, k \in Reach(keys[v])
  PROVE  /\ ProcOf[v] = ProcOf[u] /\ ~alone[u]
         /\ (pc[u] \in Loaded \/ Lock(u)) => pc[v] \notin Loaded
<1>1. pc[u] # "idle" /\ pc[v] # "idle"
  BY NoReach
<1>2. k \in Reach(keys[u]) \cap Reach(keys[v])
  OBVIOUS
<1>3. ~alone[u]
  BY <1>1, <1>2 DEF Exclusive, Busy
<1>4. k \notin crossed
  BY <1>3, CrossedSteps
<1>5. ProcOf[v] = ProcOf[u]
  BY <1>1, <1>2, <1>4 DEF Crossing, Busy
<1>6. NoWorker \notin Workers
  BY DocsCorpusAssumption
<1>7. (pc[u] \in Loaded \/ Lock(u)) => pc[v] \notin Loaded
  BY <1>5, <1>6 DEF Lent, Lock, Admitted
<1>8. QED
  BY <1>3, <1>5, <1>7

LEMMA StepHeld ==
  ASSUME TypeOK, JobShape, Lent, LoadedCurrent, Exclusive,
         \A w \in Workers : Held(w), [Next]_vars
  PROVE  \A w \in Workers : Held(w)'
<1> SUFFICES ASSUME NEW w \in Workers, alone'[w], pc'[w] = "tidy",
                    NEW k \in keys'[w], k \notin crossed'
             PROVE  manifest'[k] # 0
  BY DEF Held
<1>1. ASSUME Kept(w), manifest' = manifest, crossed \subseteq crossed' PROVE manifest'[k] # 0
  BY <1>1 DEF Kept, Held
<1>2. ASSUME NEW u \in Workers, StartDownload(u) \/ StartClean(u) PROVE manifest'[k] # 0
  <2>1. PICK S \in SUBSET Keys, first \in {"fetch", "clean"} : Start(u, S, first)
    BY <1>2, StartForms
  <2>2. w # u
    BY <2>1, StartFacts
  <2>3. /\ Kept(w) /\ manifest' = manifest
    BY <2>1, <2>2, StartFacts
  <2>4. crossed \subseteq crossed'
    BY <2>1 DEF Start
  <2>5. QED
    BY <1>1, <2>3, <2>4
<1>3. ASSUME NEW u \in Workers, u # w, Moves(u), Step(u) \/ Lock(u) PROVE manifest'[k] # 0
  <2>1. /\ alone[w] /\ pc[w] = "tidy" /\ k \in keys[w] /\ keys[w] \subseteq Reach(keys[w])
        /\ keys[w] \subseteq Keys
    BY <1>3, ReachKeys DEF Moves, Kept
  <2>2. k \notin Reach(keys[u])
    <3>1. k \in Reach(keys[w])
      BY <2>1
    <3>2. Busy(u) /\ Busy(w)
      BY <1>3, <2>1 DEF Moves, Busy
    <3>3. QED
      BY <1>3, <2>1, <3>1, <3>2 DEF Exclusive
  <2>3. k \notin crossed /\ manifest'[k] = manifest[k]
    BY <1>3, <2>1, <2>2, CrossedSteps
  <2>4. QED
    BY <2>1, <2>3 DEF Held
<1>4. CASE Step(w) \/ Lock(w)
  <2>1. Record(w)
    <3>1. ~Ending({w})
      <4>1. {w} \in SUBSET Workers
        OBVIOUS
      <4>2. Ending({w}) => pc'[w] = "idle"
        BY <4>1, EndingKeeps DEF Ended
      <4>3. QED
        BY <4>2
    <3>2. Alive(w)
      BY <1>4, <3>1, StepEnds DEF Alive
    <3>3. QED
      BY <3>2 DEF Alive, Fetch, Look, MoveAside, Install, InstallFails, Lock, SweepZims,
         SweepDevDocs, Sweep, Goes, TypeOK
  <2>2. /\ keys[w] = {Key(w)} /\ manifest'[Key(w)] = got[w] /\ keys' = keys
    BY <2>1, RecordSaves DEF Record
  <2>3. got[w] # 0
    BY <2>1 DEF JobShape, Shaped, Record, Downloads
  <2>4. QED
    BY <2>2, <2>3
<1>5. ASSUME NEW p \in Procs, Crash(p) PROVE manifest'[k] # 0
  <2>1. manifest' = manifest /\ crossed' = crossed
    BY <1>5 DEF Crash
  <2>2. Kept(w)
    <3> DEFINE W == {v \in Workers : ProcOf[v] = p}
    <3>1. Over(W, stale) /\ W \in SUBSET Workers
      BY <1>5 DEF Crash
    <3> HIDE DEF W
    <3>2. w \notin W
      BY <3>1, OverKeeps DEF Ended
    <3>3. QED
      BY <3>1, <3>2, OverKeeps
  <2>3. QED
    BY <1>1, <2>1, <2>2
<1>6. CASE UNCHANGED vars
  BY <1>6 DEF vars, diskVars, jobVars, histVars, Held
<1>7. ASSUME NEW u \in Workers, Step(u) \/ Lock(u) PROVE Moves(u)
  <2>1. CASE Alive(u)
    BY <2>1, AliveMoves
  <2>2. CASE ~Alive(u)
    <3>1. Step(u)
      BY <1>7, <2>2 DEF Alive
    <3>2. Ending({u})
      BY <2>2, <3>1, StepEnds
    <3>3. QED
      BY <3>1, <3>2, EndMoves
  <2>3. QED
    BY <2>1, <2>2
<1>8. QED
  BY <1>2, <1>3, <1>4, <1>5, <1>6, <1>7 DEF Next

\* A step that leaves the copies of k, its record, and the claims to it.
LEMMA RecordKept ==
  ASSUME OnRecord, NEW k \in Keys, k \notin crossed, k \notin torn,
         Exists(k)' => Exists(k), manifest'[k] = manifest[k],
         \A v \in Workers :
            /\ k \in keys[v] /\ pc[v] = "wait" => k \in keys'[v] /\ pc'[v] = "wait"
            /\ k \in keys[v] /\ pc[v] = "update" => k \in keys'[v] /\ pc'[v] = "update"
            /\ k \in gone[v] => k \in gone'[v]
            /\ Swept(v, k)' => Swept(v, k)
  PROVE  Exists(k)' => Known(k)' /\ ((\E w \in Workers : Swept(w, k)') => Waits(k)')
<1> SUFFICES ASSUME Exists(k)'
             PROVE  Known(k)' /\ ((\E w \in Workers : Swept(w, k)') => Waits(k)')
  OBVIOUS
<1>1. Known(k) /\ ((\E w \in Workers : Swept(w, k)) => Waits(k))
  BY DEF OnRecord
<1>2. Waits(k) => Waits(k)'
  BY DEF Waits
<1>3. Known(k)'
  BY <1>1, <1>2 DEF Known
<1>4. QED
  BY <1>1, <1>2, <1>3

\* The step of another job leaves what job v has to do with k.
LEMMA KeptClaims ==
  ASSUME NEW v \in Workers, Kept(v), NEW k
  PROVE  /\ k \in keys[v] /\ pc[v] = "wait" => k \in keys'[v] /\ pc'[v] = "wait"
         /\ k \in keys[v] /\ pc[v] = "update" => k \in keys'[v] /\ pc'[v] = "update"
         /\ k \in gone[v] => k \in gone'[v]
         /\ Swept(v, k)' => Swept(v, k)
         /\ k \in keys'[v] /\ pc'[v] \in {"install", "restore"} /\ backup'[v] # 0
            => k \in keys[v] /\ pc[v] \in {"install", "restore"} /\ backup[v] # 0
BY DEF Kept, Swept

\* The same for a step of u's job, from what it does to its own claims.
LEMMA OwnKept ==
  ASSUME OnRecord, NEW u \in Workers, Moves(u), NEW k \in Keys, k \notin crossed,
         k \notin torn, manifest'[k] = manifest[k], place'[k] # 0 => Exists(k),
         k \in keys'[u] /\ pc'[u] \in {"install", "restore"} /\ backup'[u] # 0 => Exists(k),
         k \in keys[u] => pc[u] \notin {"wait", "update"}, k \notin gone[u],
         Swept(u, k)' => Swept(u, k)
  PROVE  Exists(k)' => Known(k)' /\ ((\E w \in Workers : Swept(w, k)') => Waits(k)')
<1>1. ASSUME NEW v \in Workers, v # u
      PROVE  /\ k \in keys[v] /\ pc[v] = "wait" => k \in keys'[v] /\ pc'[v] = "wait"
             /\ k \in keys[v] /\ pc[v] = "update" => k \in keys'[v] /\ pc'[v] = "update"
             /\ k \in gone[v] => k \in gone'[v]
             /\ Swept(v, k)' => Swept(v, k)
             /\ k \in keys'[v] /\ pc'[v] \in {"install", "restore"} /\ backup'[v] # 0
                => Exists(k)
  <2>1. Kept(v)
    BY <1>1 DEF Moves
  <2>2. QED
    BY <2>1, KeptClaims DEF Exists
<1>2. Exists(k)' => Exists(k)
  BY <1>1 DEF Exists
<1>3. QED
  BY <1>1, <1>2, RecordKept

\* A copy of k that a job makes and is about to record.
LEMMA NowWaits ==
  ASSUME NEW u \in Workers, NEW k \in keys'[u], pc'[u] = "wait"
  PROVE  Known(k)' /\ Waits(k)'
BY DEF Known, Waits

LEMMA FetchOnRecord ==
  ASSUME TypeOK, JobShape, OnRecord, NEW u \in Workers, Moves(u),
         NEW k \in Keys, k \notin crossed, k \notin torn,
         \/ Fetch(u) \/ FetchFails(u) \/ Look(u) \/ MoveAside(u) \/ MoveAsideFails(u)
         \/ InstallFails(u) \/ Restore(u)
  PROVE  Exists(k)' => Known(k)' /\ ((\E w \in Workers : Swept(w, k)') => Waits(k)')
<1>0. /\ Shaped(u) /\ {u} \in SUBSET Workers
      /\ pc[u] \in {"fetch", "look", "aside", "install", "restore"} => keys[u] = {Key(u)} /\ Key(u) \in Keys
  BY OneKey DEF JobShape, Downloads
<1> USE DEF TypeOK, Goes
<1>1. /\ pc[u] \in {"fetch", "look", "aside", "install", "restore"} /\ manifest' = manifest
      /\ keys[u] = {Key(u)} /\ Key(u) \in Keys
  BY <1>0, Zenon DEF Fetch, FetchFails, Look, MoveAside, MoveAsideFails, InstallFails, Restore, diskVars
<1>2. Fails(u) => Ended(u)
  BY <1>0, OverKeeps DEF Fails
<1>3. k \in keys[u] /\ pc[u] \in {"install", "restore"} /\ backup[u] # 0 => Exists(k)
  BY DEF Exists
<1>4. /\ place'[k] # 0 => Exists(k)
      /\ k \in keys'[u] /\ pc'[u] \in {"install", "restore"} /\ backup'[u] # 0 => Exists(k)
      /\ pc'[u] \notin {"devdocs", "forget"}
  <2>1. CASE Fetch(u)
    BY <1>0, <2>1 DEF Fetch, Exists, Shaped
  <2>2. CASE Look(u)
    BY <1>0, <2>2 DEF Look, Exists, Shaped, diskVars
  <2>3. CASE MoveAside(u)
    <3>1. k \in keys[u] => place[k] # 0
      BY <1>1, <2>3 DEF MoveAside
    <3>2. QED
      BY <2>3, <3>1, <1>1 DEF MoveAside, Exists
  <2>4. CASE InstallFails(u) /\ ~Fails(u)
    BY <1>3, <2>4 DEF InstallFails, Exists
  <2>5. CASE Fails(u) /\ place' = place
    BY <1>2, <2>5 DEF Ended, Exists
  <2>6. CASE Restore(u) /\ ~Fails(u)
    <3>1. /\ backup[u] # 0 /\ pc[u] = "restore" /\ Over({u}, stale)
          /\ place' = [place EXCEPT ![Key(u)] = backup[u]]
      BY <2>6 DEF Restore
    <3>2. Ended(u)
      BY <1>0, <3>1, OverKeeps
    <3>3. place'[k] # 0 => Exists(k)
      BY <1>1, <3>1 DEF Exists
    <3>4. QED
      BY <3>2, <3>3 DEF Ended
  <2>7. /\ FetchFails(u) \/ MoveAsideFails(u) => Fails(u) /\ place' = place
        /\ InstallFails(u) => place' = place
        /\ Restore(u) /\ Fails(u) => place' = place \/ Ended(u)
    BY <1>2 DEF FetchFails, MoveAsideFails, InstallFails, Restore
  <2>8. CASE Restore(u) /\ Fails(u)
    <3>1. Ended(u) /\ pc[u] = "restore"
      BY <1>2, <2>8 DEF Restore
    <3>2. place'[k] # 0 => Exists(k)
      BY <1>1, <2>8 DEF Restore, Exists
    <3>3. QED
      BY <3>1, <3>2 DEF Ended
  <2>9. QED
    BY <2>1, <2>2, <2>3, <2>4, <2>5, <2>6, <2>7, <2>8
<1>5. k \notin gone[u] /\ ~Swept(u, k)'
  BY <1>0, <1>1, <1>4 DEF Shaped, Swept
<1>6. QED
  BY <1>1, <1>4, <1>5, OwnKept

LEMMA JobOnRecord ==
  ASSUME TypeOK, JobShape, Lent, LoadedCurrent, Exclusive, Crossing, OnRecord,
         \A w \in Workers : Held(w), \A w \in Workers : Progress(w),
         NEW u \in Workers, Step(u) \/ Lock(u), Moves(u), Alive(u) \/ Ended(u),
         NEW k \in Keys, k \notin crossed', k \notin torn'
  PROVE  Exists(k)' => Known(k)' /\ ((\E w \in Workers : Swept(w, k)') => Waits(k)')
<1>0. Shaped(u) /\ keys[u] \subseteq Reach(keys[u])
  BY ReachKeys DEF JobShape
<1>1. CASE k \notin Reach(keys[u])
  <2>1. k \notin crossed /\ manifest'[k] = manifest[k]
    BY <1>1, CrossedSteps
  <2>2. k \notin torn /\ place'[k] = place[k]
    BY <1>1 DEF Moves
  <2>3. k \notin keys[u] /\ k \notin gone[u]
    BY <1>0, <1>1 DEF Shaped
  <2>4. keys'[u] = keys[u] \/ keys'[u] = {}
    <3>1. Alive(u) => keys'[u] = keys[u]
      BY Zenon DEF Alive, Fetch, Look, MoveAside, Install, InstallFails, Lock, Record,
         SweepZims, SweepDevDocs, Sweep
    <3>2. QED
      BY <3>1 DEF Ended
  <2>5. k \notin keys'[u] /\ ~Swept(u, k)'
    BY <2>3, <2>4 DEF Swept
  <2>6. place'[k] # 0 => Exists(k)
    BY <2>2 DEF Exists
  <2>7. QED
    BY <2>1, <2>2, <2>3, <2>5, <2>6, OwnKept
<1>2. ASSUME k \in Reach(keys[u]), NEW v \in Workers, v # u, k \in keys[v]
      PROVE  /\ ~alone[u] /\ ((pc[u] \in Loaded \/ Lock(u)) => pc[v] \notin Loaded)
             /\ Kept(v)
  <2>1. k \in Reach(keys[v])
    BY <1>2, ReachKeys
  <2>2. QED
    BY <1>2, <2>1, Beside DEF Moves
<1>3. ASSUME k \in Reach(keys[u]), pc[u] \in Loaded \/ Lock(u), NEW w \in Workers,
             w # u, Swept(w, k)'
      PROVE  FALSE
  <2>1. Kept(w)
    BY <1>3 DEF Moves
  <2>2. Swept(w, k)
    BY <2>1, <1>3, KeptClaims
  <2>3. QED
    BY <1>2, <1>3, <2>2 DEF Swept, Loaded
<1>4. CASE /\ k \in Reach(keys[u])
           /\ \/ Fetch(u) \/ FetchFails(u) \/ Look(u) \/ MoveAside(u) \/ MoveAsideFails(u)
              \/ InstallFails(u) \/ Restore(u)
  <2>1. ~Record(u) /\ ~Forget(u)
    BY <1>4 DEF Fetch, FetchFails, Look, MoveAside, MoveAsideFails, InstallFails, Restore,
       Record, Forget
  <2>2. k \notin crossed
    BY <2>1, CrossedSteps
  <2>3. torn \subseteq torn'
    BY <1>4 DEF Fetch, FetchFails, Look, MoveAside, MoveAsideFails, InstallFails, Restore,
       Fails, histVars
  <2>4. QED
    BY <1>4, <2>2, <2>3, FetchOnRecord
<1>5. CASE k \in Reach(keys[u]) /\ Install(u)
  <2>1. /\ keys[u] = {Key(u)} /\ Key(u) \in Keys /\ pc[u] = "install" /\ torn' = torn
        /\ manifest' = manifest /\ keys' = keys /\ pc'[u] = "wait" /\ crossed' = crossed
        /\ place' = [place EXCEPT ![Key(u)] = stage[u]]
    BY <1>5, OneKey DEF Install, Downloads, Goes, TypeOK, histVars
  <2>2. CASE k = Key(u)
    <3>1. k \in keys'[u]
      BY <2>1, <2>2
    <3>2. QED
      BY <2>1, <3>1, NowWaits
  <2>3. CASE k # Key(u)
    <3>1. k \notin keys[u] /\ k \notin keys'[u] /\ k \notin gone[u] /\ ~Swept(u, k)'
      BY <1>0, <2>1, <2>3 DEF Shaped, Swept
    <3>2. place'[k] # 0 => Exists(k)
      BY <2>1, <2>3 DEF Exists, TypeOK
    <3>3. QED
      BY <2>1, <3>1, <3>2, OwnKept
  <2>4. QED
    BY <2>2, <2>3
<1>6. CASE k \in Reach(keys[u]) /\ Lock(u)
  <2>1. /\ pc[u] \in {"wait", "clean"} /\ UNCHANGED <<place, backup, manifest, keys, gone>>
        /\ torn' = torn /\ crossed' = crossed
        /\ pc' = [pc EXCEPT ![u] = IF pc[u] = "wait" THEN "update" ELSE "zims"]
    BY <1>6 DEF Lock, diskVars, histVars, Goes
  <2>2. \A w \in Workers : ~Swept(w, k)'
    <3>1. ~Swept(u, k)'
      BY <2>1 DEF Swept, TypeOK
    <3>2. QED
      BY <1>3, <1>6, <3>1
  <2>3. Exists(k)' => Exists(k)
    BY <2>1 DEF Exists, TypeOK
  <2>4. Known(k) => Known(k)'
    BY <2>1 DEF Known, Waits, TypeOK
  <2>5. QED
    BY <2>1, <2>2, <2>3, <2>4 DEF OnRecord
<1>7. CASE k \in Reach(keys[u]) /\ Record(u)
  <2>1. /\ keys[u] = {Key(u)} /\ Reach(keys[u]) = Family(Key(u)) /\ manifest'[Key(u)] = got[u]
        /\ \A j \in Family(Key(u)) \ {Key(u)} : manifest'[j] = 0
        /\ gone'[u] = {j \in Family(Key(u)) \ {Key(u)} : loaded[u][j] # 0}
    BY <1>7, RecordSaves
  <2>2. /\ pc[u] = "update" /\ got[u] # 0 /\ gone[u] = {} /\ pc[u] \in Loaded
    BY <1>0, <1>7 DEF Record, Shaped, Downloads, Loaded
  <2>3. \A w \in Workers : ~Swept(w, k)'
    <3>1. ~Swept(u, k)'
      BY <1>7 DEF Record, Goes, Swept, TypeOK
    <3>2. QED
      BY <1>3, <1>7, <2>2, <3>1
  <2>4. CASE manifest'[k] # 0 \/ k \in gone'[u]
    BY <2>3, <2>4 DEF Known
  <2>5. CASE manifest'[k] = 0 /\ k \notin gone'[u]
    <3>1. k # Key(u) /\ loaded[u][k] = 0
      BY <1>7, <2>1, <2>2, <2>5
    <3>2. /\ crossed' = (crossed \ Settled(u, {Key(u)} \cup gone'[u])) \cup Overwritten(u)
          /\ UNCHANGED <<place, torn, backup, keys>> /\ pc' = [pc EXCEPT ![u] = "tidy"]
      BY <1>7 DEF Record, Goes
    <3>3. k \notin crossed
      BY <2>5, <3>1, <3>2 DEF Settled
    <3>4. manifest[k] = 0
      BY <2>2, <3>1, <3>2 DEF Overwritten, LoadedCurrent
    <3>5. k \notin keys[u] /\ k \notin keys'[u] /\ k \notin gone[u] /\ ~Swept(u, k)'
      BY <2>1, <2>2, <2>3, <3>1, <3>2
    <3>6. place'[k] # 0 => Exists(k)
      BY <3>2 DEF Exists
    <3>7. QED
      BY <2>5, <3>2, <3>3, <3>4, <3>5, <3>6, OwnKept
  <2>6. QED
    BY <2>4, <2>5
<1>8. CASE k \in Reach(keys[u]) /\ Tidy(u)
  <2>1. /\ pc[u] = "tidy" /\ Ended(u) /\ manifest' = manifest /\ crossed' = crossed
    <3>1. Over({u}, stale) /\ {u} \in SUBSET Workers
      BY <1>8 DEF Tidy
    <3>2. QED
      BY <1>8, <3>1, OverKeeps DEF Tidy
  <2>2. /\ keys[u] = {Key(u)} /\ Key(u) \in Keys
    BY <2>1, OneKey DEF Downloads
  <2>3. place'[k] # 0 => Exists(k)
    BY <1>8 DEF Tidy, Exists
  <2>4. k \notin keys'[u] /\ ~Swept(u, k)'
    BY <2>1 DEF Ended, Swept
  <2>5. CASE k \in gone[u]
    <3>1. place'[k] = 0
      BY <1>8, <2>5 DEF Tidy
    <3>2. k \in Zims
      <4>1. k \in Family(Key(u)) /\ k # Key(u)
        BY <1>0, <2>2, <2>5 DEF Shaped, Reach
      <4>2. QED
        BY <2>2, <4>1, DocsCorpusAssumption DEF Family, Zims
    <3>3. ASSUME NEW v \in Workers, k \in keys'[v], backup'[v] # 0 PROVE FALSE
      <4>1. v # u
        BY <2>4, <3>3
      <4>2. k \in keys[v] /\ backup[v] # 0
        BY <3>3, <4>1 DEF Moves, Kept
      <4>3. QED
        BY <3>2, <4>2 DEF JobShape, Shaped, Zims
    <3>4. QED
      BY <3>1, <3>3 DEF Exists
  <2>6. CASE k \notin gone[u] /\ k \notin torn
    <3>1. k \in keys[u] => pc[u] \notin {"wait", "update"}
      BY <2>1
    <3>2. QED
      BY <2>1, <2>3, <2>4, <2>6, <3>1, OwnKept
  <2>7. CASE k \notin gone[u] /\ k \in torn
    <3>1. alone[u] /\ k \in keys[u]
      BY <1>8, <2>6, <2>7 DEF Tidy, Settled
    <3>2. manifest'[k] # 0
      BY <2>1, <3>1 DEF Held
    <3>3. ASSUME NEW w \in Workers, Swept(w, k)' PROVE FALSE
      <4>1. w # u
        BY <2>4, <3>3
      <4>2. k \in keys[w]
        BY <3>3, <4>1 DEF Moves, Kept, Swept
      <4>3. QED
        BY <1>2, <1>8, <3>1, <4>1, <4>2
    <3>4. QED
      BY <3>2, <3>3 DEF Known
  <2>8. QED
    BY <2>5, <2>6, <2>7
<1>9. ASSUME NEW S \in SUBSET keys[u], k \in S, NEW from, NEW to, Sweep(u, S, from, to)
      PROVE  ~Exists(k)'
  <2>1. place'[k] = 0
    BY <1>9 DEF Sweep
  <2>2. ASSUME NEW v \in Workers, k \in keys'[v] PROVE backup'[v] = 0
    BY <1>9, <2>2 DEF Sweep
  <2>3. QED
    BY <2>1, <2>2 DEF Exists
<1>10. CASE k \in Reach(keys[u]) /\ (SweepZims(u) \/ SweepDevDocs(u))
  <2>1. PICK S \in SUBSET keys[u], from \in {"zims", "devdocs"}, to \in {"devdocs", "forget"} :
           /\ Sweep(u, S, from, to)
           /\ from = "zims" => to = "devdocs" /\ S = keys[u] \cap Zims
           /\ from = "devdocs" => to = "forget" /\ S = keys[u] \cap DevDocs
    <3>1. keys[u] \cap Zims \in SUBSET keys[u] /\ keys[u] \cap DevDocs \in SUBSET keys[u]
      OBVIOUS
    <3>2. CASE SweepZims(u)
      BY <3>1, <3>2 DEF SweepZims
    <3>3. CASE SweepDevDocs(u)
      BY <3>1, <3>3 DEF SweepDevDocs
    <3>4. QED
      BY <1>10, <3>2, <3>3
  <2>2. /\ pc[u] = from /\ pc'[u] = to /\ UNCHANGED <<manifest, keys, gone>>
        /\ torn' = torn /\ crossed' = crossed
    BY <2>1 DEF Sweep, Goes, histVars, TypeOK
  <2>3. CASE k \in S
    BY <1>9, <2>1, <2>3
  <2>4. CASE k \notin S
    <3>1. place'[k] # 0 => Exists(k)
      BY <2>1, <2>4 DEF Sweep, Exists
    <3>2. Swept(u, k)' => Swept(u, k)
      BY <2>1, <2>2, <2>4 DEF Swept, Zims
    <3>3. k \notin gone[u] /\ pc[u] \notin {"wait", "update"} /\ pc'[u] \notin {"install", "restore"}
      BY <1>0, <2>1, <2>2 DEF Shaped
    <3>4. QED
      BY <2>2, <3>1, <3>2, <3>3, OwnKept
  <2>5. QED
    BY <2>3, <2>4
<1>11. CASE k \in Reach(keys[u]) /\ Forget(u)
  <2>1. /\ pc[u] = "forget" /\ pc[u] \in Loaded /\ place' = place
        /\ crossed' = (crossed \ Settled(u, keys[u])) \cup Overwritten(u)
        /\ torn' = torn \ Settled(u, keys[u])
    BY <1>11 DEF Forget, Loaded
  <2>2. Ended(u)
    <3>1. Over({u}, Outdated(u)) /\ {u} \in SUBSET Workers
      BY <1>11 DEF Forget
    <3>2. QED
      BY <3>1, OverKeeps
  <2>3. \A w \in Workers : ~Swept(w, k)'
    <3>1. ~Swept(u, k)'
      BY <2>2 DEF Ended, Swept
    <3>2. QED
      BY <1>3, <1>11, <2>1, <3>1
  <2>4. gone[u] = {}
    BY <1>0, <2>1 DEF Shaped
  <2>5. CASE k \notin keys[u]
    <3>1. k \notin crossed /\ k \notin torn
      BY <2>1, <2>5 DEF Settled
    <3>2. loaded[u][k] = manifest[k]
      BY <2>1 DEF Overwritten, LoadedCurrent
    <3>3. manifest'[k] = manifest[k]
      BY <1>11, <2>5, <3>2 DEF Forget, Save
    <3>4. place'[k] # 0 => Exists(k)
      BY <2>1 DEF Exists
    <3>5. k \notin keys'[u]
      BY <2>2 DEF Ended
    <3>6. QED
      BY <2>3, <2>4, <2>5, <3>1, <3>3, <3>4, <3>5, OwnKept
  <2>6. CASE k \in keys[u] /\ alone[u]
    <3>1. place'[k] = 0
      <4>1. Placed(u)
        BY DEF Progress
      <4>2. QED
        BY <2>1, <2>6, <4>1 DEF Placed, Mine
    <3>2. ASSUME NEW v \in Workers, k \in keys'[v] PROVE FALSE
      <4>1. v # u
        BY <2>2, <3>2 DEF Ended
      <4>2. k \in keys[v]
        BY <3>2, <4>1 DEF Moves, Kept
      <4>3. QED
        BY <1>2, <1>11, <2>6, <4>1, <4>2
    <3>3. QED
      BY <3>1, <3>2 DEF Exists
  <2>7. CASE k \in keys[u] /\ ~alone[u]
    <3>1. k \notin crossed /\ k \notin torn
      BY <2>1, <2>7 DEF Settled
    <3>2. Exists(k)' => Exists(k)
      <4>1. ASSUME NEW v \in Workers, k \in keys'[v], pc'[v] \in {"install", "restore"}, backup'[v] # 0
            PROVE  Exists(k)
        <5>1. v # u
          BY <2>2, <4>1 DEF Ended
        <5>2. Kept(v)
          BY <5>1 DEF Moves
        <5>3. QED
          BY <4>1, <5>2, KeptClaims DEF Exists
      <4>2. place'[k] # 0 => Exists(k)
        BY <2>1 DEF Exists
      <4>3. QED
        BY <4>1, <4>2 DEF Exists
    <3>3. Swept(u, k)
      BY <2>1, <2>7 DEF Swept
    <3>4. Exists(k) => Waits(k)
      BY <3>1, <3>3 DEF OnRecord
    <3>5. Waits(k) => Waits(k)'
      <4>1. ASSUME NEW v \in Workers, k \in keys[v], pc[v] = "wait"
            PROVE  k \in keys'[v] /\ pc'[v] = "wait"
        <5>1. v # u
          BY <2>1, <4>1
        <5>2. Kept(v)
          BY <5>1 DEF Moves
        <5>3. QED
          BY <4>1, <5>2, KeptClaims
      <4>2. QED
        BY <4>1 DEF Waits
    <3>6. QED
      BY <3>2, <3>4, <3>5 DEF Known
  <2>8. QED
    BY <2>5, <2>6, <2>7
<1>12. CASE k \in Reach(keys[u]) /\ UpdateFails(u)
  <2>1. /\ Ended(u) /\ pc[u] \in Loaded /\ place' = place /\ manifest' = manifest
        /\ crossed' = crossed /\ torn' = torn \cup keys[u] \cup gone[u]
    <3>1. Over({u}, stale) /\ {u} \in SUBSET Workers /\ Fails(u)
      BY <1>12 DEF UpdateFails, Fails
    <3>2. torn' = torn \cup keys[u] \cup gone[u]
      BY <1>12, <3>1 DEF UpdateFails, Fails, Apart, Loaded
    <3>3. QED
      BY <1>12, <3>1, <3>2, OverKeeps DEF UpdateFails
  <2>2. k \notin keys[u] /\ k \notin keys'[u] /\ k \notin gone[u] /\ k \notin torn /\ ~Swept(u, k)'
    BY <2>1 DEF Ended, Swept
  <2>3. place'[k] # 0 => Exists(k)
    BY <2>1 DEF Exists
  <2>4. QED
    BY <2>1, <2>2, <2>3, OwnKept
<1>13. QED
  BY <1>1, <1>4, <1>5, <1>6, <1>7, <1>8, <1>10, <1>11, <1>12, Zenon DEF Step

LEMMA StepOnRecord ==
  ASSUME TypeOK, JobShape, Lent, LoadedCurrent, Exclusive, Crossing, OnRecord,
         \A w \in Workers : Held(w), \A w \in Workers : Progress(w), [Next]_vars
  PROVE  OnRecord'
<1> SUFFICES ASSUME NEW k \in Keys, k \notin crossed', k \notin torn'
             PROVE  Exists(k)' => Known(k)' /\ ((\E w \in Workers : Swept(w, k)') => Waits(k)')
  BY DEF OnRecord
<1>1. ASSUME NEW w \in Workers, StartDownload(w) \/ StartClean(w)
      PROVE  Exists(k)' => Known(k)' /\ ((\E v \in Workers : Swept(v, k)') => Waits(k)')
  <2>1. PICK S \in SUBSET Keys, first \in {"fetch", "clean"} : Start(w, S, first)
    BY <1>1, StartForms
  <2>2. /\ pc[w] = "idle" /\ pc'[w] = first /\ torn' = torn /\ gone' = gone
        /\ UNCHANGED <<place, manifest>> /\ \A v \in Workers \ {w} : Kept(v)
    BY <2>1, StartFacts
  <2>3. crossed \subseteq crossed'
    BY <2>1 DEF Start
  <2>4. /\ ~Swept(w, k)' /\ pc'[w] \notin {"install", "restore"}
    BY <2>2 DEF Swept
  <2>5. Exists(k)' => Exists(k)
    <3>1. ASSUME NEW v \in Workers, k \in keys'[v], pc'[v] \in {"install", "restore"}, backup'[v] # 0
          PROVE  Exists(k)
      BY <2>2, <2>4, <3>1, KeptClaims DEF Exists
    <3>2. place'[k] # 0 => Exists(k)
      BY <2>2 DEF Exists
    <3>3. QED
      BY <3>1, <3>2 DEF Exists
  <2>6. ASSUME NEW v \in Workers
        PROVE  /\ k \in keys[v] /\ pc[v] = "wait" => k \in keys'[v] /\ pc'[v] = "wait"
               /\ k \in keys[v] /\ pc[v] = "update" => k \in keys'[v] /\ pc'[v] = "update"
               /\ k \in gone[v] => k \in gone'[v]
               /\ Swept(v, k)' => Swept(v, k)
    <3>1. CASE v = w
      BY <2>2, <2>4, <3>1
    <3>2. CASE v # w
      BY <2>2, <3>2, KeptClaims
    <3>3. QED
      BY <3>1, <3>2
  <2>7. QED
    BY <2>2, <2>3, <2>5, <2>6, RecordKept
<1>2. ASSUME NEW p \in Procs, Crash(p)
      PROVE  Exists(k)' => Known(k)' /\ ((\E v \in Workers : Swept(v, k)') => Waits(k)')
  <2> DEFINE W == {w \in Workers : ProcOf[w] = p}
  <2>1. /\ Over(W, stale) /\ W \in SUBSET Workers /\ torn \subseteq torn'
        /\ UNCHANGED <<place, manifest, crossed>> /\ \A v \in W : Apart(v) \subseteq torn'
    BY <1>2 DEF Crash
  <2> HIDE DEF W
  <2>2. (\A v \in W : Ended(v)) /\ \A v \in Workers \ W : Kept(v)
    BY <2>1, OverKeeps
  <2>3. ASSUME NEW v \in Workers
        PROVE  /\ k \in keys[v] /\ pc[v] = "wait" => k \in keys'[v] /\ pc'[v] = "wait"
               /\ k \in keys[v] /\ pc[v] = "update" => k \in keys'[v] /\ pc'[v] = "update"
               /\ k \in gone[v] => k \in gone'[v]
               /\ Swept(v, k)' => Swept(v, k)
               /\ k \in keys'[v] /\ pc'[v] \in {"install", "restore"} /\ backup'[v] # 0
                  => Exists(k)
    <3>1. CASE v \in W
      <4>1. k \notin Apart(v) /\ keys'[v] = {}
        BY <2>1, <2>2, <3>1 DEF Ended
      <4>2. k \in gone[v] => pc[v] = "tidy"
        BY DEF JobShape, Shaped
      <4>3. QED
        BY <4>1, <4>2 DEF Apart, Swept
    <3>2. CASE v \notin W
      BY <2>2, <3>2, KeptClaims DEF Exists
    <3>3. QED
      BY <3>1, <3>2
  <2>4. Exists(k)' => Exists(k)
    BY <2>1, <2>3 DEF Exists
  <2>5. QED
    BY <2>1, <2>3, <2>4, RecordKept
<1>3. CASE UNCHANGED vars
  <2>1. OnRecord'
    BY <1>3 DEF vars, diskVars, jobVars, histVars, OnRecord, Exists, Known, Waits, Swept
  <2>2. QED
    BY <2>1 DEF OnRecord
<1>4. ASSUME NEW u \in Workers, Step(u) \/ Lock(u)
      PROVE  Exists(k)' => Known(k)' /\ ((\E v \in Workers : Swept(v, k)') => Waits(k)')
  <2>1. Moves(u) /\ (Alive(u) \/ Ended(u))
    <3>1. CASE Alive(u)
      BY <3>1, AliveMoves
    <3>2. CASE ~Alive(u)
      <4>1. Step(u) /\ {u} \in SUBSET Workers
        BY <1>4, <3>2 DEF Alive
      <4>2. Ending({u})
        BY <3>2, <4>1, StepEnds
      <4>3. QED
        BY <4>1, <4>2, EndMoves, EndingKeeps
    <3>3. QED
      BY <3>1, <3>2
  <2>2. QED
    BY <1>4, <2>1, JobOnRecord
<1>5. QED
  BY <1>1, <1>2, <1>3, <1>4 DEF Next

-----------------------------------------------------------------------------
(* The theorems. *)

LEMMA Inductive == Spec => []IInv
<1>1. Init => IInv
  <2>1. ASSUME Init PROVE MutexLent /\ LoadedCurrent
    <3>1. TypeOK
      BY <2>1, InitTyped
    <3>2. \A w \in Workers : NoWorker # w /\ ProcOf[w] \in Procs
      BY DocsCorpusAssumption
    <3>3. Lent
      BY <2>1, <3>2 DEF Init, Lent, Loaded
    <3>4. QED
      BY <2>1, <3>1, <3>3, LentAlways DEF Init, LoadedCurrent, Loaded
  <2>2. QED
    BY <2>1, InitTyped, InitShaped, InitExclusive, InitProgress, InitAside, InitOnRecord
       DEF IInv
<1>2. IInv /\ [Next]_vars => IInv'
  <2> SUFFICES ASSUME IInv, [Next]_vars PROVE IInv'
    OBVIOUS
  <2>1. /\ TypeOK /\ JobShape /\ Lent /\ LoadedCurrent /\ Exclusive /\ RecordTrue
        /\ Crossing /\ ManifestSingle /\ OnRecord
        /\ \A w \in Workers : Progress(w) /\ Aside(w) /\ Held(w)
    BY LentAlways DEF IInv
  <2>2. TypeOK' /\ JobShape' /\ Lent'
    BY <2>1, StepTyped, StepShaped, StepLent
  <2>3. MutexLent'
    <3>1. TypeOK' => (MutexLent' <=> Lent')
      BY LentAlways, PTL
    <3>2. QED
      BY <2>2, <3>1
  <2>4. LoadedCurrent' /\ Exclusive' /\ RecordTrue'
    BY <2>1, StepLoaded, StepExclusive, StepTrue
  <2>5. \A w \in Workers : Progress(w)' /\ Aside(w)'
    BY <2>1, StepProgress, StepAside
  <2>6. Crossing' /\ ManifestSingle'
    BY <2>1, StepCrossing, StepSingle
  <2>7. OnRecord' /\ \A w \in Workers : Held(w)'
    BY <2>1, StepOnRecord, StepHeld
  <2>8. QED
    BY <2>2, <2>3, <2>4, <2>5, <2>6, <2>7 DEF IInv
<1>3. QED
  BY <1>1, <1>2, PTL DEF Spec

\* The types, for every instance.
THEOREM TypesKept == Spec => []TypeOK
<1>1. IInv => TypeOK
  BY DEF IInv
<1>2. QED
  BY <1>1, Inductive, PTL

\* manifestMu is held by exactly the worker that is between the load and the
\* save of the manifest, whatever step of it fails and however a process dies.
THEOREM MutexIsLent == Spec => []MutexLent
<1>1. IInv => MutexLent
  BY DEF IInv
<1>2. QED
  BY <1>1, Inductive, PTL

\* The manifest never has two releases of an archive; and what is on disk of a
\* set no job is at work on is recorded, so no superseded release is left over,
\* however the jobs of one process overlap.
THEOREM ReleasesSuperseded == Spec => []OneRelease
<1>1. ASSUME IInv PROVE OneRelease
  <2>1. OneEach(manifest)
    BY <1>1 DEF IInv, ManifestSingle
  <2>2. ASSUME NEW k \in Keys \ (crossed \cup torn \cup AtWork), place[k] # 0
        PROVE  manifest[k] # 0
    <3>1. Known(k)
      BY <1>1, <2>2 DEF IInv, OnRecord, Exists
    <3>2. \A w \in Workers : k \notin keys[w] /\ k \notin gone[w]
      <4>1. \A w \in Workers : /\ keys[w] \subseteq Reach(keys[w])
                                /\ gone[w] \subseteq Reach(keys[w])
        BY <1>1, ReachKeys DEF IInv, JobShape, Shaped
      <4>2. QED
        BY <2>2, <4>1 DEF AtWork
    <3>3. QED
      BY <3>1, <3>2 DEF Known, Waits
  <2>3. QED
    BY <2>1, <2>2 DEF OneRelease, OneEach
<1>2. QED
  BY <1>1, Inductive, PTL

\* What the manifest says of a key is what is installed, once the jobs on it
\* are over, unless jobs overlapped on it or the last of them failed half-way.
THEOREM ManifestTrue == Spec => []RecordTrue
<1>1. IInv => RecordTrue
  BY DEF IInv
<1>2. QED
  BY <1>1, Inductive, PTL

\* swapDir never leaves a key without the old set or the new one.
THEOREM SwapSafe == Spec => []SwapKeepsOne
<1>1. ASSUME IInv PROVE SwapKeepsOne
  <2> SUFFICES ASSUME NEW w \in Workers, NEW k \in DevDocs, keys[w] = {k}, alone[w],
                      before[w][k] # 0, pc[w] \notin {"clean", "zims", "devdocs", "forget"}
               PROVE  place[k] # 0 \/ backup[w] # 0
    BY DEF SwapKeepsOne
  <2>1. Aside(w) /\ pc[w] # "idle" /\ pc[w] \in Pcs
    BY <1>1 DEF IInv, JobShape, Shaped, TypeOK
  <2>2. QED
    BY <2>1 DEF Aside, Pcs
<1>2. QED
  BY <1>1, Inductive, PTL

\* A download that fails before it has installed its set leaves the old one.
THEOREM FailureKeeps == Spec => FailedDownloadKeeps
<1>1. ASSUME IInv, [Next]_vars
      PROVE  \A w \in Workers :
               /\ Busy(w) /\ pc'[w] = "idle" /\ alone[w] /\ faults' = faults
               /\ pc[w] \in {"fetch", "look", "aside", "install", "restore"}
               => \A k \in keys[w] : place'[k] = before[w][k]
  <2>1. /\ TypeOK /\ JobShape /\ Lent /\ LoadedCurrent /\ Exclusive
        /\ \A w \in Workers : Aside(w)
    BY <1>1, LentAlways DEF IInv
  <2>2. QED
    BY <1>1, <2>1, EndingLeaves
<1>2. QED
  BY <1>1, Inductive, PTL DEF FailedDownloadKeeps, Spec
=============================================================================
