----------------------------- MODULE DocsCorpus -----------------------------
(***************************************************************************)
(* The local documentation corpus (internal/mcpregistry/corpus.go):        *)
(* downloads of DevDocs sets, which are staged and swapped in, downloads   *)
(* of ZIM archives, which supersede the older releases, and `docs clean`,  *)
(* all recorded in one manifest.  A mutex serialises the manifest updates  *)
(* of one process; nothing serialises two processes, or the files.         *)
(*                                                                         *)
(* A key is one doc set; its content is a number, 0 when there is none.  A *)
(* worker runs one job at a time.  Each step is one system call on the     *)
(* shared directories, or one load and one save of the manifest.  Left     *)
(* out: how a body is fetched, hashed and ingested (it arrives verified or *)
(* the download fails), and that removing a directory is not one call.     *)
(***************************************************************************)
EXTENDS Naturals, FiniteSets

CONSTANTS
    Keys,        \* the doc sets
    DevDocs,     \* those that are DevDocs sets; the others are ZIM releases
    Archive,     \* [Keys -> names]: zimArchiveName; a DevDocs set has its own
    Workers, Procs,
    ProcOf,      \* [Workers -> Procs]
    NoWorker,
    MaxContent,  \* bound: distinct contents of a DevDocs set
    MaxJobs,     \* bound: jobs started in one behaviour
    MaxFaults    \* bound: failed calls and deaths in one behaviour

ASSUME DocsCorpusAssumption ==
    /\ DevDocs \subseteq Keys
    /\ \A k \in DevDocs, j \in Keys : Archive[j] = Archive[k] => j = k
    /\ ProcOf \in [Workers -> Procs] /\ NoWorker \notin Workers
    /\ MaxContent \in Nat \ {0} /\ MaxJobs \in Nat /\ MaxFaults \in Nat

VARIABLES
    place,       \* what is installed for each key
    manifest,    \* what is recorded for each key
    holder,      \* the worker in each process that holds manifestMu
    pc,          \* what each worker does next
    keys,        \* the keys each worker's job is for: one, or those it cleans
    stage,       \* its staging directory, or the temporary archive
    backup,      \* the set its swap moved aside
    got,         \* the content it fetched and hashed
    loaded,      \* the manifest it loaded
    gone,        \* the releases its update superseded
    before,      \* history: what was installed when its job started
    alone,       \* history: no job on the same archives ran beside it
    stale,       \* history: another process saved since it loaded
    raced,       \* history: keys on which jobs or updates overlapped
    crossed,     \* history: those on which jobs or updates of two processes did
    torn,        \* history: keys of which a job failed after changing them
    jobs, faults

diskVars == <<place, manifest, stage, backup>>
jobVars  == <<pc, keys, got, loaded, gone>>
histVars == <<before, alone, raced, crossed, torn>>
vars     == <<diskVars, holder, jobVars, histVars, stale, jobs, faults>>

Contents == 0..MaxContent
Nothing  == [k \in Keys |-> 0]
Pcs == {"idle", "fetch", "look", "aside", "install", "restore", "wait",
        "update", "tidy", "clean", "zims", "devdocs", "forget"}

Zims == Keys \ DevDocs
Family(k) == {j \in Keys : Archive[j] = Archive[k]}
Key(w) == CHOOSE k \in keys[w] : TRUE

\* The keys a job on S may change.
Reach(S) == UNION {Family(k) : k \in S}

Busy(w)  == pc[w] # "idle"
Loaded   == {"update", "zims", "devdocs", "forget"}
Fault    == faults < MaxFaults /\ faults' = faults + 1

Init ==
    /\ place = Nothing /\ manifest = Nothing
    /\ holder = [p \in Procs |-> NoWorker]
    /\ pc = [w \in Workers |-> "idle"] /\ keys = [w \in Workers |-> {}]
    /\ stage = [w \in Workers |-> 0] /\ backup = stage
    /\ got = stage /\ loaded = [w \in Workers |-> Nothing]
    /\ gone = keys /\ before = loaded
    /\ alone = [w \in Workers |-> TRUE] /\ stale = [w \in Workers |-> FALSE]
    /\ raced = {} /\ crossed = {} /\ torn = {} /\ jobs = 0 /\ faults = 0

-----------------------------------------------------------------------------
(* Starting and ending a job. *)

Start(w, S, first) ==
    LET rivals  == {v \in Workers : Busy(v) /\ Reach(keys[v]) \cap Reach(S) # {}}
        Shared(W) == UNION {Reach(keys[v]) \cap Reach(S) : v \in W}
    IN  /\ pc[w] = "idle" /\ jobs < MaxJobs
        /\ jobs' = jobs + 1
        /\ pc' = [pc EXCEPT ![w] = first] /\ keys' = [keys EXCEPT ![w] = S]
        /\ before' = [before EXCEPT ![w] = [k \in Keys |-> IF k \in S THEN place[k] ELSE 0]]
        /\ alone' = [v \in Workers |-> IF v = w THEN rivals = {}
                                       ELSE alone[v] /\ v \notin rivals]
        /\ raced' = raced \cup Shared(rivals)
        /\ crossed' = crossed \cup Shared({v \in rivals : ProcOf[v] # ProcOf[w]})
        /\ UNCHANGED <<diskVars, holder, got, loaded, gone, stale, torn, faults>>

StartDownload(w) == \E k \in Keys : Start(w, {k}, "fetch")

\* --zim, --devdocs and --all
StartClean(w) == \E S \in {Zims, DevDocs, Keys} : S # {} /\ Start(w, S, "clean")

\* The jobs of the workers in W are over; their staging directories go, and
\* what they moved aside is nobody's any more.
Over(W, late) ==
    LET Reset(f, default) == [w \in Workers |-> IF w \in W THEN default ELSE f[w]]
    IN  /\ pc' = Reset(pc, "idle") /\ keys' = Reset(keys, {})
        /\ stage' = Reset(stage, 0) /\ backup' = Reset(backup, 0)
        /\ got' = Reset(got, 0) /\ gone' = Reset(gone, {})
        /\ loaded' = Reset(loaded, Nothing) /\ before' = Reset(before, Nothing)
        /\ alone' = Reset(alone, TRUE) /\ stale' = Reset(late, FALSE)

\* Once a job has moved a set its record and the files may differ, until a
\* later job on the same keys.
Apart(w) == IF pc[w] \in {"idle", "fetch", "look", "aside"} THEN {}
            ELSE keys[w] \cup gone[w]

Fails(w) ==
    /\ Over({w}, stale)
    /\ torn' = IF pc[w] \in {"aside", "install"} THEN torn ELSE torn \cup Apart(w)

-----------------------------------------------------------------------------
(* Fetching and installing. *)

Goes(w, to) == pc' = [pc EXCEPT ![w] = to]

\* downloadFile and Ingest of a DevDocs set; downloadToTemp of an archive,
\* whose content matches its expected hash.
Fetch(w) ==
    /\ pc[w] = "fetch"
    /\ \E v \in IF Key(w) \in DevDocs THEN 1..MaxContent ELSE {1} :
          /\ stage' = [stage EXCEPT ![w] = v] /\ got' = [got EXCEPT ![w] = v]
    /\ Goes(w, IF Key(w) \in DevDocs THEN "look" ELSE "install")
    /\ UNCHANGED <<place, manifest, backup, holder, keys, loaded, gone, histVars,
                   stale, jobs, faults>>

\* No answer, a mismatch of the hash, or no room.
FetchFails(w) ==
    /\ pc[w] = "fetch" /\ Fails(w)
    /\ UNCHANGED <<place, manifest, holder, raced, crossed, jobs, faults>>

\* swapDir looks whether a set is installed,
Look(w) ==
    /\ pc[w] = "look"
    /\ Goes(w, IF place[Key(w)] # 0 THEN "aside" ELSE "install")
    /\ UNCHANGED <<diskVars, holder, keys, got, loaded, gone, histVars, stale,
                   jobs, faults>>

\* A swap that removes the installed set.
MoveAsideDrops(w) ==
    /\ pc[w] = "aside" /\ place[Key(w)] # 0
    /\ place' = [place EXCEPT ![Key(w)] = 0]
    /\ Goes(w, "install")
    /\ UNCHANGED <<manifest, stage, backup, holder, keys, got, loaded, gone, histVars,
                   stale, jobs, faults>>

\* moves it aside,
MoveAside(w) ==
    /\ pc[w] = "aside" /\ place[Key(w)] # 0
    /\ backup' = [backup EXCEPT ![w] = place[Key(w)]]
    /\ place' = [place EXCEPT ![Key(w)] = 0]
    /\ Goes(w, "install")
    /\ UNCHANGED <<manifest, stage, holder, keys, got, loaded, gone, histVars,
                   stale, jobs, faults>>

MoveAsideFails(w) ==
    /\ pc[w] = "aside"
    /\ \/ place[Key(w)] = 0 /\ UNCHANGED faults
       \/ Fault
    /\ Fails(w)
    /\ UNCHANGED <<place, manifest, holder, raced, crossed, jobs>>

\* and renames the stage to its place; an archive replaces the installed one.
Install(w) ==
    /\ pc[w] = "install" /\ stage[w] # 0
    /\ Key(w) \in DevDocs => place[Key(w)] = 0
    /\ place' = [place EXCEPT ![Key(w)] = stage[w]]
    /\ stage' = [stage EXCEPT ![w] = 0]
    /\ Goes(w, "wait")
    /\ UNCHANGED <<manifest, backup, holder, keys, got, loaded, gone, histVars,
                   stale, jobs, faults>>

\* The stage was cleaned away, another set is there, or the rename fails.
InstallFails(w) ==
    /\ pc[w] = "install"
    /\ \/ stage[w] = 0 /\ UNCHANGED faults
       \/ Key(w) \in DevDocs /\ place[Key(w)] # 0 /\ UNCHANGED faults
       \/ Fault
    /\ \/ /\ backup[w] # 0 /\ Goes(w, "restore")
          /\ UNCHANGED <<stage, backup, keys, got, loaded, gone, before, alone,
                         stale, torn>>
       \/ backup[w] = 0 /\ Fails(w)
    /\ UNCHANGED <<place, manifest, holder, raced, crossed, jobs>>

\* A swap that leaves the old set where it moved it.
RestoreNothing(w) ==
    /\ pc[w] = "restore" /\ Fails(w)
    /\ UNCHANGED <<place, manifest, holder, raced, crossed, jobs, faults>>

\* The set moved aside is put back, unless another is there or that fails too.
Restore(w) ==
    /\ pc[w] = "restore"
    /\ \/ /\ backup[w] # 0 /\ place[Key(w)] = 0
          /\ place' = [place EXCEPT ![Key(w)] = backup[w]]
          /\ Over({w}, stale) /\ UNCHANGED <<torn, faults>>
       \/ /\ backup[w] = 0 \/ place[Key(w)] # 0
          /\ Fails(w) /\ UNCHANGED <<place, faults>>
       \/ Fault /\ Fails(w) /\ UNCHANGED place
    /\ UNCHANGED <<manifest, holder, raced, crossed, jobs>>

-----------------------------------------------------------------------------
(* The manifest. *)

\* An update that does not take the mutex.
Unserialised(w) == TRUE

Admitted(w) == holder[ProcOf[w]] = NoWorker

\* updateManifest takes the mutex and loads.
Lock(w) ==
    /\ pc[w] \in {"wait", "clean"} /\ Admitted(w)
    /\ holder' = [holder EXCEPT ![ProcOf[w]] = w]
    /\ loaded' = [loaded EXCEPT ![w] = manifest]
    /\ Goes(w, IF pc[w] = "wait" THEN "update" ELSE "zims")
    /\ UNCHANGED <<diskVars, keys, got, gone, histVars, stale, jobs, faults>>

Unlock(w) == holder' = [holder EXCEPT ![ProcOf[w]] = NoWorker]

\* w saves m in place of what another process may have saved since w loaded.
Save(w, m) == manifest' = m /\ Unlock(w)

Overwritten(w) == IF stale[w] THEN {k \in Keys : manifest[k] # loaded[w][k]} ELSE {}

Outdated(w) ==
    [v \in Workers |-> stale[v] \/ (ProcOf[v] # ProcOf[w] /\ pc[v] \in Loaded)]

\* An alone job sets right what it saves.
Settled(w, S) == IF alone[w] THEN S ELSE {}

Recorded(m, k, v) ==
    [j \in Keys |-> IF j = k THEN v ELSE IF j \in Family(k) THEN 0 ELSE m[j]]

\* DownloadDevDocs and DownloadZIM record the set and drop its other releases.
Record(w) ==
    LET k == Key(w)
    IN  /\ pc[w] = "update"
        /\ Save(w, Recorded(loaded[w], k, got[w]))
        /\ gone' = [gone EXCEPT ![w] = {j \in Family(k) \ {k} : loaded[w][j] # 0}]
        /\ raced' = (raced \ Settled(w, {k} \cup gone'[w])) \cup Overwritten(w)
        /\ crossed' = (crossed \ Settled(w, {k} \cup gone'[w])) \cup Overwritten(w)
        /\ stale' = [Outdated(w) EXCEPT ![w] = FALSE]
        /\ loaded' = [loaded EXCEPT ![w] = Nothing]
        /\ Goes(w, "tidy")
        /\ UNCHANGED <<place, stage, backup, keys, got, before, alone, torn, jobs,
                       faults>>

\* The set moved aside, or the archives superseded, are removed; a failure is
\* ignored.
Tidy(w) ==
    /\ pc[w] = "tidy" /\ Over({w}, stale)
    /\ \/ /\ place' = [k \in Keys |-> IF k \in gone[w] THEN 0 ELSE place[k]]
          /\ torn' = torn \ Settled(w, keys[w] \cup gone[w])
          /\ UNCHANGED faults
       \/ /\ Fault /\ torn' = torn \cup gone[w]
          /\ UNCHANGED place
    /\ UNCHANGED <<manifest, holder, raced, crossed, jobs>>

\* Everything below the directories of S goes, with what workers staged or
\* moved aside there.
Sweep(w, S, from, to) ==
    /\ pc[w] = from /\ Goes(w, to)
    /\ place' = [k \in Keys |-> IF k \in S THEN 0 ELSE place[k]]
    /\ stage' = [v \in Workers |-> IF keys[v] \cap S # {} THEN 0 ELSE stage[v]]
    /\ backup' = [v \in Workers |-> IF keys[v] \cap S # {} THEN 0 ELSE backup[v]]
    /\ UNCHANGED <<manifest, holder, keys, got, loaded, gone, histVars, stale,
                   jobs, faults>>

\* clean removes the archives, then the DevDocs sets, then their entries.
SweepZims(w)    == Sweep(w, keys[w] \cap Zims, "zims", "devdocs")
SweepDevDocs(w) == Sweep(w, keys[w] \cap DevDocs, "devdocs", "forget")

Forget(w) ==
    /\ pc[w] = "forget"
    /\ Save(w, [k \in Keys |-> IF k \in keys[w] THEN 0 ELSE loaded[w][k]])
    /\ raced' = (raced \ Settled(w, keys[w])) \cup Overwritten(w)
    /\ crossed' = (crossed \ Settled(w, keys[w])) \cup Overwritten(w)
    /\ torn' = torn \ Settled(w, keys[w])
    /\ Over({w}, Outdated(w)) /\ UNCHANGED <<place, jobs, faults>>

\* A failed update that keeps the mutex.
UpdateFailsLocked(w) ==
    /\ pc[w] \in Loaded /\ Fault
    /\ Fails(w)
    /\ UNCHANGED <<place, manifest, holder, raced, crossed, jobs>>

\* The manifest cannot be read or written, or a directory not removed: the
\* mutex is released, and what was swapped or swept stays.
UpdateFails(w) ==
    /\ pc[w] \in Loaded /\ Fault
    /\ Unlock(w) /\ Fails(w)
    /\ UNCHANGED <<place, manifest, raced, crossed, jobs>>

\* The process dies with all its workers, and its mutex with it.
Crash(p) ==
    LET W == {w \in Workers : ProcOf[w] = p}
    IN  /\ \E w \in W : Busy(w)
        /\ Fault /\ Over(W, stale)
        /\ holder' = [holder EXCEPT ![p] = NoWorker]
        /\ torn' = torn \cup UNION {Apart(w) : w \in W}
        /\ UNCHANGED <<place, manifest, raced, crossed, jobs>>

Step(w) ==
    \/ Fetch(w) \/ FetchFails(w) \/ Look(w) \/ MoveAside(w) \/ MoveAsideFails(w)
    \/ Install(w) \/ InstallFails(w) \/ Restore(w)
    \/ Record(w) \/ Tidy(w)
    \/ SweepZims(w) \/ SweepDevDocs(w) \/ Forget(w) \/ UpdateFails(w)

Next ==
    \/ \E w \in Workers : StartDownload(w) \/ StartClean(w) \/ Step(w) \/ Lock(w)
    \/ \E p \in Procs : Crash(p)

Spec == Init /\ [][Next]_vars

TypeOK ==
    /\ place \in [Keys -> Contents] /\ manifest \in [Keys -> Contents]
    /\ holder \in [Procs -> Workers \cup {NoWorker}]
    /\ pc \in [Workers -> Pcs] /\ keys \in [Workers -> SUBSET Keys]
    /\ stage \in [Workers -> Contents] /\ backup \in [Workers -> Contents]
    /\ got \in [Workers -> Contents] /\ gone \in [Workers -> SUBSET Keys]
    /\ loaded \in [Workers -> [Keys -> Contents]]
    /\ before \in [Workers -> [Keys -> Contents]]
    /\ alone \in [Workers -> BOOLEAN] /\ stale \in [Workers -> BOOLEAN]
    /\ raced \subseteq Keys /\ crossed \subseteq Keys /\ torn \subseteq Keys
    /\ jobs \in 0..MaxJobs /\ faults \in 0..MaxFaults

-----------------------------------------------------------------------------
(* Properties. *)

AtWork == UNION {Reach(keys[w]) : w \in Workers}

\* What the manifest says of a set no job is at work on is what is installed,
\* content and absence: jobs of one process lose nothing of each other, a
\* release that was superseded leaves neither entry nor archive, and the next
\* job on a set repairs what a dead one left.  Only keys whose own jobs, or
\* updates of two processes, overlapped may be wrong (updateManifest, swapDir).
RecordTrue ==
    \A k \in Keys \ (raced \cup torn \cup AtWork) : manifest[k] = place[k]

\* However jobs interleave, the manifest has at most one release of an archive;
\* and jobs of one process, also those that overlap on the same archive, leave
\* no set on disk that the manifest does not have, so no other release either.
\* Keys on which two processes overlapped or a job failed may have one.
OneRelease ==
    /\ \A j, k \in Keys :
          j # k /\ Archive[j] = Archive[k] => manifest[j] = 0 \/ manifest[k] = 0
    /\ \A k \in Keys \ (crossed \cup torn \cup AtWork) :
          place[k] # 0 => manifest[k] # 0

\* While a set is swapped, the old one or the new one is on disk.
SwapKeepsOne ==
    \A w \in Workers, k \in DevDocs :
        keys[w] = {k} /\ alone[w] /\ before[w][k] # 0
        /\ pc[w] \notin {"clean", "zims", "devdocs", "forget"}
        => place[k] # 0 \/ backup[w] # 0

\* A download that fails before it is installed leaves the set it was to
\* replace, as DownloadDevDocs says; one that fails after that, or dies, or
\* cannot put the old set back, may not.
FailedDownloadKeeps ==
    [][\A w \in Workers :
         /\ Busy(w) /\ pc'[w] = "idle" /\ alone[w] /\ faults' = faults
         /\ pc[w] \in {"fetch", "look", "aside", "install", "restore"}
         => \A k \in keys[w] : place'[k] = before[w][k]]_vars

\* manifestMu is held by a worker of the process that is updating the manifest,
\* and no other worker of the process is: whatever step fails, it is given back.
MutexLent ==
    \A p \in Procs :
        {w \in Workers : ProcOf[w] = p /\ pc[w] \in Loaded} = {holder[p]} \ {NoWorker}
=============================================================================
