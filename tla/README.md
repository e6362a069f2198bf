# Formal models of qsdev

qsdev writes hardened development-environment and AI-agent configuration into a
project, remembers what it wrote, and rewrites it on every update without
destroying what the developer changed.  A second part of it decides, call by
call, whether an AI agent's tool call may run; a third serves tools to the agent
over MCP and rations them; a fourth keeps documentation on disk for it.  This
directory holds TLA+ models of the parts of these where ordering, crashes and
concurrency decide correctness, the TLC configurations that check them, and
proofs that TLAPS checks.

Paths below are relative to the repository root.

## 1. Inventory

### The generated-file lifecycle

| Part | State it keeps | Operations |
|------|----------------|------------|
| Generation ledger (`internal/state`) | the init state file (per file: hash, strategy, three-way base, owner; release that wrote it), the committed manifest | `RecordFiles`, `CheckModified`, `OrphanedFiles`, `BuildManifest`, `SaveInitState` |
| Write pipeline (`pkg/generate/pipeline.go`) | the results so far of one run | `WriteFiles`: decide per file whether to write, keep, merge, put a sidecar beside it or fail |
| Init and join (`addons/devinit/commands.go`, `join.go`) | answers file, `.qsdev.yaml` | `runCreate`, `runJoin`, `finalizeProject` |
| Update (`addons/devinit/update.go`, `internal/update`) | an update plan, an outcome | `buildUpdatePlan`, `holdPairedFiles`, `planOrphans`, `executeUpdatePlan`, `saveUpdateResults` |
| Merge engine (`internal/merge`) | none | section-marker and three-way merges |
| Tool lifecycle (`addons/devinit/lifecycle.go`, `internal/toolreg`) | same ledger, the tools the answers have on, the committed opt-outs | `runEnable`, `runDisable`, `SettleProject` |
| Repair (`internal/repair`) | timestamped backups of each file, same ledger | `classifyFindings`, `executeRepair`, `createBackup`, `pruneBackups` |
| Teardown (`internal/teardown`, `internal/surgery`) | same ledger | `ClassifyFiles`, `Execute`: remove, forget, clean |
| Check and auto-fix (`internal/check`) | none | report, re-create the manifest |

The parts talk through files only: the project's files and their `.new`
sidecars, the state file and the answers (local, gitignored), the manifest and
`.qsdev.yaml` (committed).  There is no lock and no journal, a command may die
or fail anywhere, and the developer may edit at any time.  What makes this part
correct: qsdev never destroys text it has no licence to destroy; it always
recognises its own output, so updates go on reaching every file; files that
belong together change together; a repeated update is a no-op.

### The bypass store

| Part | State it keeps | Operations |
|------|----------------|------------|
| Bypass grant store (`internal/policyengine/policy/bypass.go`) | a JSON file of grants shared by all processes of the user | read, add, redeem, clear, prune |
| File lock (`pkg/fileutil/lock.go`) | an advisory lock on a sibling file | lock with a deadline, unlock |
| PreToolUse orchestrator (`internal/policyengine/orchestrator.go`, `policy/engine.go`, `policy/evaluator.go`) | none between calls | evaluate, deputy check, evaluate again, redeem |
| Session commands (`addons/devinit/session_command.go`) | none | `session allow`, `session clear` |

Each tool call runs its own hook process; humans run the session commands in
other terminals.  Reading is unlocked, changing is a locked read, change and
atomic replace.  What makes this part correct: a one-shot token pays for one
call; a call that runs has paid for all it relied on; no grant is lost; every
hook decides, because a hook that does not answer lets the call run.

### The tool-call limiter

| Part | State it keeps | Operations |
|------|----------------|------------|
| Rate-limiting layer (`internal/mcpserve/middleware/ratelimit.go`) | a map of token buckets by (principal, category), a semaphore per category, the time of the last sweep | `acquire`, `allow` (refill, evict idle, evict full, overflow), release |
| The other layers, tools, transports (`internal/mcpserve`) | none between calls | identify the caller, check, run, audit |

One server process, any number of requests at once.  The map has a mutex, but the
clock is read outside it, and the slot is taken before the token.  What makes this
part correct: a caller is served no more than its burst and rate, whatever is
evicted; the map stays bounded however many identities call; no path leaks a slot.

### The documentation corpus

| Part | State it keeps | Operations |
|------|----------------|------------|
| Corpus (`internal/mcpregistry/corpus.go`) | DevDocs directories, ZIM archives, `manifest.json`, staging and backup directories of downloads under way | `DownloadDevDocs`, `swapDir`, `DownloadZIM`, `Clean`, `updateManifest` |
| `docs` commands (`addons/claudecode/docs_command.go`) | none | download, update, clean |

Workers of several processes share the directories and the manifest; a mutex
serialises the manifest updates of one process only.  What makes this part
correct: the manifest says what is installed; a failed or dying download does not
cost the installed set; one release of an archive stays.

### The rest

`PROJECT.json` lists every component with the reason for its status.  Large
parts are pure functions or tables (`pkg/ecosystem`, generators, catalog,
posture, the self-protection scanner), wrappers of external tools or read-only
reports.  The ones with state that matters and are not modelled yet are in the
plan (section 7).

## 2. Modules

| Module | What it is |
|--------|------------|
| `Ledger` | contents and their entries, state entries, on-disk status, manifest, the merges |
| `Pipeline` | the decision of `WriteFiles` for one file |
| `UpdatePlan` | the whole plan of an update, from state and disk |
| `Lifecycle` | the state machine: commands, the developer, crashes; the properties |
| `MCLifecycle` | three instances of it for TLC |
| `UpdatePlan_proofs` | lemmas about update's planner that the proofs of `Lifecycle` and `Upkeep` share |
| `Lifecycle_proofs` | types, recorded bases, user edits |
| `LifecycleOutput_proofs` | what the commands record, adopt, converge on, keep together and leave alone |
| `BypassGrants` | abstract specification: a set of grants changed in atomic steps |
| `BypassStore` | the hooks, the terminals, the lock and the file; the properties |
| `MCBypassStore` | its instance for TLC |
| `BypassStore_proofs` | its theorems, among them that `BypassStore` implements `BypassGrants` |
| `UpkeepPlan` | what enable, disable, update, repair and teardown decide before they write |
| `Upkeep` | the state machine of an initialised project: these commands, the developer, faults; the properties |
| `MCUpkeep` | two instances of it for TLC |
| `Upkeep_proofs` | its theorems: the record, user text, complete changes and teardowns |
| `UpkeepHooks_proofs` | the theorem about hooks and their library |
| `Quota` | abstract specification: a plain credit for every caller and category |
| `ToolCalls` | the limiter's slots and buckets; the properties |
| `MCToolCalls` | its instance for TLC |
| `ToolCalls_proofs` | its theorems, among them that `ToolCalls` implements `Quota` |
| `DocsCorpus` | downloads, cleaning and the manifest; the properties |
| `MCDocsCorpus` | its instance for TLC |
| `DocsCorpus_proofs` | its theorems |

`Lifecycle` extends `Pipeline` and `UpdatePlan`, which extend `Ledger`; these
three are constant-level, so the same operators serve init, join and update.
`Upkeep` extends `UpkeepPlan`, which extends `UpdatePlan`: enable and disable plan
shared files with update's own planner, as the code does.
Each module comes with commented mutants: operators named for the bug they
introduce, each defined just before the operator it is a variant of, and used
only to show that a property depends on the code it is about.

### Lifecycle: state and actions

A file's content is the pair of the qsdev output it carries (`gen`, a generation
or 0) and the user text it carries (`edit`, 0 for none).  The code tells contents
apart by equality with the generated bytes, by hash and by merge, and all three
are functions of this pair.  A generation stands for a set of entries (`Sections`):
the MCP servers, hooks or sections that qsdev wrote and that are in the file as
qsdev wrote them.  An entry has a name (`NameOf`) and a revision, and a file has at
most one entry of a name.  The generations in `Releases` are what releases
generate; the others are what merges and the user make of them.  A deleted file is `[gen |-> 0, edit |-> 0]`: qsdev
generates no empty file, and a user's empty file is not distinguished from an
absent one.

| Model | Code |
|-------|------|
| `disk`, `sidecar` | project files and their `.new` sidecars |
| `state`, `savedVersion`, `manifest`, `present` | the state file, its `qsdev_version`, the committed manifest, and which of state, answers and config exist |
| `version`, `profile` | the installed binary, and what answers, detection and tier ask to generate |
| `op`, `force`, `pc`, `plan`, `todo`, `out`, `dropped`, `failed` | the running command and its locals (`updateOutcome`, `WriteResult`) |
| `fresh`, `torn`, `touched`, `adrift`, `settled` | history variables, read by properties only (`fresh` also resets with the command). `adrift`: the user, or a command that died before recording it, changed the file since qsdev last wrote it without an older base |
| `StartCreate`, `StartJoin`, `StartUpdate` | `runCreate`, `runJoin`, `runUpdateWith` up to the plan, with the join guard and the version ratchet |
| `InitWrite`, `InitMerge`, `InitMergeFails`, `InitKeep`, `InitSidecar`, `InitFails`, `InitWriteError` | the outcomes of `fileWriter.write` for one file |
| `UpdateWrite`, `UpdateMerge`, `UpdateFails`, `UpdateSidecar`, `UpdateRemove`, `UpdateRemoveFails`, `UpdateUntrack`, `UpdateSkip`, `UpdateStops` | the outcomes of `executeUpdatePlan` for one file |
| `SaveState`, `SaveManifest`, `SaveAnswers`, `Finish` | the saves, in the code's order, each its own step because a command may die between any two |
| `Crash` | the process dies, or a save fails and the command returns |
| `UserEdit`, `UserDelete`, `AcceptSidecar`, `Reconfigure`, `SwitchBinary`, `FreshClone` | the developer and the project around qsdev |

One step handles one file: its read, decision and atomic replace.  An edit that
hits that instant is not modelled; an edit at any other time is.  Files are
handled in the code's order (path order, held files last for init, orphans last
for update).  Update acts on the plan it made at the start, as the code does,
init decides each file when it gets to it.

The merges are those of `internal/merge`, entry by entry.  `MergeMcpJson` puts an
entry of this release into the file unless the recorded base has an entry of that
name and the file has another or none, which then stands as the user's doing, and
keeps what the file has beyond release and base.  Without a recorded base nothing
is the user's deletion, and entries of an older release that this one dropped stay
as the user's.  `MergeSettings` takes all of this release and what the file has
beyond the base.  `MergeContent` picks the merge; a section-marker merge replaces
its block as a whole.  The user's own servers and hooks are part of `edit`, which
every merge keeps; an entry of qsdev's that the user took out or rewrote is missing
from `gen` (`UserEdits`).  Of the merges, the overlay of fields inside an entry,
servers corrupted to empty ones, the environment, sandbox and policy fields of the
settings, and `MergeYAML` are left out.

Left out, deliberately: file modes, unreadable files (the `Unknown` status),
CRLF checkouts, path containment and symlinks, dry runs, filtering of MCP
servers by client policy, the gateway compose file, a stale sidecar that cannot
be removed, manifest entries of local-only paths, and two qsdev commands at
once.  The invalid contents of a release are a constant (`Rejected`).

### BypassStore: state and actions

A grant has an identity (the number of the command that added it) and an
expiry; a slot is a rule in a scope, as `sameSlot` defines it.  The tier is the
rule's (`CommandRules`).

| Model | Code |
|-------|------|
| `file` | the grants file; `holder` the lock on its sibling |
| `pc`, `job`, `asOf`, `wants`, `newGrant`, `loaded`, `done` | a process's place and locals |
| `matched` | the rules the call's input matches, chosen when it starts |
| `redeemed`, `stored` | history: what each call spent, what was ever written |
| `CallStarts`, `DeputyCheck`, `SessionCheck`, `CallAllowed`, `CallBlocked` | `RunPreToolUse`: two unlocked reads of the overrides, at different times |
| `AllowStarts`, `ClearStarts` | `runSessionAllow` (time fixed before confirming), `sessionClearCmd` |
| `TakeLock`, `LockTimeout`, `Load`, `WriteRedeem`, `WriteAllow`, `WriteClear`, `UpdateFails`, `Unlock` | `update` and `Clear` under the lock |
| `Dies`, `Tick` | crashes, which release the lock, and the clock |

Rule matching is an input.  Enforce-tier blocks, panics (both block without
touching the store), the legacy override list, which lifts nothing, and policy
reload are left out.  `UpdateFails` covers a missing token and every error of
reading or writing; `WriteFileAtomic` either replaces the file or leaves it.

### Upkeep: state and actions

The release is fixed here, so an entry is a tool's section, and a content's `gen` is
a rendering: which tools' sections a shared file carries (`Sections`), or 1 for a
tool's own file.  The answers' Claude Code switch stands beside the tools
(`ClaudeCode`): with it off, the files in `Claude` are not generated.
`Lifecycle` covers releases, joins, the manifest and init; a behaviour of `Upkeep`
starts where a clean init ends, with any tools on.

| Model | Code |
|-------|------|
| `disk`, `sidecar`, `backups` | project files, their `.new` sidecars, repair's backups |
| `state`, `present`, `answers`, `optOut` | the state file's entries, which of qsdev's own files exist, the tools the answers have on and whether Claude Code is, the always-on tools the committed config has off |
| `op`, `on`, `target`, `force`, `pc`, `plan`, `todo`, `out`, `dropped`, `failed` | the running command and its locals |
| `fresh`, `torn`, `touched` | history variables; nothing but the properties reads them |
| `Effective` | `loadLifecycleAnswers`: the answers, empty when their file is missing; a committed config turns Claude Code on, and Claude Code every always-on tool without a committed opt-out |
| `StartEnable`, `StartDisable`, `StartUpdate`, `StartRepair`, `StartTeardown` | the commands up to their plan, with the join guard, the refusals and `--force` or `--reset`. Enable, disable and repair go on from empty answers when the file is missing (`loadAnswersOrEmpty`), update does not |
| `WriteFile`, `MergeFile`, `MergeFails`, `WriteSidecar`, `SkipFile`, `RemoveFile`, `RemoveFails`, `UntrackFile`, `UpdateStops` | `applyToolChange`, `exclusiveRemoval.apply`, `executeUpdatePlan` for one file |
| `StripSection`, `StripFails` | `removeStaleSections` |
| `RepairFile`, `RepairFails` | `executeRepair`: back up, prune, write, record |
| `StartRecord`, `RemoveOwn`, `RecordRemoved`, `CleanFile`, `CleanFails`, `RemoveDirs` | `Execute`: tracked files, then qsdev's own files, then shared files, then the state directory |
| `SaveState`, `SaveAnswers`, `SyncConfig`, `Finish` | the three saves, each its own step |
| `Crash` | the process dies, a save fails, or a write of enable or disable fails: both return at once and record nothing |
| `ChangeStops` | enable and disable return in the same way when the `devenv.nix` to put a sidecar beside is gone; update stops and saves (`UpdateStops`). Both have removed a stale sidecar by then. A held file's sidecar is written whether the file is there or not |
| `UserEdit`, `UserDelete`, `AcceptSidecar` | the developer, also while a command runs |

Every always-on tool of the model belongs to Claude Code, as the registry's that
generate files do; always-on tools that apply without it are left out.

Left out: prerequisites and conflicts between tools, languages, `--file`, dry runs,
content validation (in `Lifecycle`), archives and reports of teardown, unreadable
files, and two commands at once.

### ToolCalls: state and actions

Time is counted in ticks long enough for rates to be whole; fractions of a token
are left out.

| Model | Code |
|-------|------|
| `buckets`, `lastSweep` | `limiter.buckets`, `limiter.lastSweep` |
| `held` | slots taken in each semaphore |
| `call` | each request: in the limiter or its handler, its principal, category and clock reading |
| `served` | history: calls served since the last tick |
| `Acquire` | `acquire` and the clock reading at the head of `allow` |
| `Allow`, `Limited` | the rest of `allow`, under the mutex: sweep, make room, refill, pay or refuse |
| `Return` | the handler ends in whatever way; the deferred release |

A request that finds no slot is answered at once and changes nothing, so it is no
step.  Readings may be used out of order and long after they were made.

### DocsCorpus: state and actions

| Model | Code |
|-------|------|
| `place`, `manifest` | what is installed, and recorded, for each key |
| `stage`, `backup` | a worker's staging directory or temporary archive, and the set its swap moved aside |
| `holder` | `manifestMu` of each process |
| `pc`, `keys`, `got`, `loaded`, `gone` | a worker's job and its locals |
| `before`, `alone`, `stale`, `raced`, `crossed`, `torn` | history variables; `raced` has the keys on which any jobs overlapped, `crossed` those on which jobs of two processes did |
| `Fetch`, `Look`, `MoveAside`, `Install`, `Restore` | `DownloadDevDocs` with `swapDir`, and `DownloadZIM`, one system call per step |
| `Lock`, `Record`, `Tidy` | `updateManifest` and what follows it |
| `SweepZims`, `SweepDevDocs`, `Forget` | `clean`, inside `updateManifest` |
| `FetchFails`, `MoveAsideFails`, `InstallFails`, `UpdateFails`, `Crash` | failed calls, and a dying process with all its workers |

How a body is fetched and hashed is left out: it arrives verified or the download
fails.  Removing a directory counts as one call.

## 3. Properties and runs

| Run | Instance | Properties |
|-----|----------|------------|
| `lifecycle_pair` | `devenv.nix` (manual merge) and the `devenv.yaml` held with it; release 2's `devenv.nix` fails validation | `OwnOutputRecorded`, `OwnOutputAdopted`, `ForcedUpdateConverges`, `EditsSurvive`, `PairInStep`, `UpdateIdempotent` |
| `lifecycle_merge` | a tool's three-way merged `.mcp.json`; release 2 revises the server of release 1 and adds one; three profiles that retire the file with or without the tool | `TypeOK`, `BaseIsGenerated`, `OwnOutputRecorded`, `EntriesFollow`, `ForcedUpdateConverges`, `EditsSurvive`, `UpdateIdempotent` |
| `lifecycle_library` | a section-marker file, a tool's library-managed settings file and a skip-if-exists file; two profiles | `OwnOutputAdopted`, `ForcedUpdateConverges`, `EditsSurvive` |
| `bypass_store` | two calls, one of them an MCP call the deputy check denies, two terminals, three rules | `TypeOK`, `OneShot`, `NothingUnpaid`, `ActsAtomically`, `EveryCallDecided` |
| `upkeep_hooks` | an always-on tool with a hook script, the library the hook loads and its entry in the three-way merged settings; a second tool | `RecordExact`, `HooksKeepTheirLibrary`, `ChangeComplete`, `TeardownLeavesNothing`, `UserTextKept` |
| `upkeep_tool` | an optional tool with a skip-if-exists template and sections in `.mcp.json` and a manual-merge `devenv.nix` | `RecordExact`, `ChangeComplete`, `UserTextKept` |
| `tool_calls` | two requests, two callers, a category with one slot and a timeout and one with neither; one bucket | `SlotsMatchCalls`, `BucketsBounded`, `BurstBounded`, `QuotaKept`, `SlotsComeBack` |
| `docs_corpus` | a DevDocs set and two releases of an archive, two workers in one process and one in another | `RecordTrue`, `OneRelease`, `SwapKeepsOne`, `MutexLent`, `FailedDownloadKeeps` |

- `EditsSurvive` (action property): no step destroys user text without licence.
  The licences are spelled out in `MayDiscard`; the two holes the code has are
  named exceptions: an edit that races the plan, and a merged orphan.
- `BaseIsGenerated`: the three-way base never holds user text.
- `PairInStep`: an existing held file changes only when its partner on disk is
  of this release.
- `OwnOutputRecorded`: between commands, a tracked file that only qsdev touched
  holds exactly the recorded bytes, also after faults; only a command that died
  before recording a file is exempt, for that file.
- `OwnOutputAdopted`: a finished update has taken back what an earlier crash
  left unrecorded.
- `EntriesFollow`: after any command that failed on nothing, a file merged entry by
  entry has every entry this release generates, however often releases,
  configurations and clones changed.  The merge takes a missing or different entry
  for the user's doing by comparing with the recorded base, so this says that the
  base never misleads it.  Exempt is a file that the user, or a command that died
  before recording it, changed since qsdev last wrote it without an older base
  (`adrift`): there the merge does keep entries out.
- `ForcedUpdateConverges`: `update --force` that fails on nothing brings every file
  that is not merged to this release, from any reachable mixture, and records it.  An
  unmodified merged file is merged even by `--force`; it ends with its own bytes
  recorded, this release as its base and, unless it is `adrift`, every entry of this
  release.
- `UpdateIdempotent`: an update after a successful command changes nothing.
- `OneShot`, `NothingUnpaid`: a token pays once; whoever runs has paid in full,
  whoever is blocked has paid nothing.
- `ActsAtomically`: `BypassStore` implements `BypassGrants` (refinement by
  `INSTANCE ... WITH`), so no grant is lost or revived.
- `EveryCallDecided` (liveness): a started hook decides or dies.
- `RecordExact`: between commands, whichever of the five ran, a tracked file that
  only qsdev touched holds the recorded bytes and qsdev's output is tracked; only
  files that a dead command handled are exempt, until a command records them; a
  teardown that dies or leaves part of qsdev's own files exempts every file, for
  what is left of the record no longer covers them.
- `UserTextKept` (action property): none of the five discards user text without
  its licence, which `MayDiscard` spells out: `--force`, or for repair a backup
  of the very text it replaces.
- `ChangeComplete` (action property): an enable or disable that gets to save its
  record has brought along every file of the tool, whatever died before it: its own
  files, and its section in the shared files it reaches, which are those still
  generated and those a section can be cut out of (`Reached`).  Deviations are files
  the user owns or changed, files a dead command never recorded, and entries that
  the merge leaves to the user (`LeftToUser`): one that the recorded base has and
  the file lacks, or one that the base lacks and the file has.
- `HooksKeepTheirLibrary`: at every step of every command but teardown, settings
  that register a tool's hooks have the library they load, for the hooks that the
  recorded base, or the running command, accounts for (`Accounted`).  Settings with
  user text are exempt: a disable cannot merge into text that does not parse, so it
  leaves the registration.  So are settings and libraries the user or a dead command
  changed: a user who undoes a change, or moves an old sidecar into place, brings a
  hook back, and a hook that a dead command registered and never recorded passes
  for the user's at the next merge.
- `TeardownLeavesNothing`: a teardown that failed on nothing leaves no qsdev
  output, except in files the user changed or a dead command never recorded, and
  except the settings' entries beyond the recorded base: teardown takes out what
  the base has, so of settings it recorded after a merge that kept more, exactly
  the rest stays.
- `SlotsMatchCalls`: one slot per call inside the layer, never above the limit.
- `BucketsBounded`: the map is bounded by its limit plus one overflow bucket per
  category.
- `BurstBounded`: between ticks all callers together get no more than full
  buckets hold, whatever is evicted and recreated.
- `QuotaKept`: `ToolCalls` implements `Quota` (refinement): lazy refills and
  evictions are invisible to callers.
- `SlotsComeBack` (liveness): a category whose handlers time out never stays full,
  even if handlers of other categories never return.
- `RecordTrue`: what the manifest says of a set at rest is installed, content and
  absence; overlapping jobs and torn ones are exempt until a job runs alone on
  the set.
- `OneRelease`: the manifest never has two releases of an archive, however jobs of any
  processes interleave; and of a set no job is at work on nothing is on disk that the
  manifest does not have, so no other release either, however the jobs of one
  process overlap, on the same archive too.  The second part exempts keys on which
  jobs or manifest updates of two processes overlapped (`crossed`), or a job failed
  halfway (`torn`), until a later job on them.
- `SwapKeepsOne`: while a set is swapped, the old or the new one is on disk.
- `FailedDownloadKeeps` (action property): a download that fails before it is
  installed leaves the set it was to replace.
- `MutexLent`: the mutex is held by exactly the worker inside, and given back.

### What the exemptions stand for

The exempted cases are behaviours of the code that the models reach:

- An enable that dies after it saved the state and before the answers leaves the
  tool off in the answers while its hooks are registered; disabling another tool
  then drops the hook library as an orphan (`lifecycle.go:123`, `:763`).
- A disable deletes hook scripts before the settings stop registering them
  (`lifecycle.go:681-685`); it is the library that `HooksKeepTheirLibrary` follows.
- Cutting a section out in place records the user's text as qsdev's
  (`lifecycle.go:936`), and such a file may be removed when it is an orphan.
- Teardown removes its own record before it cleans the shared files
  (`execute.go:36-73`): after a fault the next command has less to go by, and if the
  state went and the committed config stayed, it is refused until a join.
- `DownloadDevDocs` says a failed download leaves the previous set intact
  (`corpus.go:228`).  It does so up to the swap; if the manifest update fails
  after it, the new set stays with the old record and the old set stays aside.
- Stages and backups of a process that died are never cleaned up, except by
  `docs clean`.

- `SaveInitState` says that state file and manifest never disagree
  (`manifest.go:180`); they are two writes, and a command may die between them.
- A command that dies between writing `.mcp.json` and saving its entry leaves an older
  base.  If another release then runs the next command, qsdev's own entries differ
  from that base, pass for the user's, and are kept back from then on
  (`mcp.go:66-78`); `EntriesFollow` exempts the file until qsdev writes it anew.
- A hook in the settings that no recorded base has, because the command that wrote it
  died, is the user's for the next merge and outlives its tool
  (`settings.go:256-306`).
- `--force` merges a tracked `.mcp.json` the user left alone instead of replacing it, so
  servers the base makes it hold back stay out.

### Disagreements between comments and code

Four runs check what a comment of the source or a test says and find it violated.

| Run | Comment | What happens |
|-----|---------|--------------|
| `orphan_edits` | orphans the user modified are left alone (`update.go:600`) | a merge records the merged bytes, so the file with the user's text is "unmodified" and is deleted when retired |
| `tool_files` | files of a tool that generates nothing are left alone (`update.go:667`) | `recordWrite` drops the owner, so after one update they are cleaned up |
| `pair_split` | a held file is not replaced while its partner is not (`update.go:505`) | the hold trusts the plan; the partner's content is rejected later and the file is replaced |
| `reenabled_server` | enabling an MCP tool emits its files (`lifecycle_roundtrip_test.go:578`) | the disable that took the last server out of `.mcp.json` kept the base that has it (`lifecycle.go:935`), so the merge of the next enable takes the server for deleted by the user (`mcp.go:68`) and leaves it out |

## 4. Bounds

`lifecycle_*`: `Releases = {1, 2}` gives an older and a newer release, hence upgrades,
downgrades and contents of the other release; release 2 revises the one entry of
release 1 and adds another, which a downgrade drops.  `MaxVersion = 6` numbers every
set of these entries, so merges and users can make all of them.  `MaxEdits = 1` suffices to tell user text
from none; two texts matter only to a merge that confuses them, which
`BaseIsGenerated` covers.  `MaxFaults` and `MaxChanges` bound crashes or
write errors, and user changes, per behaviour: one fault anywhere (two in
`lifecycle_merge`) followed by any number of clean commands, and an
edit before and after it (`MaxChanges = 2`; 1, before, between or after, in
`lifecycle_library`, which has three files, and whose `VIEW` leaves out the
histories `touched`, `torn`, `adrift` and `settled`: no step and no property of
that run depends on them).  Commands, reconfigurations,
clones and binary switches are unbounded.  One to three files per instance are enough
because files interact only in pairs (a held file and its partner, files of one
owner); the three instances cover every strategy in use, and the merge and append
strategies, which no generator produces, fail on existing files.  The instances
have 775 196 (`lifecycle_pair`), 1 211 419 (`lifecycle_merge`)
and 476 084 (`lifecycle_library`) distinct states.

`bypass_store`: two grants (`MaxGrants`), the clock 0..1 (`MaxTime`) with lifetime
1 and `Horizon = 2`, so a grant may expire at any point of the protocol.  Two
terminals may run any number of commands, so a grant may be replaced, cleared
and pruned while two calls race for it.

`upkeep_*`: `MaxFaults = 1` and `MaxChanges = 1`, one failed write
or death anywhere and one user change anywhere, also in the middle of a command,
among any number of commands.  `MaxVersion = 4` numbers the renderings of two
tools' sections, 2 those of one; `KeepBackups = 1` makes every second backup prune (the
code keeps 5).  The instances split the files into groups that interact; they have
979 125 (`upkeep_hooks`) and 726 561 (`upkeep_tool`) distinct states.  One tool has a
server in `.mcp.json` there; how merges keep one server and drop another is checked over
releases in `lifecycle_merge` and proved for any number of tools (`ChangeIsComplete`).

`tool_calls`: `MaxTime = 3` with `BucketTTL = 2`, so a bucket can idle past its TTL,
be swept, and be recreated; `MaxBuckets = 1` makes two callers overflow; two
requests make a stale reading possible behind a newer one.  The category with the
deeper bucket tells "full" from "not empty".

`docs_corpus`: three jobs (`MaxJobs`) are a first download, one that replaces it
and one that interferes, in the same process or in another; `MaxFaults = 1`;
`MaxContent = 2` tells an old set from a new one; 806 620 distinct states.

No symmetry is used: paths have distinct strategies, calls distinct inputs, and
workers distinct processes.  Deadlock is checked in the `lifecycle_*`,
`bypass_store` and `tool_calls` runs and in those that expect a violation.  In the
others the system may really stop: a project torn down halfway refuses every
command once the developer's changes are used up, and a corpus rests when its
jobs are done.

## 5. Fairness

`Lifecycle` states none: nothing there must happen.  `BypassStore` assumes weak
fairness of `CallStep(c)`: a hook process that has started is scheduled.  This
includes `LockTimeout`, which `waitLock`'s deadline justifies.  Nothing is assumed
of terminals: a human's command may hang for ever while holding the lock, which
is the case `EveryCallDecided` is about.  Whether a lock wait finds the lock
before its deadline is left open.

`ToolCalls` assumes weak fairness of two steps of each request: `Decided`, because
the limiter's mutex is held for a few map operations only, and `Answered`, the
return of a handler of a category in `TimedOut`.  The timeout is that of `nix_run`
(`tools/devenv/nix_run.go:299-315`), which clamps what a caller asks for.  Nothing is
assumed of other handlers or of the clock.  `Upkeep` and `DocsCorpus` state none.

## 6. Proofs

Every safety property that a passing run checks, invariant, action property or
refinement, is also proved, for every value of the constants that satisfies the
assumptions of its module; TLC evaluates these on every run.  They say that the
constants have their types, and

- `LedgerAssumption`: a partner is itself held with nothing;
- `SectionsAssumption`: generations and sets of entries with one entry of a name
  determine each other;
- `PairAssumption`: a partner is a manual-merge file and comes first in path order, and
  a held file is not merged entry by entry.
  The one pair is `devenv.yaml` (`addons/devenv/generate_yaml.go:199`), held with
  `devenv.nix` (`generate_nix.go:37-45`), and files are sorted by path
  (`pkg/generate/fragment.go:128`);
- `FileKindsAssumption`: a tool's own files are not merged, hook libraries and the
  hook scripts that load them are overwritten (`addons/claudecode/generate_hooks.go:49`,
  `:97-150`), hook libraries are generated with Claude Code only, shared files belong to no tool and
  are not library-managed, those that may go away with the tools can be cut, those that
  may go away at all are merged, and the settings are three-way merged and generated
  whenever Claude Code is on; no section can be cut out of them in place
  (`removeSectionInPlace` knows no `settings.json`);
- `BypassStoreAssumption`: no grant outlives the horizon;
- `ToolCallsAssumption`, `TTLAssumption`, `FiniteKeys`: a bucket idle for the TTL has
  refilled (as the comment of `defaultBucketTTL` says), and callers are finite in
  number;
- `DocsCorpusAssumption`: a DevDocs set is an archive of its own.

**`Lifecycle_proofs`** proves `TypeCorrect`, `RecordedBase` and
`UserEditsSurvive` (an action property).  `EditsSurvive` is not inductive: a step
of update trusts its plan, so one must know that the plan still fits the file.
The invariant `IInv` adds
- `LedgerClean`: no entry, saved or pending, has user text in its base, and only
  entries of merged files have it in their hash.  Without it `remove` could hit
  user text in an unmodified file that is never merged;
- `PlanFits`: for every path the running update has still to handle and the user
  has not touched since the plan was made, the action fits the content: `create`
  only where nothing is, `regenerate` only over licensed content, `remove` only
  over clean or merged content.  It is established by `StartUpdate` from the case
  analysis of the planner (`PlanIsFit`) and kept because a step touches only its
  own file (`FileStepTouchesOne`).

**`LifecycleOutput_proofs`** proves the other properties of `Lifecycle`:
`OwnOutputIsRecorded`, `OwnOutputIsAdopted`, `EntriesAlwaysFollow`,
`ForcedUpdateIsComplete`, and the action properties `PairsMoveTogether` and `UpdateIsIdempotent`.  None is inductive: they
speak of the end of a command, or of two files, and a command takes many steps
between which it may die and the user may edit.  The invariant `OutInv`, on top of
`IInv`, follows a command through its phases:
- `OutFits`: an entry kept for the save is of this release and describes its file,
  unless the user changed that after it was written;
- `RecordFits`: what state and manifest say of the disk in each phase, that is,
  which files each may be behind on;
- `EntriesFit`: of a file that only recorded commands changed, the entry describes the
  file and the file has all entries of its base, so no merge finds one missing;
- `PlanKept`: what the plan says of files it does not write stays true of them (the
  next update would not write them either), and a pair's second file is planned
  for writing only with its first;
- `UpdateDone`, `InitDone`: what a file that is no longer to do was brought to.  The
  first part of `UpdateDone` still holds after a file failed, as long as the
  command goes on, which is when `PairInStep` needs it;
- `SavedFits`: a command that failed on nothing leaves a `Steady` project, in which
  an update would rewrite files with what they hold, or hold them, and retire
  nothing; and for an update every file has `Converged`;
- `SettledFits`: an update planned in a steady project plans just that.
`OwnOutputAdopted`, `EntriesFollow`, `ForcedUpdateConverges` and `UpdateIdempotent` are
read off `SavedFits` and `SettledFits`; establishing these takes the planner's case analysis
twice, once when a plan is made and once to show that what it left is left again
(`PlanIs`, `MergeAgain`, `WrittenIsSteady`, `ForgottenIsPassive`).

**`Upkeep_proofs`** proves `RecordIsExact`, `UserTextIsKept`, `ChangeIsComplete` and
`TeardownIsComplete`, with one invariant: `LedgerFits` (what an entry may hold),
`Control` (the phases and planned actions of each command), `PlanFits` (what a
planned action counts on stays true until it runs, unless the user interferes),
`RecordFits` (the record that would be saved now, `Pending`, is exact for every file
that only qsdev touched, in the middle of every command; of what a teardown has
cleaned, only `Strays` is left), `ClaudeFits` (the settings are recorded only while
Claude Code is on, so no update lets go of them) and `ChangeFits` (how far an enable or
disable has come with each file of its tool: done, still to do, or one of the
deviations, among them what the merge leaves to the user).  `RecordExact` is the idle
case of `RecordFits`.  `UserTextKept` needs `LedgerFits` and `PlanFits`, as
`EditsSurvive` does, and that a repair prunes older backups but not the one it just
made.  `ChangeIsComplete` rests on `SectionMerged`: what a merge does to the target's section,
by what the recorded base and the file have of it.  Looking for the proof showed that
`ChangeComplete` and `HooksKeepTheirLibrary` needed their exemptions stated as above:
with more than one user change, which the runs do not reach, a changed file may have any
content again.

**`UpkeepHooks_proofs`** proves `HooksFindTheirLibrary`.  Its invariant `HookInv` says
which tools the settings may register and whose libraries are on disk: between
commands the tools in effect (`IdleHooks`), during one the tools it leaves on, and
its target according to how far it has come (`RunningHooks`).  What the settings
register is counted by the recorded base: a merge leaves the user nothing that the base
has, so after it only this command's own output is accounted for (`SettingsFit`).  It
rests on the order of the stages, which `StagesFit` states: an enable writes no library after the
settings, a disable drops none while the settings are still to be written; and on
`EffectiveFits`, that each partial save of answers and config leaves in effect
no tool but those and the target, also when the answers or the config is missing and
Claude Code with them.

**`BypassStore_proofs`** proves `TypeCorrect`, `TokensAreOneShot`,
`AllowedIsPaid` and the refinement `StoreIsAtomic`.  Its invariant:
`Locked` (who is inside holds the lock), `ReadIsCurrent` (so what was loaded is
what the file holds), `GrantsNumbered` (a grant is written at most once),
`SpentIsGone` (a spent token is not in the file, which makes `OneShot`
inductive), `SpentMeansDone` and `PaysInFull`.  The refinement maps the abstract
grants to the file and the identities in use to `stored`; every write maps to one
abstract step (`RedeemIsAtomic`, `AllowIsAtomic`), every other step stutters.

**`ToolCalls_proofs`** proves `TypesKept`, `SlotsBalance`, `MapBounded` and the
refinement `LimiterKeepsQuota`.  `TypeOK` and `SlotsMatchCalls` are inductive
together: a slot can only be given back by a call inside, so counts never go
below zero.  `BucketsBounded` needs `OwnBounded`, that the buckets which are not
overflow buckets are at most `MaxBuckets`.  The refinement maps a missing bucket to full
credit and a present one to what a refill at the current time would leave; it
rests on lemmas that an evicted bucket was full in that sense (for idle ones this
is `TTLAssumption`), that refilling at an older or newer reading changes no credit
but the caller's, and that a tick grows every credit as `Quota` says.  `BurstIsBounded` has
to count over a whole tick: the invariant `ServedIsPaid` says that the calls served
in a category are at most the elements of `Spent`, the pairs of a payer and a position
above its present credit; a served call adds such a pair, an eviction takes none
away, since an evicted bucket was full, and only payers with a bucket have any.

**`DocsCorpus_proofs`** proves all five properties of the run and `TypesKept`.
Its invariant `IInv` adds to them `JobShape` (a download is for one key, and what it
fetched, staged and superseded fits that key), `LoadedCurrent` (what was loaded
under the mutex is still the manifest, unless another process saved meanwhile),
`Exclusive` (jobs that share a key are not `alone`, and the key is `raced`),
`Crossing` (the same of jobs of two processes and `crossed`), `ManifestSingle` (every
manifest, saved or loaded, has one release of an archive), `OnRecord` (a set that is
installed or aside is in the manifest, about to be recorded, or about to be removed by
the job that superseded it), `Progress` (how far a job has brought each of its keys on
disk and in the manifest) and `Aside` (where the set that an alone job found is now).  `RecordTrue`
is not inductive without `Progress`: it speaks of keys at rest only, and a job
puts its keys to rest in many steps.  `FailureKeeps` and `SwapSafe` follow from
`Aside`.  `ReleasesSuperseded` is read off `ManifestSingle` and `OnRecord`.  The latter is
about overlapping jobs of one process: whichever of them records last has loaded, under
the mutex they share, what the others recorded, drops their release and removes it,
unless that release waits to be recorded once more.

Only model-checked: `EveryCallDecided` and `SlotsComeBack`, because liveness under
fairness is out of the prover's reach, and the four properties that are violated.

## 7. Plan

Done: `Ledger`, `Pipeline`, `UpdatePlan`, `Lifecycle`, `BypassGrants`, `BypassStore`,
`UpkeepPlan`, `Upkeep`, `Quota`, `ToolCalls`, `DocsCorpus`, and the proofs of section 6.

Not modelled, in the order in which it would pay:

1. Two qsdev commands at once in one project (`state/persistence.go:93`): the state
   file is read, changed and replaced without a lock.
2. `SelfUpdate` (`internal/selfupdate`): on Unix one rename of a verified file; on
   Windows a move aside and a move in, which a crash can separate.
3. `AtomicFile` (`pkg/fileutil/atomic.go`): temp file, fsync and rename with crashes,
   implementing the atomic replace that every model here assumes.
4. The approval store (`internal/sandbox/policy/approval.go`): an unlocked
   read-modify-replace.
5. Init's choice of mode by flags and the wizard, and merge mode.

Not to be modelled: the MCP health checks, `status`, `doctor`, posture and the
reports read and print; generators, catalog, detection and scoring are pure
functions of their input; the self-protection scanner classifies shell text,
whose states are strings; the sandbox, scanners and package tools build command
lines.  Together these are most of the repository's lines.

Theorems to add: that `Lifecycle`'s and `Upkeep`'s planners agree where they share
code, the narrower statements behind the four disagreements (that state and
manifest agree whenever no save is under way or was cut short, that an orphan with
the user's text is removed only if it was merged), and what a `SelfUpdate` or
`AtomicFile` module would promise.
