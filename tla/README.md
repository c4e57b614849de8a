# A TLA+ model of Octave (writer-tauri)

Octave is a desktop editor for a folder of Markdown notes (the *vault*), with a
Claude chat beside the editor that reads and edits the same notes. The front
end is TypeScript in a Tauri web view (`src/apps/writer-tauri/src`), the shell is
Rust (`src-tauri`), and the chat runs in a Node process, the *sidecar*
(`sidecar`). Paths below are relative to `src/apps/writer-tauri/`.

The vault is plain files that anybody may change: the program, the Claude agent,
Finder, git, another editor. The text the user sees lives in memory and reaches
the file half a second later. A chat is a run that lives in four places at once:
the panel, the Rust host, the sidecar and the SDK. Everything hard in this
program comes from these facts, so they are what is modelled.

## Inventory

| Component | State it keeps | Operations | Hard behaviour | Modelled in |
|---|---|---|---|---|
| Save path (`lib/docFileSync.ts`, `state/saveFailureStore.ts`, `state/externalConflictStore.ts`) | dirty set, a generation per note, last written path, failure streaks, conflict set, single-flight flag and queue flag | mark dirty, flush, prune failures | a pass of many awaits over a snapshot, interleaved with edits, opens and moves; retries | `DocFlush` |
| Open documents (`state/docsStore/handlesSlice.ts`, `docBody.ts`, `tabsSlice.ts`, `editor/CmEditor.tsx`) | handle per open note, cached body ("mirror"), load status, mounted editor, queue of writers per note | open, hydrate, mount, unmount, edit, replace body, reload, compare-and-swap | the body arrives after the note is already dirty; the mirror lags the editor | `DocFlush`; the writers' queue and the compare-and-swap in `Proposals` |
| Catalog (`createSlice.ts`, `editSlice.ts`, `archiveSlice.ts`) | known notes and where they belong, known folders | create, rename, move, relocate a folder, trash a note or a folder | the file of a moved note follows at the next pass; directories are renamed and trashed while a pass may be writing in them | `DocFlush` (create and move), `Catalog` (folders and trash) |
| Quit (`components/CloseConfirmDialog.tsx`, `src-tauri/src/lib.rs`) | the handler's progress | flush, ask, flush, exit | the last edits against the exit | `AppQuit` |
| Vault files and echo filter (`lib/vault.ts`) | what each file is believed to hold | atomic write, rename, append, compare | belief, file and report change at different times; an append is no append | `DocFlush`, `VaultSync`, `ThreadFiles` |
| Watcher (`lib/vaultWatcher.ts`) | pending removals; asynchronous flows in flight | reload, conflict, add, follow a move, remove | reports are late, in any order, and name one path without direction | `VaultSync` |
| Boot scan (`lib/scanVault.ts`) | | fill the catalog, seed the rename tracker | | `Init` of `DocFlush` |
| Sidecar threads (`sidecar/src/server.mjs`) | records of threads, their turn queues, gates, run registry, token | chat, cancel, close, decide, set token, tear down, evict, reap, shut down | queued turns and teardown; five things race for the one terminal event of a run | `ThreadEngine`, `RunLedger` |
| Sidecar manager (`src-tauri/src/claude_sidecar`) | process per mode, table of pending requests, restart guard | spawn, request, notify, respawn, give up | crash and restart with requests pending, overlapping exit handlers | `SidecarHost` |
| Chat runs (`src/chat/hooks/useChatRunner.ts`, `src/agent/chat`, `src/stores`, `layout/ChatPanel.tsx`) | run per thread, parked messages, transcript | send, park, drain, command, regenerate, stop, abort | a run that ends while it is aborted; a thread that comes to rest because it was stopped | `ChatRuns` |
| Thread files (`lib/threadFiles.ts`, `state/threadsStore.ts`, `hooks/useThreads.ts`) | transcripts in memory and in two files each, a queue of operations per thread | create, append, patch, archive, restore, discard, rewrite, hydrate | memory first, disk later; failures and deaths in between | `ThreadFiles` |
| Proposed edits (`agent/chat/index.ts`, `state/pendingChangesStore.ts`, `pendingChangesApplier.ts`) | staged change per tool call, the ledger of bodies the model was given | stage, merge, accept, reject, apply, report back | accept against a body that has moved on; a whole-document write over typing | `Proposals` |
| Git (`state/gitStore.ts`, `lib/git.ts`, `src-tauri/src/git.rs`) | paths noted since the last commit, the lock | note, commit | paths are remembered at the call and cleared after an unknown time | `GitSync` |
| Tool relay and framing (`sidecar/src/tools/relay.mjs`, `jsonrpc.mjs`) | ack slots | request, ack, time out | late acks | not modelled |
| Updates (`src-tauri/src/updater.rs`, `hooks/useUpdaterEvents.ts`, `lib/restartWhenIdle.ts`) | the check in flight, the staged version, the state broadcast last; its mirror and the prompt in each window; the armed restart | check, download, install, mount a window, restart, restart when idle | windows that mount between two broadcasts; later checks against what is staged; vetoes against a timer | `Updates` |
| Attachments, index, ingest, importers, sign-in, settings, view | see `PROJECT.json` | | mostly sequential I/O and data conversion | not modelled |

`PROJECT.json` lists all of them with their source files, and every hazard at
its line with the property that covers it.

How they interact. The user's actions change the catalog and the bodies and mark
notes dirty; the timer, an unmount, a blur, a move, a commit, a prompt or a quit
asks for a *pass*; a pass reads the live editor or the mirror and writes files,
recording in the echo filter what each file is about to hold and noting its path
for git; the system reports every change of a file; the watcher drops the reports
whose content is believed already, and turns the others into reloads, conflicts,
new, moved or removed notes, which change the catalog, the bodies and the dirty
marks again. A message becomes a run; the run flushes, puts a prompt together out
of note bodies and the outcome of earlier proposals, and asks the host, which
asks the sidecar of the mode, which queues a turn on the thread's record; its
tool calls come back as proposals, which wait for the user or are written through
the queue of the note; its end comes back as one event, settles the run, is
appended to the transcript, and lets the next parked message go. The process may
die under any of this, and the host starts another. Beside all of it the host looks
for updates, and restarts the program when asked, or when it is idle and no window
has a run or a dirty note.

What makes each correct:

- save path: an edit is never dropped silently; a pass that is asked for happens;
  no placeholder overwrites a file;
- catalog: when an operation is over, every file belongs to a note and every written
  note has its file; an operation that fails costs no edit;
- quit: whatever was typed before the quit is on disk, or the user was asked;
- watcher: the program's own writes are not news; a change by others is shown,
  or becomes a conflict when there are local edits; a note leaves only when its
  file has;
- git: a commit stages what preceded its call; what it does not commit stays noted;
- sidecar: every accepted run ends with exactly one terminal event and its own
  answer, and stays cancellable until then;
- host: one process per mode, respawned or announced dead; a chat only where the
  token is;
- chat runs: one answer streams per thread; no message is lost or run twice; Stop
  holds; everything comes to an end;
- thread files: the file is a beginning of the transcript; what was appended stays;
- proposals: a decision is what becomes of the text; the model is told nothing
  that is not so; a guarded write loses no text the model had not been given;
- updates: what is staged is never reported as anything less, every window says so
  and prompts for it; an idle restart happens, and not over a veto that has come in.

## Modules

JavaScript runs the code between two awaits without interruption, in the web view
and in the sidecar. One such stretch is one step of the model; each awaited
operation is a step of its own, between which everything else may happen. In the
Rust host tasks run in parallel, and each access to a shared table is a step.
Every definition is mapped to its lines in `PROJECT.json`; a definition called a
*mutant* in its comment is a plausible bug, used to show that a property can fail.

### DocFlush

| Code | Model |
|---|---|
| `dirtySlugs`, `dirtyGeneration`, `lastWrittenPath` | `dirty`, `gen` (0: no entry), `lastWritten` |
| `knownDocs` and `pathForDoc` | `path` (`NoPath`: not in the catalog) |
| `handles`, `status`, `bodyMarkdown` | `handle`, `mirror`; `loadPath` for a load in flight |
| the mounted CodeMirror editor | `active`, `buffer` |
| `flushInProgress`, `flushQueued` | `pc # "idle"`, `queued` |
| locals of `flushDirtyOnce` | `todo`, `snapPath`, `snapOpen` (the store snapshot of line 502), `cur`, `curGen`, `curBody` |
| the vault | `disk`: path to body or `Missing` |

Actions: `EnsureHandle`, `CreateNew`, `CreateSeeded`, `Hydrate`, `Mount`,
`Unmount`, `Edit`, `ReplaceBody`, `MoveDocToFolder`, `MarkConflict`,
`DismissConflict` (the callers); `FlushTick` and `RequestFlush` (the single-flight
guard); `SkipConflicted`, `DropUnopened`, `SkipLoading`, `BeginNote` (the decision
on one note); `ProbeOld`, `MoveFile`, `CheckTarget`, `Compare`, `NoteWrite`,
`CommitWrite` (the awaits of a write, in the order of the code); `Settle`,
`WriteFails`, `EndPass`. `saved` is a history variable: the body last loaded from or
written to a note's file. `Yielded` (`pc # "loop"`) says that the pass stands at an
await: the choice of the next note and the checks before its first file operation
are separate small steps for readability, but no other actor moves between them.

Abstractions: a body is one of a few values; the frontmatter around it is left
out, and with it the notes whose properties are dirty; a pass may visit its notes
in any order (the code's is insertion order); the dead `.meta.json` branches are
left out, since `usesFrontmatter` is constantly true; index invalidations have no
effect here. Tabs are never closed by hand in this version of the program: `closeDoc` is
called from `removeKnownDoc` only, which `VaultSync` models.

### Catalog

`DocFlush` with the operations that touch files themselves. `job` is the operation
under way and where it stands: `RelocateFolder` (awaits its flush, or goes on at
once when a pass is in flight), `RenameDirectory`, `RewriteCatalog`; `DeleteToTrash` and
`DeleteFolder` (both `StartTrash`: the marks go at the call), then `MoveToTrash` or
`TrashFails`, then `TearDown`. `CatalogStep` is every step of `DocFlush`, with notes
created in and moved to folders of the tree. `crossed` is history: an operation took
files on which a pass or a load was at work, or which were still to be written or
moved, or a note was given a path where a file of another may be; `reused`: notes
whose generation a delete has reset while the pass held the earlier one.

Abstractions: folders do not nest, all notes are generic notes (the refusals for
the others change nothing), one operation at a time, no conflicts (`VaultSync`); the abort of the chat runs of a
trashed note is a matter of `ChatRuns`; that a directory is missing is known
by its files only, and a rename may fail for any reason.

### AppQuit

The `app:close-requested` handler on top of `DocFlush`: `RequestQuit`, `SaveDone`,
`StayOpen`, `QuitAnyway`, `StopAutoFlush`, `Exit`. `own` says that the awaited
flush is a pass this handler started: `flushDirty` returns at once when another
pass is in flight. `owed` is history: the generation of every note that a quit
still has to save; a completed write of at least that generation discharges it, and so
do a conflict and the stale-path guard, which puts off a note whose file is gone
(`Defers`): the handler counts both as benign. Files go at any moment (`Vanish`, external:
another program deletes or moves them); that the watcher then takes the note from the
catalog belongs to `VaultSync`, so here a note may be put off by every pass.
One handler runs at a time (a second request while one is under way repeats the
same steps). The running chats that make the handler ask are any Boolean.

### VaultSync

`DocFlush` with other programs and the watcher. `OutsideStep` is the environment:
a write in place, an atomic replacement, a deletion, a creation, a move, each
with the reports the system makes of it. `NoteContent`, `WriteContent` and
`RenameContent` are the steps of `DocFlush` of the same files, together with what
they do to the echo filter and the reports they cause. A report then passes
through the watcher's asynchronous flow: `ReadBack` (read the file),
`CompareSeen` (compare with the belief, adopt, dispatch), `RenameLeg` (does the path
exist?), `AddMatch` and `AddApply` (read the new file, correlate it with the open
notes, follow or add), `RemoveDue` (the 150 ms timer), `ReloadRead` and
`ReloadApply` (`reloadFromVault`), `Reopen` (the user takes the disk's version).
Flows of different reports interleave freely. `tabs` is `openSlugs`: a note that the agent
reads or edits may be open without a tab, and `removeKnownDoc` then leaves it open.

Abstractions: equal undelivered reports are one (the system coalesces them too); a
report names one path; the belief and the rename of `renameVaultFile` are one
step; the reads of one reload are one step; slugs that have left the catalog
are not used again (the code mints fresh ones), and an appearing file needs a
spare slug to be added; `reloaded` is history: the notes that were reloaded in the
middle of their own write.

### GitSync

`DocFlush` with the commits of `gitStore`. `head` and `index` are the contents git
knows, `dirtyPaths` the paths noted since the last commit, `lock` and `waiting` the
chain of calls, `gitPc` the progress of the one that holds the lock: it takes the
snapshot of the paths at its call, asks for a flush, stages (`git add`), commits,
and takes the snapshot away from `dirtyPaths` when it lands. Every git process may
fail. The writes of the save path note their paths as `scheduleAutoCommit` does;
`unnoted` is the path of a write or rename whose note is still to be made. `late` and
`strays` are history: paths noted, or moved away from, after the commit under way has
staged (`Staged`), and changed paths that no note stands for any more, because the
commit has taken theirs with it. One git process is one step.

### ThreadEngine and RunLedger

The thread engine of the sidecar. A *record* (`rec`) is one object of the map of
live threads: its loop (`free`, `build`, `read`, `usage`, `gone`), its input
generator (`gen`), its `turnQueue`, and the run whose turn it is
(`currentRunId`, `turnActive`, `terminalEmitted`, `awaitingDecision`);
`activeThreads` and `runToThread` are the two registries, `gates` the decisions
parked on the user, `controls` the awaited changes of a model or permission mode
before a turn is dispatched. `ChatChangingControls`, `ChatReusing` and
`ChatStarting` are the three ways a `chat` goes, `Cancel`, `CloseThread`, `Decide`
and `Shutdown` the other requests; `Result`, `RateLimited`, `Settle`, the stream's
end and its errors, the watchdog, the grace timer, the reaper and the eviction
are the rest. `Faults` says which misbehaviour of the SDK an instance includes,
`Policies` whether a thread lives on after a result. An AUTH error builds a second
record for the same thread, while the loop of the first one is still to end.

`RunLedger` is what the front end relies on: a run is accepted, and then ends
exactly once. `KeepsLedger` is the refinement: the ledger's variables are read off the
engine's, and the engine's fairness must give the ledger's. The end is not promised of
every run: `adrift` names the ones in the hands of somebody who need not answer, here
`leftToSdk`. Before a turn is dispatched, `setModel`, `setPermissionMode` and
`applyFlagSettings` are awaited (`server.mjs` 710-759). They have no timeout, and until they
return no turn is active, so the watchdog passes the run over (1624) and a cancel finds
nothing (1918). `leftToSdk` is the runs that wait there, and those that waited when their
thread crashed. A run can only get there when it is accepted.

Abstractions: least-recently-used eviction takes any idle thread; the SDK pulls
its input at once; a turn asks the user at most once at a time; what options and
events contain is left out.

### SidecarHost

The Rust side, one `inst` per process that is ever spawned: `alive`, `writing`,
`eof`, `waited` (the reader's and the waiter's view of its end), `kept` (the
client is held by somebody) and `token`. `boot` is `spawn_all` with its handshakes
and token pushes, `exit` the exit handler of each process (`decide`, `backoff`,
`init`, `token`), `guard` the restart guard, `req` the requests in the table of a
client, `cmd` the calls of `claude_chat_start`, `state` what has been announced. The
reader and the waiter each drain the table once, in either order.

### ChatRuns

The chat panel and the runner. A run is named by the message it answers; `at` is
how far it has come (`prepare`: flush and context; `start`: the host's call is under
way; `await`: for `finished`), `side` what the sidecar knows of it, `cancel` its one
`chat/cancel`, `word` the event of its end. `status`, `turn`, `queued` and `paused`
are the turn store, `latch` the in-flight flag of the panel, `script` the
transcript and `rewrite` the transcript on its way through a rewrite. An "error"
status is told from "idle" nowhere and collapsed into it. `taken`, `gone`,
`stopped` and `crossed` are history: `crossed` holds the threads in which a command
was started into a running answer. Two values of `side` are runs that nobody need answer:
`adrift`, accepted but waiting for control requests which the SDK never answers
(`leftToSdk` of `ThreadEngine`), and `unheard`, whose `claude_chat_start` was put on the
client of a process that had died, after both of its drains. `SidecarHost` has the time of
the backoff in which that happens; here it may happen whenever a process has died before.

### Proposals

One record per tool call that proposes an edit (`call`: the stage of its handler,
its answer, what the model knew) and per staged change (`change`: status, the
staged body, failed, delivered). A body is a set of pieces: what the note held
(anchors an edit replaces), what the user typed, what calls wrote. That is
enough to tell whether a text is in a note, whether an anchor is still there, and
what a whole-document write drops. `queue` is the keyed mutex of a note, `base` the
ledger of what the model was last given, `shown` and `unsent` what prompts
contained. The prompt, the merge into a staged change, the placement check, the
guarded write with its retry, the applier and the feedback are actions; the
user types, accepts, rejects, opens notes and resolves conflicts at any time.

### ThreadFiles

Memory (`threads`, `turns`, `draftIds`) against the two files of each thread
(`diskMeta`, `diskTurns`). `chains` is the queue of `runExclusive`: operations in the
order of their calls, each run when the ones before it have settled. A draft's
first turn is a `first` operation (the meta file) followed, when that has returned,
by an `append`. An append reads the file in one step (`ReadTurns`), or cannot and takes it
for empty (`ReadFails`), and writes it back in another (`WriteTurns`, `ReplaceTurns`). That
write is in place: when it fails (`CutShort`), or the program dies in it, any beginning
of the new content may be what the file holds, with a part of a line at its end
(`half`), which spoils the turn that is put behind it. `Fault` is every failure that comes
before the disk is touched. `Restart` is the death of the program with the hydration that
follows; it may come at any step. `settled` is history: turns whose append has returned;
`lost` those that such a read or write has taken. `flaws` is history: why memory and disk
may differ (an operation failed, a turn fell into a rewrite, an append has damaged its
file, and so on), so that the properties say exactly where they hold.

Abstraction: a part of a line is never a whole record that lacks only its line break.

### Updates

`check` is `do_run` of the one check that holds the busy flag, stretch by stretch:
asked, downloading, installing; every one of them may fail. `last` and `readyVersion`
are the state broadcast last and the version on disk. `win` is what `App` in a window
has: how far the seed of its mount is (`asked`, `answered`, `settled`), whether its two
listeners are registered, the store, and what is on screen (the prompt and the
failure). `wire` holds the broadcasts on their way to a window, in order. `armed`,
`vetoed` and `loop` are the restart when idle: the flag, the vetoes that have come in, the
loop's wait. A window hears `probes` in their order, late or not, and its `vetoes` do not
say which one they answer; `reply` is what has come of the last one. The wait of half a
second may end before any answer is there. `work` is what a window is doing: nothing,
something `canRestartNow` sees (a dirty note, a registered run), or something it does
not (a run that is still being put together). `crossed` is history: windows for which a
broadcast fell between the start of their mount and its end.

Abstractions: the server may offer any version at each check; windows are not closed,
and the prompt is not swiped away; arming starts what the idle loop looks at, so
`idle` and `work` change only then.

### MC modules

`MCDocFlush`, `MCCatalog`, `MCAppQuit`, `MCVaultSync`, `MCGitSync`, `MCThreadEngine`,
`MCSidecarHost`, `MCChatRuns`, `MCProposals`, `MCThreadFiles` and `MCUpdates` hold the
instances' symmetry sets, where there are any. Constants get model values in the `.cfg` files.

## Runs

| Run | Instance | Checks | Shows |
|---|---|---|---|
| `DocFlush_saved` | 2 notes, 2 paths, no moves, 1 failure per note, fairness | `DiskCurrent`, `EventuallySaved`, `NeverWiped` | the files of clean notes are what the user sees; every dirty note is saved or in conflict in the end; no flush empties a file |
| `Catalog_folders` | 2 notes, 2 folders, 1 file name, moves of any note, read faults, 2 edits per note, 1 operation | `MarksAccountedFor`, `CatalogMatchesDisk` | what is not in its file keeps its mark or gets it back, through moves, relocation and trash; when an operation is over, no file is left without a note, and no written note without its file |
| `AppQuit_quit` | 1 note, 2 paths, moves while open, 2 edits, 1 failure, files that vanish, fairness | `CleanMeansSaved`, `QuietQuitSaves`, `QuitEnds` | a note of which an operation fails, before or after the rename, stays marked; a quit that meets no pass in flight saves what it owes; every quit ends or asks as long as passes end |
| `VaultSync_all` | 1 note, 2 paths, 2 outside changes of all five kinds | `ConflictIsOpen`, `EditsKeptUnlessCrossed`, `OwnWritesQuiet` | conflicts belong to open notes of the catalog, with a tab or without; no edit loses its mark to the watcher; own writes are never news |
| `GitSync_commit` | 1 note, 2 paths, moves while open, 2 edits, 2 calls waiting | `ChangesAreNoted`, `CommitsWhatWasThere` | what differs from the last commit is noted, or was written under a path of a commit, or moved away from one, after it staged; a commit takes what was on screen at its call |
| `Engine_turns` | 2 threads, 3 runs at once, 2 records, 1 live thread, both policies; AUTH, crash, failed build, rate limit | `OwnAnswers` | every answer goes to the run whose message the SDK was given, through eviction, restart and a queue |
| `Engine_ledger` | 2 threads, 2 runs, one at a time in each, 2 records, 1 live thread; AUTH, stream error, crash, background work; fairness | `GatesCounted`, `RegistryFinds`, `NeverStranded`, `KeepsLedger` | the engine implements `RunLedger`: one terminal event per run, and there is one in the end unless the run is left to the SDK |
| `Proposals_one` | 1 note, 1 chat, 2 calls, 1 anchor, 1 piece of typing, 1 retry | `TypeOK`, `DecisionsStand`, `NobodyLeftWaiting`, `FeedbackTruthful`, `GuardKeepsUnseen` | rejected text is not in the note, accepted text is; the model is not told what is not so; a guarded write drops nothing unseen |
| `SidecarHost_live` | 1 mode, 3 processes, 1 chat, 1 respawn in a row, fairness | `OneProcess`, `ChatHasToken`, `Recovers` | one process per mode; no chat reaches a process without the token; a dead process is replaced or announced |
| `ChatRuns_queue` | 2 threads, 2 messages, 1 death of the sidecar, fairness | `TypeOK`, `OneStream`, `MessagesInPlace`, `NoOrphans`, `StopHolds`, `Settles` | one answer per thread, no message lost or run twice, Stop holds, everything that somebody answers comes to an end |
| `Threads_files` | 1 thread, 3 turns, 2 versions of the meta file, 2 failures (an operation, the read of an append, a write that gets a part of the way), 1 death, in such a write too, fairness | `DiskIsPrefix`, `SettledIsKept`, `MirrorsDisk`, `MetaFirst`, `Drains` | the file is a beginning of the transcript, an append that cannot read or finish its file is all that loses what was appended, memory and disk agree when the queue is empty |
| `Updates_lands` | 1 window, 2 versions, 2 broadcasts and 2 probes under way, fairness | `StateIsTrue`, `SafeRestart`, `UpdateLands` | a staged version stays announced and is prompted for; the window shows the state it has heard; an armed restart fires in the end, but over no veto that has come in |

### Bounds

Every bound is a constant that stands in the guard of the action it bounds:
`MaxGen` the edits of a note between two clean states, `MaxFails` failures,
`MaxOutside` changes by other programs, `MaxWaiting` commits waiting for the lock,
`MaxRecs` records the engine ever builds, `MaxLive` the live threads it allows
(the code's constant), `MaxStaleRetries` and `MaxConsecutive` constants of the code
made small, `MaxCrashes` deaths, `MaxTurns`, `MaxVersion` (patches of a meta record in
`ThreadFiles`, releases in `Updates`), `MaxWire` broadcasts under way to a window,
`MaxProbes` probes it has not heard and vetoes that have not arrived,
`MaxJobs` operations on folders and the trash.

Generations 0 to 2 tell "clean", "changed once" and "changed again" since a capture;
two notes put one in the pass and one in the user's hands; two folders let a note move
to where another has just left, and a folder take the name of one that has gone. One
operation on folders is enough for it to meet every state of the pass; with one file name
a folder holds one note at a time, which may be another one at each step of it. Two outside changes are a
deletion and a creation, or a change upon a change. Two messages are one at work
and one parked, or one answered and being regenerated; two threads hide one of
them with its queue. Three runs are one at work, one queued and one of a thread
that has to evict the first. Three turns are one settled, one under way and one
that overtakes it; the chats of `ThreadFiles` do not meet but for the cap on open
ones, so one is enough. Three processes of a mode are the first, its replacement
and the replacement of that one, whose handlers overlap. Two calls on one note
are enough for a merge, a stale write and a change under another. Two versions are
one staged and one that supersedes it, or fails to; two broadcasts under way are one
that is out of date when it is heard and one that follows it.

`CHECK_DEADLOCK FALSE` stands where the instance may run dry: the bounds exhaust
the user, an ended program does nothing, and a state where all runs have ended and
no message is left is a normal one. Instances that say nothing of it never stop.

Notes are not moved in `DocFlush_saved`: the renames of the pass (`ProbeOld`,
`MoveFile`), moves of closed notes and what becomes of their marks (`DropUnopened`) occur
in `Catalog_folders`, and moves of open notes in `AppQuit_quit` and `GitSync_commit` too.

`Engine_turns` does not check `GatesCounted` and `RegistryFinds`, which the rate
limit and the failed build break (see below), and `Engine_ledger` has neither of the
two; `Proposals_one` has `NewConflicts` off, because a conflict raised between the
placement check and the write makes the feedback wrong.

## Observations

Seen while modelling, and reproducible by changing a constant of a run or adding
the property named. They are behaviours of the code, stated here because the
properties had to exclude them.

Save path and watcher:

- `uniqueRelPath` asks the catalog only. A rename to a path that another note has
  left in the catalog, but not yet on disk, replaces that note's only copy
  (`docFileSync.ts` 277-280).
- A note moved while it has no handle is dropped from the dirty set and its file
  stays (`moveDocToFolder` says the flush "detects the changed path and moves the
  file on disk"). A note opened and edited during a pass that still sees it closed
  loses its mark (`CleanMeansSaved` fails with `MoveScope = "any"`).
- `flushDirtyOnce` takes the catalog once (`docFileSync.ts` 502) but captures the generation
  of a note when it comes to it (574). A note that is moved while the pass is busy with
  an earlier one is written at its old path, and its mark is cleared, for the captured
  generation counts the move already. The pass that the move asked for finds it clean: its
  file stays in the old folder until the next edit, and a restart undoes the move. TLC
  finds it with two notes and three paths, `MoveScope = "open"` and no failures; `DiskCurrent` is
  checked and proved without moves for this reason.
- A joined flush returns at once: a quit or a commit that meets a pass in flight
  goes on without the edits that pass does not see (`QuietQuitSaves` exempts such quits).
  A note that each pass puts off, because its file is gone, keeps a quit or a commit
  waiting if there is a request in each pass too, for `flushDirty` repeats as long as one
  has come. Only the length of a pass against the 500 ms of the timer speaks against it, so
  `QuitEnds` assumes `PassesEnd`; without the assumption TLC shows this behaviour.
- An atomic replacement of an open note arrives as a rename of a known path: the
  belief adopts the new content and the editor is not told (`vaultWatcher.ts` 485).
  A note deleted and created again at the same path is closed all the same
  (580-593). A reload discards an edit made during its read (409). A mounted note
  that was edited and saved is correlated by its mirror, which is older, so its
  move closes the tab. Two reports of one new file may both add it.
- `removeKnownDoc` closes a note only if it has a tab (`handlesSlice.ts` 178-180). One that
  is open in the background keeps its handle and its mirror for the rest of the session,
  and its mark until the next pass; a pass that had it in its snapshot may still write it;
  and a new file with the same text is taken for it (`findMovedOpenDocSlug` goes through the
  handles), so that the file is followed by nobody and missing from the catalog.
- A belief that nothing refreshes takes content restored by another program for
  an own write; were own writes reported as content changes, a report read between
  two writes would be news.
- A note whose first read fails comes up empty and overwrites its file; a seeded
  first line is replaced by the load that follows; quitting drops the edits of
  notes in conflict; a conflict raised during a write does not stop it; a rename
  whose write fails, moved back, is deferred by the stale-path guard.

Folders and trash (the first five are what `crossed` and `reused` exempt):

- `flushDirty` returns at once when a pass is in flight, so `relocateFolder` may rename
  a directory in which that pass is writing: the pass then moves the file back to the
  old folder, or writes it there (`editSlice.ts` 106-108 means to prevent this). A note
  opened between the rename and the rewrite loads as empty, and is written so; one
  moved out of the folder in that time leaves its file behind in the renamed one,
  whether it was there when the operation was asked for or came in during the flush.
- `seedLastWrittenPath` also seeds notes that have never been written; the stale-path
  guard then waits for a file that nobody creates. A note created in a folder after
  `deleteFolder` was called loses its file to the trash and stays in the catalog, with
  its edits held back by the same guard. A note moved out of it meanwhile is torn
  down all the same.
- A note whose file has not yet moved, above all one moved while closed, is trashed
  by its new path, where `trashVaultFile` finds nothing and reports success: the note
  leaves the catalog and its file stays at the old path, to reappear at the next
  start ("a failed trash must never leave the catalog and disk disagreeing",
  `archiveSlice.ts` 134-135).
- A pass that is past its guard, or about to write a note for the first time, puts
  the file back after it was trashed.
- Generations start again after `clearDirty`: when a delete fails while the pass
  holds the note, an edit made since may have the generation that was captured, and
  `Settle` takes its mark.
- A delete that fails marks closed notes dirty; their marks are then dropped by a pass,
  even if they are opened and edited during it. `deleteToTrash` leaves the conflict
  of the note in the registry.

Git:

- A write that lands after `git add` under a path of the snapshot loses its note
  when the commit lands (`gitStore.ts` 212-216 says it is kept), and so does the path
  that a note leaves in that time. `strays` exempts both.
- The snapshot "adds no path outside" it (216-217), yet stale marks are staged too
  and may give an empty commit. A rename notes its destination only, and the
  noted paths live in memory: what a death leaves is picked up by no one, since the
  daily safety net of the header comment is not run by `BootGate`.
- `revertCommit` and `commitImmediate` have no callers.

Thread engine:

- Control requests have no timeout. A run that waits for them when they never return
  never ends: the watchdog and a cancel pass it over (710-759, 1624, 1918). A thread that
  crashes by itself leaves its loop (1302-1367) without being marked dead, so the check
  after the requests (617) lets the run pass: it is taken up and never ends.
- With persistent queries off, a run accepted after the one result is stranded
  (`server.mjs` 613-616 against 1275).
- A rate-limit rejection ends the turn at once; the watchdog may end it again
  (1632-1638), and a gate open across it drives the gate count of the next turn
  negative. A late result after the grace timer with background work answers the
  next run (1951).
- The catch of `handleChatPersistent` unregisters whichever record is registered
  (592-600); the catch of `recreateThread` leaves a record that is neither dead nor
  alive (795). A thread closed while it is being built, then used again, has a
  turn that no cancel finds (`RegistryFinds`).
- A cancelled turn that ends in an AUTH error is replayed as if it had not been
  cancelled. Turns queued while a record is built are dispatched in the order in
  which their controls resolve, and are lost if it is torn down. A record being
  built is the preferred victim of eviction. `pendingDecisions` keeps entries.

Proposals:

- The second edit of a note which the run has created, arriving after the user
  accepted the first, is written without review outside `acceptEdits` (`index.ts`
  610), while `relay.mjs` 108 tells the model that "the change is STAGED for the
  user to review, and the file on disk stays unchanged until they accept it".
- A failed start leaves base and ledger stamped (against `index.ts` 237-239).
- An automatic edit of a range is reported "applied" though a conflict fails it
  afterwards (`NewConflicts = TRUE` breaks `FeedbackTruthful`); a stale whole write
  is reported refused while its card is pending; several edits of which one fails
  are reported as "NOT in the file".
- `createdNewNote` is dropped on the way, so `cleanupRejectedNewNote` never runs.
  Accept and a death before the write are not made up for. Decided changes are
  pruned after ten minutes, told or not. Parallel whole writes pass the
  comparison after the first stale one. The third edit of a new note in one turn
  is built from `edits[0].after`. `baseBySlug` is shared by all chats: what was
  shown to one of them counts as seen by the other (two chats break `GuardKeepsUnseen`).

Sidecar host:

- A request that enters the table after both drains hangs (`client.rs` 253; 175
  says the drain is there "so callers don't hang").
- "No new exit handler was armed" (`manager.rs` 359-361) is false when the process
  dies during `setToken`. A process that dies before the manager is wired (470) is
  not respawned. Deaths that are not announced are measured from an old
  `last_spawn`, so a crash loop never reaches its cap. "Running" may be announced
  after a later handler's "restarting" or "dead".
- At the quit, 700 ms of grace stand against a 500 ms backoff; the development
  watcher's respawn announces nothing; a `setToken` that hangs at boot leaves the
  mode unmanaged.

Chat runs:

- A `claude_chat_start` on the client of a dead process, in the 500 ms or more before it is
  replaced, never returns (`client.rs` 253, `manager.rs` 337-355). The announcement of the
  death settles `finished`, but the run still awaits its start (`index.ts` 976): the thread
  streams for ever, a Stop has nothing to end, and what is parked behind it never runs.
  `Settles` excepts such a run (`Unanswered`), and one that is left to the SDK.
- Stop while the token is still on its way: the cancel overtakes the chat request
  and is ignored, the run goes on, and a second Stop sends nothing (`index.ts`
  964-965: "The CANCELLED chat:error notification will arrive and finalize."). Stop
  while the notes are flushed or the context is assembled finds no run and is lost.
- A command does not look at the status of the thread: started into an answer, two
  runs share the streaming turn. The history variable `crossed` exempts such threads.
- While a regeneration or a command runs, what the user sends is dropped silently
  (`ChatPanel.tsx` 632-633 says otherwise). `runVaultCommand` never releases a hold.
- A restart of the sidecar while a run is being started leaves the run at work in
  the new process. `canRestartNow` does not see a run before it is registered.

Thread files:

- A patch during the first write of a chat stays in memory ("materialize flushes
  the full meta"); a turn that falls into a rewrite is wiped from memory, and from
  disk at the next rewrite; archiving while the first meta file is written
  discards the message and leaves an orphan file; "new chat" in that time returns
  the same chat.
- Two turns sent into a draft, and a third: the third may overtake the second on
  disk (`flaws` has "overtaken"). A draft whose first turns all failed to be written has
  no meta file; a Regenerate in it writes the transcript all the same, because
  `rewriteTurns` (225) does not materialize the draft: turns are on disk without a
  meta file, and the next start does not list the chat (`MetaFirst` exempts a rewrite
  after a failure; the proof of it found this). A quit does not wait.
- An append is a read of the whole file and a write of all of it in place
  (`appendVaultFile`). Any failing read (316-320) is taken for an empty file: the new
  turn replaces the transcript, and the append reports success. A failure of the write, or
  a death in it (326), loses the turns it has not put back yet, and the part of a line
  that it may leave spoils the next turn. `lib/vault.ts` 289-291 says that "append
  never touches bytes already on disk", and `threadsStore.ts` 22 that "a crash
  immediately after an `await` cannot lose the change": without `lost` in it,
  `SettledIsKept` fails in `Threads_files`, for each of these reasons.

Updates:

- "Restart" and the idle restart call `app.restart()`: neither flushes the notes nor
  asks about running chats nor shuts the sidecars down. The idle restart asks
  `canRestartNow`, which does not see a run while its notes are flushed and its context
  is put together, and what begins after the answer is cut off.
- The idle loop waits 500 ms for vetoes (`updater.rs` 439-443), whoever has answered. A
  window that answers later, which App Nap makes possible (357-360), or whose listener is
  not registered yet, is restarted over its dirty notes and its runs; its veto, when it
  comes, defers nothing but what a probe after it has not reset. `SafeRestart` therefore
  speaks of the vetoes that have come in.
- A restart may fall into the installation of a version that supersedes the staged
  one: the busy flag is not consulted.
- A broadcast that falls into the mount of a window is not heard, or is overwritten by
  the older snapshot; the window then shows the wrong state until the next
  broadcast, which may be an hour away. `crossed` exempts it.
- A note in conflict stays dirty, and vetoes every idle restart until it is resolved.
  A check that never comes back keeps the busy flag for good.

## Fairness

- `DocFlush`, `FairSpec`: weak fairness of `FlushTick` (an interval timer) and of
  `PassStep` (file operations return, the code runs on); strong fairness of each
  `Hydrate`, because a load that has come back waits only while the pass is inside
  a stretch without an await, which ends. Nothing is assumed of the user, and
  nothing of `WriteFails`: the bound on failures is what makes a write succeed in
  the end, as a disk that fails for ever saves nothing.
- `AppQuit`, `FairQuitSpec`: strong fairness of the handler's own continuations, for
  the same reason; the answer to its question is the user's and has none. The rename of
  a file that has just vanished comes back, with its failure. That passes end again and
  again is no fairness of the program but a premise of `QuitEnds` (see the observations).
- `ThreadEngine`: weak fairness of the continuations of every record, of the
  watchdog and of the user's answers to a gate, which the watchdog waits for. The
  SDK may stay silent for ever: the watchdog is what ends the turn. Nor need it answer a
  control request, and it ends a query only when that has been aborted (`MustEnd`).
- `SidecarHost`: tasks are scheduled, a live process answers, timers fire; a backoff
  of at least 500 ms outlasts a continuation that is ready; requests and backoffs
  take less than `HEALTHY_UPTIME`.
- `ChatRuns`: strong fairness of the drain (the effect runs with the render that
  follows each write to the store), weak fairness of everything on the way between
  host, sidecar and web view; a start is answered unless it was put on a process that had
  died (`Unheard`), and the sidecar ends what it accepts and does not leave to the SDK
  (`AcceptAdrift`), which is what `RunLedger` promises. Nothing of the user, and no failure
  need happen.
- `ThreadFiles`: file operations return, settled promises go on.
- `Updates`: the hourly loop and the idle loop run for ever, the server and the disk
  answer one way or the other, broadcasts, probes and calls between host and window
  arrive, in no known time: the loop does not wait for them. Nothing of the user; that the system is idle and without work in the end is the
  premise of what is said of the armed restart.
- The other runs are about safety; in `Catalog` nothing need ever come to an end.

## Proofs

All theorems hold for every value of the constants, under the named assumptions
of the module they are about, which every run of that module evaluates.

`DocFlushProofs`:

- `TypeCorrect`: `Spec => []TypeOK`. `TypeOK` is inductive by itself because it
  says what an awaiting step relies on: a loading note has the path of its load, a
  pass in the middle of a note has the note, its target and, if it renames, the
  old path.
- `EditsAreKept`: `Spec => []CleanMeansSaved`, assuming `MoveScope # "any"`.
  `CleanMeansSaved` is not inductive: `Settle` clears a mark because the generation
  equals one captured several awaits earlier. `CapturedIsLive` says what that
  equality means (the captured body is still what the user sees), and
  `DirtyIsOpen` that the other place which clears marks, `DropUnopened`, is never
  reached by a note somebody edits. The assumption is needed: the observation on
  closed moves above is a counterexample without it. `FlushInv` is the conjunction;
  `FlushNext` proves it inductive, with one lemma for the user's steps and one
  for the pass's.
- `FailuresPruned`: `Spec => []FailuresAreDirty`. The property is about idle states;
  the proof splits on whether the program was idle before: if it was, marks are
  only added and failures untouched (`IdleKeepsMarks`); if not, the step is
  `EndPass`, which prunes.
- `CleanIsOnDisk`: `Spec => []DiskCurrent`, assuming `MoveScope = "none"`. On top of
  `Inv` it needs `DiskInv`: every known note has a path of its own and
  `lastWritten` is that path or none (`OwnFiles`), and the pass works on the note's
  current path, never renames and reaches `settle` only with the captured body in
  the target (`PassInPlace`). Then `Settle` clears the mark of a note whose file
  holds what `CapturedIsLive` says is still shown.
- `FilesKeepContent`: `Spec => NeverWiped`, assuming `MoveScope = "none"`,
  `ReadFaults = FALSE` and that nobody empties a note. `EmptyIsTrue` carries it:
  whatever is shown, or captured for writing, as empty belongs to a file without
  content. `ReadFaults = FALSE` is needed: after a failed read the code shows an
  empty note, which is then not a true one.

`SaveClientsProofs`, about what builds on the save path (`GitSync`, `AppQuit`, `Catalog`,
`VaultSync`).
Commits and quits both owe edits, each a note and a generation, until the pass has settled
the note at that generation or the note is in conflict. What the save path makes of such a
debt is said once, for any step of `DocFlush`: what is owed stays dirty at a generation not
below the owed one (`Marked`, `OwedStays`); and a pass that has the note ahead, or in its
hands with the owed edit captured (`Ahead`), settles the debt, leaves the note failed, or
puts it off because its file is gone (`AheadEnds`, `FailureStays`), which does not happen where
files stay where they are (`FilesStay`, `AheadStays`).

- `CommitsAreTransparent`: `GitSpec => Spec`. Forgetting the variables of git, every step
  is a step of `DocFlush` or a stutter: a commit is one more caller that asks for a
  flush. With it `CommitsKeepEdits`, `GitSpec => []CleanMeansSaved` (`MoveScope # "any"`),
  is a corollary of `EditsAreKept`.
- `ChangesStayNoted`: `GitSpec => []ChangesAreNoted`, on `NotedInv`: a commit that has
  staged differs from the disk only at paths that are late or about to be noted, and
  `head` is the index when it has landed.
- `CommitsStageEdits`: `GitSpec => []CommitsWhatWasThere`, assuming `MoveScope = "none"`
  (a note moved after the call may be staged at neither path). The
  commit owes what was unsaved at its call. `OwedInv`: the lock belongs to the commit that
  runs (`LockInv`), what is owed is marked (`OwedIsMarked`), and, while the commit
  awaits a flush of its own, ahead of the pass or failed (`AheadOrFailed`).
- `QuitsSaveEdits`: `QuitSpec => []QuietQuitSaves`, assuming `MoveScope # "any"`, with files that
  vanish at any moment (`VanishKeeps`: they take nothing from memory). `QuitOwed`: unless it has joined a pass, the first flush of the quit has ahead what the
  quit owes, and whatever is still owed after it has failed.
- `MarksAreAccountedFor`: `CatSpec => MarksAccountedFor`, an action property, for all moves,
  folder operations and deletes. `CapturedStands` is the captured generation of `EditsAreKept`
  where notes may be torn down, and have their generation reset by a delete, under the pass;
  `StayOut`: who has left the catalog is not opened again, and whoever was open when the
  pass began had a path in its snapshot, so the pass drops no mark of it unwritten.
- `CatalogAndDiskAgree`: `CatSpec => []CatalogMatchesDisk`, assuming `MaxFails = 0`. One
  failure is enough to break it: a pass renames the file, the write fails, the note is moved
  back, and is believed to be where it is not. `TreeInv` is the types and, until something
  is crossed, `Tidy`. Every path has one owner, counting the catalog, the rename tracker and
  what the pass holds (`Owners`); what the pass is about to write is at the stage its old
  file calls for (`PassPlaced`); every file is its owner's, and in the renamed directory that
  of the note the catalog still has in the old one (`FilesPlaced`); the operation is about
  the files it names (`JobIsAbout`), and while they are gone the stale-path guard
  holds back whoever comes for them (`GoneIsGuarded`). `CatalogMatchesDisk` is far from
  inductive: it speaks of the time between operations, and says of a file only that
  some note has it.
- `PassOverwritesNoOther`: `CatSpec => PassWritesOwn`, an action property stated in
  `SaveClientsProofs`, from the same invariant and under the same assumption. No step of the
  pass touches a path that the catalog or the rename tracker has for another note, and
  `renameVaultFile` always lands on a free one. So the overwriting rename of the observations
  needs, in `Catalog`, a note that was given a path where another's file may still be, an
  operation that took files under the pass, or a failed write.

The steps of the watcher are steps of `DocFlush`, or leave the pass alone, so the lemmas
about `DocFlush` are used again for it:

- `ConflictIsOpenAlways`: `SyncSpec => []ConflictIsOpen`. With the types of what the
  flows carry, the property is inductive: the steps that close a note or take it out
  of the catalog are those of the watcher, and they clear its conflict with it, whether
  the note has a tab or stays open in the background.
- `EditsKept`: `SyncSpec => []EditsKeptUnlessCrossed`, assuming `MoveScope # "any"`.
  `KeptInv` is the argument of `EditsAreKept` for the notes that have not been removed and
  whose write no reload has crossed (`CleanIsSaved`, `CapturedIsShown`), together with
  `OpenIsKnown`: who is dirty is open and who is open is in the catalog, in the snapshots
  of the pass and of the reloads too.
- `OwnWritesAreDropped`: `SyncSpec => []OwnWritesQuiet`, assuming `MoveScope = "none"` and
  that the program's own writes are reported as renames or creations. `QuietInv`: while
  nobody else has touched the vault, no reload, removal, addition or match is under way,
  and every report and check names a file that is there and belongs to a note
  (`QuietFlows`); and a note stays where it is, so that the pass renames nothing
  (`NothingMoves`). The temporary file and the rename of an atomic write are why the
  reports are of these kinds; a move of a note is reported at the path it has left too,
  where a removal may be the answer.

`SidecarHostProofs`:

- `OneProcessAlways`: `Spec => []OneProcess`. The invariant says that every mode has at
  most one *leader*, an instance whose end is still to be noticed or whose exit handler
  may still respawn (`OneLeader`); that a process that lives is kept and not yet noticed
  as ended, and a handler runs only after the end (`Ends`); and that the boot spawns a
  mode once (`BootOnce`). A respawn hands the lead over.
- `ChatHasTokenAlways`: `Spec => []ChatHasToken`. Between the answer to `setToken` and the
  chat that follows it, the process may die and be replaced. Whoever has a client at hand
  keeps it (`ClientsHeld`); a process that has been waited for answers nothing
  (`WaitedSilent`); while the handshake of a successor may still succeed, nobody else
  knows its client (`Hidden`), and nobody who might go on to a chat has been told of a
  token by the one it replaces (`HandsOver`); whoever may still hear something talks to
  the client of the moment (`OnCurrent`); so a call that has had its token answered is on a
  process that has it (`Tokened`). `TokenInv` is the conjunction with the invariant above.

`ChatRunsProofs`:

- `OneStreamAlways`: `Spec => []OneStream`. By itself `OneStream` is not inductive: to
  start a run in an idle thread is safe only if the message is not at work
  elsewhere. `OneHome` says so: whatever there is of a message, parked, in a transcript,
  in one that is being rewritten or at work, belongs to one thread; `Known`, that
  all of it has been submitted, so that a fresh message is nowhere yet. The lemmas
  about sequences say where the elements of a changed queue or transcript come from.
- `NoOrphansAlways`: `Spec => []NoOrphans`. The invariant (`SideInv`) says that, as long
  as the sidecar has not died, a run settles, and the event of its end is under way,
  only when the sidecar has ended it (`Truthful`): what the front end is done with has
  nothing at work.
- `TypeCorrect`: `Spec => []TypeOK`. What it rests on beside the invariant of
  `OneStreamAlways` is that a run that ends lets go of the latch of its own thread and of
  no other (`LatchKeeps`).
- `MessagesStayInPlace`: `Spec => []MessagesInPlace`. `PlaceInv`, in every thread: what is
  parked is parked once and has not run (`ParkedWaits`), what is said has (`SpokenRan`), so
  whatever begins to run has not been said; and in a thread no command crossed, what runs is
  the last thing said, or becomes that when the rewrite under way is done (`RunsLast`),
  so its answer goes behind its question; a rewrite has a live run (`RewritesLive`) and
  takes away its last answer only. That every message belongs to one thread is `OneHome`.
  `NoneAssumption` says that "no rewrite under way" is no transcript.
- `StopAlwaysHolds`: `Spec => StopHolds`, an action property. Where the user has stopped and
  not sent anything since, the queue is held (`HeldInv`), which a command does not undo; so
  what leaves the queue there is what the user takes out.

`ThreadFilesProofs`: every step is a step of one thread (`StepOf`) and leaves the others
as they are (`OthersStay`), and every invariant is a conjunction over threads, so each
is proved for the thread of the step only. The invariants build on each other:

- `TypeCorrect`: `Spec => []TypeOK`. On it `ShapeInv`: only the front of a queue runs, a
  thread that was never made has left nothing, a draft has no append in its queue, none
  runs ahead of a delete, and the meta files that are written hold a record. `DamageInv`:
  an append that has not read its file, and a file that ends in a part of a line, are
  known as damage.
- `TurnsAreKept`: `Spec => []SettledIsKept`, all faults included. `KeptInv`: settled turns
  that are not `lost` are on disk and in memory, a rewrite in the queue holds them too,
  an append that has read the file holds what is still in it, and what it has written is
  there unless a part of a line has swallowed it.
- `MetaComesFirst`: `Spec => MetaFirst`. `HeadedInv`: a draft with something to say has its
  meta file on its way, it is not rewritten, it is deleted once, and whatever may write
  turns finds the meta file (`WritersFindMeta`).
- `FileIsPrefix`: `Spec => []DiskIsPrefix`. The heart of the
  argument (`PrefixInv`) is a function `slot` which gives each turn that the queue still
  owes its place in the transcript: what is owed is exactly what the file lacks, the
  queue pays in the order of the transcript, and what is queued behind a rewrite was said
  after it (`Fits`); a rewrite takes out the last turn of its day (`RewriteFits`).
- `StoreMirrorsDisk`: `Spec => []MirrorsDisk`. `MirrorInv` adds, of the meta records, that
  the last one in the queue is the record in memory (`NewestIsLast`), that the file holds
  it when the queue holds none (`WrittenIsNewest`), and that what is left of a discarded
  draft is its delete (`DiscardedAlone`, `ForgottenIsGone`).

`UpdatesProofs`:

- `StateIsTrueAlways`: `Spec => []StateIsTrue`. A staged version is announced whenever no
  check is under way (`StagedIsAnnounced`); the last broadcast on the wire to a window is
  the state (`YoungestIsLast`); while a window that no broadcast crossed mounts, its wire
  is empty and its snapshot, once taken, is the state, and so is what it shows when it
  has settled and heard everything (`UncrossedKnows`).
- `RestartsSafely`: `Spec => SafeRestart`, an action property: a veto of the last probe that
  has arrived is in the flag the loop reads, which only the next probe resets
  (`VetoIsKept`), however many older probes and vetoes are still under way.

`ThreadEngineProofs`: two records of one thread may be alive at a time (an AUTH restart),
several may be built, and the reports of one turn race, so nothing can be said of a
report before it is known where a run can be.

- `RunsHaveOnePlace`: `Spec => []HoldInv`, for all faults. A record *holds* the runs in its
  queue and the one that it is built, replaced or at work for (`Holds`); a run is held by
  one record, or by a wait for control requests (`Unique`), once (`Apart`), and was sent
  (`Known`); the record that a build replaces waits for that build alone (`OldInv`). `Shape`
  relates loop, generator and turn of a record. One lemma per operation says what it
  makes of a record, and one per action that the step is *fine* (`Fine`): the places are
  kept, and either nobody comes to be held and nothing is told to the host, or a fresh run
  is accepted, or a run is reported and let go of.
- `AnswersAreOwn`: `Spec => []OwnAnswers`, assuming `"background" \notin Faults`. `Own`: what the
  SDK owes a reading record is the message of its turn and nothing else. Background work
  breaks that in the code (see the observations on late results).
- `GatesAreCounted`: `Spec => []GatesCounted`, assuming `"limit" \notin Faults`. `GateFine`: all
  gates of a record that reads belong to its turn, and there are none where the turn is
  cancelled, settled or not begun. A rate limit ends a turn with its gate open, which then
  is taken off the count of the next (observations).
- `EndsOnce`: `Spec => Ledger!Init /\ [][Ledger!Next]_(Ledger!ledgerVars)`, assuming neither
  `"limit"` nor `"throwAuth"` in `Faults`: the safety half of `KeepsLedger`. `Once`: a turn that
  has been reported is over, unless its record is dead; who is held has not been
  reported. After a rate limit, and after an authentication error thrown by the stream of a
  turn that was already reported, the code reports a second time. That a run is left to the
  SDK from its acceptance on or not at all is `GoneFine`: a record whose loop is over takes
  up nothing but a run whose control requests were out, and no run comes to wait for
  such requests later than that.
- `RegistriesFind`: `Spec => []RegistryFinds`, and `NothingIsStranded`: `Spec => []NeverStranded`,
  assuming `OneAtATime` and neither of these two faults; the second for threads kept open
  (`Policies = {"persist"}`). `RegInv`: whoever holds a run is a record of its thread
  (`InThread`), which has one run (`OneOpen`); a record that will still take or report a run
  is *live*, and has the slot of its thread (`AllRegistered`, `Slots`), so a thread has one
  live record; a held run is routed (`Routed`), and a record that has done with a run which
  another still holds is one that was replaced (`Lefts`), so its end forgets nothing. Then
  nothing can wait behind a turn, and the queues are empty outside a step (`Plain`). The
  assumptions are needed, as TLC shows when one is dropped: a second run for a busy thread
  may be queued on a record that dies, or dispatched by one that has lost its slot; a turn
  reported before its end lets the host send the next; the one-shot policy takes a run
  after its only result. Only of the rate limit it is open whether `RegistryFinds` needs its
  absence: TLC finds no counterexample, but `OnceInv`, on which the proof rests, does.
  That a record which has ended is at work on a run only where nobody has closed it
  (`Lasts`) follows from `GoneFine`: the check of `dead` after the control requests reports
  the others. `NeverStranded` says nothing of a run dispatched to a record whose build has
  failed, and excepts the run that a crashed thread takes up (observations).

`ProposalsProofs`: every property of `Proposals_one`, for any number of chats, notes, calls,
anchors and retries. None is inductive. The conjuncts of the invariant build on each
other, and two relations of a state to the next carry them: what no step undoes (`Grows`),
and what, once placed or decided, stays so (`Lasting`).

- `ProposalsTyped`: `Spec => []TypeOK`. `Types` are the domains, `WellFormed` says that
  nothing dangles: a queued write is there once and has its reason (`QueueOK`), a stage says
  what the handler has asked for and staged (`Stages`), and a call waits for one of its own
  chat and path and claims only a change that creates the note (`Relates`).
- `NobodyIsLeftWaiting`: `Spec => []NobodyLeftWaiting`. Handlers can be numbered so that each
  waits for a lower one (`Ranked`); when none can go on, an open one of least number on a
  loaded note could. That is a safety statement: that the steps are taken is fairness.
- `DecisionsAlwaysStand`: `Spec => []DecisionsStand`. What is accepted was written, has
  failed, or has a write queued (`AcceptedHasTurn`). `Decided`: whatever text of a call is
  in a note, in a staged body or in a merged one belongs to the change that carries the call
  (`Root`), and in a note that change stands (`Stands`): accepted, pruned after it, or decided
  while its write was under way (`crossed`). So nothing that was rejected in time is there.
  A merge reads the decision before it writes (`MergeStands`): between the two nobody can
  decide, because the write is on a loaded note and its awaits resolve at once.
- `FeedbackIsTruthful`: `Spec => FeedbackTruthful`, an action property, assuming
  `~NewConflicts`. `Failures`: a change that has failed is in no note, nor is one that the
  applier has still to write, unless it creates its note. TLC breaks the property where
  other programs change such a note (see the observations).
- `GuardDropsOnlyGiven`: an action property, for all chats. `Guarded`: the user's text in
  `base` was given to some chat or stamped for it, a Write that is out knows what its chat
  has been given, and is the only one that is out for its note. What a guarded write
  drops is thus text that its model knew, that a prompt of its chat which never left held, or
  that *other* chats were sent. The last is real: `base` is shared, and with two chats TLC
  finds `GuardKeepsUnseen` violated in seven steps (chat 2 is shown what the user has just
  typed, chat 1 writes over it). With one chat, as in the run, nothing is left of it:
  `OneChatKeepsUnseen`, `Spec => GuardKeepsUnseen`.

`TypeOK` used to bound `stale` by `MaxStaleRetries + 1`. The proof did not go through, for the
bound is not invariant: `bumpStale` (`modelBodyBase.ts` 33) counts on after the limit, and
only a write that lands resets it. The bound held only in the instance, where there
are too few calls.

`DiskCurrent` and `NeverWiped` are neither checked nor proved where notes move. Only
model-checked is the liveness half of the refinement of `RunLedger`. Out of the prover's reach are liveness
(`EventuallySaved`, `QuitEnds`, `KeepsLedger`, `Recovers`, `Settles`, `Drains`, `UpdateLands`)
and ENABLED, which fairness is made of, and induction over data, which is why `slot`
and the lemmas about sequences stand where a recursive definition would be shorter.

## Not modelled

Cursor and scroll state, layout and every other view state; rendering; parsers and
converters (frontmatter, Markdown, importers); platform wrappers; sign-in, the
mail relay and the landing page, which are I/O without state of several steps;
the wiki index and the timeline, which are rebuilt from the vault; attachments.
Inside the modelled components:

- catalog: renames with their link rewriting, creating folders, nested folders, tabs;
- sidecar: `initialize`, models, stop-task, titles, the plan policy, ids of
  background turns, the relay's ack slots (`Proposals` assumes that a verdict
  reaches the tool);
- host: the shutdown at quit, the development watcher, the other commands, frames,
  the protocol version;
- chat: the parts of an answer, the prompt's wording, titles, background tasks,
  archiving, the turn of an unknown command;
- proposals: multi-edits, the no-op verdict, the ack timeout, rejecting a group,
  undoing a decision, the creation of a daily note, the review inside the
  editor, the restart of the program; one whole write at a time per chat and note;
- thread files: reads of the hydration that fail, the content of meta records; an
  answer is taken to outlast the meta write and the rewrite it was started with;
- git: revert, the log, moving the repository;
- updates: development builds, release notes, progress numbers, closing a window.

## Plan

1. Catalog renames with their link rewriting, and folder operations against the
   watcher (`Catalog` with `VaultSync`).
2. The relay's acks between `ThreadEngine` and `Proposals`.
3. An abstract `Saver` (a note's text is volatile or durable) with `DocFlush` as its
   refinement.
4. Proofs: a `DiskCurrent` for notes that move. As it stands it is false then (see the
   observations): clean notes have their text in a file, but perhaps not at their path.

## Running

    tlc -config DocFlush_saved.cfg MCDocFlush.tla
    tlapm DocFlushProofs.tla

and so for the other runs of the table and the other modules of theorems:
`SaveClientsProofs`, `SidecarHostProofs`, `ChatRunsProofs`, `ThreadFilesProofs`,
`UpdatesProofs`, `ThreadEngineProofs`, `ProposalsProofs`.
