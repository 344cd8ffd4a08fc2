# A verification project for m6t

m6t is a desktop workbench for Kubernetes manifests: a Go backend (`src/internal`)
behind a React frontend (`src/frontend`), joined by Wails calls and by a loopback
WebSocket server. The TLA+ modules here model the parts of it whose correctness
depends on the order in which goroutines, processes, sockets, timers, awaited calls
and events run. TLC
checks them on small instances, and TLAPS proves some of their properties for
every instance.

- `PROJECT.json` lists the components, the runs, the mutants (what each property
  would catch), the lines of code each definition stands for, the findings, the
  hazards of the code and the theorems.
- A run is `tlc -config <cfg> <module>`. A proof is `tlapm <module>_proofs.tla`.
- Names follow the source: `send`, `markResync`, `finish`, `drain` in
  `internal/stream/conn.go` are `Send`, `Mark`, `Finish`, `TakeEnd` in
  `StreamConn`. A definition named `Bug...` is a mutant: the definition after it
  with a plausible mistake.

## 1. The system

### 1.1 Components

| Component | Code | State it keeps | Operations | Correct when |
|---|---|---|---|---|
| PTY session | `pty/session.go`, `ring.go`, `hangup_*.go` | child, master, scrollback ring, consumers, `done` | start, pump/broadcast, run/finish, attach, detach, write, resize, kill | replay joins live output without a gap; every channel closed once; exit after the output; kill ends; nobody stalls the child |
| PTY manager | `pty/manager.go` | map of sessions, `lastID` | Create, Write, Resize, Attach, Kill, Shutdown | every live child has one owner; Kill and Shutdown return after reaping; ids unique |
| Stream connection | `stream/conn.go`, `protocol.go` | bounded queue, drop counter, `done` | send, finish, writePump (write, markResync, drain), close | nothing lost silently, nothing counted twice, the newest survives, send never waits |
| Terminal handler | `stream/terminal.go`, `app/terminals.go` | one forwarder and one read loop per connection | serveTerminal, forward, readTerminal, applyControl | output in order end to end, exit status delivered, nothing leaks |
| Stream server | `stream/server.go`, `events.go`, `stream.go` | listener, token, set of connections | Start, upgrade, register, publish, Shutdown | events reach every subscriber or a resync does; Shutdown closes every connection |
| Cluster watch session | `kubewatch/session.go`, `pump.go`, `plan.go`, `health.go` | plan, rows, phase, backoff, pumps, `replanned`, `dirty` | run/cycle, plan, follow, park, pump, announce, replan, stop | each verdict on its own row, no edit or change forgotten, stop returns |
| Cluster watch service | `kubewatch/kubewatch.go`, `snapshot.go`, `connect.go` | sessions per binding | Watch, Snapshot, Refresh, Stop, Shutdown | a removed project has no live watch |
| File watcher | `watch/fsnotify.go`, `poll.go`, `service.go`, `app/tree.go` | pending directories, watchers per project | Watch, Unwatch, event loop, flush | every change is published in the end |
| File operations | `watch/fs.go`, `content.go`, `prefix.go` | the disk | list, create, rename, delete, read, write | no path outside the root; an interrupted write leaves the old file; a rename does not overwrite |
| Project registry, project list | `project/*.go`, `useProjects.ts`, `projects.ts` | `projects.yaml`, the strip's copy of it, the project on screen | list, add, remove, move, rename, recolour, rebind | the strip shows the registry once nothing is under way; no write erases what arrived in between |
| Binding resolution, cluster panel | `project/binding.go`, `useKube.ts`, `kube.ts`, `ProjectPanel.tsx`, `FolderBinding.tsx` | the bindings, the one on screen, a verdict | resolve, check, bind, unbind | the binding on screen is the one a call would use; a verdict is about what is on screen |
| Apply pipeline | `app/kube.go`, `kubeexec`, `usePipeline.ts` | the open run, its generation, the log | preview, confirm, mutate, close | a mutation goes where its dialog, dry run and diff said, and to a protected context only by its name; the dialog shows its own run; everything is logged |
| Terminal tab | `terminalSession.ts`, `useTerminals.ts`, `tabs.ts` | tabs, sessions, panes, sockets | create, restore, start, attach, resync, restart, close | a closed tab leaves no shell; a status is about the tab's own shell |
| Status readers | `useHealth.ts`, `useGitStatus.ts`, `useGitOps.ts`, `events.ts` | data, in flight, stale, target | dispatch, read, retarget, operate | the last change is read; no answer is shown for another target |
| File tree | `useFileTree.ts`, `tree.ts`, `projectTrees.ts` | a tree per project, listings under way | expand, reveal, locate, restore, edit, re-list | a listing on screen is what the directory holds |
| Editor tabs | `useEditorTabs.ts`, `editorTabs.ts` | buffers, baselines, calls under way | open, edit, save, close, restore, reconcile | edits are only replaced by the user; a clean tab shows the disk |
| Blame gutter | `useBlame.ts`, `blameMarks.ts` | one blame, anchors per editor | read, install, move with edits | a line carries its own name or none |
| Saved session | `session/*.go`, `useSession.ts`, `session.ts` | the session as recorded, as written, on disk | load, restore, record, debounced save | a record survives until its project is restored; what is saved is what is shown |
| Git service, manifest index, kubeconfig, tools, generated bindings | see `PROJECT.json` | none of their own | read-only or independent calls | parsing and rendering: outside what a model checker says anything about |

### 1.2 How they interact

```
 shell <-> terminal <- pump -> session{ring, consumers} -> chunks/exit channels
                                                       \-> forward -> conn.send -> queue -> writePump -> socket -> tab
 tab -> socket -> readTerminal -> Write | Resize | Kill -> manager -> session
 disk -> fsnotify -> flush -> PublishTree/PublishGit/Refresh -> publish -> event conn -> events.ts -> readers
                                     \-> kubewatch session (replan) -> pumps -> rows -> announce -> publish
```

Goroutines share state through one mutex per object (`session.mu`,
`Manager.mu`, `Server.mu`, kubewatch's `session.mu`), one atomic counter
(`conn.dropped`) and channels, most of them bounded and written with `select` and
`default`. That is where the hard behaviour is: every "never wait" decision drops
something, and every drop has to be accounted for.

### 1.3 What is hard here

- `conn.send` is three separate `select`s and an atomic add, interleaved with a
  writer that swaps the counter. Event connections break its one-producer rule.
- A session ends by a race of four parties: the child, its reader, a grace
  timer, and a descendant that may hold the terminal open for ever. Consumers
  attach and detach in between.
- `Kill` removes a session under the lock and ends it outside; `Shutdown` does the
  same for all of them while `Create` may be half way.
- The rows of the cluster panel are addressed by index from pumps started for one
  plan, while edits make the next.
- One-place channels (`replanned`, `dirty`) carry "at least once" requests, and
  timers sit between their readers.
- Everything is lossy under load and has to say so.
- In the window every operation is an awaited call, and the component goes on while
  it is under way: the project, the file or the folder on screen may be another one
  when the answer comes, a newer call may be answered first, an event may announce a
  change in between, and the tab the answer is for may be gone.
- The window keeps copies: of the registry, of git's status, of directories, of
  files, of the session on disk. Each is refreshed by events that may be lost.
- A directory is watched only once the watcher has walked to it, and directories
  are made while it walks.

`PROJECT.json` lists these hazards one by one, at their lines, with the properties
that watch them, or with the reason why none does.

## 2. Modules

| Module | What it is | Code |
|---|---|---|
| `StreamConn` | one outbound connection: producers, queue, counter, writer | `stream/conn.go` |
| `LossyStream` | what such a connection promises (abstract): `sent`, the messages a peer gets | `stream/PROTOCOL.md` section 6, as conn.go does it |
| `PtyRing` | the scrollback ring as operators on a buffer, a start and a size | `pty/ring.go` |
| `PtySession` | one session; uses `PtyRing` | `pty/session.go` |
| `PtyManager` | the registry; a session is abstracted to alive or reaped | `pty/manager.go` |
| `TerminalStream` | composes `PtySession` and `StreamConn` with the handler | `stream/terminal.go`, `app/terminals.go` |
| `KubeSession` | one live watch and the cluster it watches | `kubewatch/session.go`, `pump.go`, `plan.go` |
| `Watcher` | the file watcher of one checkout, and the tree it keeps current | `watch/fsnotify.go`, `app/tree.go` |
| `Window` | the constants the parts of the window share | |
| `EditorTabs` | open files: loads, edits, saves, outside changes, closing | `useEditorTabs.ts`, `editorTabs.ts`, `EditorTabs.tsx` |
| `FileTree` | a tree per project and its listings | `useFileTree.ts`, `tree.ts`, `projectTrees.ts` |
| `GitStatus` | git's status of the project on screen and the operations on it | `useGitStatus.ts`, `useGitOps.ts`, `gitOps.ts`, `BranchBar.tsx` |
| `HealthPanel` | the cluster state of the manifest on screen | `useHealth.ts`, `app/kube.go` |
| `Binding` | which cluster a path is bound to (operators) | `project/binding.go`, `kube.ts` |
| `ClusterPanel` | the bindings, their edits and the panel that shows one; uses `Binding` | `useKube.ts`, `ProjectPanel.tsx`, `FolderBinding.tsx`, `app/kube.go` |
| `Pipeline` | preview, confirmation and apply or delete; uses `Binding` | `usePipeline.ts`, `pipeline.ts`, `app/kube.go` |
| `TerminalTabs` | tabs, the session of each pane, and the shells | `useTerminals.ts`, `tabs.ts`, `terminalSession.ts`, `TerminalPane.tsx` |
| `Workbench` | the project strip and the saved session | `useProjects.ts`, `useSession.ts`, `session.ts`, `project/registry.go` |
| `Blame` | the blame gutter | `useBlame.ts`, `blameMarks.ts`, `EditorPane.tsx` |
| `MCStreamConn`, `MCKubeSession`, `MCEditorTabs`, `MCClusterPanel`, `MCWindow` | constants for TLC, and the refinement mapping | |
| `..._proofs` (8 modules) | theorems: section 4 | |

### StreamConn

Frames are numbered in the order `send` is called. The byte counter `dropped` is
abstracted to the set of frames whose bytes it holds, which is finer: a count that
matches by accident is not accepted. `sending[feed]` is the program counter of a
producer inside `send`: `Send` is the first `select`, `Evict` the second, `Count`
the `dropped.Add`, `Retry` the third. `pump[c]` is the program counter of
`writePump`: `Take`, `TakeEnd` and `TakeDone` are its `select`, `Mark` is
`markResync` (swap and write), `Write` the frame, `WriteClosure` the end of
`drain`. A write may fail at any time. `Close` is `close`, called from outside.
The producer contract of `finish` (only the sole producer, between two sends) is
`FinishFeed`, taken from `forward`, the only caller.

### PtySession and PtyRing

Output is bytes numbered from 1. `Read` takes any number of the available bytes up
to `ReadChunk`; `Broadcast` is the critical section that writes the ring and offers
the chunk. `holder` is a descendant that keeps the slave side open, so that
end of file may never come. `run` walks through `wait`, `grace` (the deadline),
`draining` and `done`; `Drained` and `DrainTimeout` are the two branches of its
`select`. `Attach`, `Detach` and `Finish` are the other critical sections. `kill`
is the two-step hangup and SIGKILL. `got` and `lost` are history, used by
properties only. `PtyRing` is the byte arithmetic of `ring.go`, with Go's index
from 0, `copy` as `Copy`, and its remainder.

### PtyManager

`create[s]` is where a `Create` call is: the child is started before the lock is
taken, so there is a state in which it is alive and nobody has it. `killing[s]`
says who is inside `s.kill`, `killed[s]` that it has returned.

### TerminalStream

`handler[c]` is `serveTerminal` and its read loop, `forward[c]` the forwarder, and
`payload[c][n]` what frame `n` of the connection carries. A consumer of the session
is a feed of its connection. Client messages have no effect before they are read,
so they are not kept in flight: reading one is an action that may happen at any
time. An accepted input leaves the handler in `writing` until the terminal takes
it, which is up to the child. `link[c]` separates "one side gave the connection
up" from the closure the pump writes at the end: a write fails only in the first.

### KubeSession

The cluster is the log of its changes and a resource version a position in it. A
list reads the state at the end of the log, a watch delivers the entries after a
version. `at` is the program counter of `run`, `pumps[g]` each group's pump with
the `<<object, row>>` pairs it was given. A row carries, as history, the object its
verdict is about (`of`), so that a verdict that lands on the wrong row is seen.
`net = "flaky"` allows every read, connect, list and watch to fail or be refused;
`Settles` ends that.

### Watcher

Directories form a chain from the root, so that a walk can be under way above one
that is being made. The kernel reports a change to the watches there are at that
moment and drops it when its queue is full. `walk` is the goroutine inside `addTree`:
`AddWatch` and `ReadDir` are its two system calls, in the order `WalkDir` makes them,
and `Start` is the walk the module begins with. `Handle` is `handle`, `Flush` the
critical section of `flush`, `PublishTreeChanged` what it does outside the lock.
`AddWatch` may be refused by the system and goes on, as `addWatch` is best effort; a
directory that cannot be looked at or read ends the walk of `handle`, which ignores the
error. The history `blind` holds the directories this keeps from being watched
(`unreached`, and those made inside them).
The tree re-lists directories it tracks, as `affectedTrackedDirs` says. Delivery of
the batch is reliable here; `FileTree` and `GitStatus` lose and delay it.

### The window

All modules of the window model an awaited call in three steps: the call is put
under way with what it was made with, the backend answers (`got`, from the state at
that moment, or a failure), and the answer is delivered, in any order with others.
Between them everything else may happen. Contents, statuses and listings are version
numbers, or model values where two of them may be equal again. Variables that say
"history" are read by properties only.

- `EditorTabs`: `calls` are the loads, saves, reconciliations and restores under way;
  a tab is the record of `editorTabs.ts`, and the operators named as its functions are
  those functions. `queue` is the close prompt of `EditorTabs.tsx`. Two histories say what
  the last answer a tab got is worth: `late` when it was older than an event, or came
  during a save and was put aside, and `stale` when it contradicted a conflict that stayed
  on show (`withExternalChange` leaves the tab alone when the disk is back at the
  baseline, `withReloadFailed` when the file cannot be read).
- `FileTree`: `calls` are listings, `edit` a create, rename or delete. `listener`,
  `batch` and `pending` are the event socket, what is queued on it, and the watcher.
  A deleted path keeps its row, since a listing is a version number. `Restore` takes
  the shapes a saved tree can have.
- `GitStatus`: `reading` and `stale` are the two flags of one read in flight and one
  behind it; `op` is the busy flag of `useGitOps` with the call.
- `HealthPanel`: the same reader over places (project and manifest), `target` being
  the place on screen.
- `ClusterPanel`: `kubeOf` is `projects.yaml`, `strip` the window's copy. A write is a
  rename or a new default, which sends the whole settings, or a bind or unbind of a
  folder. `EditByHand` edits the file.
- `Pipeline`: `generation` decides which run an answer belongs to. `resolveBinding`,
  `aim` and `confirmed` are the backend's steps: the dialog's binding, the dry run, the diff
  and the mutation each resolve the target when they are called; `Rebind`
  changes it between them. A run notes, as history, how often the bindings had changed when
  its own was resolved (`asOf`) and where its read-only calls went (`aims`).
- `TerminalTabs`: `panes` are the panes mounted so far, each with the session object it
  started, `sessions` the table of `useTerminals`, `shells` the backend's side.
- `Workbench`: `requests` are registry calls, `current`, `written` and `onDisk` the
  session at its three places. What a project shows is its editor tabs and a number of
  terminals.
- `Blame`: a line is its text and who wrote it; one line changes at a time.
  `WriteOutside` is another program putting in, taking out or rewriting a line, or putting
  back the version the tab or the last commit has; `CommitOutside` is anybody committing
  the file. `heads` is the last commit, against which git attributes. The history `apart`
  marks a blame the hook has no reason to read again although it is not git's of the text
  on screen: its key is the baseline, and neither a write that was put back before the tab
  noticed nor a commit moves that.

`MCWindow` puts the eight hooks and the watcher beside each other. Each hook
sees of the others only which project and file are on screen, and moves those freely
itself, so a behaviour runs one part, and TLC explores each alone.

## 3. Runs

Every run is exhaustive. "Pairs" of run and property have a mutant each: a variant of a
mapped definition under which TLC finds the property violated.

| Run | Bounds | Properties | What it shows |
|---|---|---|---|
| `stream_conn` | queue 2, 5 frames; one connection with one producer, one with two | `NothingHidden`, `NothingCountedTwice`, `ProducerNeverWaits`, `HolesReported`, `ImplementsLossyStream` | 22 048 states. Every frame is written or reported, once; send ends even when nobody takes frames; holes are reported without a later send; the terminal connection implements `LossyStream` |
| `pty_session` | 5 bytes, ring 3, chunks of up to 3, consumer queue 1, one consumer | `SeamlessAttach`, `ClosedOnce`, `LastScreenfulFirst`, `KillCompletes`, `NeverStallsChild` | 55 514 states. The five questions of section 1.1 |
| `pty_manager` | 3 sessions | `NoneForgotten`, `ReturnedMeansReaped`, `ShutdownEnds` | 13 848 states, three tabs in every phase at once |
| `terminal` | 1 client, 2 bytes, both queues 1, ring 2 | `OutputInOrder`, `ClosureMeansExited`, `NothingLeaks`, `StayingClientLearnsExit` | 146 511 states, end to end |
| `kube_session` | 2 objects of 2 resources, 1 edit, 1 change | `VerdictBelongsToRow`, `NoEditForgotten`, `ChangesAnnounced`, `PanelCatchesUp`, `StopReturns` | 324 328 states |
| `editor` | 2 files, 3 contents, 2 tabs, 2 calls, 2 outside changes | `BaselineWasOnDisk`, `EditsSurvive`, `NoSilentDiscard`, `QuietMeansKnown` | 990 598 states. However loads, saves, events and closes interleave, no edit is overwritten but by the user, nothing is discarded by a failed save, and once its file is quiet a tab agrees with the disk or says that it does not, unless it is `late` or `stale` |
| `window` | 2 projects, one part at a time; the bounds of each part stand in `Window.cfg` | `PanelIsOwn`, `QuietStatusIsCurrent`, `QuietListingIsCurrent`, `HealthIsOwn`, `QuietBindingIsCurrent`, `MutatesWhatWasShown`, `RunIsOwn`, `NoOrphanShell`, `StatusIsOwn`, `RecordSurvives`, `QuietStripIsRegistry`, `SavedIsShown`, `QuietBlameIsOwn`, `QuietWatchIsCurrent` | 1 218 062 states. Nothing is shown, kept, applied or saved as another project's, run's, tab's or file's; once a part is quiet it shows what its source holds |
| `pty_manager_orphan` | 3 sessions | `NoOrphanedShells` | violated: finding 2 |
| `terminal_balance` | 1 client, 3 bytes | `AccountingBalances` | violated: finding 1 |
| `editor_take_disk` | 1 file, 3 contents, 1 tab, 1 call, 2 outside changes | `TakenIsDisk` | violated: finding 3 |
| `cluster_check` | 2 projects, one folder in each | `CheckIsAboutSelection` | violated: finding 4 |
| `cluster_overrides` | 2 projects, one folder in each | `OverridesSurvive` | violated: finding 5 |

Why the bounds are enough:

- A queue of two frames is the smallest in which the victim, the frame left and
  the newcomer are three different frames; five frames overflow it twice, so a
  second hole can open while the first is being reported. The two connections of
  `MCStreamConn` share no variable; a behaviour uses one of them.
- A ring of three bytes takes writes shorter than it, as long as it, and going
  round its end from every start; five bytes fill it and evict. What the ring does
  at any size is a theorem. One consumer suffices for `PtySession`: consumers meet
  only in the set `consumers`, and every property speaks of one.
- Two bytes, with queues of one chunk and one frame, overflow the consumer's queue
  and the connection's before the exit frame is sent.
- Two objects of two resources give two pumps and rows whose numbers shift when
  the first object is removed or not served; an edit makes a second plan while
  pumps of the first run, and a change in the cluster races both. The backoff is
  bounded by `MaxBackoff = 1`, since its value only delays.
- `editor`: two tabs let one be closed, saved or restored while the other has a call
  under way; with three contents a buffer, a save under way and the disk can be three
  different things. Two calls overtake each other. `MixedText` is empty, so every
  buffer may be edited. A change by another
  program and the file that cannot be read are explored one without the other. The second
  change puts the file back under a conflict that is on show, in a window with one tab:
  this is what `stale` is for.
- `window`, for every part: two projects give A, B and A again while an answer for the
  first A is under way, which is the case generations and targets are there for. Where a
  part treats the projects alike, the first one met is called `p` (git, the tree,
  terminals), and in git and the tree only `p` changes and is worked in, so that `q` is
  what one looks at meanwhile; in `Blame` the first tab on screen is called `f`, and
  others write and commit `f` only. These choose one of two symmetrical behaviours, and
  leave out a user who works in both. Where two rare things need not meet (an edit by
  hand and a third act on the bindings, a failed call and a second act on the strip, two
  strokes and two changes by others in the gutter), each is explored without the other.
- Git: three switches, one change and one operation, over two statuses that differ in
  the guards (`CleanThenDirty`). Tree: a directory with a hidden file, two listings at
  once, one change, four steps of the user; `Picked` is the file that is selected or
  deleted. Health: three looks and a change. Cluster panel: three acts and an edit by
  hand, one folder below the root, one form to submit. Pipeline: four starts,
  confirmations and closes, and one change of the bindings, of which both projects have
  one for the whole and may have one for a folder. Terminals: two tabs and two panes, so
  a restart or a second tab, one resync and one line typed. Workbench: two projects with
  kept tabs, two acts, one failure and one save under way (two would let an older save
  land last, which `SavedIsShown` excuses). Blame: two files of a line each, up to two
  strokes and up to two writes or commits by others, three together, so that a write can
  be put back. Watcher: a root and two directories below it, made and deleted up to
  three times, a queue of two notifications.

Fairness:

- `StreamConn`: a producer inside `send` and the writer run on. The writer's
  fairness is that of a peer that reads; a peer that leaves ends it.
- `PtySession`: goroutines and timers run on; a child that was sent SIGKILL ends.
  Nothing is assumed of the child, descendants, or consumers.
- `PtyManager`: goroutines run on; a child that is being killed is reaped (that
  is `KillCompletes` of `PtySession`).
- `TerminalStream`, `KubeSession`: one weak fairness condition for all steps of the
  backend together (and one for the network settling). Each step consumes output
  or advances some goroutine, so no step can starve another for ever, and the
  condition is weaker than one per goroutine. Clients, edits, the cluster and the
  child are left free. In `TerminalStream` the input the terminal takes is free as
  well: a child may never read.

- The window and `EditorTabs` are checked for safety, with no fairness: what must
  happen in the end there is stated of the quiet state, in which nothing is under way
  any more. A browser may close at any time, and an awaited call may never return.

`CHECK_DEADLOCK FALSE` is set throughout: sessions end, queues are drained and
clients leave, and the user stops, so each system really does stop.

## 4. Proofs

All proofs hold for every value of the constants, under the assumptions the
modules state (`StreamConnAssumption`: the queue has at least one place, feeds name
connections of the model; `PtySessionAssumption` and `TerminalStreamAssumption`:
positive sizes of the ring, the chunks and the queues, and natural bounds;
`WindowAssumption`: nothing is named like a project; those of the other modules, that
bounds are natural numbers and that data are of their sets).

- **`StreamConn_proofs`**: `TypeCorrect`, `NoFrameHidden` (`[]NothingHidden`) and
  `NoFrameCountedTwice` (`[]NothingCountedTwice`), for any number of connections,
  producers, frames and queue places. Neither is inductive alone. The invariant
  adds that queued frames are pairwise different, that a frame is in the hand of
  at most one producer and was offered on that connection, that what a producer
  or the pump holds is in no queue, and that the counter, the markers and the data
  on the wire are disjoint (`Ledger`, one part per question, and `Accounted`).
  One step per action, one leaf per conjunct an action can disturb.
- **`StreamConn_proofs`, refinement**: `ImplementsLossy`: a connection with one producer
  implements `LossyStream`, the stream the peer sees being `wire[c]`. Its initial state
  maps to an initial state, and each step to a step or a stutter: `Send` to `Offer`,
  `Write` to `Deliver`, `Mark` to `Report`, `WriteClosure` to `Complete`, a failed write or
  a peer that leaves to `Break`. `Deliver` demands order and `Complete` demands that nothing is
  missing, and the ledger says neither. `Queued` (`NewestFrameFirst`) does: written, in hand,
  queued and being offered are in this order (`Ordered`), the newest frame is with the
  producer, on its way or written (`Newest`), and a closure is written last, after the
  queue was finished and emptied (`Ending`). It fails with two producers, so it is
  stated of sole ones, as `HolesReported` is. `MarkedLast` adds that nothing is left to report
  when the closure is written.
- **`PtyManager_proofs`**: `TypeCorrect`, `NobodyForgotten` (`[]NoneForgotten`),
  `IdentifiersUnique`, `ReturnsAfterReaping` (`[]ReturnedMeansReaped`), for any
  set of sessions. The strengthening ties `create`, `registry`, `id` and `child`
  together: registered means a positive identifier no larger than `lastID`, a
  session not yet registered has none and nobody kills it, and whatever `Shutdown`
  took is being killed by it.
- **`PtySession_proofs`, the ring**: `RingKeepsNewest`: for every capacity, ring and write,
  `Snapshot(Write(r, p)) = Newest(Snapshot(r) \o p)`. `WrapIsMod` replaces the
  remainder by one conditional subtraction, `SnapshotBytes` and `NewestBytes`
  say what each side holds at each index, and `Places` is the index arithmetic of
  a short write: an old byte kept lies outside both copies, and a new one is where
  one of them put it.
- **`PtySession_proofs`, the session**: `TypesCorrect`. `NeverClosedTwice` (`[]ClosedOnce`)
  from `Lives`: a consumer is untouched, in the map untouched, closed by `finish` with the
  status, or closed by `detach`. `StatusIsLast` (`[]LastScreenfulFirst`) from `Draining`,
  which ties the progress of `run` to that of the reader: before the grace period nothing
  is cut, and a reader that has drained holds nothing and, unless cut, has read everything.
  `AttachIsSeamless` (`[]SeamlessAttach`) from `Seam`: the ring holds exactly the end of what
  has been broadcast and the pump exactly the bytes after it (`Output`, where
  `RingKeepsNewest` is used), and what a consumer was replayed, has received and has
  waiting is in order and within what was broadcast, disjoint from what it lost, and
  complete back to the oldest byte the ring had room for (`Fits`). The property alone says
  nothing of the ring, so the next consumer to attach could be replayed anything, nor of the
  chunk in the pump's hand.
- **`TerminalStream_proofs`**: the composition, for any clients, queues and output. Two
  refinements first: `ServedSessionIsSession` (a step is one of `PtySession` or leaves the
  session alone) and `ServedConnIsConn` (the same for `StreamConn`, the forwarders being
  its producers; `Gate` gives the contract of `finish`: whoever finishes a connection
  sends nothing any more). They carry what is proved of the parts over, and with
  them `ServedConnIsLossy`. What a client may rely on needs one invariant that spans both
  queues: `Carried`, in which the frames a forwarder has offered carry, in order, bytes that
  its consumer was given (`Sent`), and the exit frame is the last (`Stage`).
  `OutputStaysInOrder` (`[]OutputInOrder`) follows from it and the order of `StreamConn`,
  `ClosureIsAnExit` (`[]ClosureMeansExited`) from it, `Ending` and `Lives`.
- **`EditorTabs_proofs`**: `BaselineAlwaysWasOnDisk`, `QuietTabsKnown`,
  `EditsAlwaysSurvive` and `NeverSilentlyDiscarded`, the last two about steps, all from
  `EditorInv`. It says of the calls under way what makes a late answer harmless: one of
  a loading tab is its only load, one write of a tab is under way at a time and its tab
  is saving (`CallOk`, `Apart`); what tabs and calls hold, the file has held
  (`HeldWasOnDisk`); and why a tab may be behind: an event is due for its directory, it
  is being read by a call no event has outdated, or its last answer was put aside by a
  save (`late`) or contradicted a conflict that was kept (`stale`) (`Known`). A write
  that has reached the disk and is not answered yet is due to be read again
  (`WriteIsRead`).
- **`KubeSession_proofs`**: `EditsAlwaysKnown` and `VerdictsAlwaysOwn`, for any objects,
  resources, edits and changes. The first is inductive as it stands. The second needs
  `RowInv`: the plan's pumps, the running pumps and the rows number the same objects
  (`PumpsShape`, `PumpsAgree`), and no pump runs between two plans (`NoPumpBetween`).
  `MarkKeepsRows` and `PlanAgrees` say what marking and planning do to the rows,
  `PumpSteps` and `PumpMarks` what the steps of a pump have in common.
- **`Readers_proofs`**: the parts of the window that show what is elsewhere.
  - Status and health: `PanelAlwaysOwn`, `RemovedLeavesNothing`, `HealthAlwaysOwn` (an
    answer carries the place it was asked for, and only a read of the target is in flight
    unmarked), and `QuietStatus`, `QuietHealth`: while a project is held, either what is
    shown is fresh or something that will make it so is on its way (`OnItsWay`,
    `Awaited`): a read in flight that has not been answered, the stale flag, an event
    queued, a change not yet published, or a loss the property excuses.
  - Watcher: `QuietWatch` (`[]QuietWatchIsCurrent`). A directory that exists is watched,
    or will be walked, or its creation is in a notice, or a refused watch or an aborted walk
    has kept it from being reached (`WatchedOrWillBe`, `UnreachedIsThere`); a listing is
    current, or of a directory that was overlooked, or will be made again
    (`ListedOrWillBe`). The second rests on the first: a change in a directory that is
    not watched yet is one the walk will mark.
  - Saved session: `RecordAlwaysSurvives` (`[]RecordSurvives`). What is noted as pruned
    must never be forgotten by a later render of the strip (`AbsentIsPruned`), so a
    record can only be dropped with its project. `SavedAlwaysShown` (`[]SavedIsShown`): the
    tabs on screen are recorded, a record that has changed has its write due, and the
    newest write under way, or else the file, is what was last written (`SaveInv`).
  - Project list: `QuietStrip` (`[]QuietStripIsRegistry`). A strip that differs from the
    registry has a call under way that will bring its order or have the list read again
    (`StripKnown`).
  - File tree: `QuietListing` (`[]QuietListingIsCurrent`), `TreesTyped`. A call that nothing
    overtook belongs to a listing of the tree, and its answer is what the directory holds
    unless a change is due (`CallsCurrent`); a listing shows its directory, or is asked
    for, or a change is due (`ListingsCurrent`). A change is due while it is unpublished,
    queued, or excused by one of the histories.
  - Blame: `GutterAlwaysOwn` (`[]QuietBlameIsOwn`). In a tab in front whose text is its
    baseline the marks are those of the blame held (`DrawnInFront`), and what is held or
    under way is of the lines there are (`HeldIsOwn`), unless `apart` says that the
    hook cannot know better. `OutsideWrites` says that others change
    neither the buffer nor the marks, `AttributionIsCommits` what git answers with.
- **`Panels_proofs`**: of `Pipeline`, `RunAlwaysOwn`, `AlwaysMutatesWhatWasShown`,
  `MutationsAlwaysLogged`: what a preview or a mutation under way carries is a copy of
  the run of its generation (`PreviewHolds`, `MutationHolds`), so an answer of the
  generation that is current belongs to the run that is open. For the second, what a run
  shows and where its dry run and diff went is what the registry resolved for its path,
  as long as the bindings are those it was resolved with (`PreviewKnows`, `RunKnows`); a
  change of the bindings leaves that number behind. Where they did change, the name that
  was typed carries the claim from the dialog to the cluster (`Confirmed`). Of
  `ClusterPanel`, `QuietBinding` (`[]QuietBindingIsCurrent`) from `ShownOrWillBe`: the
  binding on screen is that of the place on screen, or an answer for that place is on
  its way, or a write that has been performed will have it asked for again. Before it,
  `PanelTypesCorrect` follows the records through every edit (`ControlsMakeBindings`,
  `StoredIsBindings`). Of `TerminalTabs`, types, `StatusAlwaysOwn`, `NoShellOrphaned`,
  for any number of tabs, panes and projects. `TermInv` adds that a pane on the strip is
  registered for its tab (`Registered`), that a shell asked for or a socket that is
  coming up remembers a close (`Waiting`), that a retired pane has nobody waiting for it
  (`Retired`), and that an ended shell's pane knows it or will (`Ended`, `Carried`). One
  lemma per operation of the session object says which fields it changes, and each step
  of the module is a change of one pane and the tabs it touches.

The type invariants of the modules are theorems too (`TypeCorrect` of `StreamConn` and
`PtyManager`, `TypesCorrect`, `GitTypeCorrect`, `HealthTypeCorrect`, `WatcherTypeCorrect`,
`BlameTypesCorrect`, `PanelTypesCorrect`, `PipelineTypeCorrect`, `TermTypeCorrect`,
`TreesTyped`), but for those of `KubeSession`, whose proofs need less, and of
`EditorTabs`, which is proved as `Types` without the index of the active tab; they are not
among the properties of the runs, since a type says little there.

Every safety invariant and every action property the passing runs check is a theorem.
Only model-checked are the liveness properties, which need fairness and `ENABLED`, both out
of the prover's reach: `ProducerNeverWaits`, `HolesReported`, `KillCompletes`,
`NeverStallsChild`, `ShutdownEnds`, `NothingLeaks`, `StayingClientLearnsExit`,
`ChangesAnnounced`, `PanelCatchesUp`, `StopReturns`, and of `ImplementsLossyStream` the
part that every frame is settled in the end. The violated properties of section 5 have
counterexamples, not proofs.

Two invariants were restated for the proofs. `OutputInOrder` and `SeamlessAttach` spoke of
filtered and flattened sequences, which the libraries define by recursion; they now compare
the messages and pieces at any two positions, which is the same demand. `EditorTabs`
filters with an operator of its own (`filtered`), defined by the rank of an element among
those kept, so that `FilteredElements` can say which remain.

## 5. Findings

Five disagreements between what the code does and what is written about it, each
shown by a violation run.

1. **`terminal_balance`.** `PROTOCOL.md` section 6 promises that bytes received plus
   bytes reported dropped equal bytes produced. Output that `broadcast` drops for a
   consumer whose queue is full (`session.go:140`) is counted nowhere: only
   `conn.send` counts.
2. **`pty_manager_orphan`.** `Shutdown` takes the sessions registered at that moment.
   A `Create` between starting its child and registering it, and a `Kill` that has
   already removed a session, are not waited for, so `Shutdown` returns while a
   child is alive.
3. **`editor_take_disk`.** `editorTabs.ts:409` says that taking the disk's side of a
   conflict adopts disk. A dirty tab with a conflict on show stays as it is when the disk
   goes back to the tab's baseline (`editorTabs.ts:388-390`), so the conflict offered is
   with a text that is no longer there. Taking it (`410-415`) gives a tab without the dirty
   mark whose text is not on disk, and nothing is read again until the next change.
   `QuietMeansKnown` excuses such a tab through `stale`.
4. **`cluster_check`.** `useKube.ts:93-95` drops a verdict when the selection moves, since
   it would stand above another cluster's name. `check` (`useKube.ts:122-138`) sets the
   verdict it awaited without looking at the selection by then.
5. **`cluster_overrides`.** `binding.go:254-258` says that a UI which wrote the scopes
   back would erase what arrived in between. `settingsFor` (`projects.ts`) and `withKube`
   (`kube.ts`) send the strip's whole copy, scopes included, with a rename, a colour or
   a new default.

Observed while modelling or proving, without a run of their own:

- `write` swaps the drop counter before writing the frame it took earlier. A frame
  evicted in between is reported in front of an older frame, although the protocol
  says a resync stands before the frame that follows the hole. At most the one
  frame in hand is affected.
- On a connection with two producers the newest frame can be counted after the
  pump has emptied the queue; its marker then waits for the next event, so
  `HolesReported` is stated for sole producers.
- A sole producer counts a victim before it queues the newer frame, and a marker is
  written in front of every frame, so its queue never ends with a loss still
  unreported: the marker `drain` can write at the end has nothing to say on a
  terminal connection, the only kind that is drained.
- After a `close`, the session is forgotten, so any later keystroke or resize is
  refused, ends the read loop and closes the socket, perhaps before the exit frame.
  `StayingClientLearnsExit` excuses exactly that.
- A write to a terminal whose child does not read blocks the read loop. A `close`
  behind it is not read, and if the client leaves, handler, forwarder and
  attachment stay until the session ends. `NothingLeaks` excuses exactly that.
- `health.go:30` says `PhaseWatching` means every group has listed and is following.
  `cycle` (`session.go:179`) sets it before any pump lists, and a group the cluster refuses
  stays parked under it.
- The backoff of a watch is reset only when a plan is superseded. A watch that ran
  healthily after an old outage is retried after the old, doubled wait.
- **File watcher.** `fsnotify.go:158-161` says the periodic flush keeps the tree
  eventually consistent whether or not every notification arrived. A flush publishes
  what is pending, and a dropped notification makes nothing pending: `QuietWatchIsCurrent`
  excuses it. A directory listed before its watch is added keeps its rows if it changes
  in between, and so does one that is deleted and made again (a `git checkout`), since
  only its parent is marked. The polling fallback compares two walks, so a change that
  is undone between them but was listed in the middle stays on screen. A watch the system
  refuses (permissions, the limit on watches) is dropped without a word
  (`fsnotify.go:132-139`), and a directory of a new subtree that cannot be read ends its walk,
  an error `handle` ignores (`fsnotify.go:98-101`, `117`, `180`): what lies there stays
  unwatched until it is made again. `QuietWatchIsCurrent` excuses both through `blind`.
- **File tree.** The proof of `QuietListingIsCurrent` failed at a step no bounded run had
  reached: a listing asked for before its project is removed can land after the project
  was added again, because the hook asks whether the project is held and not which of
  its trees the listing was for. If that answer comes after the one of the new tree, an older
  listing stays on screen until the next change. The property excuses it with
  the other answers that come late, through the history `outdated`.
- **Events.** `events.ts` ignores a `resync`. An evicted event leaves a listing or a
  status stale until the next change; the `Quiet...` properties excuse exactly that. A
  connection that upgraded before `Shutdown` and registers after its snapshot is not
  closed by it.
- **Cluster.** Preview and apply each resolve the target, so a binding changed in
  between sends an apply to an unprotected cluster, or to a protected one whose name was
  typed, elsewhere than its preview; the log row names the preview's context.
  `MutatesWhatWasShown` excuses a run whose bindings changed, but for a move from one
  protected cluster to another. Rebinding a folder does not touch the live watch of the
  old binding, and a watch started while its project is removed is not stopped. In the
  folder dialog, `inherited` is that of the open file's folder, and the write of a
  dialog that was closed closes the one open by then. Two quick changes of the default
  lose the first. An answer that comes late puts an older record into the strip.
- **Git.** The dirty check before a checkout reads a status that may be stale.
- **Editor.** Closing several tabs leaves `activeByProject` on a closed one. Edits made
  during save-and-close are lost with the tab, which is what the user asked for before
  making them. Restoring a session while the user opens the same file gives two tabs of
  it. A change seen during a save that then fails is not looked at again. Taking the
  disk's content of a file with mixed line endings leaves it editable. An older answer
  may overtake a newer one; `late` marks those.
- **Blame.** Switching between two open tabs hands the new one the old one's blame until
  its own is read. After a save, the blame of the previous baseline is put on by line
  number, although `codemirror.ts:86-87` asks for one of this exact text; a user who types
  before the new one lands keeps wrong names until the buffer is clean again. Deleting a
  line that is followed by an equal one keeps the deleted one's name. The hook
  reads again when the baseline moves (`useBlame.ts:70`, `91`). A write by another program
  that is put back before the tab notices, while git is reading, leaves the blame of the
  other text; a commit made elsewhere leaves names, or their absence, of before it; although
  `DESIGN.md:340-347` wants a name shown only while its line reads as git measured it.
  `QuietBlameIsOwn` excuses both through `apart`, and speaks of the clean, quiet buffer.
- **Tree.** A directory expanded under a collapsed parent is not listed again on return
  to its project. Removing a project drops the state the window keeps before the
  registry has agreed.
- **Session.** A project left and entered again before its restore ends has its terminals
  restored twice. One removed while its restore is under way starts shells nobody can
  reach. The end of a shell off screen is not recorded. Saves overlap, so an older one
  may land last; a failed one is tried again with the next change only.
- **Terminal tab.** A close whose socket is lost first is dropped, and its shell lives on;
  a pane that is mounted again opens another shell.

## 6. Not modelled, and why

- The token, authorisation and origin checks of the stream server, and its listener:
  string comparisons without state, and I/O. The set of connections, and with it a
  registration that races `Shutdown`.
- The registry of cluster watches per project (`kubewatch.go`): sessions are modelled one
  at a time.
- In the watcher: a `Start` that fails with its first walk (there is no watcher then),
  `Stop`, the polling fallback, and a directory renamed in place, whose
  watch follows it in a way only the library knows. `watched` in `fsnotify.go` is written
  and never read.
- File operations are one step each. The rename that checks its destination first can
  overwrite a file made in between; the atomic writes (temporary file, sync, rename)
  leave the old or the new content at any crash, by the file system's promise alone.
- In the tree: icons of manifests, and rows that git's status adds to the changed-only
  view. In the editor: the display mode, the blame switch, and the extensions of
  CodeMirror. In the session: widths, modes and the tree's shape, recorded like the rest.
- `exitCodes` in `app/terminals.go`, a channel and goroutine that only delay the
  exit status.
- A watch the API server closes cleanly is reopened at its version without effect.
- Parsers and renderers (git output, YAML, kubeconfig, Markdown, themes, panes):
  no protocol.
- On Windows `hangup` kills at once; that is the behaviour in which the child exits
  after the first signal.

## 7. Plan

Done: the modules of section 2, the runs of section 3 and the proofs of section 4. What
would come next, in this order:

1. The registry of cluster watches with project removal, over `KubeSession`.
2. `Watcher` with `Stop`, a second checkout and the polling fallback; the set of
   connections of the stream server, composed with it, as the lossy channel between
   `Watcher` and `FileTree`.
3. The step lemmas of the liveness properties: that each helpful step stays possible until it
   is taken and brings a measure down, which leaves only the fairness rule to TLC.
4. `PtyManager` over `PtySession`: a child of the manager as the abstraction of a session,
   so that what `Kill` and `Shutdown` wait for is what `kill` of the session does.
5. The types of `KubeSession` and the active tab of `EditorTabs`.
