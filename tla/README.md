# A TLA+ model of the Helheim Emacs configuration

The repository is a personal Emacs configuration. Its own code is `early-init.el`,
`init.el` and `user-lisp/`, about 6,000 lines of Emacs Lisp. Everything under
`site-lisp/` is third-party code kept for offline use (a whole Emacs source tree is
there as `site-lisp/xref`). Most of the configuration sets variables, keys and faces.
A few parts keep state that can be lost, left stale or left half changed, and those are
what this project is about. The first of them is the sync of the org vault: it writes
the user's only notes, on several machines, from hooks that nobody watches.

Line numbers without a file name refer to `user-lisp/org-vault-sync.el`; `core` stands
for `user-lisp/helheim/core/helheim-core.el`.

## Inventory

### Components with behaviour of their own

| Component | State | Operations | Hard behaviour | Correct when |
|---|---|---|---|---|
| **vault sync** (`org-vault-sync.el`) | the clone on each device (branch, HEAD, index, work tree, remote-tracking ref), the remote, the git command that blocks Emacs, the daemon's frames | pull at start, at a new client frame, by `M-x`; check, add, commit, push at exit and when a daemon's frame closes | devices and other programs interleave with each git command; network and git fail; crash or `C-g` inside a hook; exit codes are not looked at | no edit is lost, messages are true, every edit ends up everywhere |
| **note buffers** (`core` 600-692 with the vault's hooks) | buffers, files, auto-save copies, the last commit | open, type, auto-save, save, revert, recover, kill, exit, SIGTERM, crash, pull under open buffers | a pull changes files under modified buffers; no lock files; `kill-emacs` auto-saves after the push | no text is lost unasked, copies can be recovered, the vault can be pulled |
| **daily notes** (`org-mode/helheim-daily-notes.el`) | `org-default-notes-file`, the daily files and their buffers | open today's or another day's note, next, previous | midnight; index arithmetic in `nth`; the same new file on two devices | a note has one title; next and previous are the neighbours |
| **word wrap** (`word-wrap/autoload.el`) | per buffer: the modes found on and the modes turned on; one global advice | enable, disable, through the mode and the globalized mode | enabled twice; one buffer takes the advice from the others | while it is on, a buffer wraps; turning it off restores what was there |
| **startup** (`early-init.el`, `init.el`, `custom.el`) | the hooks of startup, `gc-cons-threshold`, `load-path` | run the hooks in order of their depth | a hook function that fails or is quit keeps the rest from running | the garbage collector comes back; pull and push come together |
| **lisp activation** (`prepare-user-lisp.el`) | compiled files, the autoload file, `load-path` | activate; activate and compile | stale compiled files, an interrupted run | what is loaded is what the sources say |
| **indirect editing** (`helheim-edit-indirect.el`) | the indentation remembered in the indirect buffer | dedent, edit, indent, commit | a major mode kills local variables between the two hooks; a minimum that starts at 0 | the text committed unedited is the text that was copied |
| **ibuffer** (`ibuffer/helheim-ibuffer.el`) | filter groups | sort buffers, group by project | a comparison that must be an order; nested roots | a buffer is in the group of its innermost project |
| **xref** (`xref/autoload.el`) | the local and global values of the hook | try back ends in order | a destructive `delq` on the hook's own value | the first back end that answers is taken, and the hook is as before |
| **dired** (`dired/*.el`) | names of the marked files | add an id to each | the loop stops at the first failure | each file is renamed once or not at all |
| **themes, saved history, ediff** (`core` 123-161, 520-552, 808-821) | enabled themes, registers, one saved window configuration | load a theme, save the history, start and quit ediff | a theme that fails to load; two ediff sessions | some theme is enabled; the session's registers are kept; windows come back |
| **editing states** (`core` 188-213, 317-320) | `global-hl-line-mode` in a buffer, `jit-lock-defer-time` | enter and leave Hel's states | a global variable set by a buffer's state | the variables fit the state of the buffer |

### Components without behaviour of their own

org and org-node, the git front ends, tree-sitter grammars, outline, tab bar,
languages, search and completion, and the key bindings set options of other
packages. Their code adds no state that outlives a command. The packages under
`site-lisp/` are modelled only where the configuration relies on them: Emacs'
`do-auto-save`, `kill-emacs`, `kill-buffer` and `verify-visited-file-modtime` in
`NoteBuffers`.

### Interactions

* `init.el` loads the modules in order; `org-directory` and the directory of line 8 are
  both `~/obsidian-vault/`, so org, org-node, daily notes and the sync share its files.
* The sync is called by hooks only: `emacs-startup-hook`, `server-after-make-frame-hook`,
  `kill-emacs-hook`, `delete-frame-functions`. It calls git through a synchronous shell,
  so Emacs answers nobody meanwhile.
* Files are the only link between the sync and the buffers. A pull changes files behind
  buffers, auto-revert notices by polling (`core` 677-692), and `git add -A` (line 36)
  takes up whatever lies in the directory, auto-save copies included.
* The pull shares `emacs-startup-hook` with the function that turns the garbage collector
  on again (`early-init.el` 31): a quit in the first keeps the second from running.

* The other components share no state with each other: each works on buffers, windows or
  options of its own. Daily notes meet the sync through files that a pull brings or takes
  away (`Pulled`), and the startup hook decides whether the sync runs at all (`Startup`).

`PROJECT.json` lists the hazards at their lines with the properties that would catch
them. A hazard without a property says why in its note; so does one whose property leaves
out a case in which the code itself goes wrong.

## Modules

| Module | What it is |
|---|---|
| `SharedVault` | abstract specification: a shared set that only grows, and what each device holds |
| `VaultSync` | `org-vault-sync.el` with one step per git command, and its properties |
| `MCVaultSync` | instances of it for TLC |
| `VaultSyncProofs` | theorems about it |
| `NoteBuffers` | buffers, files and auto-save copies of one device's vault, and its properties |
| `MCNoteBuffers` | an instance of it for TLC |
| `NoteBuffersProofs` | theorems about it |
| `Startup` | a session from `early-init.el` to its end: loading, hooks, garbage collector |
| `Themes` | `load-theme` as advised, and faces set for themes |
| `EditingStates` | what Hel's states set in a buffer and for all buffers |
| `EdiffWindows` | the one window configuration that all ediff sessions save and restore |
| `WordWrap` | `+word-wrap-mode` in several buffers and its global mode |
| `SessionProofs` | theorems about startup, themes, editing states and word wrap |
| `IndirectEdit` | regions edited in buffers of their own, with the two hooks |
| `XrefBackends` | the order of back ends, and what a search does to their hook |
| `DiredIds` | the command that gives marked files an ID |
| `DailyNotes` | notes made by command, capture and pull, and jumps between them |
| `IbufferGroups` | project groups and the order of lines |
| `MCComponents` | one instance for TLC of these five and of startup, themes, editing states and word wrap |
| `ListLemmas` | lemmas about sorting a finite set, and least and greatest positions |
| `IndirectEditProofs`, `DailyNotesProofs`, `IbufferProofs` | theorems about three of them |
| `CommandsProofs` | theorems about dired, xref and the instance of nine components |

Definitions named `..._Mutant` (and `PushLostAnswer_Forced`, `Commit_Deferred`,
`RenameFails_Ignored`, `Sorted_Ascending`) are wrong versions of the definition beside
them, one plausible slip each. They are in no specification; they show that the property
named in `PROJECT.json` is broken by such a slip.

### VaultSync

A history is the *set of edits* (patches) it contains. That is what a rebase keeps, and
what the properties need; the only order that matters is that of a device's own local
commits, since a rebase replays them one by one and may stop between two
(`commitOf`, `commits`).

| Variables | In the program |
|---|---|
| `remote` | the branch on the server |
| `base`, `ahead` | the local branch: what was fetched or pushed, and the local commits |
| `tracking` | `refs/remotes/origin/...` |
| `onBranch`, `detached` | a stopped rebase: HEAD is detached, with these edits |
| `dirty`, `staged` | changes in the work tree, and in the index |
| `pc`, `resume` | the shell command that runs next, and where the hook returns to |
| `report` | the last message of lines 27, 28, 41, 42 |
| `frames` | client frames of a daemon |

| Actions | Code |
|---|---|
| `Start`, `FrameOpened`, `Exit`, `FrameDeleted`, `ManualPull` | lines 45, 48, 51, 54-57, 19-21 |
| `PullSkip` | line 22: no such directory |
| `PullRefused`, `PullNetFail`, `PullDetached`, `PullFetch` | line 25, up to the fetch |
| `RebaseRefused`, `RebaseStart` | line 25, after it: refused, or the upstream is checked out and HEAD is detached until the replay ends |
| `RebaseClean` | the fast-forward, or the end of the replay |
| `RebaseConflict`, `PickRefused`, `PickFails` | the replay stops at a commit: on a conflict, on a note that another program changed since the checkout, or on a failure of git |
| `CheckSkip`, `CheckGo` | lines 31-33 and 12-17 |
| `Add`, `AddFails`, `Commit`, `CommitFails` | lines 36-38 |
| `PushAccepted`, `PushFails`, `PushLostAnswer` | lines 39-42 |
| `Edit`, `Crash`, `CrashInRebase` | the user or another program; the machine; `C-g` |

What git does is not in this repository. It is modelled from the commands of lines 15,
25, 36, 38 and 39 with git's default settings, and marked external in the map: a pull
with rebase wants tracked files unchanged; it overwrites no untracked file; without local
commits it fast-forwards; with HEAD detached it fetches, merges nothing and exits with a
message that has neither "error" nor "fatal"; a push is accepted only as a fast-forward.
Two edits of one note *may* conflict; edits of different notes never do.

A pull is three steps, since other devices and other programs act between them: the fetch,
the checkout of the upstream, the replay. git may fail at each of them (`GitFails`). Before
the checkout that leaves the clone as it was; a replay that fails leaves HEAD detached, with
the commit it stopped at not applied, or in the index, or (a conflict) in the work tree. A
replay that succeeds is one step, as is a fast-forward: a crash in the middle of a
fast-forward's checkout is not modelled. `PickFails` takes from the same bound as crashes
and interruptions, whose traces it leaves. Of git's messages only two facts are modelled,
the one for a detached HEAD and file names that look like errors (`NamesAlarm`): a git
that speaks another language, or is not found by the shell, is not.

### NoteBuffers

One device, before git sees the files. A text is the set of changes in it. A change
belongs to one note, so one set stands for the text of all buffers (`buf`), one for all
files (`disk`), one for all copies (`copy`). A git command is one step here. `newer`
says that a copy is newer than its file, `stale` that a file changed under its buffer,
`recent` that this session wrote the copy (Emacs deletes only those). History variables
state the properties: `kept`, what once reached a file or a copy; `forgone`, what the user
agreed to lose when Emacs asked; `found`, what the copies had when this session began; and
`typedOver`, what of that is in no buffer and no file when the user types in its note.
`Open` agrees to nothing: `find-file` only shows a message about the copy.

| Actions | Code |
|---|---|
| `Type`, `AutoSave`, `Save`, `Open`, `Recover`, `Revert`, `Kill` | Emacs commands under the settings of `core` 610-633 |
| `AutoRevert` | `core` 677-692 |
| `Start`, `PullAgain` | lines 45 and 48, and `M-x org-vault-sync-pull` |
| `FrameDeleted` | lines 54-57; the buffers are not saved before |
| `Exit`, `Terminated` | `kill-emacs`: line 51, then the auto-save of `shut_down_emacs` (`emacs.c`); `Terminated` is SIGTERM, when nobody is asked |
| `Crash` | Emacs dies without either |

The copies lie beside the notes. The advice of `core` 639-656 hashes the *name*; no
setting names another directory, and `auto-save-list-file-prefix` is for the session
list only. Changes typed by the user are only removed by reverting, killing or leaving;
deleting text inside a buffer is not modelled.

### Startup

`loads` counts the files of `init.el`; `hook` is what is left of `emacs-startup-hook`,
`called` what was called of it; `exitHook` says that `kill-emacs-hook` has the push.

| Actions | Code |
|---|---|
| `EarlyInit` | `early-init.el` 25-37: collector off, its return put at depth 105 |
| `Load` | `init.el` 71-140; the second file adds the installation of grammars, the third the pull and the push |
| `InitEnds` | the end of `init.el` or an error in it; `early-init.el` 252-256 loads `custom.el` either way |
| `RunHook` | a function of the hook returns, or signals or is quit: then the rest is not called |

`AddHook` is `add-hook` with its depths. It decides that the pull, added last, runs first.

### Themes, EditingStates, EdiffWindows

`Themes`: `SetFaces` is `helheim-theme-set-faces` (`core` 144-161), `LoadTheme` and
`LoadFails` are `load-theme` with the advice of `core` 123-132, `EnableTheme` and
`DisableTheme` the commands of Emacs. `faces`, `stored` and `shown` count the changes of
a theme's faces that the configuration knows, the theme has, and the frame shows.

`EditingStates`: `EnterState` is a command of Hel, `StateOfMajor` a major mode that kills
the buffer's local variables and makes Hel choose a state anew, `KillInState` is
`kill-buffer`, which runs no hook of a state. `overtaken` and `abandoned` name the two
cases in which the shared variable does not fit; the model says when they end.

`EdiffWindows`: `Setup`, `Quit`, `Suspend` are the hooks of `core` 812-821, `Resume` is
the registry of ediff, which runs none of them, `Arrange` the user. `origin` is a history
variable: what each session found.

### WordWrap

| Actions | Code |
|---|---|
| `Toggle` | `+word-wrap-mode` by the user: `Enable` is lines 47-73, `Disable` 75-82 of `word-wrap/autoload.el` |
| `GlobalOn`, `GlobalOff` | the global mode, lines 84-95: it enables again what is on already |
| `ChangeMajor` | local variables die, the hooks of the mode run, then the global mode's |
| `ToggleMinor` | the user switches one of the four minor modes by its own command |

`flags` are the four `+word-wrap--enable-...` variables, `advised` the advice that all
buffers share. `before`, `mixed` and `twice` are history: the minor modes before the
mode, whether the user toggled one since, whether the mode was enabled again.

### IndirectEdit, DiredIds

`IndirectEdit`: a text is the indentation of its lines. `EditRegion` is
`helheim-edit-region-indirect` with the creation hook (lines 73-124), the call of the
major mode that kills local variables included; `EditSave`, `EditCommit`, `EditAbort` are
those of `edit-indirect` with the commit hook (109-113). `taken` is history: what the
first hook took off.

`DiredIds`: `AddIds` to `AddIdsDone` are `helheim-dired-do-add-id`
(`dired/helheim-dired-keys.el` 260-294), one step per file, so that another program
(`Moved`) can rename files between two. A rename goes to `Prefixed(f)`, a name without a
directory. `marked` is history: the files it was called for that nobody else moved.

### XrefBackends, DailyNotes, IbufferGroups

`XrefBackends`: `Search` is `helheim-xref--create-fetcher` over `helheim-hook-values`
(`xref/autoload.el` 11-35); `Delq` is what `delq` leaves of the hook's own list.
`Register` and `Unregister` are `add-hook` and `remove-hook`, `Moves` stands for anything
that changes the back ends' answers.

`DailyNotes`: a note is its day. `DailyNote` is `helheimg-daily-note`, `Jump` is
`helheim-daily-next` with `nth` on a sorted list, `Reload` restarts Emacs. `inFile` and
`inBuffer` count the titles in a note's file and in its buffer. `Capture` visits the default
note of line 41, `CaptureDone` saves it, `CaptureAborted` does not. `Pulled` brings or
removes a file, whether or not the note has a buffer: under a pending capture the buffer
keeps what it had, and the capture may then save it over the pulled note (Emacs asks).
`Reverted` is auto-revert. `captured` and `vanished` are history, and `jump` is the argument
of the step just made.

`IbufferGroups`: `saved` is the entry of `ibuffer-saved-filter-groups` that every update
makes anew, `groups` what a listing was switched to; `Filtered` is the unanchored regexp
of the directory filter, `Before` the sorter (lines 278-318). Names are numbers in the
order of their spelling, a directory is a sequence of them.

## Runs

| Run | Instance | Shows |
|---|---|---|
| `VaultSafety` | 2 devices that write, 3 edits of 2 notes, other programs too, all failures, 1 crash or `C-g` | `NoEditLost`, `OnlyAuthorUnpublished`, `DetachedByConflictOnly`, `ClonesConsistent`, `ViewKept`, and that the clones implement `SharedVault` |
| `VaultRecorded` | a daemon and a standalone device, 2 edits of one note, network failures, 1 crash | every saved edit is committed in the end; with a git that works "pushed changes" is true of all that was saved |
| `VaultOneWriter` | 3 devices (one without a vault), one of them a daemon that writes, beside another program; no failures | edits reach the remote and every clone; `CleanIsPublished` |
| `VaultTwoWriters` | 2 devices that write *different* notes, no failures | `EditsPublished` fails |
| `VaultUncheckedExits` | git may fail | `PushedMeansPublished` fails |
| `VaultWedged` | two edits of one note | `PulledMeansCurrent` fails |
| `NotesKept` | 2 notes, one changed here only, one by another device as well; a daemon; copies ignored by git; 1 crash | nothing that reached a file or a copy is lost unasked, but what is typed over (`KeptUnlessTypedOver`); copies of private notes can be recovered; pulls work after an exit; what is typed gets into a copy |
| `NotesUnrecoverable` | the same | `Recoverable` fails for the note that is pulled |
| `NotesLeftover` | copies not ignored by git | `PullableAfterExit` fails |
| `Components` | startup with 4 files, 2 themes, 3 buffers with states, word wrap in 2 buffers with 4 major modes, 3 lines to edit, 3 back ends, 3 files in 2 directories, 3 days, 7 buffers in nested projects | `TypeOK`, `GcRestored`, `PushIffPulled`, `FacesShown`, `StatesFit`, `WrapInForce`, `LeavingRestores`, `ParentProtected`, `NothingLeftOut`, `SearchesRepeat`, `NoFileLost`, `DoneMeansAll`, `IdGivenOnce`, `OneTitle`, `JumpsToNext`, `OwnProject`, `TotalOrder` |
| `EdiffOvertaken` | 2 sessions, 2 layouts of the user's | `WindowsComeBack` fails |
| `WrapUnindented` | 2 wrapped code buffers | `CodeIndented` fails |

**Bounds.** Two devices are enough for every race: a device meets the others only through
the remote, and "another device" stands for all of them. Three edits give two of one note
(a conflict, or two commits replayed one after the other, the replay stopping at either)
and one of another (no conflict). One crash, interruption or failed pick shows every point
where one may fall; a second would start from a state that another device's conflict
reaches as well. One client frame at a time is enough to open and close frames while other
clones move. In `NotesKept` a note gets two typed changes, so one can be in the file while
the other is in the copy or in the buffer only. `SYMMETRY` (devices, the two edits of one
note) is used in `VaultSafety` only, which checks no liveness. `CHECK_DEADLOCK` is on
everywhere: no run reaches a state where nothing can happen.

`Components` puts nine components into one state space, as a *sum*: a variable `focus`
says which component a behaviour follows, and the others rest. The components share no
variables and no property relates two of them, so their product would show nothing more.
TLC reports only the nine outer steps; each inner action was seen to fire. Three buffers
let one overtake another in insert state while a third stays. Three regions of three lines
nest, overlap and touch. Of the three files two have the same creation time and one has
none, so renames collide and fail. Three days give jumps that stay inside, end at the
first note and run past the last, and a day on which a note is captured, pulled and jumped
to; two titles are one too many. The projects are nested, lie inside and outside the home
directory, and one directory has another root in its middle. Word wrap is checked with
`FillStyle = "soft"`, which sets all four flags; the theorems cover the other styles.

**Fairness.** `VaultSync`: weak fairness of `Sync(d)`, because a shell command that was
started ends; weak fairness of `Start(d)`, because people start Emacs again; strong
fairness of `Exit(d)`, because they also close it, again and again. Nothing is assumed of
editing, of a manual pull, of crashes, or of *which* outcome a command has. The hooks
retry nothing, so the liveness properties hold only as far as these restarts carry them.
`NoteBuffers`: weak fairness of `AutoSave`, which a timer runs.
The other components run when the user calls them; nothing is assumed and no liveness
claimed.

## What the disagreements are

* **A push is never retried** (`VaultTwoWriters`, line 33). The push is inside
  `(when ... has-changes-p)`. If it is rejected because another device pushed first, the
  tree is clean afterwards, the next start rebases the commit, and no exit pushes it
  until some other note changes.
* **"pushed changes" without a commit** (`VaultUncheckedExits`, lines 36-42). The exit
  codes of `git add` and `git commit` are not looked at; "Everything up-to-date" has
  neither "error" nor "fatal".
* **A conflict wedges the clone silently** (`VaultWedged`, lines 25-28). The next exit
  commits the conflict markers on the detached HEAD. From then on a pull says "Org vault
  synced" and merges nothing. No edit is lost: `NoEditLost` holds throughout.
* **The pull hides an auto-save copy** (`NotesUnrecoverable`, line 45). A note pulled at
  start is newer than the copy a crash left; `recover-file` refuses the copy, and the
  next auto-save overwrites it.
* **A committed auto-save copy refuses the next pull** (`NotesLeftover`, line 36), since
  `kill-emacs` auto-saves after the push. It does not happen when the vault's
  `.gitignore` names `#*#`.

* **One buffer takes the indentation of the others** (`WrapUnindented`,
  `word-wrap/autoload.el` 77). The advice is global and the mode is per buffer: leaving
  the mode in one buffer removes the advice for all, and their wrapped code loses the
  additional indentation that the docstring (40-41) promises.
* **Overtaken ediff sessions** (`EdiffOvertaken`, `core` 813). One variable holds the
  windows of all sessions. When a second session is set up while the first runs, quitting
  the first gives back what the second found, not what was there before the first, as the
  comment of line 808 says.

Observations without a run, each built into a model at its place. A fast-forward prints
the names of the files it changed, so a note named `error-handling.org` makes a successful
pull "pull failed" (line 26; `NamesAlarm` in the model). And `core` 625-628 asks Emacs not
to auto-save after big deletions, but `auto-save-no-message t` switches off that very
check (`site-lisp/xref/src/fileio.c` 6452-6461), which is why `ToAutoSave` has no
exception.

* Startup: `C-g` during the pull leaves the garbage collector off for the session, and
  the grammars uninstalled; `GcRestored` excludes exactly that (`broken`).
* Themes: a theme that fails to load leaves no theme enabled, and if it was known, its
  settings cleared.
* Editing states: the first buffer that leaves insert state ends the deferred
  fontification of the others; a buffer killed in it leaves it on.
* Note buffers: Emacs dies; in the next session the note is opened, which only shows a
  message about its copy, and typed in. The next auto-save overwrites the copy unasked; or
  the note is saved first, and `recover-file` no longer takes the older copy, which
  `core` 622 sends the user to. Three properties name this as their exception (`typedOver`).
* Word wrap: enabled twice, the mode forgets what it enabled first, and leaving it
  changes nothing. The global mode does that to every buffer wrapped before.
* Indirect editing: the common indentation starts from 0 and takes minima, so it is
  always 0, and the variable that would bring it back is killed by the major mode. Both
  hooks do nothing (`HooksTakeNothing`); the two slips cancel each other.
* Dired: the new name has no directory, so files of inserted subdirectories move up. Two
  files made in one second with one name end the command half way, with a stale listing.
* Xref: `delq` on the hook's own list removes `t` for good, and commands of Emacs that
  run the hook lose its global functions. A back end that signals ends the search, where
  the docstring (`xref/autoload.el` 58-59) says that all registered ones are tried.
* Daily notes: after midnight captures go to the day Emacs was started, as the TODO of
  line 40 says; a note whose file vanished under its buffer gets a second title; a capture
  that is finished after a pull may replace the pulled note by one without a title. The
  docstrings (96-97, 117-118) say that a jump with argument N goes N *days*; the code counts
  the notes that exist. With notes of days 1 and 3 only, a jump by 1 from the first is two
  days. A negative jump stops at the first note, a positive one past the last is an error.
* Ibuffer: the filter is a regexp that is anchored nowhere, so a directory with another
  root in its middle is listed with that one; groups are those of the last
  `ibuffer-jump`.
* Saved history: hooks are prepended, so registers are tested for being printable
  before they are stripped of what makes them unprintable (`core` 552); the hashed
  auto-save name (`core` 639) is relative to the current directory.

## Proofs

All theorems hold for every set of devices, notes and edits and every bound, under the
named assumptions of the modules: constants are well formed, `Nobody` is no device, a
command's outcome is no back end of xref, buffer names differ, and there are finitely many
projects. Directory names are numbered in the order of their spelling below `Tilde`, since
`~` sorts after the `/` with which every other directory begins.

**`VaultSyncProofs`.** `TypeCorrect` first. Then `IInv`: `TypeOK`, `ClonesConsistent`,
`NoEditLost` and `OnlyAuthorUnpublished` together. Neither of the last two is inductive
alone. That an edit is still in its author's clone after a rebase needs `KnownUpstream`
(what the rebase drops from `ahead` is on the upstream, hence in `base` afterwards). That
a commit keeps its edits needs `StagedIsDirty`. That unpublished edits belong to the
clone's device needs `OwnCommits`, and that a push publishes only edits made needs
`PublishedWasMade`. `NewWork` makes an edit's place unique while the clone is on its
branch; `RebasesBranch` is what makes a stopped rebase start from a branch with an empty
`detached`. Each git command has a lemma; the other steps change no repository and share
`QuietStep`. From `IInv` follow

* `EditsKept`, `Attribution`, `Consistency`: the three parts;
* `RemoteGrows`: the push only adds;
* `NotesStayVisible`: what the commands leave in the notes. It needs `StagedIsDirty`, and
  that HEAD never comes back to the branch by itself;
* `PushIsComplete`: "pushed changes" is true of everything saved, if git does not fail and
  no other program writes (both are hypotheses, and `VaultUncheckedExits` shows the first
  is needed). It rests on `AllRecorded`: the commit is reached with all changes staged,
  the push with none left;
* `OnlyConflictsDetach`: why a clone leaves its branch. Its invariant `PicksCalm` says of a
  replay that runs that what it replays clashes with the work tree only where another
  program writes;
* `StrandedForGood` and `MissedForGood`: what that costs. The code runs no command that
  brings HEAD back, so no later pull or exit of any device publishes what was unpublished,
  or shows what was missed: the safety side of `VaultWedged`. They need
  `OnlyAuthorUnpublished` (only the clone itself could publish) and `RebasesBranch`;
* `CleanTreeIsPublished`: when the `git status` of line 33 is test enough. With one
  writing device, a network that works and no interruption, a clean work tree has nothing
  unpublished. The invariant is `OneWriter`; it keeps the writer's branch ahead of the
  remote (`WriterIsAhead`), so no push is rejected. This is what makes `EditsPublished`
  hold in `VaultOneWriter` and fail in `VaultTwoWriters`;
* `Refinement`: `Spec => Shared!Spec`. Every step of a clone saves, learns, publishes or
  changes nothing that a device holds. `Publish` needs that the device has all that is
  shared, which is what the server checks of a push.

**`NoteBuffersProofs`.** `TypesCorrect`; then `Fresh` (a buffer that Emacs does not know
to be stale shows its file), which is inductive with the types and gives `FilesAreSafe`;
then `Kept`, which adds `CopiesKnown` and `KeptUnlessTypedOver`, and gives `TextsAreKept`,
`CopiesAreKnown` and `CopiesAreRecoverable`. What is said there of copies to be recovered
holds for notes no other device changes; `NotesUnrecoverable` shows that others are
different. `ExitLeavesPullable` needs
that the copies are ignored, which is a hypothesis of its statement, and
`NotesLeftover` shows that it must be.

**`SessionProofs`.** `ThemeInv` needs what is stored to prove what is shown.
`EffectsFitStates`, whose three parts are inductive with the types. For `Startup`,
`AddedFirst` says what `add-hook` does at depth 0; `HookGathers` gives the hook for each
number of files loaded, `HookRuns` what may be left of it while it runs. From them follow
`CollectorReturns` and `PullAndPushTogether`. `ThemesNotMixed` and `UserValueKept` (a
threshold set by the user is not reset, `early-init.el` 34) state properties that no run
checks.

Word wrap, for any set of major modes and any fill style: `Undoes` says of a buffer that
was wrapped once that restoring its flags gives the minor modes before; it is what
`LeavingUndoes` rests on. `SwitchedInForce` and `RestoredSwitched` are the two facts
about the flags, `EnableKeeps` and `DisableKeeps` hold for any set of buffers, so for the
global mode as well.

**The sum.** `Components` checks nine components in one state space. `RunsEachPart` proves
that every behaviour of the sum is a behaviour of each component (a step is a step of one
and a stutter of the others), so what is proved of the components holds of the sum:
`ComponentTypes`, `ComponentsKept`.

**`ListLemmas`.** That a finite set has a last element in an order, and a list that goes
through it in that order (`LastInOrder`, `SortedListExists`). Both would be shown by
induction on the size of the set, which the provers cannot use; they are shown of a
smallest counterexample instead, which exists because strict inclusion of finite sets is
well-founded (`MinimalSubset`).

**`IndirectEditProofs`.** `CommonIsZero` makes both hooks do nothing; `InStep` (an edit
buffer that was not touched shows what the parent has) and `EditsDisjoint` give
`ParentKept`: a commit cannot disturb a region that another buffer edits.

**`DailyNotesProofs`.** `TitleGivenOnce` needs `Titles`, which says of buffers and of notes
without a file what `OneTitle` says of files: a pending capture's buffer has no title until
it is read from a file. `NextNoteFound` and `JumpsAsTold` (a jump with an argument counts
notes) rest on what the index of a note is:
it grows from note to note (`IndexGrows`) without a gap (`IndexFound`, by the least note
whose index is not below the one looked for), so the difference of two indices is the
number of notes between (`BetweenNotes`), and `nth` finds a note whenever the command
does not refuse.

**`IbufferProofs`.** `LinesAreOrdered`: `string<` on paths is a strict total order
because two different paths have a first place where they differ (`LeastOf`); the five
cases of the sorter then combine three orders and one block after another
(`BeforeCases`, `SameFilePlace`). `ListedWithOwnProject`: the comment sorts the roots
"by length", the code by `string>`. The latter is enough, since the root of an inner
project comes after that of an outer one in that order, also when the home directory
lies between them and only the inner one is written with `~` (`InnerAfterOuter`).
Different roots stay different when abbreviated, so the order is total and the sorted
list exists (`SortedIsSorted`). The invariant is `GroupsOfJumped`: the shown groups are
in order and have the project of each buffer that there was. The first group that takes
a buffer (`GroupTaken`) is a root above it, hence above its own project or that project,
and no outer one comes before the inner one.

**`CommandsProofs`.** Dired: `Ahead` (a marked file without an ID is still to come) with
`NoFileLost`, which makes the file at a path unique, gives `CommandCompletes`. Xref:
`HookIsAdded` (the local value lists what was added, each once, with or without `t`) and
what removing an element does to such a list (`MinusRemoves`) give the list that a search
goes through (`ValuesOfHook`); `FirstAnswerTaken` says what it finds there. `delq` may
change the hook's own list, but not what remains without `t` (`DelqKeeps`), so
`SearchRepeats`.

**Model-checked only.** Liveness, which needs `ENABLED`: `EditsCommitted`,
`EditsPublished`, `EditsDelivered`, `TypedIsKept`. Every safety
property that a passing run checks is also a theorem.

## Not modelled

* The user repairing a stopped rebase, or a lock file left in `.git`, by hand: the
  program has no operation for it, and the properties say what holds without it.
* A crash inside a fast-forward's checkout, and git's messages in other languages.
* Renaming and deleting notes; backup files, which are switched off (`core` 611).
* `recover-session` and its list of files, which only calls `recover-file` for each.
* Auto-save copies of *other* devices. With the same home directory the hashed names are
  equal, so where copies are committed they may also meet in a rebase.
* `prepare-user-lisp.el`: a backport of a function of Emacs 31 around
  `byte-recompile-file`; what is stale is decided there.
* Saved history (`core` 520-552): savehist decides what is written and when, and is not
  in the repository.
* Dired beyond the ID command: three advices that make a minor mode global, and keys.
  Ibuffer's filters for other kinds of buffers. Fonts, frames and load paths at startup.
* The state machine of Hel beyond the hooks the configuration adds; everything else under
  `site-lisp/`.
* That a minor mode turned on again turns off first (`hel-local-mode`, and the order of
  a global mode's hook) is assumed of `easy-mmode`, which is not in the repository.
* The asynchronous native compilation, and the components without behaviour of their own.

## Plan

1. Done: `SharedVault`, `VaultSync`, `NoteBuffers` with their instances and proofs.
2. Done: ten other components, nine of them in `Components`, and proofs of every safety
   property that passing runs check.
3. Next: the safety half of the liveness properties, as theorems: that no command leaves
   a hook before its end, and what is left to do shrinks with each of its steps.
4. Left for later: a module of `prepare-user-lisp.el` once its backport is replaced.
