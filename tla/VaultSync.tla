------------------------------ MODULE VaultSync ------------------------------
(***************************************************************************)
(* user-lisp/org-vault-sync.el: an org vault, kept in a git clone on each  *)
(* of several devices, pulled when Emacs starts (or a client frame opens)  *)
(* and committed and pushed when Emacs exits (or a daemon's frame closes). *)
(*                                                                         *)
(* A history is abstracted to the set of edits (patches) it contains,      *)
(* which is what a rebase preserves.  A pull is up to three steps (fetch,  *)
(* checkout of the upstream, replay of the local commits), every other git *)
(* command is one: Emacs is blocked while it runs; the other devices, and  *)
(* other programs that write the same directory, are not.                  *)
(***************************************************************************)
EXTENDS Naturals

CONSTANTS
    Devices,       \* machines that share the vault
    Edits,         \* saved changes of notes, each made at most once
    Notes,         \* the files of the vault
    NoteOf,        \* the note an edit changes
    Nobody,        \* the author of an edit that is not made yet
    Daemons,       \* devices where Emacs runs as a daemon
    Cloned,        \* devices where the vault directory exists
    Writers,       \* devices where notes are edited
    OtherEditors,  \* devices where another program edits the vault as well
    Alarming,      \* notes whose file name matches "error\|fatal"
    NetFails,      \* can the network fail?
    GitFails,      \* can a local git command fail (lock, identity)?
    MaxFrames,     \* bound on the client frames of a daemon
    MaxCrashes     \* bound on the crashes, interruptions and broken rebases

ASSUME DeviceSetsAssumption ==
    /\ Daemons \subseteq Devices /\ Cloned \subseteq Devices
    /\ Writers \subseteq Cloned /\ OtherEditors \subseteq Cloned
ASSUME NotesAssumption  == NoteOf \in [Edits -> Notes] /\ Alarming \subseteq Notes
ASSUME NobodyAssumption == Nobody \notin Devices
ASSUME FaultsAssumption == NetFails \in BOOLEAN /\ GitFails \in BOOLEAN
ASSUME BoundsAssumption == MaxFrames \in Nat /\ MaxCrashes \in Nat

VARIABLES
    remote,    \* edits on the remote's branch
    author,    \* author[e]: the device that made edit e, or Nobody
    base,      \* base[d]: edits of d's branch that were fetched or pushed
    ahead,     \* ahead[d]: edits in d's local commits not known to be pushed
    commitOf,  \* commitOf[e]: the number of the local commit that holds e
    commits,   \* commits[d]: how many commits d has made
    tracking,  \* tracking[d]: edits of d's refs/remotes/origin
    onBranch,  \* onBranch[d]: HEAD is the branch, or will be after the rebase that runs
    detached,  \* detached[d]: edits of HEAD when a rebase has stopped
    dirty,     \* dirty[d]: edits of the work tree that HEAD does not have
    staged,    \* staged[d]: the ones of them that are in the index
    pc,        \* pc[d]: the git command Emacs is about to run
    resume,    \* resume[d]: where org-vault-sync-push returns to
    report,    \* report[d]: the last message in the echo area
    frames,    \* frames[d]: client frames of the daemon
    crashes    \* crashes, interruptions and broken rebases so far

repo  == <<base, ahead, commitOf, commits, tracking, onBranch, detached>>
tree  == <<dirty, staged>>
emacs == <<pc, resume, report, frames>>
vars  == <<remote, author, repo, tree, emacs, crashes>>

NotesOf(S)  == {NoteOf[e] : e \in S}
Clash(S, T) == NotesOf(S) \cap NotesOf(T) # {}

Branch(d) == base[d] \cup ahead[d]
Head(d)   == IF onBranch[d] THEN Branch(d) ELSE detached[d]
View(d)   == Head(d) \cup dirty[d]

\* What `git pull --rebase' calls unstaged changes: untracked notes are not.
TrackedDirty(d) == NotesOf(dirty[d]) \cap NotesOf(Head(d))

\* What the upstream has and the branch does not, and the reverse.
Incoming(d) == tracking[d] \ Branch(d)
Pending(d)  == ahead[d] \ tracking[d]

\* The local commits are replayed in order, from number 1.
CommitNo(d, k) == {e \in Pending(d) : commitOf[e] = k}
Earlier(d, k)  == {e \in Pending(d) : commitOf[e] < k}

Init ==
    /\ remote = {}
    /\ author   = [e \in Edits |-> Nobody]
    /\ base     = [d \in Devices |-> {}]
    /\ ahead    = [d \in Devices |-> {}]
    /\ commitOf = [e \in Edits |-> 0]
    /\ commits  = [d \in Devices |-> 0]
    /\ tracking = [d \in Devices |-> {}]
    /\ onBranch = [d \in Devices |-> TRUE]
    /\ detached = [d \in Devices |-> {}]
    /\ dirty    = [d \in Devices |-> {}]
    /\ staged   = [d \in Devices |-> {}]
    /\ pc       = [d \in Devices |-> "off"]
    /\ resume   = [d \in Devices |-> "idle"]
    /\ report   = [d \in Devices |-> "none"]
    /\ frames   = [d \in Devices |-> 0]
    /\ crashes  = 0

-----------------------------------------------------------------------------
(* Emacs, its user, and the hooks of lines 45-57.                          *)

\* Emacs answers its user: no synchronous git command is running.
Attended(d) == pc[d] = "idle" /\ (d \in Daemons => frames[d] > 0)

\* A note is saved, from Emacs or by another program that has the vault open.
Edit(d, e) ==
    /\ author[e] = Nobody
    /\ (d \in Writers /\ Attended(d)) \/ d \in OtherEditors
    /\ author' = [author EXCEPT ![e] = d]
    /\ dirty'  = [dirty EXCEPT ![d] = @ \cup {e}]
    /\ UNCHANGED <<remote, repo, staged, emacs, crashes>>

GoTo(d, step, msg) ==
    /\ pc'     = [pc EXCEPT ![d] = step]
    /\ report' = [report EXCEPT ![d] = msg]

\* Mutant: the pull is not on emacs-startup-hook.
Start_Mutant(d) ==
    /\ pc[d] = "off"
    /\ GoTo(d, "idle", "none")
    /\ UNCHANGED <<remote, author, repo, tree, resume, frames, crashes>>

\* emacs-startup-hook: the pull runs whether or not Emacs is a daemon.
Start(d) ==
    /\ pc[d] = "off"
    /\ GoTo(d, "pull", "none")
    /\ UNCHANGED <<remote, author, repo, tree, resume, frames, crashes>>

\* M-x org-vault-sync-pull.
ManualPull(d) ==
    /\ Attended(d)
    /\ GoTo(d, "pull", report[d])
    /\ UNCHANGED <<remote, author, repo, tree, resume, frames, crashes>>

\* server-after-make-frame-hook.
FrameOpened(d) ==
    /\ d \in Daemons /\ pc[d] = "idle" /\ frames[d] < MaxFrames
    /\ frames' = [frames EXCEPT ![d] = @ + 1]
    /\ GoTo(d, "pull", report[d])
    /\ UNCHANGED <<remote, author, repo, tree, resume, crashes>>

\* Mutant: the hook runs for the daemon's initial frame, which is no client's.
FrameDeleted_Mutant(d) ==
    /\ d \in Daemons /\ pc[d] = "idle"
    /\ frames' = [frames EXCEPT ![d] = @ - 1]
    /\ resume' = [resume EXCEPT ![d] = "idle"]
    /\ GoTo(d, "check", report[d])
    /\ UNCHANGED <<remote, author, repo, tree, crashes>>

\* delete-frame-functions, which push only when daemonp: also for a frame that
\* is not a client's (C-x 5 2, a completion popup).
FrameDeleted(d) ==
    /\ d \in Daemons /\ pc[d] = "idle" /\ frames[d] > 0
    /\ frames' \in {frames, [frames EXCEPT ![d] = @ - 1]}
    /\ resume' = [resume EXCEPT ![d] = "idle"]
    /\ GoTo(d, "check", report[d])
    /\ UNCHANGED <<remote, author, repo, tree, crashes>>

\* Mutant: the push is not on kill-emacs-hook.
Exit_Mutant(d) ==
    /\ pc[d] = "idle"
    /\ frames' = [frames EXCEPT ![d] = 0]
    /\ GoTo(d, "off", report[d])
    /\ UNCHANGED <<remote, author, repo, tree, resume, crashes>>

\* kill-emacs-hook.
Exit(d) ==
    /\ pc[d] = "idle"
    /\ resume' = [resume EXCEPT ![d] = "off"]
    /\ GoTo(d, "check", report[d])
    /\ UNCHANGED <<remote, author, repo, tree, frames, crashes>>

-----------------------------------------------------------------------------
(* org-vault-sync-pull: `git pull --rebase 2>&1'.  The message is chosen by *)
(* looking for "error" or "fatal" anywhere in the output.                   *)

Pulled(d, msg) == GoTo(d, "idle", msg) /\ UNCHANGED <<resume, frames, crashes>>

PullSkip(d) ==
    /\ pc[d] = "pull" /\ d \notin Cloned
    /\ Pulled(d, report[d])
    /\ UNCHANGED <<remote, author, repo, tree>>

PullsNow(d)  == pc[d] = "pull" /\ d \in Cloned
TreeClean(d) == staged[d] = {} /\ TrackedDirty(d) = {}

\* "error: cannot pull with rebase: You have unstaged changes": no fetch.
PullRefused(d) ==
    /\ PullsNow(d) /\ (~TreeClean(d) \/ GitFails)
    /\ Pulled(d, "pullFailed")
    /\ UNCHANGED <<remote, author, repo, tree>>

PullNetFail(d) ==
    /\ PullsNow(d) /\ TreeClean(d) /\ NetFails
    /\ Pulled(d, "pullFailed")
    /\ UNCHANGED <<remote, author, repo, tree>>

\* With HEAD detached the fetch succeeds, nothing is merged, and git prints
\* "You are not currently on a branch": neither "error" nor "fatal".
PullDetached(d) ==
    /\ PullsNow(d) /\ TreeClean(d) /\ ~onBranch[d]
    /\ tracking' = [tracking EXCEPT ![d] = remote]
    /\ Pulled(d, "pulled")
    /\ UNCHANGED <<remote, author, base, ahead, commitOf, commits, onBranch,
                   detached, tree>>

PullFetch(d) ==
    /\ PullsNow(d) /\ TreeClean(d) /\ onBranch[d]
    /\ tracking' = [tracking EXCEPT ![d] = remote]
    /\ GoTo(d, "rebase", report[d])
    /\ UNCHANGED <<remote, author, base, ahead, commitOf, commits, onBranch,
                   detached, tree, resume, frames, crashes>>

\* A branch without commits of its own is fast-forwarded, else rebased.
FastForward(d) == Pending(d) = {}

\* Only then is the upstream checked out and is there anything to replay on it.
Replays(d) == Pending(d) # {} /\ Incoming(d) # {}

\* A rebase wants a clean tree; neither overwrites a changed or untracked note.
Overwrites(d) ==
    \/ Clash(dirty[d], Incoming(d))
    \/ ~FastForward(d) /\ TrackedDirty(d) # {}

\* Nothing is changed: the tree is not clean, or git itself fails (index.lock).
RebaseRefused(d) ==
    /\ pc[d] = "rebase" /\ (Overwrites(d) \/ GitFails)
    /\ Pulled(d, "pullFailed")
    /\ UNCHANGED <<remote, author, repo, tree>>

\* The upstream is checked out; until the replay ends HEAD is detached.
RebaseStart(d) ==
    /\ pc[d] = "rebase" /\ ~Overwrites(d) /\ Replays(d)
    /\ GoTo(d, "pick", report[d])
    /\ UNCHANGED <<remote, author, repo, tree, resume, frames, crashes>>

\* The fast-forward, or the replay of the last commit, has succeeded.
Merges(d) == pc[d] = "pick" \/ (pc[d] = "rebase" /\ ~Overwrites(d) /\ ~Replays(d))

\* Only a fast-forward prints the names of the files it changed.
NamesAlarm(d) == FastForward(d) /\ NotesOf(Incoming(d)) \cap Alarming # {}

\* Mutant: `git reset --hard @{upstream}' in the place of the rebase.
RebaseClean_Mutant(d) ==
    /\ Merges(d)
    /\ base'  = [base EXCEPT ![d] = @ \cup tracking[d]]
    /\ ahead' = [ahead EXCEPT ![d] = {}]
    /\ Pulled(d, "pulled")
    /\ UNCHANGED <<remote, author, commitOf, commits, tracking, onBranch,
                   detached, tree>>

RebaseClean(d) ==
    /\ Merges(d)
    /\ base'  = [base EXCEPT ![d] = @ \cup tracking[d]]
    /\ ahead' = [ahead EXCEPT ![d] = Pending(d)]
    /\ Pulled(d, IF NamesAlarm(d) THEN "pullFailed" ELSE "pulled")
    /\ UNCHANGED <<remote, author, commitOf, commits, tracking, onBranch,
                   detached, tree>>

\* The replay stops at commit k: HEAD is detached on the upstream and the
\* commits before k.
StopRebase(d, k) ==
    /\ onBranch' = [onBranch EXCEPT ![d] = FALSE]
    /\ detached' = [detached EXCEPT ![d] = tracking[d] \cup Earlier(d, k)]
    /\ UNCHANGED <<remote, author, base, ahead, commitOf, commits, tracking>>

\* ... and k itself is in the work tree, with conflict markers.
Conflicted(d, k) ==
    /\ dirty' = [dirty EXCEPT ![d] = @ \cup CommitNo(d, k)]
    /\ UNCHANGED staged

\* ... or was not applied yet, or is in the index and not committed yet.
HalfPicked(d, k) ==
    \/ UNCHANGED tree
    \/ /\ dirty'  = [dirty EXCEPT ![d] = @ \cup CommitNo(d, k)]
       /\ staged' = [staged EXCEPT ![d] = @ \cup CommitNo(d, k)]

\* Mutant: edits conflict whatever notes they change.
RebaseConflict_Mutant(d) ==
    /\ pc[d] = "pick"
    /\ \E k \in 1 .. commits[d] :
          CommitNo(d, k) # {} /\ StopRebase(d, k) /\ Conflicted(d, k)
    /\ Pulled(d, "pullFailed")

\* Hunks of the same note may conflict, and may not.
RebaseConflict(d) ==
    /\ pc[d] = "pick"
    /\ \E k \in 1 .. commits[d] :
          Clash(CommitNo(d, k), Incoming(d)) /\ StopRebase(d, k) /\ Conflicted(d, k)
    /\ Pulled(d, "pullFailed")

\* "Your local changes would be overwritten by merge": another program has
\* changed a note of commit k since the checkout.
PickRefused(d) ==
    /\ pc[d] = "pick"
    /\ \E k \in 1 .. commits[d] :
          Clash(CommitNo(d, k), dirty[d]) /\ StopRebase(d, k)
    /\ UNCHANGED tree
    /\ Pulled(d, "pullFailed")

\* git itself fails in the replay (index.lock, no identity to commit with), also
\* after the last commit and before the branch is moved.
PickFails(d) ==
    /\ pc[d] = "pick" /\ GitFails /\ crashes < MaxCrashes
    /\ \E k \in 1 .. commits[d] + 1 : StopRebase(d, k) /\ HalfPicked(d, k)
    /\ crashes' = crashes + 1
    /\ GoTo(d, "idle", "pullFailed")
    /\ UNCHANGED <<resume, frames>>

-----------------------------------------------------------------------------
(* org-vault-sync-push.                                                     *)

\* Back to the hook that called, which for kill-emacs is the end of the frames.
Pushed(d, msg) ==
    /\ GoTo(d, resume[d], msg)
    /\ frames' = [frames EXCEPT ![d] = IF resume[d] = "off" THEN 0 ELSE @]
    /\ UNCHANGED <<resume, crashes>>

\* Mutant: `git status --untracked-files=no'.
CheckSkip_Mutant(d) ==
    /\ pc[d] = "check" /\ (d \notin Cloned \/ TrackedDirty(d) = {})
    /\ Pushed(d, report[d])
    /\ UNCHANGED <<remote, author, repo, tree>>

\* No directory, or `git status --porcelain' prints nothing.
CheckSkip(d) ==
    /\ pc[d] = "check" /\ (d \notin Cloned \/ dirty[d] = {})
    /\ Pushed(d, report[d])
    /\ UNCHANGED <<remote, author, repo, tree>>

\* A failing `git status' prints its complaint, which counts as a change.
CheckGo(d) ==
    /\ pc[d] = "check" /\ d \in Cloned /\ (dirty[d] # {} \/ GitFails)
    /\ GoTo(d, "add", report[d])
    /\ UNCHANGED <<remote, author, repo, tree, resume, frames, crashes>>

\* Mutant: `git add -u', which leaves new notes out.
Add_Mutant(d) ==
    /\ pc[d] = "add"
    /\ GoTo(d, "commit", report[d])
    /\ staged' = [staged EXCEPT ![d] = {e \in dirty[d] : NoteOf[e] \in TrackedDirty(d)}]
    /\ UNCHANGED <<remote, author, repo, dirty, resume, frames, crashes>>

\* `git add -A', whose exit code nobody looks at.
Add(d) ==
    /\ pc[d] = "add"
    /\ GoTo(d, "commit", report[d])
    /\ staged' = [staged EXCEPT ![d] = dirty[d]]
    /\ UNCHANGED <<remote, author, repo, dirty, resume, frames, crashes>>

AddFails(d) ==
    /\ pc[d] = "add" /\ GitFails
    /\ GoTo(d, "commit", report[d])
    /\ UNCHANGED <<remote, author, repo, tree, resume, frames, crashes>>

\* Mutant: the work tree is reset to the new commit.
Commit_Mutant(d) ==
    /\ pc[d] = "commit" /\ staged[d] # {} /\ onBranch[d]
    /\ ahead'    = [ahead EXCEPT ![d] = @ \cup staged[d]]
    /\ commits'  = [commits EXCEPT ![d] = @ + 1]
    /\ commitOf' = [e \in Edits |-> IF e \in staged[d] THEN commits[d] + 1
                                                       ELSE commitOf[e]]
    /\ dirty'    = [dirty EXCEPT ![d] = {}]
    /\ staged'   = [staged EXCEPT ![d] = {}]
    /\ GoTo(d, "push", report[d])
    /\ UNCHANGED <<remote, author, base, tracking, onBranch, detached, resume,
                   frames, crashes>>

\* Mutant: the commit is left for the next exit to push.
Commit_Deferred(d) ==
    /\ pc[d] = "commit" /\ staged[d] # {} /\ onBranch[d]
    /\ ahead'    = [ahead EXCEPT ![d] = @ \cup staged[d]]
    /\ commits'  = [commits EXCEPT ![d] = @ + 1]
    /\ commitOf' = [e \in Edits |-> IF e \in staged[d] THEN commits[d] + 1
                                                       ELSE commitOf[e]]
    /\ dirty'    = [dirty EXCEPT ![d] = @ \ staged[d]]
    /\ staged'   = [staged EXCEPT ![d] = {}]
    /\ Pushed(d, report[d])
    /\ UNCHANGED <<remote, author, base, tracking, onBranch, detached>>

\* `git commit', on the branch or on the detached HEAD of a stopped rebase.
Commit(d) ==
    /\ pc[d] = "commit" /\ staged[d] # {}
    /\ IF onBranch[d]
       THEN /\ ahead'    = [ahead EXCEPT ![d] = @ \cup staged[d]]
            /\ commits'  = [commits EXCEPT ![d] = @ + 1]
            /\ commitOf' = [e \in Edits |-> IF e \in staged[d] THEN commits[d] + 1
                                                               ELSE commitOf[e]]
            /\ UNCHANGED detached
       ELSE /\ detached' = [detached EXCEPT ![d] = @ \cup staged[d]]
            /\ UNCHANGED <<ahead, commits, commitOf>>
    /\ dirty'  = [dirty EXCEPT ![d] = @ \ staged[d]]
    /\ staged' = [staged EXCEPT ![d] = {}]
    /\ GoTo(d, "push", report[d])
    /\ UNCHANGED <<remote, author, base, tracking, onBranch, resume, frames, crashes>>

\* Nothing staged, or git gives up: the push follows all the same.
CommitFails(d) ==
    /\ pc[d] = "commit" /\ (staged[d] = {} \/ GitFails)
    /\ GoTo(d, "push", report[d])
    /\ UNCHANGED <<remote, author, repo, tree, resume, frames, crashes>>

\* The server takes a push of a branch that contains its own.
FastForwards(d) == onBranch[d] /\ remote \subseteq Branch(d)

\* Mutant: `git push --force'.
PushAccepted_Mutant(d) ==
    /\ pc[d] = "push" /\ onBranch[d]
    /\ remote'   = Branch(d)
    /\ tracking' = [tracking EXCEPT ![d] = Branch(d)]
    /\ base'     = [base EXCEPT ![d] = Branch(d)]
    /\ ahead'    = [ahead EXCEPT ![d] = {}]
    /\ Pushed(d, "pushed")
    /\ UNCHANGED <<author, commitOf, commits, onBranch, detached, tree>>

\* `git push', also when everything is up to date.
PushAccepted(d) ==
    /\ pc[d] = "push" /\ FastForwards(d)
    /\ remote'   = Branch(d)
    /\ tracking' = [tracking EXCEPT ![d] = Branch(d)]
    /\ base'     = [base EXCEPT ![d] = Branch(d)]
    /\ ahead'    = [ahead EXCEPT ![d] = {}]
    /\ Pushed(d, "pushed")
    /\ UNCHANGED <<author, commitOf, commits, onBranch, detached, tree>>

\* "[rejected] (fetch first)", "fatal: You are not currently on a branch", or
\* the network is down.
PushFails(d) ==
    /\ pc[d] = "push" /\ (~FastForwards(d) \/ NetFails)
    /\ Pushed(d, "pushFailed")
    /\ UNCHANGED <<remote, author, repo, tree>>

\* Mutant: `git push --force'.
PushLostAnswer_Forced(d) ==
    /\ pc[d] = "push" /\ onBranch[d] /\ NetFails
    /\ remote' = Branch(d)
    /\ Pushed(d, "pushFailed")
    /\ UNCHANGED <<author, repo, tree>>

\* The server takes the push and its answer is lost.
PushLostAnswer(d) ==
    /\ pc[d] = "push" /\ FastForwards(d) /\ NetFails
    /\ remote' = Branch(d)
    /\ Pushed(d, "pushFailed")
    /\ UNCHANGED <<author, repo, tree>>

-----------------------------------------------------------------------------
(* Emacs dies, or its user interrupts it, between two git commands or inside *)
(* the rebase.                                                              *)

Stop(d, step) ==
    /\ crashes < MaxCrashes
    /\ crashes' = crashes + 1
    /\ GoTo(d, step, "none")
    /\ UNCHANGED resume

\* Emacs, or the machine, dies.
Dies(d) ==
    /\ pc[d] # "off"
    /\ Stop(d, "off")
    /\ frames' = [frames EXCEPT ![d] = 0]

\* C-g: shell-command-to-string kills git, the quit unwinds the hook, and an
\* exit is given up.
Quits(d) ==
    /\ pc[d] \notin {"off", "idle"} /\ (d \in Daemons => frames[d] > 0)
    /\ Stop(d, "idle")
    /\ UNCHANGED frames

Crash(d) ==
    /\ pc[d] # "pick"
    /\ Dies(d) \/ Quits(d)
    /\ UNCHANGED <<remote, author, repo, tree>>

CrashInRebase(d) ==
    /\ pc[d] = "pick"
    /\ \E k \in 1 .. commits[d] + 1 : StopRebase(d, k) /\ HalfPicked(d, k)
    /\ Dies(d) \/ Quits(d)

-----------------------------------------------------------------------------
Pull(d)   == PullSkip(d) \/ PullRefused(d) \/ PullNetFail(d) \/ PullDetached(d)
                \/ PullFetch(d)
Rebase(d) == RebaseRefused(d) \/ RebaseStart(d) \/ RebaseClean(d) \/ RebaseConflict(d)
                \/ PickRefused(d) \/ PickFails(d)
Record(d) == CheckSkip(d) \/ CheckGo(d) \/ Add(d) \/ AddFails(d)
                \/ Commit(d) \/ CommitFails(d)
Push(d)   == PushAccepted(d) \/ PushFails(d) \/ PushLostAnswer(d)

\* Emacs runs the git commands it has started.
Sync(d) == Pull(d) \/ Rebase(d) \/ Record(d) \/ Push(d)

User(d) == Start(d) \/ ManualPull(d) \/ FrameOpened(d) \/ FrameDeleted(d) \/ Exit(d)

Next ==
    \E d \in Devices :
        \/ \E e \in Edits : Edit(d, e)
        \/ User(d) \/ Sync(d)
        \/ Crash(d) \/ CrashInRebase(d)

Spec == Init /\ [][Next]_vars

\* A command that was started ends; Emacs is started again when it is off; and
\* whoever uses it closes it again and again, which is what pushes.
Fairness ==
    \A d \in Devices : /\ WF_vars(Sync(d))
                       /\ WF_vars(Start(d))
                       /\ SF_vars(Exit(d))

FairSpec == Spec /\ Fairness

-----------------------------------------------------------------------------
(* Properties.                                                              *)

Steps == {"off", "idle", "pull", "rebase", "pick", "check", "add", "commit", "push"}

\* The types of the variables.
TypeOK ==
    /\ remote \subseteq Edits
    /\ author   \in [Edits -> Devices \cup {Nobody}]
    /\ base     \in [Devices -> SUBSET Edits]
    /\ ahead    \in [Devices -> SUBSET Edits]
    /\ commitOf \in [Edits -> Nat]
    /\ commits  \in [Devices -> Nat]
    /\ tracking \in [Devices -> SUBSET Edits]
    /\ onBranch \in [Devices -> BOOLEAN]
    /\ detached \in [Devices -> SUBSET Edits]
    /\ dirty    \in [Devices -> SUBSET Edits]
    /\ staged   \in [Devices -> SUBSET Edits]
    /\ pc       \in [Devices -> Steps]
    /\ resume   \in [Devices -> {"idle", "off"}]
    /\ report   \in [Devices -> {"none", "pulled", "pullFailed",
                                  "pushed", "pushFailed"}]
    /\ frames   \in [Devices -> Nat]
    /\ crashes  \in Nat

\* Lines 25 and 39: neither the rebase nor the push (which is not forced) ever
\* takes an edit away from the remote, whoever pushes first.
RemoteAppendOnly == [][remote \subseteq remote']_remote

\* A saved edit always exists in its author's clone: in the work tree, in a
\* commit of the branch or in the detached HEAD, whatever command failed, was
\* rejected, conflicted or died.
NoEditLost ==
    \A e \in Edits : author[e] # Nobody =>
        LET d == author[e] IN e \in Branch(d) \cup detached[d] \cup dirty[d]

\* What a clone holds is its own or was on the remote: a rebase never rewrites
\* another device's unpublished edit into one's own commits.
OnlyAuthorUnpublished ==
    \A d \in Devices :
        \A e \in Branch(d) \cup detached[d] \cup dirty[d] \cup tracking[d] :
            e \notin remote => author[e] = d

\* What the two invariants above rest on.
PublishedWasMade == \A e \in remote : author[e] # Nobody
KnownUpstream    == \A d \in Devices : base[d] \cup tracking[d] \subseteq remote
StagedIsDirty    == \A d \in Devices : staged[d] \subseteq dirty[d]
OwnCommits       == \A d \in Devices : \A e \in ahead[d] : author[e] = d
NewWork          == \A d \in Devices : onBranch[d] =>
                        detached[d] = {} /\ dirty[d] \cap (Branch(d) \cup remote) = {}
RebasesBranch    == \A d \in Devices : pc[d] \in {"rebase", "pick"} => onBranch[d]

\* The clones agree with the remote: what they take for published is published,
\* local commits are the device's own, an edit is recorded once, and only a
\* clone that is on its branch starts a rebase.
ClonesConsistent ==
    /\ PublishedWasMade /\ KnownUpstream /\ StagedIsDirty
    /\ OwnCommits /\ NewWork /\ RebasesBranch

\* A clone is off its branch only after a crash, an interruption or a failure of
\* git in a rebase, or when a note it has changed was changed on another device,
\* or by another program of its own: writing different notes never gets there.
DetachedByConflictOnly ==
    \A d \in Devices : ~onBranch[d] =>
        \/ crashes > 0
        \/ \E e, f \in Edits : /\ author[e] = d /\ author[f] # Nobody
                               /\ e # f /\ NoteOf[e] = NoteOf[f]
                               /\ author[f] # d \/ d \in OtherEditors

\* While a clone is on its branch no command removes an edit from the notes one
\* sees; a stopped rebase may hide the commits it has not replayed yet.
ViewKept ==
    [][\A d \in Devices : onBranch'[d] => View(d) \subseteq View(d)']_vars

\* The push of line 39 is over and line 42 says "pushed changes".
SaysPushed(d) == pc[d] = "push" /\ pc'[d] # "push" /\ report'[d] = "pushed"

\* The pull of line 25 is over and line 28 says "Org vault synced".
SaysPulled(d) ==
    pc[d] \in {"pull", "rebase", "pick"} /\ pc'[d] = "idle" /\ report'[d] = "pulled"

\* "pushed changes" is said only when every edit of the vault is published: lines
\* 36-38 recorded all of them.  Their exit codes are not looked at.
PushedMeansPublished ==
    [][\A d \in Devices : SaysPushed(d) => View(d) \subseteq remote']_vars

\* "Org vault synced" after a pull means that the notes are those of the remote
\* the pull fetched.
PulledMeansCurrent ==
    [][\A d \in Devices : SaysPulled(d) /\ d \in Cloned
            => tracking'[d] \subseteq View(d)']_vars

\* A clone whose `git status' prints nothing, which line 33 takes for nothing to
\* push, has nothing unpublished, except while the push of its last commit runs.
CleanIsPublished ==
    \A d \in Devices : pc[d] # "push" /\ dirty[d] = {} => View(d) \subseteq remote

\* A saved edit is eventually recorded in a commit (a later conflict may put it
\* back into the work tree; the next exit commits it again).
EditsCommitted ==
    \A d \in Devices, e \in Edits : e \in dirty[d] ~> e \notin dirty[d]

\* Lines 4-5: what is saved on one device reaches the remote.
EditsPublished == \A e \in Edits : author[e] # Nobody ~> e \in remote

\* ... and what is on the remote reaches the notes of every clone.
EditsDelivered == \A d \in Cloned, e \in Edits : e \in remote ~> e \in View(d)

-----------------------------------------------------------------------------
(* The clones implement the shared vault: a device holds what is anywhere in *)
(* its clone, the object database included.                                  *)

Held(d) == Branch(d) \cup detached[d] \cup dirty[d] \cup tracking[d]

Shared == INSTANCE SharedVault WITH shared <- remote, known <- [d \in Devices |-> Held(d)]

\* Whatever fails, conflicts or dies, the devices and the remote behave as a
\* shared set that only grows and is only extended by a device that has all of it.
ImplementsSharedVault == Shared!Spec
=============================================================================
