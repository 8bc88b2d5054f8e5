--------------------------- MODULE VaultSyncProofs ---------------------------
(***************************************************************************)
(* Theorems about VaultSync, for any number of devices, notes and edits.   *)
(***************************************************************************)
EXTENDS VaultSync, TLAPS

-----------------------------------------------------------------------------
(* Type correctness.                                                        *)

\* The parts of a step that most actions share.
LEMMA GoToType ==
    ASSUME TypeOK, NEW d \in Devices, NEW step \in Steps,
           NEW msg \in {"none", "pulled", "pullFailed", "pushed", "pushFailed"},
           GoTo(d, step, msg)
    PROVE  /\ pc' \in [Devices -> Steps]
           /\ report' \in [Devices -> {"none", "pulled", "pullFailed",
                                       "pushed", "pushFailed"}]
BY DEF TypeOK, GoTo

LEMMA TypeStep == TypeOK /\ [Next]_vars => TypeOK'
<1> SUFFICES ASSUME TypeOK, [Next]_vars PROVE TypeOK'
  OBVIOUS
<1> USE DEF repo, tree, emacs
<1>1. CASE UNCHANGED vars
  BY <1>1 DEF TypeOK, vars
<1>2. ASSUME NEW d \in Devices, NEW e \in Edits, Edit(d, e) PROVE TypeOK'
  BY <1>2 DEF TypeOK, Edit
<1>3. ASSUME NEW d \in Devices, User(d) PROVE TypeOK'
  <2>1. report[d] \in {"none", "pulled", "pullFailed", "pushed", "pushFailed"}
    BY DEF TypeOK
  <2>2. CASE Start(d)
    BY <2>2, GoToType DEF TypeOK, Start, Steps
  <2>3. CASE ManualPull(d)
    BY <2>1, <2>3, GoToType DEF TypeOK, ManualPull, Steps
  <2>4. CASE FrameOpened(d)
    BY <2>1, <2>4, GoToType DEF TypeOK, FrameOpened, Steps
  <2>5. CASE FrameDeleted(d)
    BY <2>1, <2>5, GoToType DEF TypeOK, FrameDeleted, Steps
  <2>6. CASE Exit(d)
    BY <2>1, <2>6, GoToType DEF TypeOK, Exit, Steps
  <2>7. QED
    BY <1>3, <2>2, <2>3, <2>4, <2>5, <2>6 DEF User
<1>4. ASSUME NEW d \in Devices, Pull(d) PROVE TypeOK'
  <2>1. report[d] \in {"none", "pulled", "pullFailed", "pushed", "pushFailed"}
    BY DEF TypeOK
  <2>2. CASE PullSkip(d)
    BY <2>1, <2>2, GoToType DEF TypeOK, PullSkip, Pulled, Steps
  <2>3. CASE PullRefused(d) \/ PullNetFail(d)
    BY <2>3, GoToType DEF TypeOK, PullRefused, PullNetFail, Pulled, Steps
  <2>4. CASE PullDetached(d)
    BY <2>4, GoToType DEF TypeOK, PullDetached, Pulled, Steps
  <2>5. CASE PullFetch(d)
    BY <2>1, <2>5, GoToType DEF TypeOK, PullFetch, Steps
  <2>6. QED
    BY <1>4, <2>2, <2>3, <2>4, <2>5 DEF Pull
<1>5. ASSUME NEW d \in Devices, Rebase(d) PROVE TypeOK'
  <2>1. CASE RebaseRefused(d)
    BY <2>1, GoToType DEF TypeOK, RebaseRefused, Pulled, Steps
  <2>2. CASE RebaseClean(d)
    BY <2>2, GoToType DEF TypeOK, RebaseClean, Pulled, Pending, Steps
  <2>3. CASE RebaseStart(d)
    <3>1. report[d] \in {"none", "pulled", "pullFailed", "pushed", "pushFailed"}
      BY DEF TypeOK
    <3>2. QED
      BY <2>3, <3>1, GoToType DEF TypeOK, RebaseStart, Steps
  <2>4. CASE RebaseConflict(d)
    BY <2>4, GoToType DEF TypeOK, RebaseConflict, StopRebase, Conflicted, Pulled,
                          CommitNo, Earlier, Pending, Steps
  <2>5. CASE PickRefused(d)
    BY <2>5, GoToType DEF TypeOK, PickRefused, StopRebase, Pulled, Earlier, Pending, Steps
  <2>6. CASE PickFails(d)
    BY <2>6, GoToType DEF TypeOK, PickFails, StopRebase, HalfPicked, CommitNo, Earlier,
                          Pending, Steps
  <2>7. QED
    BY <1>5, <2>1, <2>2, <2>3, <2>4, <2>5, <2>6 DEF Rebase
<1>6. ASSUME NEW d \in Devices, Record(d) PROVE TypeOK'
  <2>1. /\ report[d] \in {"none", "pulled", "pullFailed", "pushed", "pushFailed"}
        /\ resume[d] \in Steps
    BY DEF TypeOK, Steps
  <2>2. CASE CheckSkip(d)
    BY <2>1, <2>2, GoToType DEF TypeOK, CheckSkip, Pushed
  <2>3. CASE CheckGo(d) \/ AddFails(d) \/ CommitFails(d)
    BY <2>1, <2>3, GoToType DEF TypeOK, CheckGo, AddFails, CommitFails, Steps
  <2>4. CASE Add(d)
    BY <2>1, <2>4, GoToType DEF TypeOK, Add, Steps
  <2>5. CASE Commit(d)
    <3>1. /\ pc' \in [Devices -> Steps]
          /\ report' \in [Devices -> {"none", "pulled", "pullFailed",
                                      "pushed", "pushFailed"}]
      BY <2>1, <2>5, GoToType DEF Commit, Steps
    <3>2. /\ ahead' \in [Devices -> SUBSET Edits]
          /\ detached' \in [Devices -> SUBSET Edits]
          /\ commits' \in [Devices -> Nat] /\ commitOf' \in [Edits -> Nat]
      <4>1. CASE onBranch[d]
        BY <2>5, <4>1 DEF TypeOK, Commit
      <4>2. CASE ~onBranch[d]
        BY <2>5, <4>2 DEF TypeOK, Commit
      <4>3. QED
        BY <4>1, <4>2
    <3>3. /\ dirty' \in [Devices -> SUBSET Edits]
          /\ staged' \in [Devices -> SUBSET Edits]
      BY <2>5 DEF TypeOK, Commit
    <3>4. UNCHANGED <<remote, author, base, tracking, onBranch, resume, frames, crashes>>
      BY <2>5 DEF Commit
    <3>5. QED
      BY <3>1, <3>2, <3>3, <3>4 DEF TypeOK
  <2>6. QED
    BY <1>6, <2>2, <2>3, <2>4, <2>5 DEF Record
<1>7. ASSUME NEW d \in Devices, Push(d) PROVE TypeOK'
  <2>1. resume[d] \in Steps
    BY DEF TypeOK, Steps
  <2>2. CASE PushAccepted(d)
    BY <2>1, <2>2, GoToType DEF TypeOK, PushAccepted, Pushed, Branch
  <2>3. CASE PushFails(d)
    BY <2>1, <2>3, GoToType DEF TypeOK, PushFails, Pushed
  <2>4. CASE PushLostAnswer(d)
    BY <2>1, <2>4, GoToType DEF TypeOK, PushLostAnswer, Pushed, Branch
  <2>5. QED
    BY <1>7, <2>2, <2>3, <2>4 DEF Push
<1>8. ASSUME NEW d \in Devices, Crash(d) PROVE TypeOK'
  BY <1>8, GoToType DEF TypeOK, Crash, Dies, Quits, Stop, Steps
<1>9. ASSUME NEW d \in Devices, CrashInRebase(d) PROVE TypeOK'
  BY <1>9, GoToType DEF TypeOK, CrashInRebase, StopRebase, HalfPicked, Dies, Quits, Stop,
                        CommitNo, Earlier, Pending, Steps
<1>10. QED
  BY <1>1, <1>2, <1>3, <1>4, <1>5, <1>6, <1>7, <1>8, <1>9 DEF Next, Sync

LEMMA TypeInit == Init => TypeOK
BY DEF Init, TypeOK, Steps

\* Every reachable state of the clones and of Emacs is well formed.
THEOREM TypeCorrect == Spec => []TypeOK
BY TypeInit, TypeStep, PTL DEF Spec

-----------------------------------------------------------------------------
(* The inductive invariant: edits are neither lost nor misattributed.       *)

IInv == TypeOK /\ ClonesConsistent /\ NoEditLost /\ OnlyAuthorUnpublished

\* Everything in IInv but the types and RebasesBranch is about the repositories.
RepoInv ==
    /\ PublishedWasMade /\ KnownUpstream /\ StagedIsDirty /\ OwnCommits /\ NewWork
    /\ NoEditLost /\ OnlyAuthorUnpublished

USE DEF Branch

\* A step that changes no repository keeps what is true of the repositories.
LEMMA QuietStep ==
    RepoInv /\ UNCHANGED <<remote, author, repo, tree>> => RepoInv'
BY DEF RepoInv, PublishedWasMade, KnownUpstream, StagedIsDirty, OwnCommits,
       NewWork, NoEditLost, OnlyAuthorUnpublished, repo, tree

LEMMA EditStep ==
    ASSUME TypeOK, RepoInv, NEW d \in Devices, NEW e \in Edits, Edit(d, e)
    PROVE  RepoInv'
<1> USE DEF Edit, repo, TypeOK, RepoInv
<1>1. d # Nobody
  BY NobodyAssumption
<1>2. PublishedWasMade' /\ KnownUpstream' /\ StagedIsDirty'
  BY <1>1 DEF PublishedWasMade, KnownUpstream, StagedIsDirty
<1>3. \A c \in Devices : e \notin Branch(c) \cup detached[c] \cup dirty[c] \cup tracking[c]
  BY NobodyAssumption DEF OnlyAuthorUnpublished, PublishedWasMade
<1>4. OwnCommits' /\ NewWork'
  BY <1>3 DEF OwnCommits, NewWork, PublishedWasMade
<1>5. NoEditLost' /\ OnlyAuthorUnpublished'
  BY <1>1, <1>3 DEF NoEditLost, OnlyAuthorUnpublished
<1>6. QED
  BY <1>2, <1>4, <1>5

\* The fetch of a pull: only the tracking branch moves.
LEMMA FetchStep ==
    ASSUME TypeOK, RepoInv, NEW d \in Devices, PullDetached(d) \/ PullFetch(d)
    PROVE  RepoInv'
BY DEF PullDetached, PullFetch, tree, TypeOK, RepoInv, PublishedWasMade,
       KnownUpstream, StagedIsDirty, OwnCommits, NewWork, NoEditLost,
       OnlyAuthorUnpublished

LEMMA RebaseCleanStep ==
    ASSUME TypeOK, RepoInv, NEW d \in Devices, RebaseClean(d)
    PROVE  RepoInv'
<1> USE DEF RebaseClean, Pending, tree, TypeOK, RepoInv
<1>1. PublishedWasMade' /\ KnownUpstream' /\ StagedIsDirty' /\ OwnCommits'
  BY DEF PublishedWasMade, KnownUpstream, StagedIsDirty, OwnCommits
<1>2. NewWork'
  BY DEF NewWork, KnownUpstream
<1>3. NoEditLost'
  BY DEF NoEditLost
<1>4. OnlyAuthorUnpublished'
  BY DEF OnlyAuthorUnpublished
<1>5. QED
  BY <1>1, <1>2, <1>3, <1>4

\* A rebase that stops halfway, for whatever reason.
Stops(d) ==
    RebaseConflict(d) \/ PickRefused(d) \/ PickFails(d) \/ CrashInRebase(d)

\* It stops at some commit, which is in the work tree, the index or neither.
LEMMA StopsSomewhere ==
    ASSUME TypeOK, NEW d \in Devices, Stops(d)
    PROVE  /\ pc[d] = "pick"
           /\ \E k \in Nat : StopRebase(d, k) /\ (Conflicted(d, k) \/ HalfPicked(d, k))
<1>1. CASE RebaseConflict(d)
  BY <1>1 DEF TypeOK, RebaseConflict
<1>2. CASE PickRefused(d)
  BY <1>2 DEF TypeOK, PickRefused, HalfPicked
<1>3. CASE PickFails(d)
  BY <1>3 DEF TypeOK, PickFails
<1>4. CASE CrashInRebase(d)
  BY <1>4 DEF TypeOK, CrashInRebase
<1>5. QED
  BY <1>1, <1>2, <1>3, <1>4 DEF Stops

\* A stopped rebase leaves the branch alone, and its HEAD and work tree hold
\* published edits and the device's own.
LEMMA StopRebaseStep ==
    ASSUME TypeOK, RebasesBranch, RepoInv, NEW d \in Devices, Stops(d)
    PROVE  RepoInv'
<1> USE DEF StopRebase, Earlier, Pending, TypeOK, RepoInv
<1>1. PICK k \in Nat : StopRebase(d, k) /\ (Conflicted(d, k) \/ HalfPicked(d, k))
  BY StopsSomewhere
<1>2. onBranch[d] /\ detached[d] = {}
  BY StopsSomewhere DEF RebasesBranch, NewWork
<1>3. PICK S \in SUBSET ahead[d], T \in SUBSET ahead[d] :
         /\ T \subseteq S
         /\ dirty'  = [dirty EXCEPT ![d] = @ \cup S]
         /\ staged' = [staged EXCEPT ![d] = @ \cup T]
  <2>1. CommitNo(d, k) \in SUBSET ahead[d]
    BY DEF CommitNo
  <2>2. /\ dirty = [dirty EXCEPT ![d] = @ \cup {}]
        /\ staged = [staged EXCEPT ![d] = @ \cup {}]
    OBVIOUS
  <2>3. CASE Conflicted(d, k)
    BY <2>1, <2>2, <2>3 DEF Conflicted
  <2>4. CASE UNCHANGED tree
    BY <2>2, <2>4 DEF tree
  <2>5. CASE HalfPicked(d, k) /\ ~UNCHANGED tree
    BY <2>1, <2>5 DEF HalfPicked
  <2>6. QED
    BY <1>1, <2>3, <2>4, <2>5
<1>4. PublishedWasMade' /\ KnownUpstream' /\ OwnCommits'
  BY <1>1 DEF PublishedWasMade, KnownUpstream, OwnCommits
<1>5. StagedIsDirty'
  BY <1>1, <1>3 DEF StagedIsDirty
<1>6. NewWork'
  BY <1>1, <1>3 DEF NewWork
<1>7. NoEditLost'
  BY <1>1, <1>2, <1>3 DEF NoEditLost
<1>8. OnlyAuthorUnpublished'
  BY <1>1, <1>3 DEF OnlyAuthorUnpublished, OwnCommits
<1>9. QED
  BY <1>4, <1>5, <1>6, <1>7, <1>8

LEMMA AddStep ==
    ASSUME TypeOK, RepoInv, NEW d \in Devices, Add(d)
    PROVE  RepoInv'
BY DEF Add, repo, TypeOK, RepoInv, PublishedWasMade, KnownUpstream, StagedIsDirty,
       OwnCommits, NewWork, NoEditLost, OnlyAuthorUnpublished

LEMMA CommitStep ==
    ASSUME TypeOK, RepoInv, NEW d \in Devices, Commit(d)
    PROVE  RepoInv'
<1> USE DEF Commit, TypeOK, RepoInv
<1>1. PublishedWasMade' /\ KnownUpstream' /\ StagedIsDirty'
  BY DEF PublishedWasMade, KnownUpstream, StagedIsDirty
<1>2. onBranch[d] => \A e \in staged[d] : author[e] = d
  BY DEF NewWork, StagedIsDirty, OnlyAuthorUnpublished
<1>3. OwnCommits'
  BY <1>2 DEF OwnCommits
<1>4. NewWork'
  BY DEF NewWork, StagedIsDirty
<1>5. NoEditLost'
  BY DEF NoEditLost
<1>6. OnlyAuthorUnpublished'
  BY DEF OnlyAuthorUnpublished, StagedIsDirty
<1>7. QED
  BY <1>1, <1>3, <1>4, <1>5, <1>6

\* The server takes the branch of d, whether d hears of it or not.
LEMMA AcceptStep ==
    ASSUME TypeOK, RepoInv, NEW d \in Devices,
           PushAccepted(d) \/ PushLostAnswer(d)
    PROVE  RepoInv'
<1> USE DEF PushAccepted, PushLostAnswer, FastForwards, repo, tree, TypeOK, RepoInv
<1>1. /\ remote \subseteq remote' /\ remote' = Branch(d)
      /\ \A c \in Devices : Branch(c)' = Branch(c)
      /\ UNCHANGED <<author, detached, dirty, staged, onBranch>>
  OBVIOUS
<1>2. PublishedWasMade'
  BY NobodyAssumption DEF PublishedWasMade, KnownUpstream, OwnCommits
<1>3. KnownUpstream' /\ StagedIsDirty' /\ OwnCommits'
  BY DEF KnownUpstream, StagedIsDirty, OwnCommits
<1>4. NewWork'
  <2> SUFFICES ASSUME NEW c \in Devices, onBranch[c], NEW e \in dirty[c]
               PROVE  detached[c] = {} /\ e \notin Branch(c) \cup Branch(d)
    BY <1>1 DEF NewWork
  <2>1. detached[c] = {} /\ e \notin Branch(c) \cup remote
    BY DEF NewWork
  <2>2. author[e] = c
    BY <2>1 DEF OnlyAuthorUnpublished
  <2>3. e \notin Branch(d)
    BY <2>1, <2>2 DEF OnlyAuthorUnpublished
  <2>4. QED
    BY <2>1, <2>3
<1>5. NoEditLost'
  BY <1>1 DEF NoEditLost
<1>6. OnlyAuthorUnpublished'
  BY <1>1 DEF OnlyAuthorUnpublished
<1>7. QED
  BY <1>2, <1>3, <1>4, <1>5, <1>6

\* Only PullFetch starts a rebase, and only what ends it leaves the branch.
LEMMA RebasesBranchStep == TypeOK /\ RebasesBranch /\ [Next]_vars => RebasesBranch'
<1> SUFFICES ASSUME TypeOK, RebasesBranch, [Next]_vars PROVE RebasesBranch'
  OBVIOUS
<1> USE DEF TypeOK, RebasesBranch, GoTo, repo, emacs
<1>1. CASE UNCHANGED vars
  BY <1>1 DEF vars
<1>2. ASSUME NEW d \in Devices, NEW e \in Edits, Edit(d, e) PROVE RebasesBranch'
  BY <1>2 DEF Edit
<1>3. ASSUME NEW d \in Devices, User(d) PROVE RebasesBranch'
  BY <1>3 DEF User, Start, ManualPull, FrameOpened, FrameDeleted, Exit
<1>4. ASSUME NEW d \in Devices, Pull(d) PROVE RebasesBranch'
  BY <1>4 DEF Pull, PullSkip, PullRefused, PullNetFail, PullDetached, PullFetch, Pulled
<1>5. ASSUME NEW d \in Devices, Rebase(d) PROVE RebasesBranch'
  BY <1>5 DEF Rebase, RebaseRefused, RebaseStart, RebaseClean, RebaseConflict,
              PickRefused, PickFails, StopRebase, Pulled
<1>6. ASSUME NEW d \in Devices, Record(d) PROVE RebasesBranch'
  BY <1>6 DEF Record, CheckSkip, CheckGo, Add, AddFails, Commit, CommitFails, Pushed
<1>7. ASSUME NEW d \in Devices, Push(d) PROVE RebasesBranch'
  BY <1>7 DEF Push, PushAccepted, PushFails, PushLostAnswer, Pushed
<1>8. ASSUME NEW d \in Devices, Crash(d) PROVE RebasesBranch'
  BY <1>8 DEF Crash, Dies, Quits, Stop
<1>9. ASSUME NEW d \in Devices, CrashInRebase(d) PROVE RebasesBranch'
  BY <1>9 DEF CrashInRebase, StopRebase, Dies, Quits, Stop
<1>10. QED
  BY <1>1, <1>2, <1>3, <1>4, <1>5, <1>6, <1>7, <1>8, <1>9 DEF Next, Sync

LEMMA RepoStep == TypeOK /\ RebasesBranch /\ RepoInv /\ [Next]_vars => RepoInv'
<1> SUFFICES ASSUME TypeOK, RebasesBranch, RepoInv, [Next]_vars PROVE RepoInv'
  OBVIOUS
<1>1. CASE UNCHANGED vars
  BY <1>1, QuietStep DEF vars
<1>2. ASSUME NEW d \in Devices, NEW e \in Edits, Edit(d, e) PROVE RepoInv'
  BY <1>2, EditStep
<1>3. ASSUME NEW d \in Devices, User(d) PROVE RepoInv'
  BY <1>3, QuietStep DEF User, Start, ManualPull, FrameOpened, FrameDeleted, Exit
<1>4. ASSUME NEW d \in Devices, Pull(d) PROVE RepoInv'
  BY <1>4, QuietStep, FetchStep DEF Pull, PullSkip, PullRefused, PullNetFail
<1>5. ASSUME NEW d \in Devices, Rebase(d) PROVE RepoInv'
  BY <1>5, QuietStep, RebaseCleanStep, StopRebaseStep
     DEF Rebase, RebaseRefused, RebaseStart, Stops
<1>6. ASSUME NEW d \in Devices, Record(d) PROVE RepoInv'
  BY <1>6, QuietStep, AddStep, CommitStep
     DEF Record, CheckSkip, CheckGo, AddFails, CommitFails
<1>7. ASSUME NEW d \in Devices, Push(d) PROVE RepoInv'
  BY <1>7, QuietStep, AcceptStep DEF Push, PushFails
<1>8. ASSUME NEW d \in Devices, Crash(d) PROVE RepoInv'
  BY <1>8, QuietStep DEF Crash
<1>9. ASSUME NEW d \in Devices, CrashInRebase(d) PROVE RepoInv'
  BY <1>9, StopRebaseStep DEF Stops
<1>10. QED
  BY <1>1, <1>2, <1>3, <1>4, <1>5, <1>6, <1>7, <1>8, <1>9 DEF Next, Sync

LEMMA Invariance == Spec => []IInv
<1>1. Init => RepoInv /\ RebasesBranch
  BY DEF Init, RepoInv, PublishedWasMade, KnownUpstream, StagedIsDirty, OwnCommits,
         NewWork, NoEditLost, OnlyAuthorUnpublished, RebasesBranch
<1>2. Init => IInv
  BY <1>1, TypeInit DEF IInv, RepoInv, ClonesConsistent
<1>3. IInv /\ [Next]_vars => IInv'
  BY TypeStep, RebasesBranchStep, RepoStep DEF IInv, RepoInv, ClonesConsistent
<1>4. QED
  BY <1>2, <1>3, PTL DEF Spec

\* No failure, conflict, rejection or crash removes a saved edit from the clone
\* of the device that made it.
THEOREM EditsKept == Spec => []NoEditLost
BY Invariance, PTL DEF IInv

\* Unpublished edits are only in the clone of their author.
THEOREM Attribution == Spec => []OnlyAuthorUnpublished
BY Invariance, PTL DEF IInv

\* The clones agree with the remote about what is published.
THEOREM Consistency == Spec => []ClonesConsistent
BY Invariance, PTL DEF IInv

-----------------------------------------------------------------------------
(* What a step may never do.                                                *)

\* Only an accepted push moves the remote, to a branch that contains it.
LEMMA RemoteStep ==
    ASSUME [Next]_vars
    PROVE  \/ UNCHANGED remote
           \/ \E d \in Devices : /\ PushAccepted(d) \/ PushLostAnswer(d)
                                /\ FastForwards(d)
                                /\ remote' = Branch(d)
<1>1. CASE UNCHANGED vars
  BY <1>1 DEF vars
<1>2. ASSUME NEW d \in Devices, NEW e \in Edits, Edit(d, e) PROVE UNCHANGED remote
  BY <1>2 DEF Edit
<1>3. ASSUME NEW d \in Devices, User(d) PROVE UNCHANGED remote
  BY <1>3 DEF User, Start, ManualPull, FrameOpened, FrameDeleted, Exit
<1>4. ASSUME NEW d \in Devices, Pull(d) \/ Rebase(d) PROVE UNCHANGED remote
  BY <1>4 DEF Pull, PullSkip, PullRefused, PullNetFail, PullDetached, PullFetch,
              Rebase, RebaseRefused, RebaseStart, RebaseClean, RebaseConflict,
              PickRefused, PickFails, StopRebase
<1>5. ASSUME NEW d \in Devices, Record(d) PROVE UNCHANGED remote
  BY <1>5 DEF Record, CheckSkip, CheckGo, Add, AddFails, Commit, CommitFails
<1>6. ASSUME NEW d \in Devices, Crash(d) \/ CrashInRebase(d) PROVE UNCHANGED remote
  BY <1>6 DEF Crash, CrashInRebase, StopRebase
<1>7. ASSUME NEW d \in Devices, PushFails(d) PROVE UNCHANGED remote
  BY <1>7 DEF PushFails
<1>8. ASSUME NEW d \in Devices, PushAccepted(d) \/ PushLostAnswer(d)
      PROVE  FastForwards(d) /\ remote' = Branch(d)
  BY <1>8 DEF PushAccepted, PushLostAnswer
<1>9. QED
  BY <1>1, <1>2, <1>3, <1>4, <1>5, <1>6, <1>7, <1>8 DEF Next, Sync, Push

\* The remote never loses an edit, whoever pushes first and whatever is lost.
THEOREM RemoteGrows == Spec => RemoteAppendOnly
<1>1. [Next]_vars => [remote \subseteq remote']_remote
  BY RemoteStep DEF FastForwards
<1>2. QED
  BY <1>1, PTL DEF Spec, RemoteAppendOnly

\* A message of success comes from a step of that device, at the push.
LEMMA PushReport ==
    ASSUME TypeOK, NEW c \in Devices, NEW step, NEW msg, GoTo(c, step, msg),
           NEW d \in Devices, SaysPushed(d)
    PROVE  c = d /\ pc[c] = "push" /\ msg = "pushed"
BY DEF TypeOK, GoTo, SaysPushed

\* ... and from an accepted push of the branch.
LEMMA PushReportIsTrue ==
    Spec => [][\A d \in Devices :
                  SaysPushed(d) => onBranch[d] /\ Branch(d) \subseteq remote']_vars
<1> DEFINE Truth == \A d \in Devices :
                       SaysPushed(d) => onBranch[d] /\ Branch(d) \subseteq remote'
<1>1. TypeOK /\ [Next]_vars => [Truth]_vars
  <2> SUFFICES ASSUME TypeOK, [Next]_vars, NEW d \in Devices, SaysPushed(d)
               PROVE  onBranch[d] /\ Branch(d) \subseteq remote'
    OBVIOUS
  <2>1. CASE UNCHANGED vars
    BY <2>1 DEF vars, emacs, SaysPushed
  <2>2. ASSUME NEW c \in Devices, NEW e \in Edits, Edit(c, e) PROVE FALSE
    BY <2>2 DEF Edit, emacs, SaysPushed
  <2>3. ASSUME NEW c \in Devices, User(c) PROVE FALSE
    BY <2>3, PushReport DEF User, Start, ManualPull, Attended, FrameOpened, FrameDeleted, Exit
  <2>4. ASSUME NEW c \in Devices, Pull(c) \/ Rebase(c) PROVE FALSE
    BY <2>4, PushReport
       DEF Pull, PullSkip, PullsNow, PullRefused, PullNetFail, PullDetached, PullFetch,
           Rebase, RebaseRefused, RebaseStart, RebaseClean, RebaseConflict, PickRefused,
           PickFails, Pulled
  <2>5. ASSUME NEW c \in Devices, Record(c) PROVE FALSE
    BY <2>5, PushReport
       DEF Record, CheckSkip, CheckGo, Add, AddFails, Commit, CommitFails, Pushed
  <2>6. ASSUME NEW c \in Devices, Crash(c) \/ CrashInRebase(c) PROVE FALSE
    BY <2>6, PushReport DEF Crash, CrashInRebase, Dies, Quits, Stop
  <2>7. ASSUME NEW c \in Devices, Push(c)
        PROVE  onBranch[d] /\ Branch(d) \subseteq remote'
    BY <2>7, PushReport
       DEF Push, PushAccepted, PushFails, PushLostAnswer, FastForwards, Pushed
  <2>8. QED
    BY <2>1, <2>2, <2>3, <2>4, <2>5, <2>6, <2>7 DEF Next, Sync
<1>2. QED
  BY <1>1, TypeCorrect, PTL DEF Spec

\* With a git that works and no other program, a hook reaches the commit with all
\* changes in the index, and the push with none left.
AllRecorded ==
    \A d \in Devices :
        /\ pc[d] = "add"    => dirty[d] # {}
        /\ pc[d] = "commit" => dirty[d] # {} /\ staged[d] = dirty[d]
        /\ pc[d] = "push"   => dirty[d] = {}

LEMMA AllRecordedStep ==
    ASSUME ~GitFails, OtherEditors = {}, TypeOK, AllRecorded, [Next]_vars
    PROVE  AllRecorded'
<1> USE DEF TypeOK, AllRecorded, GoTo, tree, emacs
<1>1. CASE UNCHANGED vars
  BY <1>1 DEF vars
<1>2. ASSUME NEW d \in Devices, NEW e \in Edits, Edit(d, e) PROVE AllRecorded'
  BY <1>2 DEF Edit, Attended
<1>3. ASSUME NEW d \in Devices, User(d) PROVE AllRecorded'
  BY <1>3 DEF User, Start, ManualPull, FrameOpened, FrameDeleted, Exit
<1>4. ASSUME NEW d \in Devices, Pull(d) PROVE AllRecorded'
  BY <1>4 DEF Pull, PullSkip, PullRefused, PullNetFail, PullDetached, PullFetch, Pulled
<1>5. ASSUME NEW d \in Devices, Rebase(d) PROVE AllRecorded'
  BY <1>5 DEF Rebase, RebaseRefused, RebaseStart, RebaseClean, RebaseConflict,
              PickRefused, PickFails, StopRebase, Conflicted, Pulled
<1>6. ASSUME NEW d \in Devices, Record(d) PROVE AllRecorded'
  BY <1>6 DEF Record, CheckSkip, CheckGo, Add, AddFails, Commit, CommitFails, Pushed
<1>7. ASSUME NEW d \in Devices, Push(d) PROVE AllRecorded'
  BY <1>7 DEF Push, PushAccepted, PushFails, PushLostAnswer, Pushed
<1>8. ASSUME NEW d \in Devices, Crash(d) \/ CrashInRebase(d) PROVE AllRecorded'
  BY <1>8 DEF Crash, CrashInRebase, StopRebase, HalfPicked, Dies, Quits, Stop
<1>9. QED
  BY <1>1, <1>2, <1>3, <1>4, <1>5, <1>6, <1>7, <1>8 DEF Next, Sync

\* Without failing git commands and other programs, "pushed changes" is true of
\* every edit of the vault, not only of the committed ones.
THEOREM PushIsComplete ==
    ASSUME ~GitFails, OtherEditors = {}
    PROVE  Spec => PushedMeansPublished
<1> DEFINE Commits == \A d \in Devices :
                         SaysPushed(d) => onBranch[d] /\ Branch(d) \subseteq remote'
<1> DEFINE Truth == \A d \in Devices : SaysPushed(d) => View(d) \subseteq remote'
<1>1. Init => AllRecorded
  BY DEF Init, AllRecorded
<1>2. TypeOK /\ AllRecorded /\ [Next]_vars => AllRecorded'
  BY AllRecordedStep
<1>3. AllRecorded /\ [Commits]_vars => [Truth]_vars
  BY DEF AllRecorded, SaysPushed, View, Head
<1>4. QED
  BY <1>1, <1>2, <1>3, TypeCorrect, PushReportIsTrue, PTL DEF Spec, PushedMeansPublished

-----------------------------------------------------------------------------
(* No command takes a note away.                                            *)

\* HEAD never comes back to the branch, and only a commit on a detached HEAD
\* takes an edit out of branch and work tree.
LEMMA NotesStep ==
    ASSUME TypeOK, StagedIsDirty, [Next]_vars, NEW c \in Devices, onBranch'[c]
    PROVE  onBranch[c] /\ Branch(c) \cup dirty[c] \subseteq (Branch(c) \cup dirty[c])'
<1> USE DEF TypeOK, StagedIsDirty, repo, tree
<1> DEFINE Kept == onBranch[c] /\ Branch(c) \cup dirty[c] \subseteq (Branch(c) \cup dirty[c])'
<1>1. CASE UNCHANGED vars
  BY <1>1 DEF vars
<1>2. ASSUME NEW d \in Devices, NEW e \in Edits, Edit(d, e) PROVE Kept
  BY <1>2 DEF Edit
<1>3. ASSUME NEW d \in Devices, User(d) PROVE Kept
  BY <1>3 DEF User, Start, ManualPull, FrameOpened, FrameDeleted, Exit
<1>4. ASSUME NEW d \in Devices, Pull(d) PROVE Kept
  BY <1>4 DEF Pull, PullSkip, PullRefused, PullNetFail, PullDetached, PullFetch
<1>5. ASSUME NEW d \in Devices, Rebase(d) PROVE Kept
  BY <1>5 DEF Rebase, RebaseRefused, RebaseStart, RebaseClean, Pending, RebaseConflict,
              PickRefused, PickFails, StopRebase, Conflicted, HalfPicked
<1>6. ASSUME NEW d \in Devices, Record(d) PROVE Kept
  BY <1>6 DEF Record, CheckSkip, CheckGo, Add, AddFails, Commit, CommitFails
<1>7. ASSUME NEW d \in Devices, Push(d) PROVE Kept
  BY <1>7 DEF Push, PushAccepted, PushFails, PushLostAnswer
<1>8. ASSUME NEW d \in Devices, Crash(d) \/ CrashInRebase(d) PROVE Kept
  BY <1>8 DEF Crash, CrashInRebase, StopRebase, HalfPicked
<1>9. QED
  BY <1>1, <1>2, <1>3, <1>4, <1>5, <1>6, <1>7, <1>8 DEF Next, Sync

\* What one sees in the notes of a clone stays there, whatever pull, commit or
\* push runs, fails or dies, unless the step leaves HEAD detached.
THEOREM NotesStayVisible == Spec => ViewKept
<1> DEFINE Stays == \A d \in Devices : onBranch'[d] => View(d) \subseteq View(d)'
<1>1. TypeOK /\ StagedIsDirty /\ [Next]_vars => [Stays]_vars
  <2> SUFFICES ASSUME TypeOK, StagedIsDirty, [Next]_vars, NEW d \in Devices, onBranch'[d]
               PROVE  View(d) \subseteq View(d)'
    OBVIOUS
  <2>1. onBranch[d] /\ Branch(d) \cup dirty[d] \subseteq (Branch(d) \cup dirty[d])'
    BY NotesStep
  <2>2. QED
    BY <2>1 DEF View, Head
<1>2. IInv => TypeOK /\ StagedIsDirty
  BY DEF IInv, ClonesConsistent
<1>3. QED
  BY <1>1, <1>2, Invariance, PTL DEF Spec, ViewKept

-----------------------------------------------------------------------------
(* How a clone comes off its branch.                                        *)

\* Authors are set once, crashes are counted, and HEAD is detached by a rebase.
LEMMA BranchStep ==
    ASSUME TypeOK, [Next]_vars
    PROVE  /\ \A e \in Edits : author[e] # Nobody => author'[e] = author[e]
           /\ crashes' >= crashes
           /\ \/ UNCHANGED onBranch
              \/ crashes' > 0
              \/ \E d \in Devices : RebaseConflict(d) \/ PickRefused(d)
<1> USE DEF TypeOK, repo, tree
<1> DEFINE Calm == UNCHANGED <<author, crashes, onBranch>>
<1>1. CASE UNCHANGED vars
  BY <1>1 DEF vars
<1>2. ASSUME NEW d \in Devices, NEW e \in Edits, Edit(d, e)
      PROVE  /\ UNCHANGED <<crashes, onBranch>>
             /\ \A f \in Edits : author[f] # Nobody => author'[f] = author[f]
  BY <1>2 DEF Edit
<1>3. ASSUME NEW d \in Devices, User(d) PROVE Calm
  BY <1>3 DEF User, Start, ManualPull, FrameOpened, FrameDeleted, Exit
<1>4. ASSUME NEW d \in Devices, Pull(d) PROVE Calm
  BY <1>4 DEF Pull, PullSkip, PullRefused, PullNetFail, PullDetached, PullFetch, Pulled
<1>5. ASSUME NEW d \in Devices, Rebase(d)
      PROVE  /\ UNCHANGED author
             /\ \/ Calm
                \/ UNCHANGED crashes /\ (RebaseConflict(d) \/ PickRefused(d))
                \/ crashes' = crashes + 1
  BY <1>5 DEF Rebase, RebaseRefused, RebaseStart, RebaseClean, RebaseConflict,
              PickRefused, PickFails, StopRebase, Pulled
<1>6. ASSUME NEW d \in Devices, Record(d) PROVE Calm
  BY <1>6 DEF Record, CheckSkip, CheckGo, Add, AddFails, Commit, CommitFails, Pushed
<1>7. ASSUME NEW d \in Devices, Push(d) PROVE Calm
  BY <1>7 DEF Push, PushAccepted, PushFails, PushLostAnswer, Pushed
<1>8. ASSUME NEW d \in Devices, Crash(d) \/ CrashInRebase(d)
      PROVE  UNCHANGED author /\ crashes' = crashes + 1
  BY <1>8 DEF Crash, CrashInRebase, StopRebase, Dies, Quits, Stop
<1>9. QED
  BY <1>1, <1>2, <1>3, <1>4, <1>5, <1>6, <1>7, <1>8 DEF Next, Sync

\* A conflict is between an edit of this device and one of another: what the
\* upstream has and the branch does not was made elsewhere.
LEMMA ConflictIsShared ==
    ASSUME IInv, NEW d \in Devices, RebaseConflict(d)
    PROVE  \E e, f \in Edits : /\ author[e] = d /\ author[f] \notin {d, Nobody}
                              /\ e # f /\ NoteOf[e] = NoteOf[f]
<1> USE DEF IInv, TypeOK, ClonesConsistent
<1>1. PICK k \in 1 .. commits[d] : Clash(CommitNo(d, k), Incoming(d))
  BY DEF RebaseConflict
<1>2. PICK e \in CommitNo(d, k), f \in Incoming(d) : NoteOf[e] = NoteOf[f]
  BY <1>1 DEF Clash, NotesOf
<1>3. e \in ahead[d] /\ f \in tracking[d] \ Branch(d) /\ e \in Edits /\ f \in Edits
  BY DEF CommitNo, Pending, Incoming
<1>4. author[e] = d
  BY <1>3 DEF OwnCommits
<1>5. f \in remote
  BY <1>3 DEF KnownUpstream
<1>6. author[f] # Nobody
  BY <1>5 DEF PublishedWasMade
<1>7. onBranch[d]
  BY DEF RebaseConflict, RebasesBranch
<1>8. f \notin Branch(d) \cup detached[d] \cup dirty[d]
  BY <1>3, <1>5, <1>7 DEF NewWork
<1>9. author[f] # d
  BY <1>3, <1>6, <1>8 DEF NoEditLost
<1>10. QED
  BY <1>2, <1>3, <1>4, <1>6, <1>9

\* A work tree that no other program writes keeps, while the local commits are
\* replayed, out of the way of them.
PicksCalm ==
    \A d \in Devices \ OtherEditors : pc[d] = "pick" => ~Clash(dirty[d], Pending(d))

LEMMA PicksCalmStep ==
    ASSUME IInv, PicksCalm, [Next]_vars PROVE PicksCalm'
<1> USE DEF IInv, TypeOK, PicksCalm, GoTo, Clash, NotesOf, Pending, repo, tree, emacs
<1>1. CASE UNCHANGED vars
  BY <1>1 DEF vars
<1>2. ASSUME NEW d \in Devices, NEW e \in Edits, Edit(d, e) PROVE PicksCalm'
  BY <1>2 DEF Edit, Attended
<1>3. ASSUME NEW d \in Devices, User(d) PROVE PicksCalm'
  BY <1>3 DEF User, Start, ManualPull, FrameOpened, FrameDeleted, Exit
<1>4. ASSUME NEW d \in Devices, Pull(d) PROVE PicksCalm'
  BY <1>4 DEF Pull, PullSkip, PullRefused, PullNetFail, PullDetached, PullFetch, Pulled,
              PullsNow
<1>5. ASSUME NEW d \in Devices, Rebase(d) PROVE PicksCalm'
  <2>1. CASE RebaseStart(d)
    <3>1. TrackedDirty(d) = {}
      BY <2>1 DEF RebaseStart, Overwrites, Replays, FastForward
    <3>2. Pending(d) \subseteq Head(d)
      BY <2>1 DEF RebaseStart, ClonesConsistent, RebasesBranch, Head
    <3>3. ~Clash(dirty[d], Pending(d))
      BY <3>1, <3>2 DEF TrackedDirty
    <3>4. QED
      BY <2>1, <3>3 DEF RebaseStart
  <2>2. CASE ~RebaseStart(d)
    BY <1>5, <2>2 DEF Rebase, RebaseRefused, RebaseClean, RebaseConflict, PickRefused,
                      PickFails, StopRebase, Conflicted, HalfPicked, Pulled
  <2>3. QED
    BY <2>1, <2>2
<1>6. ASSUME NEW d \in Devices, Record(d) PROVE PicksCalm'
  BY <1>6 DEF Record, CheckSkip, CheckGo, Add, AddFails, Commit, CommitFails, Pushed
<1>7. ASSUME NEW d \in Devices, Push(d) PROVE PicksCalm'
  BY <1>7 DEF Push, PushAccepted, PushFails, PushLostAnswer, Pushed
<1>8. ASSUME NEW d \in Devices, Crash(d) \/ CrashInRebase(d) PROVE PicksCalm'
  BY <1>8 DEF Crash, CrashInRebase, StopRebase, HalfPicked, Dies, Quits, Stop
<1>9. QED
  BY <1>1, <1>2, <1>3, <1>4, <1>5, <1>6, <1>7, <1>8 DEF Next, Sync

\* Two changes of one note, one of them by d and the other not by d's Emacs.
Met(d) ==
    \E e, f \in Edits : /\ author[e] = d /\ author[f] # Nobody
                        /\ e # f /\ NoteOf[e] = NoteOf[f]
                        /\ author[f] # d \/ d \in OtherEditors

\* A pick is refused because of what another program has just written.
LEMMA RefusalIsShared ==
    ASSUME IInv, PicksCalm, NEW d \in Devices, PickRefused(d) PROVE Met(d)
<1> USE DEF IInv, TypeOK, ClonesConsistent
<1>1. PICK k \in 1 .. commits[d] : Clash(CommitNo(d, k), dirty[d])
  BY DEF PickRefused
<1>2. PICK e \in CommitNo(d, k), f \in dirty[d] : NoteOf[e] = NoteOf[f]
  BY <1>1 DEF Clash, NotesOf
<1>3. e \in ahead[d] /\ e \in Pending(d) /\ e \in Edits /\ f \in Edits
  BY DEF CommitNo, Pending
<1>4. author[e] = d
  BY <1>3 DEF OwnCommits
<1>5. onBranch[d] /\ pc[d] = "pick"
  BY DEF PickRefused, RebasesBranch
<1>6. f \notin Branch(d) /\ f \notin remote
  BY <1>5 DEF NewWork
<1>7. e # f /\ author[f] = d
  BY <1>3, <1>6 DEF OnlyAuthorUnpublished
<1>8. d \in OtherEditors
  <2>1. Clash(dirty[d], Pending(d))
    BY <1>2, <1>3 DEF Clash, NotesOf
  <2>2. QED
    BY <1>5, <2>1 DEF PicksCalm
<1>9. QED
  BY <1>2, <1>3, <1>4, <1>7, <1>8, NobodyAssumption DEF Met

\* Devices stay on their branches, where no rebase is interrupted or broken and
\* neither another device nor another program changes the note they change.
THEOREM OnlyConflictsDetach == Spec => []DetachedByConflictOnly
<1>1. Init => DetachedByConflictOnly /\ PicksCalm
  BY DEF Init, DetachedByConflictOnly, PicksCalm
<1>2. IInv /\ PicksCalm /\ DetachedByConflictOnly /\ [Next]_vars
         => DetachedByConflictOnly'
  <2> SUFFICES ASSUME IInv, PicksCalm, DetachedByConflictOnly, [Next]_vars
               PROVE  DetachedByConflictOnly'
    OBVIOUS
  <2>1. TypeOK
    BY DEF IInv
  <2>2. ASSUME NEW d \in Devices, Met(d) PROVE Met(d)'
    BY <2>1, <2>2, BranchStep, NobodyAssumption DEF Met
  <2>3. ASSUME NEW d \in Devices, ~onBranch'[d]
        PROVE  crashes' > 0 \/ Met(d)'
    <3>1. CASE crashes' > 0
      BY <3>1
    <3>2. CASE ~onBranch[d]
      <4>1. crashes > 0 \/ Met(d)
        BY <3>2 DEF DetachedByConflictOnly, Met
      <4>2. crashes > 0 => crashes' > 0
        BY <2>1, TypeStep, BranchStep DEF TypeOK
      <4>3. QED
        BY <4>1, <4>2, <2>2
    <3>3. CASE onBranch[d] /\ ~(crashes' > 0)
      <4>1. PICK c \in Devices : RebaseConflict(c) \/ PickRefused(c)
        BY <2>1, <2>3, <3>3, BranchStep
      <4>2. c = d
        BY <2>1, <2>3, <3>3, <4>1 DEF RebaseConflict, PickRefused, StopRebase, TypeOK
      <4>3. Met(d)
        BY <4>1, <4>2, ConflictIsShared, RefusalIsShared DEF Met
      <4>4. QED
        BY <4>3, <2>2
    <3>4. QED
      BY <3>1, <3>2, <3>3
  <2>4. QED
    BY <2>3 DEF DetachedByConflictOnly, Met
<1>3. IInv /\ PicksCalm /\ [Next]_vars => PicksCalm'
  BY PicksCalmStep
<1>4. QED
  BY <1>1, <1>2, <1>3, Invariance, PTL DEF Spec

-----------------------------------------------------------------------------
(* A clone that is off its branch stays off it: the code runs no command that *)
(* brings it back, such as `git rebase --continue' or `git switch'.           *)

\* An edit of d that is not published when d's HEAD is detached.
Stranded(d, e) == ~onBranch[d] /\ author[e] = d /\ e \notin remote

\* Another device's edit that d's notes do not show when d's HEAD is detached.
Missed(d, e) == ~onBranch[d] /\ author[e] \notin {d, Nobody} /\ e \notin View(d)

\* HEAD never returns to the branch, and what it and the work tree gain there
\* are edits made on the spot.
LEMMA WedgedStep ==
    ASSUME TypeOK, StagedIsDirty, RebasesBranch, [Next]_vars,
           NEW c \in Devices, ~onBranch[c]
    PROVE  /\ ~onBranch'[c]
           /\ \A e \in Edits : author[e] \notin {c, Nobody} /\ e \notin View(c)
                                 => e \notin View(c)'
<1>1. ~onBranch'[c]
  BY NotesStep
<1> DEFINE Own == detached[c] \cup dirty[c] \cup {e \in Edits : author[e] = Nobody}
<1> SUFFICES (detached[c] \cup dirty[c])' \subseteq Own
  BY <1>1 DEF View, Head
<1> USE DEF TypeOK, StagedIsDirty, repo, tree
<1>2. CASE UNCHANGED vars
  BY <1>2 DEF vars
<1>3. ASSUME NEW d \in Devices, NEW e \in Edits, Edit(d, e)
      PROVE  (detached[c] \cup dirty[c])' \subseteq Own
  BY <1>3 DEF Edit
<1>4. ASSUME NEW d \in Devices, User(d)
      PROVE  (detached[c] \cup dirty[c])' \subseteq Own
  BY <1>4 DEF User, Start, ManualPull, FrameOpened, FrameDeleted, Exit
<1>5. ASSUME NEW d \in Devices, Pull(d)
      PROVE  (detached[c] \cup dirty[c])' \subseteq Own
  BY <1>5 DEF Pull, PullSkip, PullRefused, PullNetFail, PullDetached, PullFetch
<1>6. ASSUME NEW d \in Devices, Rebase(d)
      PROVE  (detached[c] \cup dirty[c])' \subseteq Own
  <2>1. d # c
    BY <1>6 DEF RebasesBranch, Rebase, RebaseRefused, RebaseStart, RebaseClean, Merges,
                RebaseConflict, PickRefused, PickFails
  <2>2. QED
    BY <1>6, <2>1 DEF Rebase, RebaseRefused, RebaseStart, RebaseClean, RebaseConflict,
                      PickRefused, PickFails, StopRebase, Conflicted, HalfPicked
<1>7. ASSUME NEW d \in Devices, Record(d)
      PROVE  (detached[c] \cup dirty[c])' \subseteq Own
  BY <1>7 DEF Record, CheckSkip, CheckGo, Add, AddFails, Commit, CommitFails
<1>8. ASSUME NEW d \in Devices, Push(d)
      PROVE  (detached[c] \cup dirty[c])' \subseteq Own
  BY <1>8 DEF Push, PushAccepted, PushFails, PushLostAnswer
<1>9. ASSUME NEW d \in Devices, Crash(d)
      PROVE  (detached[c] \cup dirty[c])' \subseteq Own
  BY <1>9 DEF Crash
<1>10. ASSUME NEW d \in Devices, CrashInRebase(d)
       PROVE  (detached[c] \cup dirty[c])' \subseteq Own
  <2>1. d # c
    BY <1>10 DEF RebasesBranch, CrashInRebase
  <2>2. QED
    BY <1>10, <2>1 DEF CrashInRebase, StopRebase, HalfPicked
<1>11. QED
  BY <1>2, <1>3, <1>4, <1>5, <1>6, <1>7, <1>8, <1>9, <1>10 DEF Next, Sync

\* A device's unpublished edits are published by itself or never, and only from
\* its branch: what a conflict or a crash strands, no later exit or pull of any
\* device publishes.
THEOREM StrandedForGood ==
    ASSUME NEW d \in Devices, NEW e \in Edits
    PROVE  Spec => [](Stranded(d, e) => []Stranded(d, e))
<1>1. IInv /\ Stranded(d, e) /\ [Next]_vars => Stranded(d, e)'
  <2> SUFFICES ASSUME IInv, Stranded(d, e), [Next]_vars PROVE Stranded(d, e)'
    OBVIOUS
  <2> USE DEF IInv, Stranded
  <2>1. ~onBranch'[d]
    BY WedgedStep DEF ClonesConsistent
  <2>2. author'[e] = d
    BY BranchStep, NobodyAssumption
  <2>3. e \notin remote'
    <3> SUFFICES ASSUME NEW c \in Devices, FastForwards(c), remote' = Branch(c)
                 PROVE  e \notin Branch(c)
      BY RemoteStep
    <3>1. c # d
      BY DEF FastForwards
    <3>2. QED
      BY <3>1 DEF OnlyAuthorUnpublished
  <2>4. QED
    BY <2>1, <2>2, <2>3
<1>2. QED
  BY <1>1, Invariance, PTL DEF Spec

\* ... and what such a clone has not merged it never shows, however often its
\* pulls say "Org vault synced".
THEOREM MissedForGood ==
    ASSUME NEW d \in Devices, NEW e \in Edits
    PROVE  Spec => [](Missed(d, e) => []Missed(d, e))
<1>1. IInv /\ Missed(d, e) /\ [Next]_vars => Missed(d, e)'
  <2> SUFFICES ASSUME IInv, Missed(d, e), [Next]_vars PROVE Missed(d, e)'
    OBVIOUS
  <2>1. ~onBranch'[d] /\ e \notin View(d)'
    BY WedgedStep DEF IInv, ClonesConsistent, Missed
  <2>2. author'[e] = author[e]
    BY BranchStep DEF IInv, Missed
  <2>3. QED
    BY <2>1, <2>2 DEF Missed
<1>2. QED
  BY <1>1, Invariance, PTL DEF Spec

-----------------------------------------------------------------------------
(* One device writes: `git status' of line 33 finds all that is to be pushed.  *)

\* Every edit is of w, nothing was interrupted, no rebase has anything to replay,
\* and only a clone that is about to push has commits that are not published.
OneWriter(w) ==
    /\ \A e \in Edits : author[e] \in {w, Nobody}
    /\ crashes = 0
    /\ \A d \in Devices : /\ onBranch[d] /\ pc[d] # "pick"
                          /\ pc[d] # "push" => ahead[d] \subseteq remote

\* The branch of the writer has all that is published, so there is nothing to
\* replay its commits on, and nothing is committed elsewhere.
LEMMA WriterIsAhead ==
    ASSUME IInv, NEW w \in Devices, OneWriter(w)
    PROVE  /\ FastForwards(w)
           /\ \A d \in Devices \ {w} : ahead[d] = {}
           /\ \A d \in Devices : ~Replays(d)
<1> USE DEF IInv, TypeOK, ClonesConsistent, OneWriter
<1>1. ASSUME NEW e \in remote PROVE e \in Branch(w)
  <2>1. author[e] = w
    BY DEF PublishedWasMade
  <2>2. e \in Branch(w) \cup detached[w] \cup dirty[w]
    BY <2>1, NobodyAssumption DEF NoEditLost
  <2>3. QED
    BY <2>2 DEF NewWork
<1>2. ASSUME NEW d \in Devices \ {w}, NEW e \in ahead[d] PROVE FALSE
  BY NobodyAssumption DEF OwnCommits
<1>3. ASSUME NEW d \in Devices, Replays(d) PROVE FALSE
  <2>1. d = w
    BY <1>2, <1>3 DEF Replays, Pending
  <2>2. QED
    BY <1>1, <1>3, <2>1 DEF Replays, Incoming, KnownUpstream
<1>4. QED
  BY <1>1, <1>2, <1>3 DEF FastForwards

LEMMA OneWriterStep ==
    ASSUME NEW w \in Devices, Writers \cup OtherEditors \subseteq {w},
           ~NetFails, MaxCrashes = 0,
           IInv, OneWriter(w), [Next]_vars
    PROVE  OneWriter(w)'
<1>1. TypeOK
  BY DEF IInv
<1> USE <1>1 DEF TypeOK, OneWriter, GoTo, repo, tree, emacs
<1>2. CASE UNCHANGED vars
  BY <1>2 DEF vars
<1>3. ASSUME NEW d \in Devices, NEW e \in Edits, Edit(d, e) PROVE OneWriter(w)'
  <2>1. d = w
    BY <1>3 DEF Edit
  <2>2. QED
    BY <1>3, <2>1 DEF Edit
<1>4. ASSUME NEW d \in Devices, User(d) PROVE OneWriter(w)'
  BY <1>4 DEF User, Start, ManualPull, Attended, FrameOpened, FrameDeleted, Exit
<1>5. ASSUME NEW d \in Devices, Pull(d) PROVE OneWriter(w)'
  BY <1>5 DEF Pull, PullSkip, PullRefused, PullNetFail, PullDetached, PullFetch, Pulled,
              PullsNow
<1>6. ASSUME NEW d \in Devices, Rebase(d) PROVE OneWriter(w)'
  <2>1. RebaseRefused(d) \/ RebaseClean(d)
    BY <1>6, WriterIsAhead DEF Rebase, RebaseStart, RebaseConflict, PickRefused, PickFails
  <2>2. QED
    BY <2>1 DEF RebaseRefused, RebaseClean, Merges, Pulled, Pending
<1>7. ASSUME NEW d \in Devices, Record(d) PROVE OneWriter(w)'
  BY <1>7 DEF Record, CheckSkip, CheckGo, Add, AddFails, Commit, CommitFails, Pushed
<1>8. ASSUME NEW d \in Devices, Push(d) PROVE OneWriter(w)'
  <2>1. CASE PushAccepted(d)
    BY <2>1 DEF PushAccepted, FastForwards, Pushed
  <2>2. CASE PushFails(d)
    <3>1. ahead[d] = {}
      BY <2>2, WriterIsAhead DEF PushFails
    <3>2. QED
      BY <2>2, <3>1 DEF PushFails, Pushed
  <2>3. QED
    BY <1>8, <2>1, <2>2 DEF Push, PushLostAnswer
<1>9. ASSUME NEW d \in Devices, Crash(d) \/ CrashInRebase(d) PROVE FALSE
  BY <1>9 DEF Crash, CrashInRebase, Dies, Quits, Stop
<1>10. QED
  BY <1>2, <1>3, <1>4, <1>5, <1>6, <1>7, <1>8, <1>9 DEF Next, Sync

\* With one writing device, a network that works and nothing interrupted, a clean
\* work tree means that everything is published, also where git commands fail or
\* another program writes the same clone: asking `git status' alone loses nothing.
THEOREM CleanTreeIsPublished ==
    ASSUME NEW w \in Devices, Writers \cup OtherEditors \subseteq {w},
           ~NetFails, MaxCrashes = 0
    PROVE  Spec => []CleanIsPublished
<1>1. Init => OneWriter(w)
  BY DEF Init, OneWriter
<1>2. IInv /\ OneWriter(w) /\ [Next]_vars => OneWriter(w)'
  BY OneWriterStep
<1>3. IInv /\ OneWriter(w) => CleanIsPublished
  BY DEF IInv, ClonesConsistent, KnownUpstream, OneWriter, CleanIsPublished, View, Head
<1>4. QED
  BY <1>1, <1>2, <1>3, Invariance, PTL DEF Spec

-----------------------------------------------------------------------------
(* The clones implement the shared vault.                                   *)

\* Recording, rebasing and failing move edits inside a clone.
HeldKept == \A d \in Devices : Held(d)' = Held(d)

LEMMA HeldQuiet == UNCHANGED <<remote, author, repo, tree>> => HeldKept /\ UNCHANGED remote
BY DEF HeldKept, Held, repo, tree

LEMMA EditSaves ==
    ASSUME IInv, NEW d \in Devices, NEW e \in Edits, Edit(d, e)
    PROVE  Shared!Save(d, e)
<1> USE DEF IInv, TypeOK, ClonesConsistent, Edit, repo
<1>1. \A c \in Devices : e \notin Held(c)
  BY NobodyAssumption DEF Held, OnlyAuthorUnpublished, PublishedWasMade
<1>2. e \notin remote
  BY DEF PublishedWasMade
<1>3. \A c \in Devices : Held(c)' = IF c = d THEN Held(c) \cup {e} ELSE Held(c)
  BY DEF Held
<1>4. QED
  BY <1>1, <1>2, <1>3 DEF Shared!Save

LEMMA FetchLearns ==
    ASSUME IInv, NEW d \in Devices, PullDetached(d) \/ PullFetch(d)
    PROVE  Shared!Learn(d)
<1> USE DEF IInv, TypeOK, ClonesConsistent, PullDetached, PullFetch, tree
<1>1. \A c \in Devices : Held(c)' = IF c = d THEN Held(c) \cup remote ELSE Held(c)
  BY DEF Held, KnownUpstream
<1>2. QED
  BY <1>1 DEF Shared!Learn

LEMMA AcceptPublishes ==
    ASSUME IInv, NEW d \in Devices, PushAccepted(d) \/ PushLostAnswer(d)
    PROVE  Shared!Publish(d)
<1> USE DEF IInv, TypeOK, ClonesConsistent, PushAccepted, PushLostAnswer,
            FastForwards, repo, tree
<1>1. \A c \in Devices : Held(c)' = Held(c)
  BY DEF Held, KnownUpstream
<1>2. Branch(d) \subseteq Held(d) /\ remote \subseteq Branch(d) /\ remote' = Branch(d)
  BY DEF Held
<1>3. remote \subseteq Held(d) /\ \E S \in SUBSET Held(d) : remote' = remote \cup S
  BY <1>2
<1>4. QED
  BY <1>1, <1>3 DEF Shared!Publish

LEMMA StopRebaseHolds ==
    ASSUME IInv, NEW d \in Devices, Stops(d)
    PROVE  HeldKept /\ UNCHANGED remote
<1> USE DEF IInv, TypeOK, ClonesConsistent
<1>1. PICK k \in Nat : StopRebase(d, k) /\ (Conflicted(d, k) \/ HalfPicked(d, k))
  BY StopsSomewhere
<1>2. onBranch[d] /\ detached[d] = {}
  BY StopsSomewhere DEF RebasesBranch, NewWork
<1>3. QED
  BY <1>1, <1>2 DEF HeldKept, Held, StopRebase, Conflicted, HalfPicked, CommitNo,
                    Earlier, Pending, tree

LEMMA AbstractStep ==
    ASSUME IInv, [Next]_vars PROVE [Shared!Next]_(Shared!vars)
<1>1. ASSUME HeldKept /\ UNCHANGED remote PROVE UNCHANGED Shared!vars
  BY <1>1 DEF HeldKept, Shared!vars
<1>2. CASE UNCHANGED vars
  BY <1>1, <1>2, HeldQuiet DEF vars
<1>3. ASSUME NEW d \in Devices, NEW e \in Edits, Edit(d, e) PROVE Shared!Next
  BY <1>3, EditSaves DEF Shared!Next
<1>4. ASSUME NEW d \in Devices, User(d) PROVE UNCHANGED Shared!vars
  BY <1>1, <1>4, HeldQuiet
     DEF User, Start, ManualPull, FrameOpened, FrameDeleted, Exit
<1>5. ASSUME NEW d \in Devices, Pull(d) PROVE Shared!Next \/ UNCHANGED Shared!vars
  BY <1>1, <1>5, HeldQuiet, FetchLearns
     DEF Pull, PullSkip, PullRefused, PullNetFail, Shared!Next
<1>6. ASSUME NEW d \in Devices, Rebase(d) PROVE UNCHANGED Shared!vars
  <2>1. CASE RebaseRefused(d) \/ RebaseStart(d)
    BY <1>1, <2>1, HeldQuiet DEF RebaseRefused, RebaseStart
  <2>2. CASE RebaseClean(d)
    <3>1. HeldKept /\ UNCHANGED remote
      BY <2>2 DEF IInv, TypeOK, HeldKept, Held, RebaseClean, Pending, tree
    <3>2. QED
      BY <1>1, <3>1
  <2>3. CASE RebaseConflict(d) \/ PickRefused(d) \/ PickFails(d)
    BY <1>1, <2>3, StopRebaseHolds DEF Stops
  <2>4. QED
    BY <1>6, <2>1, <2>2, <2>3 DEF Rebase
<1>7. ASSUME NEW d \in Devices, Record(d) PROVE UNCHANGED Shared!vars
  <2>1. CASE Add(d)
    <3>1. HeldKept /\ UNCHANGED remote
      BY <2>1 DEF HeldKept, Held, Add, repo
    <3>2. QED
      BY <1>1, <3>1
  <2>2. CASE Commit(d)
    <3>1. HeldKept /\ UNCHANGED remote
      BY <2>2 DEF IInv, TypeOK, ClonesConsistent, StagedIsDirty, HeldKept, Held, Commit
    <3>2. QED
      BY <1>1, <3>1
  <2>3. QED
    BY <1>1, <1>7, <2>1, <2>2, HeldQuiet
       DEF Record, CheckSkip, CheckGo, AddFails, CommitFails
<1>8. ASSUME NEW d \in Devices, Push(d) PROVE Shared!Next \/ UNCHANGED Shared!vars
  BY <1>1, <1>8, HeldQuiet, AcceptPublishes DEF Push, PushFails, Shared!Next
<1>9. ASSUME NEW d \in Devices, Crash(d) PROVE UNCHANGED Shared!vars
  BY <1>1, <1>9, HeldQuiet DEF Crash
<1>10. ASSUME NEW d \in Devices, CrashInRebase(d) PROVE UNCHANGED Shared!vars
  BY <1>1, <1>10, StopRebaseHolds DEF Stops
<1>11. QED
  BY <1>2, <1>3, <1>4, <1>5, <1>6, <1>7, <1>8, <1>9, <1>10 DEF Next, Sync

\* Seen as the set of published edits and the sets the devices hold, the system
\* only saves, learns and publishes, and publishes by compare-and-set.
THEOREM Refinement == Spec => ImplementsSharedVault
<1>1. Init => Shared!Init
  BY DEF Init, Shared!Init, Held
<1>2. IInv /\ [Next]_vars => [Shared!Next]_(Shared!vars)
  BY AbstractStep
<1>3. QED
  BY <1>1, <1>2, Invariance, PTL DEF Spec, ImplementsSharedVault, Shared!Spec
=============================================================================
