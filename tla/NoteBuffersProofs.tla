-------------------------- MODULE NoteBuffersProofs --------------------------
(***************************************************************************)
(* Theorems of NoteBuffers, for any notes, changes and number of crashes.   *)
(*                                                                          *)
(* TypeOK is inductive, and so is FreshShowsFile with it: every buffer that *)
(* Emacs does not know to be stale shows its file, which is why a save that *)
(* does not ask overwrites nothing.  What copies are worth takes the whole  *)
(* of CopiesKnown.  That an outdated copy is never the last to have a text   *)
(* is only true of notes that no other device changes, and of text that was *)
(* not typed over: NotesUnrecoverable shows what happens to the others.     *)
(***************************************************************************)
EXTENDS NoteBuffers, TLAPS

\* What the invariants are about, expanded in every step.
USE DEF In, Replace, NotesOf, session, buffers, files, commit, lost

-----------------------------------------------------------------------------
\* Every step of the specification keeps the types.
LEMMA TypeStep ==
    ASSUME TypeOK, [Next]_vars
    PROVE  TypeOK'
<1> USE ChangesAssumption, SettingAssumption DEF TypeOK
<1>1. ASSUME NEW n \in Notes, Open(n) PROVE TypeOK'
  BY <1>1 DEF Open
<1>2. ASSUME NEW n \in Notes, Recover(n) PROVE TypeOK'
  BY <1>2 DEF Recover
<1>3. ASSUME NEW n \in Notes, Save(n) PROVE TypeOK'
  BY <1>3 DEF Save, DiskAfter, CopiesAfter, CopyAfter, Overwritten
<1>4. ASSUME NEW n \in Notes, Revert(n) \/ AutoRevert(n) PROVE TypeOK'
  BY <1>4 DEF Revert, AutoRevert, Reread
<1>5. ASSUME NEW n \in Notes, Kill(n) PROVE TypeOK'
  BY <1>5 DEF Kill
<1>6. ASSUME NEW c \in Changes, Type(c) PROVE TypeOK'
  BY <1>6 DEF Type
<1>7. ASSUME AutoSave PROVE TypeOK'
  BY <1>7 DEF AutoSave, ToAutoSave
<1>8. ASSUME Start \/ PullAgain PROVE TypeOK'
  <2>1. /\ UNCHANGED <<crashes, orderly, open, buf, modified, changed, recent, forgone, typedOver>>
        /\ running' \in BOOLEAN /\ found' \subseteq Changes
    BY <1>8 DEF Start, PullAgain
  <2>2. CASE PullsNothing
    BY <2>1, <2>2 DEF PullsNothing
  <2>3. CASE \E T \in SUBSET (Theirs \ kept) : Merges(T)
    BY <2>1, <2>3 DEF Merges
  <2> QED
    BY <1>8, <2>2, <2>3 DEF Start, PullAgain, Pull
<1>9. ASSUME FrameDeleted PROVE TypeOK'
  BY <1>9 DEF FrameDeleted, Record
<1>10. ASSUME NEW S \in SUBSET Notes, Leave(S), forgone' \subseteq Changes,
             UNCHANGED typedOver
       PROVE TypeOK'
  BY <1>10 DEF Leave, DiskAfter, CopiesAfter, CopyAfter, Record, NoBuffers
<1>11. ASSUME NEW S \in SUBSET Notes, Exit(S) PROVE TypeOK'
  BY <1>10, <1>11 DEF Exit, Overwritten
<1>12. ASSUME Terminated PROVE TypeOK'
  BY <1>10, <1>12 DEF Terminated
<1>13. ASSUME Crash PROVE TypeOK'
  <2>1. crashes' \in Nat
    BY <1>13 DEF Crash
  <2>2. UNCHANGED <<disk, copies, copy, newer, head, headCopies, headCopy, kept, forgone, typedOver>>
    BY <1>13 DEF Crash
  <2> QED
    <3>1. /\ running' \in BOOLEAN /\ orderly' \in BOOLEAN
      BY <1>13 DEF Crash
    <3>2. NoBuffers
      BY <1>13 DEF Crash
    <3> QED
      BY <2>1, <2>2, <3>1, <3>2 DEF NoBuffers
<1>14. CASE UNCHANGED vars
  BY <1>14 DEF vars
<1> QED
  BY <1>1, <1>2, <1>3, <1>4, <1>5, <1>6, <1>7, <1>8, <1>9, <1>11, <1>12, <1>13, <1>14
  DEF Next, Buffer

LEMMA TypesAtStart ==
    ASSUME Init
    PROVE  TypeOK
<1>1. running \in BOOLEAN /\ orderly \in BOOLEAN
  BY DEF Init
<1>2. crashes \in Nat
  BY DEF Init
<1> QED
  BY <1>1, <1>2 DEF Init, TypeOK

\* The type invariant.
THEOREM TypesCorrect == Spec => []TypeOK
<1>1. Init => TypeOK
  BY TypesAtStart
<1>2. TypeOK /\ [Next]_vars => TypeOK'
  BY TypeStep
<1> QED
  BY <1>1, <1>2, PTL DEF Spec

-----------------------------------------------------------------------------
\* A buffer that is not stale shows its file: this is inductive with the types.
Fresh == TypeOK /\ FreshShowsFile /\ \A c \in buf : NoteOf[c] \in open

LEMMA FreshStep ==
    ASSUME Fresh, [Next]_vars
    PROVE  Fresh' /\ disk \ disk' \subseteq forgone'
<1> USE ChangesAssumption DEF TypeOK, Fresh, FreshShowsFile
<1>0. TypeOK'
  BY TypeStep
<1>1. ASSUME NEW n \in Notes, Open(n) PROVE Fresh' /\ disk \ disk' \subseteq forgone'
  BY <1>0, <1>1 DEF Open
<1>2. ASSUME NEW n \in Notes, Recover(n) PROVE Fresh' /\ disk \ disk' \subseteq forgone'
  BY <1>0, <1>2 DEF Recover
<1>3. ASSUME NEW n \in Notes, Save(n) PROVE Fresh' /\ disk \ disk' \subseteq forgone'
  BY <1>0, <1>3 DEF Save, DiskAfter, CopiesAfter, CopyAfter, Overwritten
<1>4. ASSUME NEW n \in Notes, Revert(n) \/ AutoRevert(n)
      PROVE  Fresh' /\ disk \ disk' \subseteq forgone'
  BY <1>0, <1>4 DEF Revert, AutoRevert, Reread
<1>5. ASSUME NEW n \in Notes, Kill(n) PROVE Fresh' /\ disk \ disk' \subseteq forgone'
  BY <1>0, <1>5 DEF Kill
<1>6. ASSUME NEW c \in Changes, Type(c) PROVE Fresh' /\ disk \ disk' \subseteq forgone'
  BY <1>0, <1>6 DEF Type
<1>7. ASSUME AutoSave PROVE Fresh' /\ disk \ disk' \subseteq forgone'
  BY <1>0, <1>7 DEF AutoSave
<1>8. ASSUME Start \/ PullAgain PROVE Fresh' /\ disk \ disk' \subseteq forgone'
  <2>1. UNCHANGED <<open, buf, modified, changed, recent, forgone, typedOver>>
    BY <1>8 DEF Start, PullAgain
  <2>2. CASE PullsNothing
    BY <1>0, <2>1, <2>2 DEF PullsNothing
  <2>3. ASSUME NEW T \in SUBSET (Theirs \ kept), Merges(T)
        PROVE  Fresh' /\ disk \ disk' \subseteq forgone'
    BY <1>0, <2>1, <2>3 DEF Merges
  <2> QED
    BY <1>8, <2>2, <2>3 DEF Start, PullAgain, Pull
<1>9. ASSUME FrameDeleted PROVE Fresh' /\ disk \ disk' \subseteq forgone'
  BY <1>0, <1>9 DEF FrameDeleted
<1>10. ASSUME NEW S \in SUBSET Notes, Leave(S), forgone \cup Overwritten(S) \subseteq forgone',
             UNCHANGED typedOver
       PROVE  Fresh' /\ disk \ disk' \subseteq forgone'
  BY <1>0, <1>10 DEF Leave, DiskAfter, Overwritten, NoBuffers
<1>11. ASSUME NEW S \in SUBSET Notes, Exit(S) PROVE Fresh' /\ disk \ disk' \subseteq forgone'
  BY <1>10, <1>11 DEF Exit
<1>12. ASSUME Terminated PROVE Fresh' /\ disk \ disk' \subseteq forgone'
  <2>1. Overwritten({}) = {}
    BY DEF Overwritten
  <2> QED
    BY <1>10, <1>12, <2>1 DEF Terminated
<1>13. ASSUME Crash PROVE Fresh' /\ disk \ disk' \subseteq forgone'
  BY <1>0, <1>13 DEF Crash, NoBuffers
<1>14. CASE UNCHANGED vars
  BY <1>0, <1>14 DEF vars
<1> QED
  BY <1>1, <1>2, <1>3, <1>4, <1>5, <1>6, <1>7, <1>8, <1>9, <1>11, <1>12, <1>13, <1>14
  DEF Next, Buffer

LEMMA FreshInvariant == Spec => []Fresh
<1>1. Init => Fresh
  <2> SUFFICES ASSUME Init PROVE FreshShowsFile /\ \A c \in buf : NoteOf[c] \in open
    BY TypesAtStart DEF Fresh
  <2> QED
    BY DEF Init, FreshShowsFile
<1>2. Fresh /\ [Next]_vars => Fresh'
  BY FreshStep
<1> QED
  BY <1>1, <1>2, PTL DEF Spec

\* What is in a file is only overwritten when the user was asked: by a save of a
\* stale buffer, or by recover-file.
THEOREM FilesAreSafe == Spec => NoSilentOverwrite
<1>1. Fresh /\ [Next]_vars => [disk \ disk' \subseteq forgone']_disk
  BY FreshStep
<1> QED
  BY <1>1, FreshInvariant, PTL DEF Spec, NoSilentOverwrite

-----------------------------------------------------------------------------
\* The strengthening: what files, copies and buffers hold together.
Kept == Fresh /\ CopiesKnown /\ KeptUnlessTypedOver

LEMMA KeptStep ==
    ASSUME Kept, [Next]_vars
    PROVE  Kept'
<1> USE ChangesAssumption
    DEF TypeOK, Fresh, FreshShowsFile, TextsHaveOwners, CopiesKnown, KeptUnlessTypedOver, Kept
<1>0. Fresh' /\ disk \ disk' \subseteq forgone'
  BY FreshStep
<1>1. ASSUME NEW n \in Notes, Open(n) PROVE Kept'
  BY <1>0, <1>1 DEF Open
<1>2. ASSUME NEW n \in Notes, Recover(n) PROVE Kept'
  BY <1>0, <1>2 DEF Recover
<1>3. ASSUME NEW n \in Notes, Save(n) PROVE Kept'
  BY <1>0, <1>3 DEF Save, DiskAfter, CopiesAfter, CopyAfter, Overwritten
<1>4. ASSUME NEW n \in Notes, Revert(n) \/ AutoRevert(n) PROVE Kept'
  BY <1>0, <1>4 DEF Revert, AutoRevert, Reread
<1>5. ASSUME NEW n \in Notes, Kill(n) PROVE Kept'
  BY <1>0, <1>5 DEF Kill
<1>6. ASSUME NEW c \in Changes, Type(c) PROVE Kept'
  BY <1>0, <1>6 DEF Type
<1>7. ASSUME AutoSave PROVE Kept'
  BY <1>0, <1>7 DEF AutoSave, ToAutoSave
<1>8. ASSUME Start \/ PullAgain PROVE Kept'
  <2>1. UNCHANGED <<open, buf, modified, changed, recent, forgone, typedOver>>
    BY <1>8 DEF Start, PullAgain
  <2>0. found' = copy \/ UNCHANGED <<running, found>>
    BY <1>8 DEF Start, PullAgain
  <2>2. CASE PullsNothing
    BY <1>0, <2>0, <2>1, <2>2 DEF PullsNothing
  <2>3. ASSUME NEW T \in SUBSET (Theirs \ kept), Merges(T) PROVE Kept'
    <3>1. Private \cap NotesOf(T) = {}
      BY DEF Private
    <3>2. UNCHANGED copy /\ disk \subseteq disk'
      BY <2>3 DEF Merges
    <3>3. CopiesKnown'
      BY <1>0, <2>0, <2>1, <2>3, <3>1, <3>2 DEF Merges
    <3>4. KeptUnlessTypedOver'
      BY <2>1, <2>3, <3>2 DEF Merges
    <3> QED
      BY <1>0, <3>3, <3>4
  <2> QED
    BY <1>8, <2>2, <2>3 DEF Start, PullAgain, Pull
<1>9. ASSUME FrameDeleted PROVE Kept'
  BY <1>0, <1>9 DEF FrameDeleted
<1>10. ASSUME NEW S \in SUBSET Notes, Leave(S), forgone \cup Overwritten(S) \subseteq forgone',
             UNCHANGED typedOver
       PROVE  Kept'
  BY <1>0, <1>10 DEF Leave, DiskAfter, CopiesAfter, CopyAfter, Overwritten, NoBuffers
<1>11. ASSUME NEW S \in SUBSET Notes, Exit(S) PROVE Kept'
  BY <1>10, <1>11 DEF Exit
<1>12. ASSUME Terminated PROVE Kept'
  <2>1. Overwritten({}) = {}
    BY DEF Overwritten
  <2> QED
    BY <1>10, <1>12, <2>1 DEF Terminated
<1>13. ASSUME Crash PROVE Kept'
  BY <1>0, <1>13 DEF Crash, NoBuffers
<1>14. CASE UNCHANGED vars
  BY <1>0, <1>14 DEF vars
<1> QED
  BY <1>1, <1>2, <1>3, <1>4, <1>5, <1>6, <1>7, <1>8, <1>9, <1>11, <1>12, <1>13, <1>14
  DEF Next, Buffer

LEMMA KeptInvariant == Spec => []Kept
<1>1. Init => Kept
  <2> SUFFICES ASSUME Init PROVE Kept
    OBVIOUS
  <2>1. Fresh
    BY TypesAtStart DEF Init, Fresh, FreshShowsFile
  <2> QED
    BY <2>1 DEF Init, Kept, CopiesKnown, Fresh, TextsHaveOwners, KeptUnlessTypedOver
<1>2. Kept /\ [Next]_vars => Kept'
  BY KeptStep
<1> QED
  BY <1>1, <1>2, PTL DEF Spec

\* What was saved or auto-saved once outlives any crash, termination and pull,
\* until the user is asked about it or types over the copy he found ...
THEOREM TextsAreKept == Spec => []KeptUnlessTypedOver
<1>1. Kept => KeptUnlessTypedOver
  BY DEF Kept
<1> QED
  BY <1>1, KeptInvariant, PTL

\* ... and, where no other device changes the note and nothing was typed over it,
\* can be had with recover-file when only the copy has it.
THEOREM CopiesAreRecoverable == Spec => []PrivateRecoverable
<1>1. Kept => PrivateRecoverable
  BY DEF Kept, CopiesKnown, PrivateRecoverable
<1> QED
  BY <1>1, KeptInvariant, PTL

\* The relation of buffers, files and copies that both theorems rest on.
THEOREM CopiesAreKnown == Spec => []CopiesKnown
<1>1. Kept => CopiesKnown
  BY DEF Kept
<1> QED
  BY <1>1, KeptInvariant, PTL

-----------------------------------------------------------------------------
\* With the copies ignored, the last thing an exit does to tracked files is to
\* commit them.
THEOREM ExitLeavesPullable == Ignored => (Spec => []PullableAfterExit)
<1> DEFINE Inv == /\ PullableAfterExit
                  /\ headCopies = {} /\ headCopy = {}
<1> SUFFICES ASSUME Ignored PROVE Spec => []PullableAfterExit
  OBVIOUS
<1>1. Init => Inv
  BY DEF Init, PullableAfterExit, TreeClean
<1>2. Inv /\ [Next]_vars => Inv'
  <2> SUFFICES ASSUME Inv, [Next]_vars PROVE Inv'
    OBVIOUS
  <2> USE DEF PullableAfterExit, TreeClean
  <2>1. ASSUME NEW n \in Notes, Buffer(n) PROVE Inv'
    BY <2>1 DEF Buffer, Open, Recover, Save, Revert, AutoRevert, Reread, Kill
  <2>2. ASSUME NEW c \in Changes, Type(c) PROVE Inv'
    BY <2>2 DEF Type
  <2>3. CASE AutoSave
    BY <2>3 DEF AutoSave
  <2>4. CASE Start
    BY <2>4 DEF Start, Pull, PullsNothing, Merges
  <2>5. CASE PullAgain
    BY <2>5 DEF PullAgain, Pull, PullsNothing, Merges
  <2>6. CASE FrameDeleted
    BY <2>6 DEF FrameDeleted, Record
  <2>7. ASSUME NEW S \in SUBSET Notes, Leave(S) PROVE Inv'
    BY <2>7 DEF Leave, Record
  <2>8. CASE Crash
    BY <2>8 DEF Crash
  <2>9. CASE UNCHANGED vars
    BY <2>9 DEF vars
  <2> QED
    BY <2>1, <2>2, <2>3, <2>4, <2>5, <2>6, <2>7, <2>8, <2>9 DEF Next, Exit, Terminated
<1>3. Inv => PullableAfterExit
  OBVIOUS
<1> QED
  BY <1>1, <1>2, <1>3, PTL DEF Spec
=============================================================================
