----------------------------- MODULE NoteBuffers -----------------------------
(***************************************************************************)
(* The notes of the vault on one device, before git sees them: what Emacs  *)
(* buffers, the files and their auto-save copies hold when the saving      *)
(* policy of helheim-core.el ("Auto save changes in files", "Auto revert") *)
(* meets the hooks of org-vault-sync.el.                                   *)
(*                                                                         *)
(* A text is the set of changes it contains.  A change belongs to one note,*)
(* so one set describes the text of all files, another that of all buffers.*)
(* Git does its work in one step here: VaultSync has its steps, failures   *)
(* and conflicts.                                                          *)
(***************************************************************************)
EXTENDS Naturals

CONSTANTS
    Notes,       \* the files of the vault
    Changes,     \* changes of notes: each is typed, or pulled, at most once
    NoteOf,      \* the note a change belongs to
    Theirs,      \* changes made on other devices; the others are typed here
    Daemon,      \* does Emacs run as a daemon?
    Ignored,     \* does the vault's .gitignore name the copies, "#*#"?
    MaxCrashes   \* bound on the crashes of Emacs

ASSUME ChangesAssumption ==
    NoteOf \in [Changes -> Notes] /\ Theirs \subseteq Changes
ASSUME SettingAssumption == Daemon \in BOOLEAN /\ Ignored \in BOOLEAN /\ MaxCrashes \in Nat

VARIABLES
    running,     \* Emacs is running
    orderly,     \* its last session ended by an exit, not by a crash
    crashes,     \* crashes so far
    open,        \* notes with a buffer
    buf,         \* text of the buffers
    modified,    \* buffers with unsaved changes
    changed,     \* ... and changed since they were auto-saved
    recent,      \* buffers auto-saved since they were read or saved
    stale,       \* buffers whose file was changed on disk since then
    disk,        \* text of the files
    copies,      \* notes that have an auto-save copy beside them
    copy,        \* text of the copies
    newer,       \* notes whose copy is newer than the file
    head,        \* text of the files in the last commit
    headCopies,  \* copies in the last commit ...
    headCopy,    \* ... and their text
    found,       \* text the copies had when Emacs was started
    kept,        \* changes that were in a file or in a copy once
    forgone,     \* changes the user agreed to lose
    typedOver    \* changes of a found copy whose note was typed in instead

session == <<running, orderly, crashes>>
buffers == <<open, buf, modified, changed, recent, stale>>
files   == <<disk, copies, copy, newer>>
commit  == <<head, headCopies, headCopy>>
lost    == <<forgone, typedOver>>
vars    == <<session, buffers, files, commit, found, kept, lost>>

NotesOf(T)       == {NoteOf[c] : c \in T}
In(T, S)         == {c \in T : NoteOf[c] \in S}
Replace(T, S, U) == {c \in T : NoteOf[c] \notin S} \cup In(U, S)

Init ==
    /\ running = FALSE /\ orderly = TRUE /\ crashes = 0
    /\ open = {} /\ buf = {} /\ modified = {} /\ changed = {} /\ recent = {} /\ stale = {}
    /\ disk = {} /\ copies = {} /\ copy = {} /\ newer = {}
    /\ head = {} /\ headCopies = {} /\ headCopy = {}
    /\ found = {} /\ kept = {} /\ forgone = {} /\ typedOver = {}

-----------------------------------------------------------------------------
(* Editing, auto-saving and saving.  No hook of the configuration and no    *)
(* variable names another directory for the copies: they are in the vault.  *)

\* find-file, which only shows a message when there is a copy newer than the file.
Open(n) ==
    /\ running /\ n \notin open
    /\ open' = open \cup {n}
    /\ buf'  = buf \cup In(disk, {n})
    /\ UNCHANGED <<session, modified, changed, recent, stale, files, commit, found, kept, lost>>

\* M-x recover-file, which wants a copy newer than the file, and asks.
Recover(n) ==
    /\ running /\ n \in newer \ modified
    /\ open'     = open \cup {n}
    /\ buf'      = Replace(buf, {n}, copy)
    /\ modified' = modified \cup {n}
    /\ changed'  = changed \cup {n}
    /\ recent'   = recent \ {n}
    /\ stale'    = stale \ {n}
    /\ forgone'  = forgone \cup (In(disk, {n}) \ copy)
    /\ UNCHANGED <<session, files, commit, found, kept, typedOver>>

\* A change is typed.  On a stale buffer Emacs asks first; one may go on.  Nothing
\* asks about a copy, which the next auto-save will overwrite.
Type(c) ==
    /\ running /\ c \in Changes \ (Theirs \cup buf \cup kept \cup forgone)
    /\ NoteOf[c] \in open
    /\ buf'      = buf \cup {c}
    /\ modified' = modified \cup {NoteOf[c]}
    /\ changed'  = changed \cup {NoteOf[c]}
    /\ typedOver' = typedOver \cup (In(copy \cap found, {NoteOf[c]}) \ (buf \cup disk))
    /\ UNCHANGED <<session, open, recent, stale, files, commit, found, kept, forgone>>

\* Mutant: buffers are only auto-saved once.
ToAutoSave_Mutant == changed \ recent

\* The buffers do-auto-save writes, all of them in one go.  It does not look at
\* what was deleted: auto-save-no-message t skips that check.
ToAutoSave == changed

AutoSave ==
    /\ running /\ ToAutoSave # {}
    /\ copies'  = copies \cup ToAutoSave
    /\ copy'    = Replace(copy, ToAutoSave, buf)
    /\ newer'   = newer \cup ToAutoSave
    /\ recent'  = recent \cup ToAutoSave
    /\ changed' = changed \ ToAutoSave
    /\ kept'    = kept \cup In(buf, ToAutoSave)
    /\ UNCHANGED <<session, open, buf, modified, stale, disk, commit, found, lost>>

\* What saving the buffers S makes of the files.  A copy is deleted only when
\* this session wrote it.
DiskAfter(S)   == Replace(disk, S, buf)
CopiesAfter(S) == copies \ (S \cap recent)
CopyAfter(S)   == In(copy, CopiesAfter(S))

\* Mutant: the modification time of the file is not looked at.
Overwritten_Mutant(S) == {}

\* Emacs asks before it overwrites a file that was changed on disk.
Overwritten(S) == In(disk, S \cap stale) \ buf

Save(n) ==
    /\ running /\ n \in modified
    /\ disk'     = DiskAfter({n})
    /\ copies'   = CopiesAfter({n})
    /\ copy'     = CopyAfter({n})
    /\ newer'    = newer \ {n}
    /\ modified' = modified \ {n}
    /\ changed'  = changed \ {n}
    /\ recent'   = recent \ {n}
    /\ stale'    = stale \ {n}
    /\ kept'     = kept \cup In(buf, {n})
    /\ forgone'  = forgone \cup Overwritten({n})
    /\ UNCHANGED <<session, open, buf, commit, found, typedOver>>

\* Mutant: revert-without-query holds for buffers with unsaved changes as well.
Reread_Mutant(n) ==
    /\ buf'      = Replace(buf, {n}, disk)
    /\ modified' = modified \ {n}
    /\ changed'  = changed \ {n}
    /\ recent'   = recent \ {n}
    /\ stale'    = stale \ {n}
    /\ UNCHANGED <<session, open, files, commit, found, kept, lost>>

\* The buffer is read again, and what only it had is gone.
Reread(n) ==
    /\ buf'      = Replace(buf, {n}, disk)
    /\ modified' = modified \ {n}
    /\ changed'  = changed \ {n}
    /\ recent'   = recent \ {n}
    /\ stale'    = stale \ {n}
    /\ forgone'  = forgone \cup (In(buf, {n}) \ disk)
    /\ UNCHANGED <<session, open, files, commit, found, kept, typedOver>>

\* M-x revert-buffer, which asks when there are unsaved changes.
Revert(n) == running /\ n \in modified /\ Reread(n)

\* global-auto-revert-mode polls the files of the buffers without changes.
AutoRevert(n) == running /\ n \in stale \ modified /\ Reread(n)

\* Mutant: the auto-save that is due does not go with the buffer.
Kill_Mutant(n) ==
    /\ running /\ n \in open
    /\ open'     = open \ {n}
    /\ buf'      = Replace(buf, {n}, {})
    /\ modified' = modified \ {n}
    /\ recent'   = recent \ {n}
    /\ stale'    = stale \ {n}
    /\ forgone'  = forgone \cup (In(buf, {n}) \ disk)
    /\ UNCHANGED <<session, changed, files, commit, found, kept, typedOver>>

\* The copy of a changed buffer is deleted on request, if this session wrote it.
Kill(n) ==
    /\ running /\ n \in open
    /\ open'     = open \ {n}
    /\ buf'      = Replace(buf, {n}, {})
    /\ modified' = modified \ {n}
    /\ changed'  = changed \ {n}
    /\ recent'   = recent \ {n}
    /\ stale'    = stale \ {n}
    /\ forgone'  = forgone \cup (In(buf, {n}) \ disk)
    /\ \/ UNCHANGED <<copies, copy, newer>>
       \/ /\ n \in modified \cap recent \cap copies
          /\ copies' = copies \ {n}
          /\ copy'   = Replace(copy, {n}, {})
          /\ newer'  = newer \ {n}
    /\ UNCHANGED <<session, disk, commit, found, kept, typedOver>>

-----------------------------------------------------------------------------
(* The hooks of org-vault-sync.el.                                          *)

\* `git add -A' and `git commit' record the files T and the copies C.
Record(T, C) ==
    /\ head'       = T
    /\ headCopies' = IF Ignored THEN {} ELSE C
    /\ headCopy'   = IF Ignored THEN {} ELSE In(copy, C)

\* What `git pull --rebase' calls unstaged changes: of tracked files, and of
\* tracked copies.
TreeClean ==
    /\ In(disk, NotesOf(head)) = head
    /\ headCopies \subseteq copies /\ In(copy, headCopies) = headCopy

\* Mutant: `git reset --hard @{upstream}' in the place of the rebase.
Merges_Mutant(T) ==
    /\ disk'  = head \cup T
    /\ head'  = head \cup T
    /\ newer' = newer \ NotesOf(T)
    /\ stale' = stale \cup (open \cap (NotesOf(T) \cup NotesOf(disk \ head)))
    /\ kept'  = kept \cup T
    /\ UNCHANGED <<copies, copy, headCopies, headCopy>>

\* The pull brings the changes T of other devices, without conflict; it does
\* not overwrite untracked files.
Merges(T) ==
    /\ TreeClean /\ In(disk, NotesOf(T)) = In(head, NotesOf(T))
    /\ disk'  = disk \cup T
    /\ head'  = head \cup T
    /\ newer' = newer \ NotesOf(T)
    /\ stale' = stale \cup (open \cap NotesOf(T))
    /\ kept'  = kept \cup T
    /\ UNCHANGED <<copies, copy, headCopies, headCopy>>

\* Refused, failed, or nothing new.
PullsNothing == UNCHANGED <<files, stale, commit, kept>>

Pull == PullsNothing \/ \E T \in (SUBSET (Theirs \ kept)) \ {{}} : Merges(T)

\* emacs-startup-hook; files are opened later.
Start ==
    /\ ~running
    /\ running' = TRUE
    /\ Pull
    /\ found' = copy
    /\ UNCHANGED <<orderly, crashes, open, buf, modified, changed, recent, lost>>

\* M-x org-vault-sync-pull, and server-after-make-frame-hook.
PullAgain ==
    /\ running /\ Pull
    /\ UNCHANGED <<session, open, buf, modified, changed, recent, found, lost>>

\* delete-frame-functions: nothing asks to save the buffers.
FrameDeleted ==
    /\ running /\ Daemon
    /\ Record(disk, copies)
    /\ UNCHANGED <<session, buffers, files, found, kept, lost>>

NoBuffers ==
    /\ open' = {} /\ buf' = {} /\ modified' = {} /\ changed' = {}
    /\ recent' = {} /\ stale' = {} /\ found' = {}

\* Mutant: the push runs before the user is asked to save.
Leave_Mutant(S) ==
    /\ running /\ S \subseteq modified
    /\ running' = FALSE /\ orderly' = TRUE
    /\ disk'    = DiskAfter(S)
    /\ Record(disk, copies)
    /\ LET late == changed \ S IN
       /\ copies' = CopiesAfter(S) \cup late
       /\ copy'   = Replace(CopyAfter(S), late, buf)
       /\ newer'  = (newer \ S) \cup late
       /\ kept'   = kept \cup In(buf, S \cup late)
    /\ NoBuffers
    /\ UNCHANGED crashes

\* The buffers S are saved, kill-emacs-hook pushes, and shut_down_emacs
\* auto-saves what is left, silently.
Leave(S) ==
    /\ running /\ S \subseteq modified
    /\ running' = FALSE /\ orderly' = TRUE
    /\ disk'    = DiskAfter(S)
    /\ Record(DiskAfter(S), CopiesAfter(S))
    /\ LET late == changed \ S IN
       /\ copies' = CopiesAfter(S) \cup late
       /\ copy'   = Replace(CopyAfter(S), late, buf)
       /\ newer'  = (newer \ S) \cup late
       /\ kept'   = kept \cup In(buf, S \cup late)
    /\ NoBuffers
    /\ UNCHANGED crashes

\* C-x C-c: the user saves what he wants and agrees to lose the rest.
Exit(S) ==
    /\ Leave(S)
    /\ forgone' = forgone \cup Overwritten(S) \cup (In(buf, modified \ S) \ disk)
    /\ UNCHANGED typedOver

\* SIGTERM, at the end of a desktop session: nobody is asked.
Terminated == Leave({}) /\ UNCHANGED lost

Crash ==
    /\ running /\ crashes < MaxCrashes
    /\ running' = FALSE /\ orderly' = FALSE /\ crashes' = crashes + 1
    /\ NoBuffers
    /\ UNCHANGED <<files, commit, kept, lost>>

-----------------------------------------------------------------------------
Buffer(n) == Open(n) \/ Recover(n) \/ Save(n) \/ Revert(n) \/ AutoRevert(n) \/ Kill(n)

Next ==
    \/ \E n \in Notes : Buffer(n)
    \/ \E c \in Changes : Type(c)
    \/ AutoSave
    \/ Start \/ PullAgain \/ FrameDeleted
    \/ \E S \in SUBSET Notes : Exit(S)
    \/ Terminated \/ Crash

Spec == Init /\ [][Next]_vars

\* The timer of auto-save goes off again and again.
FairSpec == Spec /\ WF_vars(AutoSave)

-----------------------------------------------------------------------------
(* Properties.                                                              *)

\* The types of the variables, and how the sets of buffers nest.
TypeOK ==
    /\ running \in BOOLEAN /\ orderly \in BOOLEAN /\ crashes \in Nat
    /\ open \subseteq Notes /\ buf \subseteq Changes
    /\ changed \subseteq modified /\ recent \subseteq open
    /\ modified \subseteq open /\ stale \subseteq open
    /\ disk \subseteq Changes /\ copies \subseteq Notes
    /\ copy \subseteq Changes /\ newer \subseteq copies
    /\ head \subseteq Changes /\ headCopies \subseteq Notes /\ headCopy \subseteq Changes
    /\ found \subseteq Changes /\ kept \subseteq Changes
    /\ forgone \subseteq Changes /\ typedOver \subseteq Changes

\* The notes that are not changed on another device.
Private == Notes \ NotesOf(Theirs)

\* Lines 605-629: a change that reached a file or a copy once is still in one, where
\* a crash does not harm it, with two exceptions.  The user was asked about losing
\* it; or an earlier session left it in a copy, and the note was typed in without
\* recovering that, which nothing asks about.
KeptUnlessTypedOver == kept \subseteq disk \cup copy \cup forgone \cup typedOver

\* Line 622: when only the copy of a closed note has a change, M-x recover-file
\* brings it back, for the copy is newer than the note.
Recoverable ==
    \A n \in copies \ open : n \in newer \/ In(copy, {n}) \subseteq disk \cup forgone

\* It does so for private notes, but for what was typed over.
PrivateRecoverable ==
    \A n \in (copies \cap Private) \ open :
        n \in newer \/ In(copy, {n}) \subseteq disk \cup forgone \cup typedOver

\* Lines 677-692: what is in a file is never overwritten behind the user's back,
\* whatever pulls, saves, reverts or recovers it.
NoSilentOverwrite == [][disk \ disk' \subseteq forgone']_disk

\* What the properties above rest on: a buffer whose file did not change shows
\* what is in it, and texts belong to buffers and copies that exist.
FreshShowsFile == \A c \in disk : NoteOf[c] \in open \ stale => c \in buf \cup forgone
TextsHaveOwners ==
    /\ \A c \in buf : NoteOf[c] \in open
    /\ \A c \in copy : NoteOf[c] \in copies

\* Buffers, files and copies agree: what a copy got in this session, or has of a
\* changed note, is in the buffer or the file, or gone with the user's doing; and an
\* outdated copy of a private note is not the last to have a text.
CopiesKnown ==
    /\ FreshShowsFile /\ TextsHaveOwners
    /\ \A c \in copy :
          NoteOf[c] \in modified \/ (running /\ c \notin found)
             => c \in buf \cup disk \cup forgone \cup typedOver
    /\ \A c \in In(copy, Private) :
          NoteOf[c] \in newer \/ c \in disk \cup forgone \cup typedOver

\* org-vault-sync.el:20: after an orderly exit nothing in the vault keeps the
\* pull of the next start from merging.
PullableAfterExit == ~running /\ orderly => TreeClean

\* What is typed is sooner or later in a file or a copy, unless Emacs dies first
\* or the user gives it up.
TypedIsKept == \A c \in Changes : c \in buf ~> c \in kept \cup forgone \/ ~running
=============================================================================
