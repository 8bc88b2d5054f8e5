----------------------------- MODULE DailyNotes -----------------------------
(***************************************************************************)
(* Daily notes (helheim-daily-notes.el): one note per day, made with its   *)
(* title by helheimg-daily-note, or by org-capture through                 *)
(* org-default-notes-file, and the commands that go from note to note.     *)
(* A note is its day.                                                      *)
(***************************************************************************)
EXTENDS Integers, FiniteSets

CONSTANTS
    LastDay,     \* bound on the days: 1 .. LastDay
    MaxJump,     \* bound on the numeric argument
    MaxTitles    \* bound on the titles in a note

ASSUME DailyAssumption == LastDay \in Nat \ {0} /\ MaxJump \in Nat /\ MaxTitles \in Nat \ {0}

Days == 1 .. LastDay
NoDay == 0

VARIABLES
    today,       \* the day
    default,     \* org-default-notes-file, set when the file is loaded
    files,       \* notes with a file
    buffers,     \* notes with a buffer
    inFile,      \* titles in each file
    inBuffer,    \* titles in each buffer
    capturing,   \* the note of a capture that is not finished, or NoDay
    captured,    \* notes that a capture saved from a buffer without a title
    vanished,    \* notes whose file went away under their buffer
    here,        \* the note of the current buffer, or NoDay
    jump         \* the argument of the last step, if it went to another note

clock       == <<today, default>>
fileState   == <<files, inFile, captured>>
bufferState == <<buffers, inBuffer>>
dailyVars   == <<clock, fileState, bufferState, capturing, vanished, here, jump>>

DailyInit ==
    /\ today = 1 /\ default = 1
    /\ files \in SUBSET Days
    /\ inFile = [d \in Days |-> IF d \in files THEN 1 ELSE 0]
    /\ buffers = {} /\ inBuffer = [d \in Days |-> 0]
    /\ captured = {} /\ vanished = {}
    /\ capturing = NoDay /\ here = NoDay /\ jump = 0

-----------------------------------------------------------------------------
Midnight ==
    /\ today < LastDay /\ today' = today + 1 /\ jump' = 0
    /\ UNCHANGED <<default, fileState, bufferState, capturing, vanished, here>>

\* Emacs is restarted: what is not in a file is lost, and the default note
\* computed anew.
Reload ==
    /\ default' = today /\ jump' = 0
    /\ buffers' = {} /\ inBuffer' = [d \in Days |-> 0]
    /\ capturing' = NoDay /\ here' = NoDay
    /\ UNCHANGED <<today, fileState, vanished>>

\* What a buffer has after find-file: a new one is read from the file, if any.
Visited(d) == IF d \in buffers THEN inBuffer[d] ELSE inFile[d]

Visit(d) ==
    /\ buffers' = buffers \cup {d}
    /\ inBuffer' = [inBuffer EXCEPT ![d] = Visited(d)]

\* The title is inserted and the buffer saved.
InsertTitle(d) ==
    /\ buffers' = buffers \cup {d} /\ files' = files \cup {d}
    /\ inBuffer' = [inBuffer EXCEPT ![d] = Visited(d) + 1]
    /\ inFile'   = [inFile EXCEPT ![d] = Visited(d) + 1]

\* Mutant: the title is inserted at every visit.
DailyNote_Mutant(d) ==
    /\ Visited(d) < MaxTitles /\ InsertTitle(d)
    /\ here' = d /\ jump' = 0
    /\ UNCHANGED <<clock, captured, vanished, capturing>>

\* helheimg-daily-note, for today or a chosen day.  It asks for a file, visits
\* a buffer, and inserts the title if there was no file.
DailyNote(d) ==
    /\ \/ d \in files /\ Visit(d) /\ UNCHANGED <<files, inFile>>
       \/ d \notin files /\ Visited(d) < MaxTitles /\ InsertTitle(d)
    /\ here' = d /\ jump' = 0
    /\ UNCHANGED <<clock, captured, vanished, capturing>>

\* org-capture visits the default note ...
Capture ==
    /\ capturing = NoDay /\ capturing' = default
    /\ Visit(default) /\ jump' = 0
    /\ UNCHANGED <<clock, fileState, vanished, here>>

\* ... and saves it when it is finished, also over a file that a pull has
\* brought or changed since then (Emacs asks first).
CaptureDone ==
    /\ capturing # NoDay /\ capturing' = NoDay
    /\ files' = files \cup {capturing}
    /\ inFile' = [inFile EXCEPT ![capturing] = inBuffer[capturing]]
    /\ captured' = captured \cup {d \in {capturing} : inBuffer[d] = 0}
    /\ jump' = 0
    /\ UNCHANGED <<clock, bufferState, vanished, here>>

\* The capture is aborted; a buffer that was opened for it may be killed.
CaptureAborted ==
    /\ capturing # NoDay /\ capturing' = NoDay
    /\ \/ UNCHANGED bufferState
       \/ /\ capturing # here
          /\ buffers' = buffers \ {capturing}
          /\ inBuffer' = [inBuffer EXCEPT ![capturing] = 0]
    /\ jump' = 0
    /\ UNCHANGED <<clock, fileState, vanished, here>>

\* A pull brings the note that another device made, also under a buffer that has
\* no file yet, or takes one away.
Pulled(d) ==
    /\ \/ /\ d \notin files /\ files' = files \cup {d}
          /\ inFile' = [inFile EXCEPT ![d] = 1]
          /\ UNCHANGED vanished
       \/ /\ d \in files /\ files' = files \ {d}
          /\ inFile' = [inFile EXCEPT ![d] = 0]
          /\ vanished' = vanished \cup ({d} \cap buffers)
    /\ jump' = 0
    /\ UNCHANGED <<clock, captured, bufferState, capturing, here>>

\* Auto-revert, or find-file, reads a changed file again.
Reverted(d) ==
    /\ d \in (files \cap buffers) \ {capturing} /\ inBuffer[d] # inFile[d]
    /\ inBuffer' = [inBuffer EXCEPT ![d] = inFile[d]]
    /\ jump' = 0
    /\ UNCHANGED <<clock, fileState, buffers, capturing, vanished, here>>

\* helheim-daily-next with argument n: helheim-daily-list-files is sorted,
\* and nth takes a negative index for 0 and finds nil behind the end.
Index(d) == Cardinality({e \in files : e < d})
Nth(i)   == CHOOSE d \in files : Index(d) = IF i < 0 THEN 0 ELSE i

\* Mutant: the first note is not looked for.
Refused_Mutant(n) == here \notin files \/ Index(here) + n >= Cardinality(files)

Refused(n) ==
    \/ here \notin files
    \/ n > 0 /\ Index(here) + n >= Cardinality(files)
    \/ n <= 0 /\ Index(here) = 0

Jump(n) ==
    /\ ~Refused(n)
    /\ here' = Nth(Index(here) + n) /\ Visit(here') /\ jump' = n
    /\ UNCHANGED <<clock, fileState, capturing, vanished>>

DailyNext ==
    \/ Midnight \/ Reload \/ Capture \/ CaptureDone \/ CaptureAborted
    \/ \E d \in Days : DailyNote(d) \/ Pulled(d) \/ Reverted(d)
    \/ \E n \in -MaxJump .. MaxJump : Jump(n)

DailySpec == DailyInit /\ [][DailyNext]_dailyVars

-----------------------------------------------------------------------------
DailyTypeOK ==
    /\ today \in Days /\ default \in Days
    /\ capturing \in Days \cup {NoDay} /\ here \in Days \cup {NoDay}
    /\ files \subseteq Days /\ buffers \subseteq Days
    /\ captured \subseteq Days /\ vanished \subseteq Days
    /\ inFile \in [Days -> 0 .. MaxTitles] /\ inBuffer \in [Days -> 0 .. MaxTitles]
    /\ jump \in -MaxJump .. MaxJump

\* A note has its title exactly once, in whatever order captures, pulls and the
\* command come, a pull under an unfinished capture included.  A capture that
\* saves a buffer without a title leaves the note without one, and a note whose
\* file went away under its buffer may get another.
OneTitle ==
    \A d \in files : \/ inFile[d] = 1
                     \/ inFile[d] = 0 /\ d \in captured
                     \/ d \in vanished

\* "Find next daily-note" and "Find previous daily-note"
\* (helheim-daily-notes.el:95, :116): without an argument there is no other note
\* on the way, and the jump is never to the same note or the other way, whatever
\* the pulls have brought or taken since the note was visited.
NextNote ==
    /\ jump' = 1  => here' > here /\ \A e \in files : ~(here < e /\ e < here')
    /\ jump' = -1 => here' < here /\ \A e \in files : ~(here' < e /\ e < here)
JumpsToNext == [][NextNote]_dailyVars
=============================================================================
