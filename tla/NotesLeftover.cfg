SPECIFICATION Spec
CONSTANTS
    inbox = inbox
    daily = daily
    t1 = t1
    t2 = t2
    t3 = t3
    p1 = p1
    Notes <- MCNotes
    Changes <- MCChanges
    NoteOf <- MCNoteOf
    Theirs = {p1}
    Daemon = TRUE
    Ignored = FALSE
    MaxCrashes = 0
INVARIANT
    PullableAfterExit
