SPECIFICATION Spec
CONSTANTS
    laptop = laptop
    desktop = desktop
    kiosk = kiosk
    e1 = e1
    e2 = e2
    e3 = e3
    inbox = inbox
    errors = errors
    Nobody = Nobody
    Devices <- MCDevices
    Edits <- MCEdits
    Notes <- MCNotes
    NoteOf <- MCNoteOf
    Daemons = {}
    Cloned = {laptop, desktop}
    Writers = {laptop, desktop}
    OtherEditors = {laptop, desktop}
    Alarming <- MCAlarming
    NetFails = TRUE
    GitFails = TRUE
    MaxFrames = 1
    MaxCrashes = 1
SYMMETRY MCSymmetry
INVARIANT
    NoEditLost
    OnlyAuthorUnpublished
    DetachedByConflictOnly
    ClonesConsistent
PROPERTY
    ViewKept
    ImplementsSharedVault
