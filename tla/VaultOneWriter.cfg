SPECIFICATION FairSpec
CONSTANTS
    laptop = laptop
    desktop = desktop
    kiosk = kiosk
    e1 = e1
    e2 = e2
    e3 = e3
    inbox = inbox
    errors = errors
    Nobody = Nobody
    Devices <- MCWithKiosk
    Edits <- MCSame
    Notes <- MCNotes
    NoteOf <- MCSameNoteOf
    Daemons = {laptop}
    Cloned = {laptop, desktop}
    Writers = {laptop}
    OtherEditors = {laptop}
    Alarming = {}
    NetFails = FALSE
    GitFails = FALSE
    MaxFrames = 1
    MaxCrashes = 0
INVARIANT
    TypeOK
    CleanIsPublished
PROPERTY
    EditsPublished
    EditsDelivered
