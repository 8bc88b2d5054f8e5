SPECIFICATION FairSpec
CONSTANTS
    laptop = laptop
    desktop = desktop
    kiosk = kiosk
    e1 = e1
    e2 = e2
    e3 = e3
    inbox = inbox
    errors = errors
    Nobody = Nobody
    Devices <- MCDevices
    Edits <- MCSame
    Notes <- MCNotes
    NoteOf <- MCSameNoteOf
    Daemons = {laptop}
    Cloned = {laptop, desktop}
    Writers = {laptop, desktop}
    OtherEditors = {}
    Alarming = {}
    NetFails = TRUE
    GitFails = FALSE
    MaxFrames = 1
    MaxCrashes = 1
PROPERTY
    EditsCommitted
    PushedMeansPublished
