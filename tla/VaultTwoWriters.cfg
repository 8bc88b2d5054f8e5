SPECIFICATION FairSpec
CONSTANTS
    laptop = laptop
    desktop = desktop
    kiosk = kiosk
    e1 = e1
    e2 = e2
    e3 = e3
    inbox = inbox
    errors = errors
    Nobody = Nobody
    Devices <- MCDevices
    Edits <- MCApart
    Notes <- MCNotes
    NoteOf <- MCApartNoteOf
    Daemons = {}
    Cloned = {laptop, desktop}
    Writers = {laptop, desktop}
    OtherEditors = {}
    Alarming = {}
    NetFails = FALSE
    GitFails = FALSE
    MaxFrames = 1
    MaxCrashes = 0
PROPERTY
    EditsPublished
