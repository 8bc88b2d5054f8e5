SPECIFICATION Spec
CONSTANTS
    MaxLoads = 1
    ThemeNames = {light, dark}
    MaxFaces = 2
    SBuffers = {b1, b2, b3}
    WBuffers = {b1, b2}
    WMajors = {org, markdown, code, special}
    Visual = {org}
    Text = {markdown}
    Unwrapped = {special}
    TextHook = {org, markdown}
    WrapHook = {markdown}
    FillStyle = "soft"
    HasDtrt = TRUE
    MaxToggles = 2
    Lines = {1, 2, 3}
    MaxIndent = 2
    eglot = eglot
    elisp = elisp
    dumb = dumb
    Backends = {eglot, elisp, dumb}
    Globals <- MCGlobals
    Rest = Rest
    f1 = f1
    f2 = f2
    f3 = f3
    Files = {f1, f2, f3}
    Dirs = {"top", "sub"}
    Top = "top"
    Names = {"a", "b"}
    Ids = {"created", "now"}
    NoId = NoId
    Created <- MCCreated
    MaxMoves = 2
    LastDay = 3
    MaxJump = 2
    MaxTitles = 2
    Tilde = 1000
    Home <- MCHome
    Roots <- MCRoots
    BufferDirs <- MCDirs
    IBuffers <- MCBuffers
INVARIANT
    TypeOK
    GcRestored
    PushIffPulled
    FacesShown
    StatesFit
    WrapInForce
    NothingLeftOut
    NoFileLost
    DoneMeansAll
    OneTitle
    
    TotalOrder
PROPERTY
    LeavingRestores
    ParentProtected
    SearchesRepeat
    IdGivenOnce
    JumpsToNext
