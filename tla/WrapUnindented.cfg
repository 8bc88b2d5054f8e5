SPECIFICATION WrapSpec
CONSTANTS
    WBuffers = {b1, b2}
    WMajors = {org, markdown, code}
    Visual = {org}
    Text = {markdown}
    Unwrapped = {}
    TextHook = {org, markdown}
    WrapHook = {markdown}
    FillStyle = "soft"
    HasDtrt = TRUE
    MaxToggles = 0
INVARIANT
    CodeIndented
