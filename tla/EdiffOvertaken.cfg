SPECIFICATION EdiffSpec
CONSTANTS
    Sessions = {s1, s2}
    Layouts = {l1, l2}
    NoLayout = NoLayout
PROPERTY
    WindowsComeBack
