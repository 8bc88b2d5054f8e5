---------------------------- MODULE EdiffWindows -----------------------------
(***************************************************************************)
(* The window configuration that helheim-core.el saves before an ediff     *)
(* session and restores when one is quit or suspended: one variable for    *)
(* all sessions.                                                           *)
(***************************************************************************)
CONSTANTS
    Sessions,    \* ediff sessions; also the layouts that ediff makes for them
    Layouts,     \* layouts that the user makes
    NoLayout     \* not a window configuration: nil

VARIABLES
    windows,     \* the layout of the frame
    wconf,       \* the private variable
    running,     \* sessions that are set up and not suspended
    suspended,   \* sessions that wait to be resumed
    origin       \* the layout before each session was set up

ediffVars == <<windows, wconf, running, suspended, origin>>

EdiffInit ==
    /\ windows \in Layouts /\ wconf = NoLayout
    /\ running = {} /\ suspended = {}
    /\ origin = [s \in Sessions |-> NoLayout]

-----------------------------------------------------------------------------
\* ediff-before-setup-hook comes before ediff's own windows.
Setup(s) ==
    /\ s \notin running \cup suspended
    /\ wconf' = windows /\ windows' = s
    /\ running' = running \cup {s}
    /\ origin' = [origin EXCEPT ![s] = windows]
    /\ UNCHANGED suspended

\* On ediff-quit-hook and ediff-suspend-hook, at depth 90.
RestoreWindows == windows' = IF wconf = NoLayout THEN windows ELSE wconf

Quit(s) ==
    /\ s \in running /\ running' = running \ {s}
    /\ RestoreWindows
    /\ UNCHANGED <<wconf, suspended, origin>>

Suspend(s) ==
    /\ s \in running /\ running' = running \ {s} /\ suspended' = suspended \cup {s}
    /\ RestoreWindows
    /\ UNCHANGED <<wconf, origin>>

\* From the registry: ediff shows its windows again and runs no setup hook.
Resume(s) ==
    /\ s \in suspended /\ suspended' = suspended \ {s} /\ running' = running \cup {s}
    /\ windows' = s
    /\ UNCHANGED <<wconf, origin>>

\* The user splits, deletes and switches windows.
Arrange(l) ==
    /\ windows' = l
    /\ UNCHANGED <<wconf, running, suspended, origin>>

EdiffNext ==
    \/ \E s \in Sessions : Setup(s) \/ Quit(s) \/ Suspend(s) \/ Resume(s)
    \/ \E l \in Layouts : Arrange(l)

EdiffSpec == EdiffInit /\ [][EdiffNext]_ediffVars

-----------------------------------------------------------------------------
\* "Restore windows configuration after quitting ediff" (helheim-core.el:808):
\* a session that is quit or suspended gives back the layout that it found.
\* It does not when another session was set up in the meantime: wconf is then
\* what that one found.
WindowsComeBack == [][\A s \in running \ running' : windows' = origin[s]]_ediffVars
=============================================================================
