---------------------------- MODULE MCVaultSync ----------------------------
(* Small instances of VaultSync: a laptop and a desktop, two notes.*)
EXTENDS VaultSync, TLC

CONSTANTS laptop, desktop, kiosk, e1, e2, e3, inbox, errors

MCDevices == {laptop, desktop}

\* The kiosk runs this configuration without a vault directory.
MCWithKiosk == {laptop, desktop, kiosk}

MCEdits   == {e1, e2, e3}
MCNotes   == {inbox, errors}

\* Two edits of one note, one of the other.
MCNoteOf  == e1 :> inbox @@ e2 :> inbox @@ e3 :> errors

\* One edit of each note: the devices never change the same note.
MCApart       == {e1, e3}
MCApartNoteOf == e1 :> inbox @@ e3 :> errors

\* Two edits of one note, which may conflict.
MCSame       == {e1, e2}
MCSameNoteOf == e1 :> inbox @@ e2 :> inbox

\* A fast-forward prints the names of the notes it changes; this one matches.
MCAlarming == {errors}

MCSymmetry == Permutations(MCDevices) \cup Permutations({e1, e2})
=============================================================================
