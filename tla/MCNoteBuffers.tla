---------------------------- MODULE MCNoteBuffers ----------------------------
(* A small instance of NoteBuffers: two notes, typed and pulled changes.     *)
EXTENDS NoteBuffers, TLC

CONSTANTS inbox, daily, t1, t2, t3, p1

MCNotes   == {inbox, daily}
MCChanges == {t1, t2, t3, p1}

\* The inbox is changed here only; the daily note on another device as well.
MCNoteOf == t1 :> inbox @@ t2 :> inbox @@ t3 :> daily @@ p1 :> daily
=============================================================================
