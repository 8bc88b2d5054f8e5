---------------------------- MODULE IndirectEdit ----------------------------
(***************************************************************************)
(* helheim-edit-region-indirect: regions of a buffer edited in buffers of  *)
(* their own, with the hooks of helheim-edit-indirect.el that take the     *)
(* common indentation off and put it back.  The overlays and the commit    *)
(* are those of edit-indirect.                                             *)
(*                                                                         *)
(* A text is its lines that are not blank, each with its indentation:      *)
(* blank lines have no part in the common one and are never shifted.       *)
(***************************************************************************)
EXTENDS Integers

CONSTANTS
    Lines,       \* the lines of the parent, 1 .. n
    MaxIndent    \* bound on the indentation the user gives to a line

ASSUME EditAssumption == Lines \subseteq Nat /\ MaxIndent \in Nat

Regions == {r \in SUBSET Lines :
              r # {} /\ \A i, j \in r, l \in Lines : i <= l /\ l <= j => l \in r}
Texts(r) == [r -> 0 .. MaxIndent]

VARIABLES
    parent,      \* text of the parent
    active,      \* regions with an edit buffer (an overlay)
    text,        \* text of the edit buffers ...
    locals,      \* ... and helheim-edit-indirect--intentation there: {} if unbound
    taken,       \* the indentation taken off at the start
    edited       \* edit buffers changed since they were made or saved

editVars == <<parent, active, text, locals, taken, edited>>

EditInit ==
    /\ parent \in Texts(Lines)
    /\ active = {} /\ edited = {}
    /\ text = <<>> /\ locals = <<>> /\ taken = <<>>

Overlap(r, s) == r \cap s # {}
Without(f, r) == [s \in DOMAIN f \ {r} |-> f[s]]
With(f, r, x) == [s \in DOMAIN f \cup {r} |-> IF s = r THEN x ELSE f[s]]

-----------------------------------------------------------------------------
\* Mutant: the minimum over the lines alone.
CommonIndentation_Mutant(t) ==
    CHOOSE k \in {t[l] : l \in DOMAIN t} : \A l \in DOMAIN t : k <= t[l]

\* The loop starts from 0 and takes minima.
CommonIndentation(t) ==
    LET seen == {0} \cup {t[l] : l \in DOMAIN t}
    IN  CHOOSE k \in seen : \A j \in seen : k <= j

\* indent-rigidly
Shifted(t, k) == [l \in DOMAIN t |-> IF t[l] + k < 0 THEN 0 ELSE t[l] + k]

\* Calling a major mode kills the local variables that are not permanent.
KillLocals(L) == {}

\* The creation hook runs inside edit-indirect-region; the major mode is
\* called after that.  A region that has an edit buffer gets that one, and
\* one that overlaps another an error.
EditRegion(r) ==
    \/ /\ r \in active
       /\ locals' = With(locals, r, KillLocals(locals[r]))
       /\ UNCHANGED <<parent, active, text, taken, edited>>
    \/ /\ \A s \in active : ~Overlap(r, s)
       /\ LET t == [l \in r |-> parent[l]]
              k == CommonIndentation(t)
          IN  /\ text'   = With(text, r, Shifted(t, -k))
              /\ locals' = With(locals, r, KillLocals({k}))
              /\ taken'  = With(taken, r, k)
       /\ active' = active \cup {r}
       /\ UNCHANGED <<parent, edited>>

\* The user indents a line of an edit buffer, or of the parent where it is
\* not read-only.
EditLine(r, l, k) ==
    /\ r \in active /\ l \in r
    /\ text'   = [text EXCEPT ![r][l] = k]
    /\ edited' = edited \cup {r}
    /\ UNCHANGED <<parent, active, locals, taken>>

ParentLine(l, k) ==
    /\ \A r \in active : l \notin r
    /\ parent' = [parent EXCEPT ![l] = k]
    /\ UNCHANGED <<active, text, locals, taken, edited>>

\* The hook before a commit indents the edit buffer, if it has the variable.
Indented(r) == IF locals[r] = {} THEN text[r]
               ELSE Shifted(text[r], CHOOSE k \in locals[r] : TRUE)

Committed(r) == [l \in Lines |-> IF l \in r THEN Indented(r)[l] ELSE parent[l]]

Drop(r) ==
    /\ active' = active \ {r} /\ edited' = edited \ {r}
    /\ text' = Without(text, r) /\ locals' = Without(locals, r) /\ taken' = Without(taken, r)

\* save-buffer in an edit buffer, Z Z and Z Q
EditSave(r) ==
    /\ r \in active
    /\ parent' = Committed(r)
    /\ text'   = [text EXCEPT ![r] = Indented(r)]
    /\ edited' = edited \ {r}
    /\ UNCHANGED <<active, locals, taken>>

EditCommit(r) == r \in active /\ parent' = Committed(r) /\ Drop(r)

EditAbort(r) == r \in active /\ Drop(r) /\ UNCHANGED parent

EditNext ==
    \/ \E r \in Regions : EditRegion(r) \/ EditSave(r) \/ EditCommit(r) \/ EditAbort(r)
    \/ \E l \in Lines, k \in 0 .. MaxIndent :
        ParentLine(l, k) \/ \E r \in active : EditLine(r, l, k)

EditSpec == EditInit /\ [][EditNext]_editVars

-----------------------------------------------------------------------------
EditTypeOK ==
    /\ parent \in Texts(Lines)
    /\ active \subseteq Regions /\ edited \subseteq active
    /\ DOMAIN text = active /\ DOMAIN locals = active /\ DOMAIN taken = active
    /\ \A r \in active :
         text[r] \in Texts(r) /\ locals[r] \subseteq 0 .. MaxIndent /\ taken[r] \in 0 .. MaxIndent

\* Two edit buffers never stand for the same line: the second commit cannot
\* write over the first.
EditsDisjoint == \A r, s \in active : r = s \/ r \cap s = {}

\* The parent changes only where no region is being edited, or where the user
\* changed an edit buffer since it was made or last saved, and then a line gets
\* back the indentation that was taken off it.  Opening, saving again,
\* committing what was not edited and aborting leave the parent as it is,
\* whatever the two hooks do.
ParentProtected ==
    [][\A l \in Lines : parent'[l] # parent[l] =>
          \/ \A r \in active : l \notin r
          \/ \E r \in edited : l \in r /\ parent'[l] = text[r][l] + taken[r]]_editVars
=============================================================================
