------------------------- MODULE IndirectEditProofs -------------------------
(***************************************************************************)
(* Theorems about indirect editing, for every parent and every choice of   *)
(* regions.  What makes them true is that the two hooks do nothing: the    *)
(* common indentation is 0 for every text (CommonIsZero), and the variable *)
(* that would bring it back is gone before it is read.                     *)
(***************************************************************************)
EXTENDS IndirectEdit, TLAPS

\* An edit buffer that was not touched shows what the parent has; the hooks
\* have taken nothing and remember nothing.
InStep ==
    \A r \in active :
        /\ locals[r] = {} /\ taken[r] = 0
        /\ r \notin edited => \A l \in r : text[r][l] = parent[l]

EditInv == EditTypeOK /\ EditsDisjoint /\ InStep

-----------------------------------------------------------------------------
LEMMA RegionLines == ASSUME NEW r \in Regions PROVE r \subseteq Lines
BY DEF Regions

\* The loop starts from 0 and indentation is never negative.
LEMMA CommonIsZero ==
    ASSUME NEW r, NEW t \in Texts(r) PROVE CommonIndentation(t) = 0
<1> DEFINE seen == {0} \cup {t[l] : l \in DOMAIN t}
<1>1. 0 \in seen /\ \A j \in seen : j \in Nat
    BY EditAssumption DEF Texts
<1>2. ASSUME NEW k \in seen PROVE (\A j \in seen : k <= j) <=> k = 0
    BY <1>1
<1> HIDE DEF seen
<1>3. (CHOOSE k \in seen : \A j \in seen : k <= j) = 0
    BY <1>1, <1>2, Zenon
<1> QED
    BY <1>3, Zenon DEF CommonIndentation, seen

LEMMA ShiftedByNone ==
    ASSUME NEW r, NEW t \in Texts(r), NEW k \in {0} PROVE Shifted(t, -k) = t
<1>1. \A l \in r : t[l] \in Nat /\ (IF t[l] + (-k) < 0 THEN 0 ELSE t[l] + (-k)) = t[l]
    BY EditAssumption DEF Texts
<1>2. DOMAIN t = r /\ t = [l \in r |-> t[l]]
    BY DEF Texts
<1> QED
    BY <1>1, <1>2 DEF Shifted

\* So the commit hook leaves the text alone.
LEMMA IndentedIsText == ASSUME EditInv, NEW r \in active PROVE Indented(r) = text[r]
BY DEF EditInv, InStep, Indented

LEMMA PartOfParent ==
    ASSUME EditInv, NEW r \in Regions PROVE [l \in r |-> parent[l]] \in Texts(r)
BY RegionLines DEF EditInv, EditTypeOK, Texts

-----------------------------------------------------------------------------
LEMMA EditRegionKeeps == ASSUME EditInv, NEW r \in Regions, EditRegion(r) PROVE EditInv'
<1> USE DEF EditInv
<1> DEFINE Again == /\ r \in active
                    /\ locals' = With(locals, r, KillLocals(locals[r]))
                    /\ UNCHANGED <<parent, active, text, taken, edited>>
<1>1. CASE Again
  <2>1. DOMAIN locals' = active /\ \A s \in active : locals'[s] = {}
      BY <1>1 DEF With, KillLocals, EditTypeOK, InStep
  <2> QED
      BY <1>1, <2>1 DEF EditTypeOK, EditsDisjoint, InStep
<1>2. CASE ~Again
  <2> DEFINE t == [l \in r |-> parent[l]]
  <2>1. t \in Texts(r)
      BY PartOfParent
  <2>2. CommonIndentation(t) = 0 /\ Shifted(t, -CommonIndentation(t)) = t
      BY <2>1, CommonIsZero, ShiftedByNone
  <2>3. /\ \A s \in active : ~Overlap(r, s)
        /\ text' = With(text, r, Shifted(t, -CommonIndentation(t)))
        /\ locals' = With(locals, r, KillLocals({CommonIndentation(t)}))
        /\ taken' = With(taken, r, CommonIndentation(t))
        /\ active' = active \cup {r} /\ UNCHANGED <<parent, edited>>
      BY <1>2 DEF EditRegion
  <2>4. \A l \in r : t[l] = parent[l]
      OBVIOUS
  <2> HIDE DEF t
  <2>5. /\ DOMAIN text' = active' /\ DOMAIN locals' = active' /\ DOMAIN taken' = active'
        /\ \A s \in active' \ {r} : /\ s \in active /\ text'[s] = text[s]
                                    /\ locals'[s] = locals[s] /\ taken'[s] = taken[s]
        /\ text'[r] = t /\ locals'[r] = {} /\ taken'[r] = 0
      BY <2>2, <2>3 DEF With, KillLocals, EditTypeOK
  <2>6. 0 \in 0 .. MaxIndent
      BY EditAssumption
  <2>7. EditTypeOK'
      BY <2>1, <2>3, <2>5, <2>6 DEF EditTypeOK
  <2>8. EditsDisjoint'
      BY <2>3 DEF EditsDisjoint, Overlap
  <2>9. InStep'
    <3>1. ASSUME NEW s \in active', s # r
          PROVE  /\ locals'[s] = {} /\ taken'[s] = 0
                 /\ s \notin edited' => \A l \in s : text'[s][l] = parent'[l]
        BY <2>3, <2>5, <3>1 DEF InStep
    <3>2. \A l \in r : text'[r][l] = parent'[l]
        BY <2>3, <2>4, <2>5
    <3> QED
        BY <2>5, <3>1, <3>2 DEF InStep
  <2> QED
      BY <2>7, <2>8, <2>9
<1> QED
    BY <1>1, <1>2

LEMMA EditLineKeeps ==
    ASSUME EditInv, NEW r \in active, NEW l \in Lines, NEW k \in 0 .. MaxIndent, EditLine(r, l, k)
    PROVE  EditInv'
<1> USE DEF EditInv
<1>1. l \in r /\ text' = [text EXCEPT ![r][l] = k] /\ edited' = edited \cup {r}
      /\ UNCHANGED <<parent, active, locals, taken>>
    BY DEF EditLine
<1>2. DOMAIN text' = active /\ text'[r] \in Texts(r) /\ \A s \in active \ {r} : text'[s] = text[s]
    BY <1>1 DEF EditTypeOK, Texts
<1> QED
    BY <1>1, <1>2 DEF EditTypeOK, EditsDisjoint, InStep

LEMMA ParentLineKeeps ==
    ASSUME EditInv, NEW l \in Lines, NEW k \in 0 .. MaxIndent, ParentLine(l, k) PROVE EditInv'
<1>1. parent' \in Texts(Lines) /\ \A j \in Lines : j # l => parent'[j] = parent[j]
    BY DEF ParentLine, EditInv, EditTypeOK, Texts
<1>2. \A r \in active : \A j \in r : j \in Lines /\ j # l
    BY RegionLines DEF ParentLine, EditInv, EditTypeOK
<1> QED
    BY <1>1, <1>2 DEF ParentLine, EditInv, EditTypeOK, EditsDisjoint, InStep

\* What a commit or a save makes of the parent.
LEMMA CommittedText ==
    ASSUME EditInv, NEW r \in active
    PROVE  /\ Committed(r) \in Texts(Lines)
           /\ \A l \in Lines : Committed(r)[l] = IF l \in r THEN text[r][l] ELSE parent[l]
<1>1. Indented(r) = text[r] /\ text[r] \in Texts(r)
    BY IndentedIsText DEF EditInv, EditTypeOK
<1> QED
    BY <1>1 DEF Committed, EditInv, EditTypeOK, Texts

\* The others' lines are not among them.
LEMMA OthersUntouched ==
    ASSUME EditInv, NEW r \in active, NEW s \in active, s # r, NEW l \in s
    PROVE  l \in Lines /\ Committed(r)[l] = parent[l]
<1>1. l \in Lines /\ l \notin r
    BY RegionLines DEF EditInv, EditTypeOK, EditsDisjoint
<1> QED
    BY <1>1, CommittedText

LEMMA EditSaveKeeps == ASSUME EditInv, NEW r \in Regions, EditSave(r) PROVE EditInv'
<1> USE DEF EditInv
<1>1. r \in active /\ parent' = Committed(r) /\ edited' = edited \ {r}
      /\ UNCHANGED <<active, locals, taken>>
    BY DEF EditSave
<1>2. DOMAIN text' = active /\ \A s \in active : text'[s] = text[s]
  <2>1. text' = [text EXCEPT ![r] = text[r]]
      BY <1>1, IndentedIsText DEF EditSave
  <2> QED
      BY <2>1 DEF EditTypeOK
<1>3. \A l \in r : l \in Lines /\ parent'[l] = text[r][l]
    BY <1>1, RegionLines, CommittedText
<1>4. InStep'
    BY <1>1, <1>2, <1>3, OthersUntouched DEF InStep
<1> QED
    BY <1>1, <1>2, <1>4, CommittedText DEF EditTypeOK, EditsDisjoint

LEMMA DropKeeps ==
    ASSUME EditInv, NEW r \in active, Drop(r),
           parent' \in {parent, Committed(r)}
    PROVE  EditInv'
<1> USE DEF EditInv
<1>1. parent' \in Texts(Lines)
    BY CommittedText DEF EditTypeOK
<1>2. \A s \in active' : \A l \in s : parent'[l] = parent[l]
    BY OthersUntouched DEF Drop
<1>3. /\ DOMAIN text' = active' /\ DOMAIN locals' = active' /\ DOMAIN taken' = active'
      /\ \A s \in active' : /\ s \in active /\ text'[s] = text[s]
                            /\ locals'[s] = locals[s] /\ taken'[s] = taken[s]
    BY DEF Drop, Without, EditTypeOK
<1>4. edited' = edited \ {r} /\ active' = active \ {r}
    BY DEF Drop
<1> QED
    BY <1>1, <1>2, <1>3, <1>4 DEF EditTypeOK, EditsDisjoint, InStep

LEMMA EditInvInductive == EditInv /\ [EditNext]_editVars => EditInv'
<1> SUFFICES ASSUME EditInv, [EditNext]_editVars PROVE EditInv'
    OBVIOUS
<1>1. CASE UNCHANGED editVars
    BY <1>1 DEF editVars, EditInv, EditTypeOK, EditsDisjoint, InStep
<1>2. ASSUME NEW r \in Regions, EditCommit(r) \/ EditAbort(r) PROVE EditInv'
    BY <1>2, DropKeeps DEF EditCommit, EditAbort
<1> QED
    BY <1>1, <1>2, EditRegionKeeps, EditSaveKeeps, EditLineKeeps, ParentLineKeeps DEF EditNext

LEMMA EditInvHolds == EditSpec => []EditInv
<1>1. EditInit => EditInv
    BY DEF EditInit, EditInv, EditTypeOK, EditsDisjoint, InStep
<1> QED
    BY <1>1, EditInvInductive, PTL DEF EditSpec

-----------------------------------------------------------------------------
\* The state of the edit buffers is well formed.
THEOREM EditTypes == EditSpec => []EditTypeOK
BY EditInvHolds, PTL DEF EditInv

\* No line is edited in two buffers.
THEOREM EditsApart == EditSpec => []EditsDisjoint
BY EditInvHolds, PTL DEF EditInv

\* The hooks of helheim-edit-indirect.el:91-127 take nothing off and put
\* nothing back, in any buffer and any order of commands.
THEOREM HooksTakeNothing == EditSpec => [](\A r \in active : taken[r] = 0 /\ locals[r] = {})
<1>1. EditInv => \A r \in active : taken[r] = 0 /\ locals[r] = {}
    BY DEF EditInv, InStep
<1> QED
    BY <1>1, EditInvHolds, PTL

\* Where a step changes the parent, and to what.
LEMMA WhereParentChanges ==
    ASSUME EditInv, EditNext, NEW l \in Lines, parent'[l] # parent[l]
    PROVE  \/ \A r \in active : l \notin r
           \/ \E r \in edited : l \in r /\ parent'[l] = text[r][l]
<1> USE DEF EditInv
<1>1. ASSUME NEW r \in active, parent' = Committed(r)
      PROVE  \E s \in edited : l \in s /\ parent'[l] = text[s][l]
  <2>1. l \in r /\ parent'[l] = text[r][l]
      BY <1>1, CommittedText
  <2> QED
      BY <2>1 DEF InStep
<1>2. ASSUME NEW r \in Regions, EditSave(r) \/ EditCommit(r)
      PROVE  \E s \in edited : l \in s /\ parent'[l] = text[s][l]
    BY <1>1, <1>2 DEF EditSave, EditCommit
<1>3. ASSUME NEW r, EditRegion(r) \/ EditAbort(r) PROVE FALSE
    BY <1>3 DEF EditRegion, EditAbort
<1>4. ASSUME NEW r, NEW j, NEW k, EditLine(r, j, k) PROVE FALSE
    BY <1>4 DEF EditLine
<1>5. ASSUME NEW j \in Lines, NEW k \in 0 .. MaxIndent, ParentLine(j, k)
      PROVE  \A r \in active : l \notin r
    BY <1>5 DEF ParentLine, EditTypeOK, Texts
<1> QED
    BY <1>2, <1>3, <1>4, <1>5 DEF EditNext

\* Nothing but an edited buffer writes to lines that are being edited, and it
\* gives them the indentation that was taken off.
THEOREM ParentKept == EditSpec => ParentProtected
<1>1. ASSUME EditInv, EditNext, NEW l \in Lines, parent'[l] # parent[l]
      PROVE  \/ \A r \in active : l \notin r
             \/ \E r \in edited : l \in r /\ parent'[l] = text[r][l] + taken[r]
  <2>1. ASSUME NEW r \in edited, l \in r PROVE text[r][l] \in Nat /\ taken[r] = 0
      BY <1>1, <2>1, EditAssumption DEF EditInv, EditTypeOK, Texts, InStep
  <2> QED
      BY <1>1, <2>1, WhereParentChanges
<1>2. EditInv /\ [EditNext]_editVars
        => [\A l \in Lines : parent'[l] # parent[l] =>
               \/ \A r \in active : l \notin r
               \/ \E r \in edited : l \in r /\ parent'[l] = text[r][l] + taken[r]]_editVars
    BY <1>1
<1> QED
    BY <1>2, EditInvHolds, PTL DEF EditSpec, ParentProtected
=============================================================================
