--------------------------- MODULE CommandsProofs ---------------------------
(***************************************************************************)
(* Theorems about the ID command of dired, for any files, directories and  *)
(* names, and about the back ends of xref, for any back ends; and that the *)
(* instance which TLC checks of the nine components runs each of them.     *)
(***************************************************************************)
EXTENDS MCComponents, SessionProofs, IndirectEditProofs, DailyNotesProofs, IbufferProofs

-----------------------------------------------------------------------------
(* Dired.                                                                   *)

\* DoneMeansAll needs to know, while the command runs, that a marked file
\* without an ID is still at a path that the loop has ahead of it.
Ahead ==
    /\ todo # {} => status = "busy"
    /\ status = "busy" => \A f \in marked : path[f].id # NoId \/ path[f] \in todo

DiredInv == DiredTypeOK /\ NoFileLost /\ Ahead /\ DoneMeansAll

-----------------------------------------------------------------------------
LEMMA PrefixedType ==
    ASSUME DiredTypeOK, NEW f \in Files
    PROVE  Prefixed(f) \in Paths /\ Prefixed(f).id = Created[f]
BY DiredAssumption DEF DiredTypeOK, Prefixed, Paths

LEMMA AddIdsKeeps == ASSUME DiredInv, NEW P \in SUBSET listing, AddIds(P) PROVE DiredInv'
BY DEF DiredInv, DiredTypeOK, NoFileLost, Ahead, DoneMeansAll, AddIds, FilesAt

LEMMA SkipFileKeeps == ASSUME DiredInv, NEW p \in todo, SkipFile(p) PROVE DiredInv'
BY DEF DiredInv, DiredTypeOK, NoFileLost, Ahead, DoneMeansAll, SkipFile

LEMMA RenameFileKeeps == ASSUME DiredInv, NEW p \in todo, RenameFile(p) PROVE DiredInv'
<1> USE DEF DiredInv
<1>1. PICK f \in Files : /\ path[f] = p /\ Created[f] # NoId /\ Prefixed(f) \notin InUse
                         /\ path' = [path EXCEPT ![f] = Prefixed(f)]
    BY DEF RenameFile, FilesAt
<1>2. Prefixed(f) \in Paths /\ Prefixed(f).id = Created[f]
    BY PrefixedType
<1>3. path' \in [Files -> Paths] /\ path'[f] = Prefixed(f)
    BY <1>1, <1>2 DEF DiredTypeOK
<1>4. \A g \in Files : g # f => path'[g] = path[g] /\ path[g] # Prefixed(f) /\ path[g] # p
    BY <1>1 DEF DiredTypeOK, InUse, NoFileLost
<1>5. status = "busy"
    BY DEF Ahead
<1>6. DiredTypeOK'
    BY <1>3 DEF DiredTypeOK, RenameFile
<1>7. NoFileLost'
    BY <1>3, <1>4 DEF NoFileLost
<1>8. Ahead' /\ DoneMeansAll'
    BY <1>1, <1>2, <1>3, <1>4, <1>5 DEF Ahead, DoneMeansAll, RenameFile, DiredTypeOK
<1> QED
    BY <1>6, <1>7, <1>8

LEMMA RenameFailsKeeps == ASSUME DiredInv, NEW p \in todo, RenameFails(p) PROVE DiredInv'
BY DEF DiredInv, DiredTypeOK, NoFileLost, Ahead, DoneMeansAll, RenameFails

LEMMA ListingKeeps == ASSUME DiredInv, AddIdsDone \/ Revert PROVE DiredInv'
<1>1. InUse \subseteq Paths
    BY DEF DiredInv, DiredTypeOK, InUse
<1> QED
    BY <1>1 DEF DiredInv, DiredTypeOK, NoFileLost, Ahead, DoneMeansAll, AddIdsDone, Revert

LEMMA MovedKeeps ==
    ASSUME DiredInv, NEW f \in Files, NEW d \in Dirs, NEW n \in Names, Moved(f, d, n)
    PROVE  DiredInv'
<1> DEFINE new == [path[f] EXCEPT !.dir = d, !.name = n]
<1> USE DEF DiredInv
<1>1. new \in Paths /\ new.id = path[f].id
    BY DEF DiredTypeOK, Paths
<1>2. new \notin InUse /\ path' = [path EXCEPT ![f] = new]
    BY DEF Moved
<1> HIDE DEF new
<1>3. path' \in [Files -> Paths] /\ path'[f] = new
    BY <1>1, <1>2 DEF DiredTypeOK
<1>4. \A g \in Files : g # f => path'[g] = path[g] /\ path[g] # new
    BY <1>2 DEF DiredTypeOK, InUse
<1>5. moves' \in 0 .. MaxMoves
    BY DiredAssumption DEF Moved, DiredTypeOK
<1>6. DiredTypeOK'
    BY <1>3, <1>5 DEF DiredTypeOK, Moved
<1>7. NoFileLost'
    BY <1>3, <1>4 DEF NoFileLost
<1>8. Ahead' /\ DoneMeansAll'
    BY <1>4 DEF Ahead, DoneMeansAll, Moved, DiredTypeOK
<1> QED
    BY <1>6, <1>7, <1>8

LEMMA DiredInvInductive == DiredInv /\ [DiredNext]_diredVars => DiredInv'
<1> SUFFICES ASSUME DiredInv, [DiredNext]_diredVars PROVE DiredInv'
    OBVIOUS
<1>1. CASE UNCHANGED diredVars
    BY <1>1 DEF diredVars, DiredInv, DiredTypeOK, NoFileLost, Ahead, DoneMeansAll
<1> QED
    BY <1>1, AddIdsKeeps, SkipFileKeeps, RenameFileKeeps, RenameFailsKeeps, ListingKeeps,
       MovedKeeps DEF DiredNext

LEMMA DiredInvHolds == DiredSpec => []DiredInv
<1>1. ASSUME DiredInit PROVE DiredInv
  <2>1. path \in [Files -> Paths]
      BY <1>1 DEF DiredInit, Paths
  <2>2. InUse \subseteq Paths
      BY <2>1 DEF InUse
  <2>3. moves \in 0 .. MaxMoves
      BY <1>1, DiredAssumption DEF DiredInit
  <2> QED
      BY <1>1, <2>1, <2>2, <2>3
      DEF DiredInit, DiredInv, DiredTypeOK, NoFileLost, Ahead, DoneMeansAll
<1> QED
    BY <1>1, DiredInvInductive, PTL DEF DiredSpec

-----------------------------------------------------------------------------
\* The state of the command is well formed.
THEOREM DiredTypes == DiredSpec => []DiredTypeOK
BY DiredInvHolds, PTL DEF DiredInv

\* No rename puts a file where another one is (rename-file without
\* OK-IF-ALREADY-EXISTS).
THEOREM FilesKept == DiredSpec => []NoFileLost
BY DiredInvHolds, PTL DEF DiredInv

\* Without an error every marked file has an ID at the end of the command.
THEOREM CommandCompletes == DiredSpec => []DoneMeansAll
BY DiredInvHolds, PTL DEF DiredInv

\* An ID is given once, to a file without one, from its creation time.
THEOREM IdsStay == DiredSpec => IdGivenOnce
<1>1. ASSUME DiredInv, DiredNext, NEW f \in Files, path'[f].id # path[f].id
      PROVE  path[f].id = NoId /\ path'[f].id = Created[f]
  <2> USE <1>1 DEF DiredInv, DiredTypeOK
  <2>1. ASSUME NEW p \in todo, RenameFile(p)
        PROVE  path[f].id = NoId /\ path'[f].id = Created[f]
    <3>1. PICK g \in Files : path[g] = p /\ path' = [path EXCEPT ![g] = Prefixed(g)]
        BY <2>1 DEF RenameFile, FilesAt
    <3>2. f = g
        BY <3>1
    <3>3. path'[f].id = Created[f]
        BY <3>1, <3>2, PrefixedType
    <3> QED
        BY <2>1, <3>1, <3>2, <3>3 DEF RenameFile
  <2>2. ASSUME NEW g \in Files, NEW d \in Dirs, NEW n \in Names, Moved(g, d, n) PROVE FALSE
    <3>1. path' = [path EXCEPT ![g] = [path[g] EXCEPT !.dir = d, !.name = n]]
        BY <2>2 DEF Moved
    <3>2. [path[g] EXCEPT !.dir = d, !.name = n].id = path[g].id
        BY DEF Paths
    <3> QED
        BY <3>1, <3>2
  <2>3. ASSUME NEW P, AddIds(P) PROVE FALSE
      BY <2>3 DEF AddIds
  <2>4. ASSUME NEW p, SkipFile(p) \/ RenameFails(p) PROVE FALSE
      BY <2>4 DEF SkipFile, RenameFails
  <2>5. ~(AddIdsDone \/ Revert)
      BY DEF AddIdsDone, Revert
  <2> QED
      BY <2>1, <2>2, <2>3, <2>4, <2>5 DEF DiredNext
<1>2. DiredInv /\ [DiredNext]_diredVars
        => [\A f \in Files : path'[f].id # path[f].id =>
               path[f].id = NoId /\ path'[f].id = Created[f]]_diredVars
    BY <1>1
<1> QED
    BY <1>2, DiredInvHolds, PTL DEF DiredSpec, IdGivenOnce

-----------------------------------------------------------------------------
(* Xref.                                                                    *)

\* add-hook adds nothing twice.
Distinct(s) == \A i, j \in DOMAIN s : s[i] = s[j] => i = j

\* The hook has a value of its own once a function was added, which is a list
\* of what was added, with or without t.
HookIsAdded ==
    IF isLocal THEN Distinct(local) /\ Elements(local) \ {Rest} = added
    ELSE local = <<>> /\ added = {}

XrefInv == XrefTypeOK /\ HookIsAdded /\ NothingLeftOut

-----------------------------------------------------------------------------
LEMMA InElements ==
    ASSUME NEW s, NEW x
    PROVE  x \in Elements(s) <=> \E i \in DOMAIN s : x = s[i]
BY Zenon DEF Elements

\* Removing an element from a list without duplicates: all others stay.
LEMMA MinusRemoves ==
    ASSUME NEW S, NEW s \in Seq(S), NEW x, Distinct(s)
    PROVE  /\ Minus(s, x) \in Seq(S) /\ Distinct(Minus(s, x))
           /\ Elements(Minus(s, x)) = Elements(s) \ {x}
<1>1. CASE x \notin Elements(s)
    BY <1>1 DEF Minus, Elements
<1>2. CASE x \in Elements(s)
  <2> DEFINE i == CHOOSE i \in DOMAIN s : s[i] = x
             t == SubSeq(s, 1, i - 1) \o SubSeq(s, i + 1, Len(s))
  <2>1. i \in 1 .. Len(s) /\ s[i] = x /\ Len(s) \in Nat
      BY <1>2 DEF Elements
  <2>2. Minus(s, x) = t
      BY <1>2 DEF Minus
  <2> HIDE DEF i
  <2> DEFINE lo == SubSeq(s, 1, i - 1)
             hi == SubSeq(s, i + 1, Len(s))
  <2>3. /\ lo \in Seq(S) /\ Len(lo) = i - 1 /\ \A j \in 1 .. i - 1 : lo[j] = s[j]
        /\ hi \in Seq(S) /\ Len(hi) = Len(s) - i /\ \A j \in 1 .. Len(s) - i : hi[j] = s[j + i]
      BY <2>1
  <2> HIDE DEF lo, hi
  <2>4. /\ t \in Seq(S) /\ Len(t) = Len(lo) + Len(hi)
        /\ \A j \in 1 .. Len(lo) + Len(hi) : t[j] = IF j <= Len(lo) THEN lo[j] ELSE hi[j - Len(lo)]
      BY <2>3, ConcatProperties DEF lo, hi
  <2> HIDE DEF t
  <2>5. t \in Seq(S) /\ Len(t) = Len(s) - 1
      BY <2>1, <2>3, <2>4
  <2>6. ASSUME NEW j \in 1 .. Len(s) - 1
        PROVE  /\ j < i => t[j] = s[j]
               /\ ~(j < i) => t[j] = s[j + 1]
    <3>1. CASE j < i
      <4>1. j \in 1 .. i - 1 /\ j \in 1 .. Len(lo) + Len(hi) /\ j <= Len(lo)
          BY <2>1, <2>3, <3>1
      <4>2. t[j] = lo[j]
          BY <2>4, <4>1
      <4> QED
          BY <2>3, <3>1, <4>1, <4>2
    <3>2. CASE ~(j < i)
      <4> DEFINE k == j - Len(lo)
      <4>1. t[j] = hi[k] /\ k \in 1 .. Len(s) - i /\ k + i = j + 1
          BY <2>1, <2>3, <2>4, <3>2
      <4> HIDE DEF k
      <4> QED
          BY <2>3, <3>2, <4>1
    <3> QED
        BY <3>1, <3>2
  <2>7. \A j \in 1 .. Len(s) - 1 : j \in 1 .. Len(s) /\ j + 1 \in 1 .. Len(s)
      BY <2>1
  <2>8. Distinct(t)
    <3> SUFFICES ASSUME NEW j \in 1 .. Len(s) - 1, NEW k \in 1 .. Len(s) - 1, t[j] = t[k]
                 PROVE  j = k
        BY <2>5 DEF Distinct
    <3>1. \A m, n \in 1 .. Len(s) : s[m] = s[n] => m = n
        BY DEF Distinct
    <3>2. CASE (j < i /\ k < i) \/ (~(j < i) /\ ~(k < i))
      <4>1. j = k \/ j + 1 = k + 1
          BY <2>6, <2>7, <3>1, <3>2
      <4> QED
          BY <2>1, <4>1
    <3>3. ASSUME NEW m \in 1 .. Len(s) - 1, NEW n \in 1 .. Len(s) - 1,
                 m < i, ~(n < i), t[m] = t[n]
          PROVE  FALSE
      <4>1. m = n + 1
          BY <2>6, <2>7, <3>1, <3>3
      <4> QED
          BY <2>1, <3>3, <4>1
    <3> QED
        BY <3>2, <3>3
  <2>9. ASSUME NEW y \in Elements(t) PROVE y \in Elements(s) /\ y # x
    <3>1. PICK j \in 1 .. Len(s) - 1 : y = t[j]
        BY <2>5, InElements
    <3>2. \A m, n \in 1 .. Len(s) : s[m] = s[n] => m = n
        BY DEF Distinct
    <3>3. PICK k \in 1 .. Len(s) : y = s[k] /\ k # i
        BY <2>1, <2>6, <2>7, <3>1
    <3> QED
        BY <2>1, <3>2, <3>3, InElements
  <2>10. ASSUME NEW y \in Elements(s), y # x PROVE y \in Elements(t)
    <3>1. PICK j \in 1 .. Len(s) : y = s[j]
        BY InElements
    <3>2. PICK k \in 1 .. Len(s) - 1 : t[k] = y
      <4>1. CASE j < i
          BY <2>1, <2>6, <3>1, <4>1
      <4>2. CASE j > i
        <5>1. j - 1 \in 1 .. Len(s) - 1 /\ ~(j - 1 < i) /\ (j - 1) + 1 = j
            BY <2>1, <4>2
        <5> QED
            BY <2>6, <3>1, <5>1
      <4> QED
          BY <2>1, <2>10, <3>1, <4>1, <4>2
    <3> QED
        BY <2>5, <3>2, InElements
  <2> QED
      BY <2>2, <2>5, <2>8, <2>9, <2>10, Zenon
<1> QED
    BY <1>1, <1>2

\* helheim-hook-values lists what was added here and then what is global.
LEMMA ValuesOfHook ==
    ASSUME XrefInv
    PROVE  \E own \in Seq(Backends) :
              HookValues = own \o Globals /\ Elements(own) = added
<1> USE DEF XrefInv, XrefTypeOK, HookIsAdded
<1>1. CASE isLocal
  <2>1. /\ Minus(local, Rest) \in Seq(Backends \cup {Rest})
        /\ Elements(Minus(local, Rest)) = added
      BY <1>1, MinusRemoves
  <2>2. Minus(local, Rest) \in Seq(Backends)
      BY <2>1 DEF Elements
  <2> QED
      BY <1>1, <2>1, <2>2 DEF HookValues
<1>2. CASE ~isLocal
  <2>1. <<>> \in Seq(Backends) /\ <<>> \o Globals = Globals /\ Elements(<<>>) = {}
      BY BackendAssumption DEF Elements
  <2> QED
      BY <1>2, <2>1 DEF HookValues
<1> QED
    BY <1>1, <1>2

\* The first back end of the list that has an answer, or signals, decides.
LEMMA FirstAnswerTaken ==
    ASSUME NEW own \in Seq(Backends), HookValues = own \o Globals, answer \in [Backends -> Answers]
    PROVE  \/ Fetched = "nothing" /\ \A f \in Elements(own) \cup Elements(Globals) : answer[f] = "none"
           \/ Fetched = "error"
           \/ /\ Fetched \in Elements(own) \cup Elements(Globals)
              /\ answer[Fetched] = "xrefs"
              /\ Fetched \notin Elements(own) => \A f \in Elements(own) : answer[f] = "none"
<1> DEFINE v == own \o Globals
           stops == {i \in DOMAIN v : answer[v[i]] # "none"}
           first == CHOOSE i \in stops : \A j \in stops : i <= j
<1>1. /\ v \in Seq(Backends) /\ Len(v) = Len(own) + Len(Globals) /\ DOMAIN v = 1 .. Len(v)
      /\ Len(own) \in Nat /\ Len(Globals) \in Nat
      /\ \A i \in 1 .. Len(own) : v[i] = own[i]
      /\ \A i \in 1 .. Len(Globals) : v[i + Len(own)] = Globals[i]
    BY BackendAssumption
<1>2. Elements(v) = Elements(own) \cup Elements(Globals)
  <2>1. Elements(v) \subseteq Elements(own) \cup Elements(Globals)
    <3> SUFFICES ASSUME NEW i \in 1 .. Len(v) PROVE v[i] \in Elements(own) \cup Elements(Globals)
        BY <1>1 DEF Elements
    <3>1. CASE i <= Len(own)
        BY <1>1, <3>1 DEF Elements
    <3>2. CASE i > Len(own)
      <4>1. i - Len(own) \in 1 .. Len(Globals) /\ v[i] = Globals[i - Len(own)]
          BY <1>1, <3>2
      <4> QED
          BY <4>1, BackendAssumption DEF Elements
    <3> QED
        BY <1>1, <3>1, <3>2
  <2>2. Elements(own) \subseteq Elements(v)
      BY <1>1 DEF Elements
  <2>3. Elements(Globals) \subseteq Elements(v)
    <3> SUFFICES ASSUME NEW i \in 1 .. Len(Globals) PROVE Globals[i] \in Elements(v)
        BY BackendAssumption, InElements
    <3>1. i + Len(own) \in 1 .. Len(v) /\ v[i + Len(own)] = Globals[i]
        BY <1>1
    <3> QED
        BY <1>1, <3>1, InElements
  <2> QED
      BY <2>1, <2>2, <2>3
<1>3. CASE stops = {}
  <2>1. Fetched = "nothing"
      BY <1>3 DEF Fetched
  <2>2. \A f \in Elements(v) : answer[f] = "none"
      BY <1>3 DEF Elements
  <2> QED
      BY <1>2, <2>1, <2>2
<1>4. CASE stops # {}
  <2>1. stops \in SUBSET (1 .. Len(v)) /\ Len(v) \in Nat
      BY <1>1
  <2> HIDE DEF v, stops
  <2>2. first \in stops /\ \A j \in stops : first <= j
      BY <1>4, <2>1, LeastOf
  <2> USE DEF stops
  <2> HIDE DEF first
  <2>3. Fetched = IF answer[v[first]] = "error" THEN "error" ELSE v[first]
    <3>1. HookValues = v
        BY DEF v
    <3> QED
        BY <1>4, <3>1 DEF Fetched, first
  <2>4. answer[v[first]] \in {"xrefs", "error"}
      BY <1>1, <2>2 DEF Answers
  <2>5. v[first] \in Elements(v)
      BY <2>2, InElements
  <2>6. ASSUME v[first] \notin Elements(own), NEW f \in Elements(own) PROVE answer[f] = "none"
    <3>1. PICK i \in 1 .. Len(own) : f = own[i]
        BY InElements
    <3>2. first > Len(own)
      <4>1. first \in 1 .. Len(v)
          BY <2>1, <2>2
      <4>2. ASSUME first <= Len(own) PROVE FALSE
        <5>1. first \in DOMAIN own /\ v[first] = own[first]
            BY <1>1, <4>1, <4>2
        <5> QED
            BY <2>6, <5>1, InElements
      <4> QED
          BY <1>1, <4>1, <4>2
    <3>3. i \notin stops /\ i \in DOMAIN v
        BY <1>1, <2>1, <2>2, <3>2
    <3> QED
        BY <1>1, <3>1, <3>3
  <2> QED
      BY <1>2, <2>3, <2>4, <2>5, <2>6
<1> QED
    BY <1>3, <1>4

\* What delq leaves of the hook's own list.
LEMMA DelqKeeps ==
    ASSUME XrefInv
    PROVE  /\ Delq \in Seq(Backends \cup {Rest})
           /\ isLocal => Distinct(Delq) /\ Elements(Delq) \ {Rest} = added
           /\ ~isLocal => Delq = <<>>
           /\ isLocal => Minus(Delq, Rest) = Minus(local, Rest)
<1> USE DEF XrefInv, XrefTypeOK, HookIsAdded, Delq
<1>1. CASE ~isLocal
    BY <1>1
<1>2. CASE isLocal
  <2>1. /\ Minus(local, Rest) \in Seq(Backends \cup {Rest}) /\ Distinct(Minus(local, Rest))
        /\ Elements(Minus(local, Rest)) = Elements(local) \ {Rest}
      BY <1>2, MinusRemoves
  <2>2. Minus(Minus(local, Rest), Rest) = Minus(local, Rest)
      BY <2>1 DEF Minus
  <2> QED
      BY <1>2, <2>1, <2>2
<1> QED
    BY <1>1, <1>2

\* A search changes neither what is listed nor what is to be listed.
LEMMA SearchKeeps == ASSUME XrefInv, Search PROVE XrefInv' /\ HookValues' = HookValues
<1>1. XrefTypeOK /\ HookIsAdded
    BY DEF XrefInv
<1>2. PICK own \in Seq(Backends) : HookValues = own \o Globals /\ Elements(own) = added
    BY ValuesOfHook
<1>3. /\ found' = Fetched /\ local' = Delq /\ isLocal' = isLocal
      /\ answer' = answer /\ added' = added
    BY DEF Search
<1>4. answer \in [Backends -> Answers] /\ isLocal \in BOOLEAN /\ added \subseteq Backends
    BY <1>1 DEF XrefTypeOK
<1>5. \/ Fetched = "nothing" /\ \A f \in added \cup Elements(Globals) : answer[f] = "none"
      \/ Fetched = "error"
      \/ /\ Fetched \in added \cup Elements(Globals)
         /\ answer[Fetched] = "xrefs"
         /\ Fetched \notin added => \A f \in added : answer[f] = "none"
    BY <1>2, <1>4, FirstAnswerTaken
<1>6. Elements(Globals) \subseteq Backends
    BY BackendAssumption DEF Elements
<1>7. NothingLeftOut'
  <2>1. /\ "nothing" \notin Backends /\ "error" \notin Backends
        /\ "nothing" # "error"
      BY BackendAssumption DEF Outcomes
  <2>2. CASE Fetched = "nothing" /\ \A f \in added \cup Elements(Globals) : answer[f] = "none"
      BY <1>3, <2>1, <2>2 DEF NothingLeftOut
  <2>3. CASE Fetched = "error"
      BY <1>3, <2>1, <2>3 DEF NothingLeftOut
  <2>4. CASE /\ Fetched \in added \cup Elements(Globals)
             /\ answer[Fetched] = "xrefs"
             /\ Fetched \notin added => \A f \in added : answer[f] = "none"
    <3>1. Fetched # "nothing"
        BY <1>4, <1>6, <2>1, <2>4
    <3> QED
        BY <1>3, <2>4, <3>1 DEF NothingLeftOut
  <2> QED
      BY <1>5, <2>2, <2>3, <2>4
<1>8. HookIsAdded'
    BY <1>1, <1>3, DelqKeeps DEF HookIsAdded
<1>9. XrefTypeOK'
    BY <1>3, <1>4, <1>5, <1>6, DelqKeeps DEF XrefTypeOK, Outcomes
<1>10. HookValues' = HookValues
    BY <1>3, DelqKeeps DEF HookValues
<1> QED
    BY <1>7, <1>8, <1>9, <1>10 DEF XrefInv

LEMMA RegisterKeeps ==
    ASSUME XrefInv, NEW f \in Backends, NEW append \in BOOLEAN, Register(f, append)
    PROVE  XrefInv'
<1> USE DEF XrefInv, XrefTypeOK, HookIsAdded
<1> DEFINE old == IF isLocal THEN local ELSE <<Rest>>
<1>1. /\ old \in Seq(Backends \cup {Rest}) /\ Distinct(old)
      /\ Elements(old) \ {Rest} = added /\ f \notin Elements(old)
    BY RestAssumption DEF Register, Elements, Distinct
<1>2. /\ local' = IF append THEN Append(old, f) ELSE <<f>> \o old
      /\ isLocal' = TRUE /\ added' = added \cup {f} /\ found' = "idle" /\ answer' = answer
    BY DEF Register
<1> HIDE DEF old
<1>3. /\ local' \in Seq(Backends \cup {Rest}) /\ Distinct(local')
      /\ Elements(local') = Elements(old) \cup {f}
  <2>1. Len(old) \in Nat
      BY <1>1
  <2>2. CASE append
    <3>1. /\ local' \in Seq(Backends \cup {Rest}) /\ Len(local') = Len(old) + 1
          /\ \A i \in 1 .. Len(old) : local'[i] = old[i]
          /\ local'[Len(old) + 1] = f
        BY <1>1, <1>2, <2>2
    <3>2. \A i \in 1 .. Len(local') : i = Len(old) + 1 \/ i \in 1 .. Len(old)
        BY <2>1, <3>1
    <3>3. \A i \in 1 .. Len(old) : i \in 1 .. Len(local') /\ old[i] # f
        BY <1>1, <2>1, <3>1, InElements
    <3>4. Distinct(local')
      <4> SUFFICES ASSUME NEW i \in 1 .. Len(local'), NEW j \in 1 .. Len(local'), local'[i] = local'[j]
                   PROVE  i = j
          BY <3>1 DEF Distinct
      <4> QED
          BY <1>1, <3>1, <3>2, <3>3 DEF Distinct
    <3>5. \A y : y \in Elements(local') <=> y \in Elements(old) \/ y = f
      <4>1. f \in Elements(local')
          BY <2>1, <3>1, InElements
      <4>2. ASSUME NEW y \in Elements(local') PROVE y \in Elements(old) \/ y = f
        <5>1. PICK i \in 1 .. Len(local') : y = local'[i]
            BY <3>1, InElements
        <5> QED
            BY <1>1, <3>1, <3>2, <5>1, InElements
      <4>3. ASSUME NEW y \in Elements(old) PROVE y \in Elements(local')
        <5>1. PICK i \in 1 .. Len(old) : y = old[i]
            BY <1>1, InElements
        <5> QED
            BY <3>1, <3>3, <5>1, InElements
      <4> QED
          BY <4>1, <4>2, <4>3
    <3> QED
        BY <3>1, <3>4, <3>5, Zenon
  <2>3. CASE ~append
    <3>1. /\ local' \in Seq(Backends \cup {Rest}) /\ Len(local') = Len(old) + 1
          /\ \A i \in 2 .. Len(old) + 1 : local'[i] = old[i - 1]
          /\ local'[1] = f
        BY <1>1, <1>2, <2>3
    <3>2. \A i \in 1 .. Len(local') : i = 1 \/ (i - 1 \in 1 .. Len(old) /\ local'[i] = old[i - 1])
        BY <2>1, <3>1
    <3>3. Distinct(local') /\ Elements(local') \subseteq Elements(old) \cup {f}
      <4>1. \A i \in 1 .. Len(old) : old[i] # f
          BY <1>1, InElements
      <4>2. Distinct(local')
        <5> SUFFICES ASSUME NEW i \in 1 .. Len(local'), NEW j \in 1 .. Len(local'), local'[i] = local'[j]
                     PROVE  i = j
            BY <3>1 DEF Distinct
        <5>1. CASE i = 1 \/ j = 1
            BY <3>1, <3>2, <4>1, <5>1
        <5>2. CASE i # 1 /\ j # 1
          <6>1. i - 1 \in 1 .. Len(old) /\ j - 1 \in 1 .. Len(old) /\ old[i - 1] = old[j - 1]
              BY <3>2, <5>2
          <6>2. i - 1 = j - 1
              BY <1>1, <6>1 DEF Distinct
          <6> QED
              BY <2>1, <3>1, <6>2
        <5> QED
            BY <5>1, <5>2
      <4>3. ASSUME NEW i \in 1 .. Len(local') PROVE local'[i] \in Elements(old) \cup {f}
          BY <1>1, <3>1, <3>2, InElements
      <4> QED
          BY <3>1, <4>2, <4>3, InElements
    <3>4. ASSUME NEW i \in 1 .. Len(old) PROVE old[i] \in Elements(local')
      <4>1. i + 1 \in 1 .. Len(local') /\ local'[i + 1] = old[i]
          BY <2>1, <3>1
      <4> QED
          BY <3>1, <4>1, InElements
    <3>5. f \in Elements(local')
        BY <2>1, <3>1, InElements
    <3>6. Elements(old) \subseteq Elements(local')
        BY <1>1, <3>4, InElements
    <3> QED
        BY <3>1, <3>3, <3>5, <3>6
  <2> QED
      BY <2>2, <2>3
<1>4. NothingLeftOut' 
    BY <1>2, BackendAssumption DEF NothingLeftOut, Outcomes
<1> QED
    BY <1>1, <1>2, <1>3, <1>4, RestAssumption DEF Outcomes

LEMMA UnregisterKeeps == ASSUME XrefInv, NEW f \in Backends, Unregister(f) PROVE XrefInv'
<1> USE DEF XrefInv, XrefTypeOK, HookIsAdded
<1> DEFINE new == Minus(local, f)
<1>1. /\ new \in Seq(Backends \cup {Rest}) /\ Distinct(new)
      /\ Elements(new) \ {Rest} = added \ {f}
    BY MinusRemoves, RestAssumption DEF Unregister
<1>2. /\ isLocal' = (new # <<Rest>>) /\ local' = IF new = <<Rest>> THEN <<>> ELSE new
      /\ added' = added \ {f} /\ found' = "idle" /\ answer' = answer
    BY DEF Unregister
<1> HIDE DEF new
<1>3. NothingLeftOut'
    BY <1>2, BackendAssumption DEF NothingLeftOut, Outcomes
<1>4. CASE new = <<Rest>>
  <2>1. added' = {}
      BY <1>1, <1>2, <1>4 DEF Elements
  <2>2. local' = <<>> /\ <<>> \in Seq(Backends \cup {Rest})
      BY <1>2, <1>4
  <2>3. isLocal' \in BOOLEAN /\ ~isLocal'
      BY <1>2, <1>4, Zenon
  <2> QED
      BY <1>2, <1>3, <2>1, <2>2, <2>3 DEF Outcomes
<1>5. CASE new # <<Rest>>
    BY <1>1, <1>2, <1>3, <1>5 DEF Outcomes
<1> QED
    BY <1>4, <1>5

LEMMA XrefSteps ==
    ASSUME XrefInv, [XrefNext]_xrefVars
    PROVE  /\ XrefInv'
           /\ Search \/ found' = "idle" \/ found' = "elisp-def" \/ UNCHANGED xrefVars
<1>1. ASSUME found' = "elisp-def", UNCHANGED <<isLocal, local, answer, added>> PROVE XrefInv'
    BY <1>1, BackendAssumption
    DEF XrefInv, XrefTypeOK, HookIsAdded, NothingLeftOut, Outcomes, Distinct
<1>2. ASSUME Moves PROVE XrefInv'
    BY <1>2, BackendAssumption
    DEF Moves, XrefInv, XrefTypeOK, HookIsAdded, NothingLeftOut, Outcomes, Distinct
<1>3. ASSUME UNCHANGED xrefVars PROVE XrefInv'
    BY <1>3 DEF xrefVars, XrefInv, XrefTypeOK, HookIsAdded, NothingLeftOut, Distinct
<1> QED
    BY <1>1, <1>2, <1>3, SearchKeeps, RegisterKeeps, UnregisterKeeps
    DEF XrefNext, ElispSearch, Moves, Register, Unregister

LEMMA XrefInvHolds == XrefSpec => []XrefInv
<1>1. ASSUME XrefInit PROVE XrefInv
  <2>1. <<>> \in Seq(Backends \cup {Rest}) /\ "idle" \notin Backends
      BY BackendAssumption DEF Outcomes
  <2> QED
      BY <1>1, <2>1 DEF XrefInit, XrefInv, XrefTypeOK, HookIsAdded, NothingLeftOut, Outcomes
<1> QED
    BY <1>1, XrefSteps, PTL DEF XrefSpec

\* Every back end that a mode added and every global one is tried before
\* "Nothing found", and one is taken only for its own answer, whatever was
\* added, removed and searched before (helheim-xref--create-fetcher).
THEOREM BackendsTried == XrefSpec => [](XrefTypeOK /\ NothingLeftOut)
BY XrefInvHolds, PTL DEF XrefInv

\* A search leaves what the next one will try, though delq is destructive
\* (helheim-hook-values).
THEOREM SearchRepeats == XrefSpec => SearchesRepeat
<1>1. XrefInv /\ [XrefNext]_xrefVars
        => [found' \in Backends \cup {"nothing", "error"} => HookValues' = HookValues]_xrefVars
    BY XrefSteps, SearchKeeps, BackendAssumption DEF Outcomes
<1> QED
    BY <1>1, XrefInvHolds, PTL DEF XrefSpec, SearchesRepeat

-----------------------------------------------------------------------------
(* The instance of MCComponents.                                            *)

LEMMA ComponentSteps ==
    ASSUME [Next]_<<sessionVars, commandVars, focus>>
    PROVE  /\ [StartNext]_startVars /\ [ThemeNext]_themeVars /\ [StateNext]_stateVars
           /\ [WrapNext]_wrapVars /\ [EditNext]_editVars /\ [XrefNext]_xrefVars
           /\ [DiredNext]_diredVars /\ [DailyNext]_dailyVars /\ [IbufferNext]_ibufferVars
<1> USE DEF sessionVars, commandVars
<1>1. CASE StartupStep
    BY <1>1 DEF StartupStep, startRest
<1>2. CASE ThemesStep
    BY <1>2 DEF ThemesStep, themeRest
<1>3. CASE StatesStep
    BY <1>3 DEF StatesStep, stateRest
<1>4. CASE WrapStep
    BY <1>4 DEF WrapStep, wrapRest
<1>5. CASE EditStep
    BY <1>5 DEF EditStep, editRest
<1>6. CASE XrefStep
    BY <1>6 DEF XrefStep, xrefRest
<1>7. CASE DiredStep
    BY <1>7 DEF DiredStep, diredRest
<1>8. CASE DailyStep
    BY <1>8 DEF DailyStep, dailyRest
<1>9. CASE IbufferStep
    BY <1>9 DEF IbufferStep, ibufferRest
<1>10. CASE UNCHANGED <<sessionVars, commandVars, focus>>
    BY <1>10
<1> QED
    BY <1>1, <1>2, <1>3, <1>4, <1>5, <1>6, <1>7, <1>8, <1>9, <1>10 DEF Next

\* A behaviour of the instance is one of each component, in which the others
\* rest: what is proved of them one by one holds of it.
THEOREM RunsEachPart ==
    Spec => /\ StartSpec /\ ThemeSpec /\ StateSpec /\ WrapSpec
            /\ EditSpec /\ XrefSpec /\ DiredSpec /\ DailySpec /\ IbufferSpec
<1>1. Init => /\ StartInit /\ ThemeInit /\ StateInit /\ WrapInit
              /\ EditInit /\ XrefInit /\ DiredInit /\ DailyInit /\ IbufferInit
    BY DEF Init
<1> QED
    BY <1>1, ComponentSteps, PTL
    DEF Spec, StartSpec, ThemeSpec, StateSpec, WrapSpec,
        EditSpec, XrefSpec, DiredSpec, DailySpec, IbufferSpec

\* The states of the nine components are well formed together.
THEOREM ComponentTypes == Spec => []TypeOK
<1>1. Spec => [](StartTypeOK /\ ThemeTypeOK /\ StateTypeOK /\ WrapTypeOK)
    BY RunsEachPart, CollectorReturns, ThemeTypes, StateTypes, WrapTypes, PTL
<1>2. Spec => [](EditTypeOK /\ XrefTypeOK /\ DiredTypeOK /\ DailyTypeOK /\ IbufferTypeOK)
    BY RunsEachPart, EditTypes, BackendsTried, DiredTypes, DailyTypes, IbufferTypes, PTL
<1> QED
    BY <1>1, <1>2, PTL DEF TypeOK

\* What TLC checks of the instance on small sets holds for every value of the
\* constants.
THEOREM ComponentsKept ==
    Spec => /\ [](GcRestored /\ PushIffPulled /\ FacesShown /\ StatesFit /\ WrapInForce)
            /\ [](NothingLeftOut /\ NoFileLost /\ DoneMeansAll)
            /\ [](OneTitle /\ OwnProject /\ TotalOrder)
            /\ LeavingRestores /\ ParentProtected /\ SearchesRepeat /\ IdGivenOnce /\ JumpsToNext
BY RunsEachPart, CollectorReturns, PullAndPushTogether, EnabledThemesComplete, EffectsFitStates,
   WrapHolds, LeavingUndoes, BackendsTried, FilesKept, CommandCompletes, TitleGivenOnce,
   ListedWithOwnProject, LinesAreOrdered, ParentKept, SearchRepeats, IdsStay, NextNoteFound, PTL
=============================================================================
