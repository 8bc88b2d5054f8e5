---------------------------- MODULE IbufferProofs ----------------------------
(***************************************************************************)
(* Theorems about IbufferGroups: the sorter orders the lines, and buffers  *)
(* are listed with their project, whatever the buffers and projects are.   *)
(***************************************************************************)
EXTENDS ListLemmas, IbufferGroups

\* Directories, also abbreviated ones: sequences of names.
NameLists == Seq(Nat \ {0})

-----------------------------------------------------------------------------
(* string< is a strict total order of directories.                          *)

LEMMA PrecedesIrreflexive ==
    ASSUME NEW s \in NameLists PROVE ~Precedes(s, s)
BY DEF NameLists, Precedes

LEMMA PrecedesTransitive ==
    ASSUME NEW s \in NameLists, NEW t \in NameLists, NEW u \in NameLists,
           Precedes(s, t), Precedes(t, u)
    PROVE  Precedes(s, u)
<1>1. PICK i \in 1 .. Len(t) : /\ \A m \in 1 .. i - 1 : m <= Len(s) /\ s[m] = t[m]
                               /\ i <= Len(s) => s[i] < t[i]
  BY DEF Precedes
<1>2. PICK j \in 1 .. Len(u) : /\ \A m \in 1 .. j - 1 : m <= Len(t) /\ t[m] = u[m]
                               /\ j <= Len(t) => t[j] < u[j]
  BY DEF Precedes
<1>3. Len(s) \in Nat /\ Len(t) \in Nat /\ Len(u) \in Nat
  BY DEF NameLists
<1>4. CASE i <= j
  <2>1. i \in 1 .. Len(u)
    BY <1>3, <1>4
  <2>2. \A m \in 1 .. i - 1 : m <= Len(s) /\ s[m] = u[m]
    BY <1>1, <1>2, <1>3, <1>4
  <2>3. ASSUME i <= Len(s) PROVE s[i] < u[i]
    <3>1. s[i] \in Nat /\ t[i] \in Nat /\ u[i] \in Nat
      BY <1>3, <2>1, <2>3 DEF NameLists
    <3>2. s[i] < t[i]
      BY <1>1, <2>3
    <3>3. t[i] <= u[i]
      BY <1>2, <1>3, <1>4, <3>1
    <3>4. QED
      BY <3>1, <3>2, <3>3
  <2>4. QED
    BY <2>1, <2>2, <2>3 DEF Precedes
<1>5. CASE j < i
  <2>1. \A m \in 1 .. j - 1 : m <= Len(s) /\ s[m] = u[m]
    BY <1>1, <1>2, <1>3, <1>5
  <2>2. s[j] = t[j] /\ t[j] < u[j]
    BY <1>1, <1>2, <1>3, <1>5
  <2>3. QED
    BY <2>1, <2>2 DEF Precedes
<1>6. QED
  BY <1>3, <1>4, <1>5

\* The first place where two directories differ decides.
LEMMA PrecedesTotal ==
    ASSUME NEW s \in NameLists, NEW t \in NameLists, s # t
    PROVE  Precedes(s, t) \/ Precedes(t, s)
<1> DEFINE Differ == {i \in 1 .. Len(s) + 1 : i > Len(s) \/ i > Len(t) \/ s[i] # t[i]}
<1>1. Len(s) \in Nat /\ Len(t) \in Nat
  BY DEF NameLists
<1>2. Len(s) + 1 \in Differ
  BY <1>1
<1>3. PICK i \in Differ : \A j \in Differ : i <= j
  <2>1. Differ \in SUBSET (1 .. Len(s) + 1) /\ Differ # {} /\ Len(s) + 1 \in Nat
    BY <1>1, <1>2
  <2> HIDE DEF Differ
  <2>2. QED
    BY <2>1, LeastOf
<1>5. \A j \in 1 .. i - 1 : j <= Len(s) /\ j <= Len(t) /\ s[j] = t[j]
  BY <1>1, <1>3
<1>6. CASE i > Len(s) /\ i > Len(t)
  <2>1. Len(s) = Len(t) /\ i = Len(s) + 1
    BY <1>1, <1>5, <1>6
  <2>2. \A j \in 1 .. Len(s) : s[j] = t[j]
    BY <1>1, <1>5, <2>1
  <2>3. QED
    BY <2>1, <2>2, SeqEqual DEF NameLists
<1>7. CASE i > Len(s) /\ i <= Len(t)
  BY <1>1, <1>5, <1>7 DEF Precedes
<1>8. CASE i <= Len(s) /\ i > Len(t)
  BY <1>1, <1>5, <1>8 DEF Precedes
<1>9. CASE i <= Len(s) /\ i <= Len(t)
  <2>1. s[i] \in Nat /\ t[i] \in Nat /\ s[i] # t[i]
    BY <1>1, <1>9 DEF NameLists
  <2>2. QED
    BY <1>1, <1>5, <1>9, <2>1 DEF Precedes
<1>10. QED
  BY <1>1, <1>6, <1>7, <1>8, <1>9

-----------------------------------------------------------------------------
(* The sorter.                                                              *)

\* The order of files: by directory, then by name in it.
FileBefore(a, b) == IF a.dir = b.dir THEN a.base < b.base ELSE Precedes(a.dir, b.dir)
SameFile(a, b)   == a.dir = b.dir /\ a.base = b.base

LEMMA DirectoryIsPath ==
    ASSUME NEW d \in Directories
    PROVE  d \in NameLists /\ \A i \in DOMAIN d : d[i] < Tilde
<1>1. DOMAIN d = 1 .. Len(d) /\ \A i \in 1 .. Len(d) : d[i] \in 1 .. Tilde - 1
    BY LenProperties DEF Directories
<1>2. 1 .. Tilde - 1 \subseteq Nat \ {0} /\ \A n \in 1 .. Tilde - 1 : n < Tilde
    BY IbufferAssumption
<1> QED
    BY <1>1, <1>2, SeqMonotonic DEF Directories, NameLists

LEMMA BufferTypes ==
    ASSUME NEW a \in IBuffers
    PROVE  /\ a.name \in Nat /\ a.base \in Nat /\ a.dir \in NameLists
           /\ a.file \in BOOLEAN /\ a.starred \in BOOLEAN
BY IbufferAssumption, DirectoryIsPath

LEMMA FileOrder ==
    ASSUME NEW a \in IBuffers, NEW b \in IBuffers, NEW c \in IBuffers
    PROVE  /\ ~FileBefore(a, a)
           /\ ~(FileBefore(a, b) /\ FileBefore(b, a))
           /\ ~SameFile(a, b) => FileBefore(a, b) \/ FileBefore(b, a)
           /\ FileBefore(a, b) /\ FileBefore(b, c) => FileBefore(a, c)
<1>1. /\ a.base \in Nat /\ b.base \in Nat /\ c.base \in Nat
      /\ a.dir \in NameLists /\ b.dir \in NameLists /\ c.dir \in NameLists
  BY BufferTypes
<1>2. ~FileBefore(a, a)
  BY <1>1 DEF FileBefore
<1>3. ~(Precedes(a.dir, b.dir) /\ Precedes(b.dir, a.dir))
  BY <1>1, PrecedesTransitive, PrecedesIrreflexive
<1>4. ~(FileBefore(a, b) /\ FileBefore(b, a))
  BY <1>1, <1>3 DEF FileBefore
<1>5. ~SameFile(a, b) => FileBefore(a, b) \/ FileBefore(b, a)
  BY <1>1, PrecedesTotal DEF FileBefore, SameFile
<1>6. ~(Precedes(a.dir, b.dir) /\ Precedes(b.dir, c.dir) /\ a.dir = c.dir)
  BY <1>1, PrecedesTransitive, PrecedesIrreflexive
<1>7. Precedes(a.dir, b.dir) /\ Precedes(b.dir, c.dir) => Precedes(a.dir, c.dir)
  BY <1>1, PrecedesTransitive
<1>8. FileBefore(a, b) /\ FileBefore(b, c) => FileBefore(a, c)
  BY <1>1, <1>6, <1>7 DEF FileBefore
<1>9. QED
  BY <1>2, <1>4, <1>5, <1>8

\* The five cases of the sorter are three: files, the rest, and one of each.
LEMMA BeforeCases ==
    ASSUME NEW a \in IBuffers, NEW b \in IBuffers
    PROVE  Before(a, b) <=>
             \/ a.file /\ b.file /\ FileBefore(a, b)
             \/ a.file /\ b.file /\ SameFile(a, b) /\ a.name < b.name
             \/ a.file /\ ~b.file
             \/ ~a.file /\ ~b.file /\ a.starred /\ ~b.starred
             \/ ~a.file /\ ~b.file /\ a.starred = b.starred /\ a.name < b.name
BY BufferTypes DEF Before, FileBefore, SameFile

\* Two buffers of one file stand at the same place among other files.
LEMMA SameFilePlace ==
    ASSUME NEW a \in IBuffers, NEW b \in IBuffers, NEW c \in IBuffers, SameFile(a, b)
    PROVE  /\ FileBefore(a, c) <=> FileBefore(b, c)
           /\ FileBefore(c, a) <=> FileBefore(c, b)
           /\ SameFile(a, c) <=> SameFile(b, c)
           /\ SameFile(c, a) <=> SameFile(c, b)
           /\ ~FileBefore(a, b) /\ ~FileBefore(b, a)
BY BufferTypes DEF SameFile, FileBefore

LEMMA SorterOrders ==
    ASSUME NEW a \in IBuffers, NEW b \in IBuffers, NEW c \in IBuffers
    PROVE  /\ a # b => (Before(a, b) <=> ~Before(b, a))
           /\ ~Before(a, a)
           /\ Before(a, b) /\ Before(b, c) => Before(a, c)
<1>1. /\ a.name \in Nat /\ b.name \in Nat /\ c.name \in Nat
      /\ a.file \in BOOLEAN /\ b.file \in BOOLEAN /\ c.file \in BOOLEAN
      /\ a.starred \in BOOLEAN /\ b.starred \in BOOLEAN /\ c.starred \in BOOLEAN
  BY BufferTypes
<1>2. a # b => a.name # b.name
  BY IbufferAssumption
<1>3. ~Before(a, a)
  BY <1>1, BeforeCases, FileOrder
<1>4. a # b => (Before(a, b) <=> ~Before(b, a))
  <2> SUFFICES ASSUME a # b PROVE Before(a, b) <=> ~Before(b, a)
    OBVIOUS
  <2>1. CASE a.file /\ b.file /\ SameFile(a, b)
    BY <1>1, <1>2, <2>1, BeforeCases, SameFilePlace DEF SameFile
  <2>2. CASE a.file /\ b.file /\ ~SameFile(a, b)
    <3>1. ~SameFile(b, a)
      BY <2>2 DEF SameFile
    <3>2. QED
      BY <1>1, <2>2, <3>1, BeforeCases, FileOrder
  <2>3. CASE ~(a.file /\ b.file)
    BY <1>1, <1>2, <2>3, BeforeCases
  <2>4. QED
    BY <2>1, <2>2, <2>3
<1>5. Before(a, b) /\ Before(b, c) => Before(a, c)
  <2> SUFFICES ASSUME Before(a, b), Before(b, c) PROVE Before(a, c)
    OBVIOUS
  <2>1. CASE a.file /\ b.file /\ c.file
    <3>1. CASE SameFile(a, b)
      BY <1>1, <2>1, <3>1, BeforeCases, SameFilePlace
    <3>2. CASE SameFile(b, c)
      BY <1>1, <2>1, <3>2, BeforeCases, SameFilePlace
    <3>3. CASE ~SameFile(a, b) /\ ~SameFile(b, c)
      BY <2>1, <3>3, BeforeCases, FileOrder
    <3>4. QED
      BY <3>1, <3>2, <3>3
  <2>2. CASE ~(a.file /\ b.file /\ c.file)
    BY <1>1, <2>2, BeforeCases
  <2>3. QED
    BY <2>1, <2>2
<1>6. QED
  BY <1>3, <1>4, <1>5

\* The sorter "filename/process" is a strict total order of any open buffers:
\* the lines of Ibuffer do not depend on the order in which the buffers come.
THEOREM LinesAreOrdered == IbufferSpec => []TotalOrder
<1> DEFINE Inv == open \subseteq IBuffers
<1>1. IbufferInit => Inv
  BY DEF IbufferInit
<1>2. Inv /\ [IbufferNext]_ibufferVars => Inv'
  BY DEF IbufferNext, Update, IbufferJump, OpenBuffer, KillBuffer, ibufferVars
<1>3. Inv => TotalOrder
  BY SorterOrders DEF TotalOrder
<1>4. QED
  BY <1>1, <1>2, <1>3, PTL DEF IbufferSpec

-----------------------------------------------------------------------------
(* Roots and prefixes.                                                      *)

LEMMA RootTypes ==
    /\ \A r \in Roots : r \in NameLists /\ \A i \in DOMAIN r : r[i] < Tilde
    /\ \A b \in IBuffers : b.dir \in NameLists
    /\ Home \in NameLists /\ \A i \in DOMAIN Home : Home[i] < Tilde
BY IbufferAssumption, DirectoryIsPath

LEMMA PrefixIs ==
    ASSUME NEW s \in NameLists, NEW t \in NameLists
    PROVE  Lists!IsPrefix(s, t) <=> Len(s) <= Len(t) /\ \A i \in 1 .. Len(s) : s[i] = t[i]
<1>1. Len(s) \in Nat /\ Len(t) \in Nat
    BY DEF NameLists
<1>2. SubSeq(s, 1, Len(s)) = s
    BY DEF NameLists
<1>3. ASSUME Len(s) <= Len(t)
      PROVE  /\ SubSeq(t, 1, Len(s)) \in NameLists /\ Len(SubSeq(t, 1, Len(s))) = Len(s)
             /\ \A i \in 1 .. Len(s) : SubSeq(t, 1, Len(s))[i] = t[i]
    BY <1>1, <1>3 DEF NameLists
<1>4. ASSUME Len(s) <= Len(t), \A i \in 1 .. Len(s) : s[i] = t[i]
      PROVE  s = SubSeq(t, 1, Len(s))
  <2> DEFINE u == SubSeq(t, 1, Len(s))
  <2>1. u \in NameLists /\ Len(u) = Len(s) /\ \A i \in 1 .. Len(s) : u[i] = s[i]
      BY <1>3, <1>4
  <2> HIDE DEF u
  <2>2. s = u
      BY <1>1, <2>1, SeqEqual DEF NameLists
  <2> QED
      BY <2>2 DEF u
<1> QED
    BY <1>1, <1>2, <1>3, <1>4 DEF Lists!IsPrefix

\* What string< sees of a root.
LEMMA AbbreviatedIs ==
    ASSUME NEW r \in Roots
    PROVE  /\ Abbreviated(r) \in NameLists
           /\ Lists!IsPrefix(Home, r) =>
                 /\ Len(Abbreviated(r)) = Len(r) - Len(Home) + 1
                 /\ Abbreviated(r)[1] = Tilde
                 /\ \A i \in Len(Home) + 1 .. Len(r) : Abbreviated(r)[i - Len(Home) + 1] = r[i]
           /\ ~Lists!IsPrefix(Home, r) => Abbreviated(r) = r
<1>1. r \in NameLists /\ Home \in NameLists /\ Len(r) \in Nat /\ Len(Home) \in Nat
    BY RootTypes DEF NameLists
<1>2. CASE Lists!IsPrefix(Home, r)
  <2> DEFINE u == SubSeq(r, Len(Home) + 1, Len(r))
  <2>1. Len(Home) <= Len(r)
      BY <1>1, <1>2, PrefixIs
  <2>2. /\ u \in NameLists /\ Len(u) = Len(r) - Len(Home)
        /\ \A i \in 1 .. Len(r) - Len(Home) : u[i] = r[Len(Home) + i]
      BY <1>1, <2>1 DEF NameLists
  <2>3. <<Tilde>> \in NameLists /\ Len(<<Tilde>>) = 1 /\ <<Tilde>>[1] = Tilde
      BY IbufferAssumption DEF NameLists
  <2>4. Abbreviated(r) = <<Tilde>> \o u
      BY <1>2 DEF Abbreviated
  <2> HIDE DEF u
  <2>5. /\ Abbreviated(r) \in NameLists /\ Len(Abbreviated(r)) = 1 + Len(u)
        /\ \A i \in 1 .. 1 + Len(u) :
              Abbreviated(r)[i] = IF i <= 1 THEN <<Tilde>>[i] ELSE u[i - 1]
    <3>1. /\ <<Tilde>> \o u \in NameLists /\ Len(<<Tilde>> \o u) = Len(<<Tilde>>) + Len(u)
          /\ \A i \in 1 .. Len(<<Tilde>>) + Len(u) :
                (<<Tilde>> \o u)[i] = IF i <= Len(<<Tilde>>) THEN <<Tilde>>[i] ELSE u[i - Len(<<Tilde>>)]
        BY <2>2, <2>3, ConcatProperties, Zenon DEF NameLists
    <3> QED
        BY <2>3, <2>4, <3>1
  <2>6. ASSUME NEW i \in Len(Home) + 1 .. Len(r)
        PROVE  Abbreviated(r)[i - Len(Home) + 1] = r[i]
    <3> DEFINE j == i - Len(Home)
    <3>1. /\ j \in 1 .. Len(r) - Len(Home) /\ j + 1 \in 1 .. 1 + Len(u)
          /\ ~(j + 1 <= 1) /\ (j + 1) - 1 = j /\ Len(Home) + j = i
        BY <1>1, <2>1, <2>2
    <3> HIDE DEF j
    <3>2. Abbreviated(r)[j + 1] = r[i]
        BY <2>2, <2>5, <3>1
    <3> QED
        BY <3>2 DEF j
  <2>7. Abbreviated(r)[1] = Tilde
      BY <2>2, <2>3, <2>5, <1>1, <2>1
  <2> QED
      BY <1>1, <1>2, <2>1, <2>2, <2>5, <2>6, <2>7
<1>3. CASE ~Lists!IsPrefix(Home, r)
    BY <1>1, <1>3 DEF Abbreviated
<1> QED
    BY <1>2, <1>3

\* A root inside another project sorts after that project's root, also when
\* the home directory lies between them.
LEMMA InnerAfterOuter ==
    ASSUME NEW q \in Roots, NEW p \in Roots, Lists!IsPrefix(q, p), q # p
    PROVE  Precedes(Abbreviated(q), Abbreviated(p))
<1> DEFINE h == Len(Home)
           a == Abbreviated(q)
           z == Abbreviated(p)
<1>1. /\ q \in NameLists /\ p \in NameLists /\ Home \in NameLists
      /\ Len(q) \in Nat /\ Len(p) \in Nat /\ h \in Nat
    BY RootTypes DEF NameLists
<1>2. Len(q) < Len(p) /\ \A i \in 1 .. Len(q) : q[i] = p[i]
  <2>1. Len(q) <= Len(p) /\ \A i \in 1 .. Len(q) : q[i] = p[i]
      BY <1>1, PrefixIs
  <2>2. ASSUME Len(q) = Len(p) PROVE FALSE
      BY <1>1, <2>1, <2>2, SeqEqual DEF NameLists
  <2> QED
      BY <1>1, <2>1, <2>2
<1>3. CASE Lists!IsPrefix(Home, q)
  <2>1. h <= Len(q) /\ \A i \in 1 .. h : Home[i] = q[i]
      BY <1>1, <1>3, PrefixIs
  <2>2. Lists!IsPrefix(Home, p)
      BY <1>1, <1>2, <2>1, PrefixIs
  <2>3. /\ Len(a) = Len(q) - h + 1 /\ a[1] = Tilde
        /\ \A i \in h + 1 .. Len(q) : a[i - h + 1] = q[i]
        /\ Len(z) = Len(p) - h + 1 /\ z[1] = Tilde
        /\ \A i \in h + 1 .. Len(p) : z[i - h + 1] = p[i]
      BY <1>3, <2>2, AbbreviatedIs
  <2> HIDE DEF a, z, h
  <2>4. ASSUME NEW j \in 1 .. Len(a) PROVE a[j] = z[j]
    <3>1. CASE j = 1
        BY <2>3, <3>1
    <3>2. CASE j # 1
      <4> DEFINE i == j + h - 1
      <4>1. i \in h + 1 .. Len(q) /\ i \in h + 1 .. Len(p) /\ i \in 1 .. Len(q) /\ i - h + 1 = j
          BY <1>1, <1>2, <2>1, <2>3, <3>2
      <4> HIDE DEF i
      <4> QED
          BY <1>2, <2>3, <4>1
    <3> QED
        BY <3>1, <3>2
  <2>5. Len(a) \in Nat /\ Len(z) \in Nat /\ Len(a) + 1 \in 1 .. Len(z)
      BY <1>1, <1>2, <2>1, <2>3
  <2> QED
      BY <2>4, <2>5 DEF Precedes, a, z
<1>4. CASE ~Lists!IsPrefix(Home, q) /\ ~Lists!IsPrefix(Home, p)
  <2>1. a = q /\ z = p
      BY <1>4, AbbreviatedIs
  <2>2. Precedes(q, p)
    <3>1. Len(q) + 1 \in 1 .. Len(p) /\ ~(Len(q) + 1 <= Len(q))
        BY <1>1, <1>2
    <3>2. \A j \in 1 .. (Len(q) + 1) - 1 : j <= Len(q) /\ q[j] = p[j]
        BY <1>1, <1>2
    <3> QED
        BY <3>1, <3>2 DEF Precedes
  <2> QED
      BY <2>1, <2>2
<1>5. CASE ~Lists!IsPrefix(Home, q) /\ Lists!IsPrefix(Home, p)
  <2>1. a = q /\ Len(z) >= 1 /\ z[1] = Tilde /\ z \in NameLists
    <3>1. Len(z) = Len(p) - h + 1 /\ h <= Len(p)
        BY <1>1, <1>5, AbbreviatedIs, PrefixIs
    <3> QED
        BY <1>1, <1>5, <3>1, AbbreviatedIs
  <2> HIDE DEF z
  <2>2. 1 <= Len(q) => q[1] < Tilde
      BY <1>1, RootTypes
  <2>3. 1 \in 1 .. Len(z)
      BY <2>1 DEF NameLists
  <2>4. Precedes(q, z)
      BY <2>1, <2>2, <2>3 DEF Precedes
  <2> QED
      BY <2>1, <2>4 DEF z
<1>6. CASE Lists!IsPrefix(Home, q) /\ ~Lists!IsPrefix(Home, p)
  <2>1. Lists!IsPrefix(Home, p)
      BY <1>1, <1>2, <1>6, PrefixIs
  <2> QED
      BY <1>6, <2>1
<1> QED
    BY <1>3, <1>4, <1>5, <1>6

\* Different roots are shown differently.
LEMMA AbbreviatedInjective ==
    ASSUME NEW q \in Roots, NEW p \in Roots, Abbreviated(q) = Abbreviated(p)
    PROVE  q = p
<1> DEFINE h == Len(Home)
           a == Abbreviated(q)
<1>1. /\ q \in NameLists /\ p \in NameLists /\ Home \in NameLists
      /\ Len(q) \in Nat /\ Len(p) \in Nat /\ h \in Nat
    BY RootTypes DEF NameLists
<1>2. CASE Lists!IsPrefix(Home, q) /\ Lists!IsPrefix(Home, p)
  <2>1. /\ h <= Len(q) /\ \A i \in 1 .. h : Home[i] = q[i]
        /\ h <= Len(p) /\ \A i \in 1 .. h : Home[i] = p[i]
      BY <1>1, <1>2, PrefixIs
  <2>2. /\ Len(a) = Len(q) - h + 1 /\ \A i \in h + 1 .. Len(q) : a[i - h + 1] = q[i]
        /\ Len(a) = Len(p) - h + 1 /\ \A i \in h + 1 .. Len(p) : a[i - h + 1] = p[i]
      BY <1>2, AbbreviatedIs
  <2> HIDE DEF a, h
  <2>3. Len(q) = Len(p)
      BY <1>1, <2>2
  <2>4. ASSUME NEW i \in 1 .. Len(q) PROVE q[i] = p[i]
    <3>1. CASE i \in 1 .. h
        BY <2>1, <3>1
    <3>2. CASE i \in h + 1 .. Len(q)
        BY <2>2, <2>3, <3>2
    <3> QED
        BY <1>1, <3>1, <3>2
  <2> QED
      BY <1>1, <2>3, <2>4, SeqEqual DEF NameLists
<1>3. CASE ~Lists!IsPrefix(Home, q) /\ ~Lists!IsPrefix(Home, p)
    BY <1>3, AbbreviatedIs
<1>4. ASSUME NEW r \in Roots, NEW s \in Roots, Abbreviated(r) = Abbreviated(s),
             Lists!IsPrefix(Home, r), ~Lists!IsPrefix(Home, s)
      PROVE  FALSE
  <2>1. Abbreviated(r) = s /\ s \in NameLists /\ r \in NameLists
      BY <1>4, AbbreviatedIs, RootTypes
  <2>2. s[1] = Tilde /\ Len(s) = Len(r) - Len(Home) + 1 /\ Len(Home) <= Len(r)
      BY <1>1, <1>4, <2>1, AbbreviatedIs, PrefixIs
  <2>3. 1 \in DOMAIN s
      BY <1>1, <2>1, <2>2 DEF NameLists
  <2> QED
      BY <2>2, <2>3, RootTypes, IbufferAssumption
<1> QED
    BY <1>2, <1>3, <1>4

-----------------------------------------------------------------------------
(* The groups.                                                              *)

\* project-current finds the innermost root.
LEMMA ProjectFound ==
    ASSUME NEW d \in NameLists, Above(d) # {}
    PROVE  ProjectOf(d) \in Above(d) /\ \A s \in Above(d) : Len(s) <= Len(ProjectOf(d))
<1> DEFINE lens == {n \in 1 .. Len(d) + 1 : \E r \in Above(d) : n = Len(r) + 1}
<1>1. Len(d) + 1 \in Nat
    BY DEF NameLists
<1>2. ASSUME NEW r \in Above(d) PROVE Len(r) \in Nat /\ Len(r) + 1 \in lens
  <2>1. r \in NameLists
      BY RootTypes DEF Above
  <2>2. Len(r) \in Nat /\ Len(r) <= Len(d)
      BY <2>1, PrefixIs DEF Above, NameLists
  <2> QED
      BY <1>1, <2>2
<1>3. lens \in SUBSET (1 .. Len(d) + 1) /\ lens # {}
    BY <1>2
<1> HIDE DEF lens
<1>4. PICK n \in lens : \A m \in lens : m <= n
    BY <1>1, <1>3, GreatestOf
<1> USE DEF lens
<1>5. PICK r \in Above(d) : n = Len(r) + 1
    BY <1>4
<1>6. ASSUME NEW s \in Above(d) PROVE Len(s) <= Len(r)
  <2>1. Len(s) + 1 <= Len(r) + 1
      BY <1>2, <1>4, <1>5
  <2> QED
      BY <1>2, <2>1
<1> HIDE DEF lens
<1> QED
    BY <1>5, <1>6 DEF ProjectOf

\* The saved groups: the opened projects, inner ones before outer ones.
LEMMA SortedIsSorted ==
    ASSUME open \subseteq IBuffers
    PROVE  Sorted \in Seq(Roots) /\ RangeOf(Sorted) = OpenedProjects /\ Descending(Sorted)
<1> DEFINE S == OpenedProjects
           R == {p \in Roots \X Roots : Precedes(Abbreviated(p[2]), Abbreviated(p[1]))}
<1>1. S \subseteq Roots
  <2> SUFFICES ASSUME NEW b \in open, Above(b.dir) # {} PROVE ProjectOf(b.dir) \in Roots
      BY DEF OpenedProjects
  <2> QED
      BY ProjectFound, RootTypes DEF Above
<1>2. IsFiniteSet(S) /\ Cardinality(S) \in Nat
    BY <1>1, IbufferAssumption, FS_Subset, FS_CardinalityType
<1> HIDE DEF S
<1>3. \A q, p \in S : <<q, p>> \in R <=> Precedes(Abbreviated(p), Abbreviated(q))
    BY <1>1
<1>4. \A q \in S : Abbreviated(q) \in NameLists
    BY <1>1, AbbreviatedIs
<1> HIDE DEF R
<1>5. IsOrderOf(R, S)
  <2>1. ASSUME NEW q \in S, NEW p \in S, q # p PROVE <<q, p>> \in R \/ <<p, q>> \in R
    <3>1. Abbreviated(q) # Abbreviated(p)
        BY <1>1, <2>1, AbbreviatedInjective
    <3>2. Precedes(Abbreviated(q), Abbreviated(p)) \/ Precedes(Abbreviated(p), Abbreviated(q))
        BY <1>4, <3>1, PrecedesTotal
    <3> QED
        BY <1>3, <3>2
  <2>2. ASSUME NEW q \in S, NEW p \in S, NEW r \in S, <<q, p>> \in R, <<p, r>> \in R
        PROVE  <<q, r>> \in R
    <3>1. Precedes(Abbreviated(p), Abbreviated(q)) /\ Precedes(Abbreviated(r), Abbreviated(p))
        BY <1>3, <2>2
    <3>2. Precedes(Abbreviated(r), Abbreviated(q))
        BY <1>4, <3>1, PrecedesTransitive
    <3> QED
        BY <1>3, <3>2
  <2> QED
      BY <2>1, <2>2 DEF IsOrderOf
<1>6. PICK s \in [1 .. Cardinality(S) -> S] :
         /\ \A x \in S : \E i \in 1 .. Cardinality(S) : s[i] = x
         /\ \A i, j \in 1 .. Cardinality(S) : i < j => <<s[i], s[j]>> \in R
    BY <1>2, <1>5, SortedListExists
<1>7. RangeOf(s) = S
    BY <1>6, Zenon DEF RangeOf
<1>8. Descending(s)
    BY <1>3, <1>6 DEF Descending
<1>9. s \in ListsOf(S)
    BY <1>6, <1>7, Zenon DEF ListsOf
<1>10. Sorted \in ListsOf(S) /\ Descending(Sorted)
    BY <1>8, <1>9, Zenon DEF Sorted, S
<1>11. Sorted \in [1 .. Cardinality(S) -> S] /\ RangeOf(Sorted) = S
    BY <1>10, Zenon DEF ListsOf
<1>12. Sorted \in [1 .. Cardinality(S) -> Roots]
    BY <1>1, <1>11
<1>13. Sorted \in Seq(Roots)
    BY <1>2, <1>12, SeqDef
<1> QED
    BY <1>10, <1>11, <1>13 DEF S

\* A root that occurs in a directory only at its start is a prefix of it.
LEMMA OccursAtStart ==
    ASSUME NEW r \in NameLists, NEW d \in NameLists, d # <<>>,
           \A i \in 2 .. Len(d) : ~Occurs(r, d, i)
    PROVE  Filtered(r, d) <=> Lists!IsPrefix(r, d)
<1>1. Len(r) \in Nat /\ Len(d) \in Nat /\ Len(d) # 0
    BY EmptySeq, SeqEqual DEF NameLists
<1>2. Filtered(r, d) <=> Occurs(r, d, 1)
  <2>1. 1 \in 1 .. Len(d) /\ \A i \in 1 .. Len(d) : i = 1 \/ i \in 2 .. Len(d)
      BY <1>1
  <2> QED
      BY <2>1 DEF Filtered
<1>3. 1 + Len(r) - 1 = Len(r) /\ SubSeq(r, 1, Len(r)) = r
    BY <1>1 DEF NameLists
<1> QED
    BY <1>2, <1>3 DEF Occurs, Lists!IsPrefix

\* Ibuffer shows the groups that were saved when it was called: in order, and
\* with the project of every buffer that there was.
GroupsOfJumped ==
    /\ Descending(groups)
    /\ \A b \in jumped : Above(b.dir) # {} => ProjectOf(b.dir) \in RangeOf(groups)

IbufferInv == IbufferTypeOK /\ GroupsOfJumped

\* The first group that takes a buffer.
LEMMA GroupTaken ==
    ASSUME IbufferInv, NEW b \in IBuffers,
           \A r \in RangeOf(groups) : \A i \in 2 .. Len(b.dir) : ~Occurs(r, b.dir, i)
    PROVE  \/ GroupOf(b) = FilesGroup /\ (b.dir = <<>> \/ RangeOf(groups) \cap Above(b.dir) = {})
           \/ /\ b.dir # <<>>
              /\ \E i \in DOMAIN groups :
                    /\ GroupOf(b) = groups[i] /\ groups[i] \in Above(b.dir)
                    /\ \A j \in DOMAIN groups : groups[j] \in Above(b.dir) => i <= j
<1> DEFINE takers == {i \in DOMAIN groups : Filtered(groups[i], b.dir)}
<1>1. b.dir \in NameLists /\ Len(groups) \in Nat /\ DOMAIN groups = 1 .. Len(groups)
    BY RootTypes DEF IbufferInv, IbufferTypeOK
<1>2. ASSUME NEW i \in DOMAIN groups
      PROVE  groups[i] \in Roots /\ groups[i] \in NameLists /\ groups[i] \in RangeOf(groups)
    BY <1>1, RootTypes DEF IbufferInv, IbufferTypeOK, RangeOf
<1>3. CASE b.dir = <<>>
  <2>1. takers = {}
      BY <1>3 DEF Filtered
  <2> QED
      BY <1>3, <2>1 DEF GroupOf
<1>4. CASE b.dir # <<>>
  <2>1. \A i \in DOMAIN groups : i \in takers <=> groups[i] \in Above(b.dir)
      BY <1>1, <1>2, <1>4, OccursAtStart DEF Above
  <2>2. takers \in SUBSET (1 .. Len(groups))
      BY <1>1
  <2>3. GroupOf(b) = IF takers = {} THEN FilesGroup
                     ELSE groups[CHOOSE i \in takers : \A j \in takers : i <= j]
      BY DEF GroupOf
  <2>4. \A i \in takers : i \in DOMAIN groups
      OBVIOUS
  <2> HIDE DEF takers
  <2>5. CASE takers = {}
    <3>1. RangeOf(groups) \cap Above(b.dir) = {}
        BY <2>1, <2>5 DEF RangeOf
    <3> QED
        BY <2>3, <2>5, <3>1
  <2>6. CASE takers # {}
    <3> DEFINE first == CHOOSE i \in takers : \A j \in takers : i <= j
    <3>1. first \in takers /\ \A j \in takers : first <= j
        BY <1>1, <2>2, <2>6, LeastOf
    <3>2. GroupOf(b) = groups[first]
        BY <2>3, <2>6
    <3> HIDE DEF first
    <3> QED
        BY <1>4, <2>1, <2>4, <3>1, <3>2
  <2> QED
      BY <2>5, <2>6
<1> QED
    BY <1>3, <1>4

LEMMA GroupIsOwn == ASSUME IbufferInv PROVE OwnProject
<1> SUFFICES ASSUME NEW b \in open,
                    \A r \in RangeOf(groups) : \A i \in 2 .. Len(b.dir) : ~Occurs(r, b.dir, i)
             PROVE  IF b \notin jumped THEN GroupOf(b) \in Above(b.dir) \cup {FilesGroup}
                    ELSE GroupOf(b) = IF Above(b.dir) = {} THEN FilesGroup ELSE ProjectOf(b.dir)
    BY DEF OwnProject
<1>1. b \in IBuffers /\ b.dir \in NameLists
    BY RootTypes DEF IbufferInv, IbufferTypeOK
<1>2. CASE b.dir = <<>>
  <2>1. GroupOf(b) = FilesGroup
      BY <1>1, <1>2, GroupTaken
  <2>2. ASSUME NEW r \in Above(b.dir) PROVE r = FilesGroup
    <3>1. r \in NameLists /\ Len(r) <= Len(b.dir)
        BY <1>1, PrefixIs, RootTypes DEF Above
    <3> QED
        BY <1>2, <3>1, EmptySeq DEF NameLists, FilesGroup
  <2> QED
      BY <1>1, <2>1, <2>2, ProjectFound
<1>3. CASE b.dir # <<>> /\ GroupOf(b) = FilesGroup /\ RangeOf(groups) \cap Above(b.dir) = {}
  <2>1. ASSUME b \in jumped PROVE Above(b.dir) = {}
      BY <1>1, <1>3, <2>1, ProjectFound DEF IbufferInv, GroupsOfJumped
  <2> QED
      BY <1>3, <2>1
<1>4. ASSUME NEW i \in DOMAIN groups, GroupOf(b) = groups[i], groups[i] \in Above(b.dir),
             \A j \in DOMAIN groups : groups[j] \in Above(b.dir) => i <= j,
             b \in jumped
      PROVE  GroupOf(b) = ProjectOf(b.dir)
  <2> DEFINE q == groups[i]
             p == ProjectOf(b.dir)
  <2>1. p \in Above(b.dir) /\ \A s \in Above(b.dir) : Len(s) <= Len(p)
      BY <1>1, <1>4, ProjectFound
  <2>2. PICK k \in DOMAIN groups : groups[k] = p
      BY <1>4 DEF IbufferInv, GroupsOfJumped, RangeOf
  <2>3. /\ q \in Roots /\ p \in Roots /\ q \in NameLists /\ p \in NameLists
        /\ Lists!IsPrefix(q, b.dir) /\ Lists!IsPrefix(p, b.dir) /\ Len(q) <= Len(p)
      BY <1>4, <2>1, RootTypes DEF Above
  <2> HIDE DEF p, q
  <2>4. Lists!IsPrefix(q, p)
    <3>1. Len(q) \in Nat /\ Len(p) \in Nat /\ Len(b.dir) \in Nat
        BY <1>1, <2>3 DEF NameLists
    <3>2. /\ \A j \in 1 .. Len(q) : q[j] = b.dir[j]
          /\ \A j \in 1 .. Len(p) : p[j] = b.dir[j]
        BY <1>1, <2>3, PrefixIs
    <3>3. \A j \in 1 .. Len(q) : q[j] = p[j]
        BY <2>3, <3>1, <3>2
    <3> QED
        BY <2>3, <3>3, PrefixIs
  <2>5. ASSUME q # p PROVE FALSE
    <3>1. Precedes(Abbreviated(q), Abbreviated(p))
        BY <2>3, <2>4, <2>5, InnerAfterOuter
    <3>2. i < k
      <4>1. i <= k /\ i # k
          BY <1>4, <2>1, <2>2, <2>5 DEF q, p
      <4>2. i \in Nat /\ k \in Nat
          BY DEF IbufferInv, IbufferTypeOK
      <4> QED
          BY <4>1, <4>2
    <3>3. Precedes(Abbreviated(p), Abbreviated(q))
        BY <2>2, <3>2 DEF IbufferInv, GroupsOfJumped, Descending, q
    <3> QED
        BY <2>3, <3>1, <3>3, AbbreviatedIs, PrecedesTransitive, PrecedesIrreflexive
  <2> QED
      BY <1>4, <2>5 DEF q, p
<1> QED
    BY <1>1, <1>2, <1>3, <1>4, GroupTaken

LEMMA IbufferInvHolds == IbufferSpec => []IbufferInv
<1>1. IbufferInit => IbufferInv
  <2>1. <<>> \in Seq(Roots)
      OBVIOUS
  <2> QED
      BY <2>1 DEF IbufferInit, IbufferInv, IbufferTypeOK, GroupsOfJumped, Descending
<1>2. ASSUME IbufferInv, [IbufferNext]_ibufferVars PROVE IbufferInv'
  <2> USE DEF IbufferInv, IbufferTypeOK, GroupsOfJumped
  <2>1. CASE IbufferJump
    <3>1. /\ Sorted \in Seq(Roots) /\ RangeOf(Sorted) = OpenedProjects /\ Descending(Sorted)
          /\ groups' = Sorted /\ saved' = Sorted /\ jumped' = open /\ open' = open
        BY <1>2, <2>1, SortedIsSorted DEF IbufferJump
    <3>2. \A b \in open : Above(b.dir) # {} => ProjectOf(b.dir) \in OpenedProjects
        BY DEF OpenedProjects
    <3>3. GroupsOfJumped'
        BY <3>1, <3>2
    <3> QED
        BY <1>2, <3>1, <3>3
  <2>2. CASE Update
    <3>1. saved' \in Seq(Roots)
        BY <1>2, <2>2, SortedIsSorted DEF Update
    <3> QED
        BY <1>2, <2>2, <3>1 DEF Update, Descending
  <2>3. ASSUME NEW b \in IBuffers, OpenBuffer(b) \/ KillBuffer(b) PROVE IbufferInv'
      BY <1>2, <2>3 DEF OpenBuffer, KillBuffer, Descending
  <2>4. CASE UNCHANGED ibufferVars
      BY <1>2, <2>4 DEF ibufferVars, Descending
  <2> QED
      BY <1>2, <2>1, <2>2, <2>3, <2>4 DEF IbufferNext
<1> QED
    BY <1>1, <1>2, PTL DEF IbufferSpec

\* The state of Ibuffer is well formed.
THEOREM IbufferTypes == IbufferSpec => []IbufferTypeOK
BY IbufferInvHolds, PTL DEF IbufferInv

\* A buffer that was there when Ibuffer was called is listed under the
\* innermost project around it, for any projects on disk, however they are
\* nested and wherever the home directory is, unless the root of another group
\* occurs in the middle of its directory.
THEOREM ListedWithOwnProject == IbufferSpec => []OwnProject
BY IbufferInvHolds, GroupIsOwn, PTL
=============================================================================
