---------------------------- MODULE IbufferGroups ----------------------------
(***************************************************************************)
(* The project groups of Ibuffer and the order of its lines                *)
(* (helheim-ibuffer.el).  A directory is a sequence of names; names are    *)
(* numbers, in the order of their spelling.  The filters that keep help    *)
(* buffers out of the project groups are left out.                         *)
(***************************************************************************)
EXTENDS Sequences, Integers, FiniteSets

Lists == INSTANCE SequencesExt

CONSTANTS
    Tilde,       \* "~", which sorts after the "/" that other directories begin with
    Roots,       \* roots of the projects on disk
    Home,        \* the home directory, which project roots call "~"
    BufferDirs,  \* directories of buffers
    IBuffers     \* buffers: name, starred ("*name*"), file, dir, base (0: Dired)

Directories == Seq(1 .. Tilde - 1)

ASSUME IbufferAssumption ==
    /\ Tilde \in Nat \ {0}
    /\ Roots \subseteq Directories /\ IsFiniteSet(Roots)
    /\ BufferDirs \subseteq Directories /\ Home \in Directories
    /\ IBuffers \subseteq [name: Nat, starred: BOOLEAN, file: BOOLEAN, dir: BufferDirs, base: Nat]
    /\ \A a, b \in IBuffers : a.name = b.name => a = b    \* Emacs makes names unique

VARIABLES
    open,        \* buffers
    saved,       \* the "Project" entry of ibuffer-saved-filter-groups: roots
    groups,      \* the groups that the Ibuffer buffer was switched to
    jumped       \* buffers that were open when it was

ibufferVars == <<open, saved, groups, jumped>>

IbufferInit == open = {} /\ saved = <<>> /\ groups = <<>> /\ jumped = {}

-----------------------------------------------------------------------------
\* string<, of names and of directories
Precedes(s, t) ==
    \E i \in 1 .. Len(t) :
        /\ \A j \in 1 .. i - 1 : j <= Len(s) /\ s[j] = t[j]
        /\ i <= Len(s) => s[i] < t[i]

\* project-root abbreviates the home directory.
Abbreviated(r) ==
    IF Lists!IsPrefix(Home, r) THEN <<Tilde>> \o SubSeq(r, Len(Home) + 1, Len(r)) ELSE r

\* The project of a directory: project-current looks upwards for a root.
Above(d)   == {r \in Roots : Lists!IsPrefix(r, d)}
ProjectOf(d) == CHOOSE r \in Above(d) : \A s \in Above(d) : Len(s) <= Len(r)

\* helheim-opened-projects, and the roots sorted by string>
OpenedProjects == {ProjectOf(b.dir) : b \in {c \in open : Above(c.dir) # {}}}
RangeOf(s) == {s[i] : i \in DOMAIN s}
ListsOf(S) == {s \in [1 .. Cardinality(S) -> S] : RangeOf(s) = S}
Descending(s) == \A i, j \in DOMAIN s : i < j => Precedes(Abbreviated(s[j]), Abbreviated(s[i]))

\* Mutant: the shortest first.
Sorted_Ascending ==
    CHOOSE s \in ListsOf(OpenedProjects) :
        \A i, j \in DOMAIN s : i < j => Precedes(Abbreviated(s[i]), Abbreviated(s[j]))
Sorted == CHOOSE s \in ListsOf(OpenedProjects) : Descending(s)

\* The filter takes the expanded root for a regexp, and anchors it nowhere.
Occurs(r, d, i) == i + Len(r) - 1 <= Len(d) /\ SubSeq(d, i, i + Len(r) - 1) = r
Filtered(r, d)  == \E i \in 1 .. Len(d) : Occurs(r, d, i)

\* A buffer is listed in the first group that takes it: "Files" is the last.
FilesGroup == <<>>
GroupOf(b) ==
    LET takers == {i \in DOMAIN groups : Filtered(groups[i], b.dir)}
    IN  IF takers = {} THEN FilesGroup ELSE groups[CHOOSE i \in takers : \A j \in takers : i <= j]

\* Mutant: buffers of one file are not told apart.
Before_Mutant(a, b) ==
    \/ a.file /\ b.file /\ (IF a.dir = b.dir THEN a.base < b.base ELSE Precedes(a.dir, b.dir))
    \/ a.file /\ ~b.file
    \/ ~a.file /\ ~b.file /\ (IF a.starred # b.starred THEN ~b.starred ELSE a.name < b.name)

\* The sorter "filename/process"
Before(a, b) ==
    LET same == a.file /\ b.file /\ a.dir = b.dir /\ a.base = b.base
    IN  \/ same /\ a.name < b.name
        \/ a.file /\ b.file /\ ~same /\ (IF a.dir = b.dir THEN a.base < b.base ELSE Precedes(a.dir, b.dir))
        \/ a.file /\ ~b.file
        \/ /\ ~a.file /\ ~b.file
           /\ IF a.starred # b.starred THEN ~b.starred ELSE a.name < b.name

-----------------------------------------------------------------------------
OpenBuffer(b) == b \notin open /\ open' = open \cup {b} /\ UNCHANGED <<saved, groups, jumped>>

KillBuffer(b) == b \in open /\ open' = open \ {b} /\ UNCHANGED <<saved, groups, jumped>>

\* Any update of an Ibuffer makes the saved groups anew, not those it shows.
Update == saved' = Sorted /\ UNCHANGED <<open, groups, jumped>>

\* ibuffer-jump updates, and its advice then switches to the saved groups.
IbufferJump ==
    /\ saved' = Sorted /\ groups' = saved' /\ jumped' = open
    /\ UNCHANGED open

IbufferNext == Update \/ IbufferJump \/ \E b \in IBuffers : OpenBuffer(b) \/ KillBuffer(b)

IbufferSpec == IbufferInit /\ [][IbufferNext]_ibufferVars

-----------------------------------------------------------------------------
IbufferTypeOK ==
    /\ open \subseteq IBuffers /\ jumped \subseteq IBuffers
    /\ saved \in Seq(Roots) /\ groups \in Seq(Roots)

\* "Sort projects roots by length (longest first) to group files for nested
\* projects correctly" (helheim-ibuffer.el:231-232): a buffer that was there
\* when Ibuffer was called is listed under its own project, the innermost one,
\* whatever is opened and killed later.  One opened since then is listed with
\* that project, an outer one or under "Files".  The exception is a directory
\* with the root of another project in the middle.
OwnProject ==
    \A b \in open :
        \/ IF b \notin jumped THEN GroupOf(b) \in Above(b.dir) \cup {FilesGroup}
           ELSE GroupOf(b) = IF Above(b.dir) = {} THEN FilesGroup ELSE ProjectOf(b.dir)
        \/ \E r \in RangeOf(groups), i \in 2 .. Len(b.dir) : Occurs(r, b.dir, i)

\* The sorter is a strict total order: the lines do not depend on the order
\* in which the buffers come, and none is compared two ways.
TotalOrder ==
    \A a, b \in open :
        /\ a # b => (Before(a, b) <=> ~Before(b, a))
        /\ ~Before(a, a)
        /\ \A c \in open : Before(a, b) /\ Before(b, c) => Before(a, c)
=============================================================================
