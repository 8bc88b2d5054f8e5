-------------------------- MODULE DailyNotesProofs --------------------------
(***************************************************************************)
(* Theorems about daily notes, for any number of days and any order of     *)
(* captures, pulls, midnights, restarts and visits.                        *)
(***************************************************************************)
EXTENDS ListLemmas, DailyNotes

-----------------------------------------------------------------------------
(* The n-th note.                                                           *)

\* The notes before a day: their number is its index in the sorted list.
Below(d) == {e \in files : e < d}

LEMMA NotesAreDays ==
    ASSUME files \subseteq Days, NEW d \in Days
    PROVE  d \in Nat /\ \A e : e \in Below(d) <=> e \in files /\ e \in Nat /\ e < d
<1>1. d \in Nat /\ \A e \in files : e \in Nat
    BY DailyAssumption DEF Days
<1> QED
    BY <1>1 DEF Below

\* The days of the notes are ranked from 0 to the number of notes less one.
LEMMA IndexBounds ==
    ASSUME files \subseteq Days, NEW d
    PROVE  /\ IsFiniteSet(files) /\ IsFiniteSet(Below(d)) /\ Cardinality(files) \in Nat
           /\ Index(d) \in Nat /\ Index(d) = Cardinality(Below(d)) /\ Index(d) <= Cardinality(files)
<1>1. IsFiniteSet(Days)
    BY FS_Interval, DailyAssumption DEF Days
<1>2. IsFiniteSet(files)
    BY <1>1, FS_Subset
<1>3. Below(d) \in SUBSET files
    BY DEF Below
<1> QED
    BY <1>2, <1>3, FS_Subset, FS_CardinalityType DEF Index, Below

\* A later note has a greater index.
LEMMA IndexGrows ==
    ASSUME files \subseteq Days, NEW c \in files, NEW d \in Days, c < d
    PROVE  Index(c) < Index(d)
<1>1. c \notin Below(c) /\ Below(c) \cup {c} \in SUBSET Below(d)
    BY NotesAreDays
<1>2. Cardinality(Below(c) \cup {c}) = Index(c) + 1
    BY <1>1, IndexBounds, FS_AddElement
<1>3. Cardinality(Below(c) \cup {c}) <= Cardinality(Below(d))
    BY <1>1, IndexBounds, FS_Subset
<1> QED
    BY <1>2, <1>3, IndexBounds

\* The note just before another has the index before.
LEMMA IndexOfNext ==
    ASSUME files \subseteq Days, NEW c \in files, NEW d \in Days,
           Below(d) = Below(c) \cup {c}
    PROVE  Index(d) = Index(c) + 1
<1>1. c \notin Below(c)
    BY NotesAreDays
<1> QED
    BY <1>1, IndexBounds, FS_AddElement

\* nth finds a note for every index.
LEMMA IndexFound ==
    ASSUME files \subseteq Days, NEW k \in Nat, k < Cardinality(files)
    PROVE  \E d \in files : Index(d) = k
<1> DEFINE High == {d \in files : Index(d) >= k}
<1>1. files \in SUBSET (1 .. LastDay) /\ LastDay \in Nat
    BY DailyAssumption DEF Days
<1>2. files # {}
    BY FS_EmptySet
<1>3. High # {}
  <2>1. PICK m \in files : \A d \in files : d <= m
      BY <1>1, <1>2, GreatestOf
  <2>2. Below(m) = files \ {m}
    <3>1. \A e \in files : e < m <=> e # m
        BY <1>1, <2>1
    <3> QED
        BY <3>1 DEF Below
  <2>3. Index(m) = Cardinality(files) - 1
      BY <2>2, IndexBounds, FS_RemoveElement
  <2> QED
      BY <2>3, IndexBounds
<1>4. High \in SUBSET (1 .. LastDay)
    BY <1>1
<1> HIDE DEF High
<1>5. PICK d \in High : \A e \in High : d <= e
    BY <1>1, <1>3, <1>4, LeastOf
<1> USE DEF High
<1>6. Index(d) \in Nat /\ Index(d) >= k /\ d \in files
    BY <1>5, IndexBounds
<1>7. ASSUME Index(d) > k PROVE FALSE
  <2>1. Below(d) # {}
      BY <1>7, IndexBounds, FS_EmptySet
  <2>2. Below(d) \in SUBSET (1 .. LastDay)
      BY <1>1 DEF Below
  <2>3. PICK c \in Below(d) : \A e \in Below(d) : e <= c
      BY <1>1, <2>1, <2>2, GreatestOf
  <2>4. c \in files /\ c < d
      BY <2>3 DEF Below
  <2>5. Below(d) = Below(c) \cup {c}
    <3>1. \A e \in files : e < d <=> e < c \/ e = c
      <4>1. \A e \in files : e < d => e <= c
          BY <2>3 DEF Below
      <4> QED
          BY <1>1, <1>6, <2>4, <4>1
    <3> QED
        BY <2>4, <3>1 DEF Below
  <2>6. Index(d) = Index(c) + 1
      BY <1>6, <2>4, <2>5, IndexOfNext
  <2>7. Index(c) >= k
      BY <1>7, <2>6, IndexBounds
  <2> QED
      BY <1>1, <1>5, <1>6, <2>4, <2>7
<1> QED
    BY <1>6, <1>7

\* The notes after one day, up to another.
Between(a, b) == Cardinality({d \in files : a < d /\ d <= b})

\* Between two notes there are as many as their indices differ.
LEMMA BetweenNotes ==
    ASSUME files \subseteq Days, NEW c \in files, NEW d \in files, c <= d
    PROVE  Between(c, d) = Index(d) - Index(c)
<1> DEFINE upTo  == Below(d) \cup {d}
           upToC == Below(c) \cup {c}
           mid   == {e \in files : c < e /\ e <= d}
<1>1. mid = upTo \ upToC /\ upTo \cap upToC = upToC
  <2>1. \A e : e \in upTo <=> e \in files /\ e <= d
      BY NotesAreDays
  <2>2. \A e : e \in upToC <=> e \in files /\ e <= c
      BY NotesAreDays
  <2>3. \A e \in files : c < e <=> ~(e <= c)
      BY NotesAreDays
  <2>4. \A e \in files : e <= c => e <= d
      BY NotesAreDays
  <2> HIDE DEF upTo, upToC
  <2>5. mid = upTo \ upToC
      BY <2>1, <2>2, <2>3
  <2> QED
      BY <2>1, <2>2, <2>4, <2>5
<1>2. d \notin Below(d) /\ c \notin Below(c)
    BY NotesAreDays
<1>3. /\ IsFiniteSet(upTo) /\ Cardinality(upTo) = Index(d) + 1
      /\ Cardinality(upToC) = Index(c) + 1
    BY <1>2, IndexBounds, FS_AddElement
<1>4. Cardinality(mid) = Cardinality(upTo) - Cardinality(upToC)
  <2> HIDE DEF upTo, upToC, mid
  <2> QED
      BY <1>1, <1>3, FS_Difference
<1> QED
    BY <1>3, <1>4, IndexBounds DEF Between

\* The note that a jump goes to.
LEMMA JumpFinds ==
    ASSUME files \subseteq Days, NEW n \in -MaxJump .. MaxJump, ~Refused(n)
    PROVE  LET i == Index(here) + n
               d == Nth(i)
           IN  d \in files /\ here \in files /\ Index(d) = IF i < 0 THEN 0 ELSE i
<1> DEFINE i == Index(here) + n
           k == IF i < 0 THEN 0 ELSE i
<1>1. here \in files /\ n \in Int
    BY DailyAssumption DEF Refused
<1>2. Index(here) < Cardinality(files)
  <2>1. Below(here) \cup {here} \in SUBSET files /\ here \notin Below(here)
      BY <1>1, NotesAreDays
  <2>2. Cardinality(Below(here) \cup {here}) <= Cardinality(files)
      BY <2>1, IndexBounds, FS_Subset
  <2>3. Cardinality(Below(here) \cup {here}) = Index(here) + 1
      BY <2>1, IndexBounds, FS_AddElement
  <2> QED
      BY <2>2, <2>3, IndexBounds
<1>3. k \in Nat /\ k < Cardinality(files)
    BY <1>1, <1>2, IndexBounds DEF Refused
<1>4. \E d \in files : Index(d) = k
    BY <1>3, IndexFound
<1> QED
    BY <1>1, <1>4 DEF Nth

\* A numeric argument counts the notes that have a file, not days: forward as
\* many as it says, backward as many or to the first
\* (helheim-daily-notes.el:113; the docstrings at 96 and 117 say days).
CountedJump ==
    /\ jump' > 0 => here <= here' /\ Between(here, here') = jump'
    /\ jump' < 0 => /\ here' < here /\ Between(here', here) <= -jump'
                    /\ Between(here', here) = -jump' \/ Index(here') = 0

LEMMA JumpMoves ==
    ASSUME files \subseteq Days, NEW n \in -MaxJump .. MaxJump, Jump(n)
    PROVE  here' \in files /\ CountedJump
<1> USE DEF CountedJump
<1> DEFINE i == Index(here) + n
<1>1. /\ here' \in files /\ here \in files /\ jump' = n /\ n \in Int
      /\ Index(here') = IF i < 0 THEN 0 ELSE i
    BY JumpFinds, DailyAssumption DEF Jump
<1>2. Index(here) \in Nat /\ Index(here') \in Nat /\ here \in Days /\ here' \in Days
    BY <1>1, IndexBounds
<1>3. CASE n > 0
  <2>1. Index(here') = Index(here) + n
      BY <1>1, <1>2, <1>3
  <2>2. here <= here'
    <3>1. CASE here' < here
        BY <1>1, <1>2, <1>3, <2>1, <3>1, IndexGrows
    <3> QED
        BY <1>2, <3>1 DEF Days
  <2>3. Between(here, here') = n
      BY <1>1, <1>2, <2>1, <2>2, BetweenNotes
  <2> QED
      BY <1>1, <1>3, <2>2, <2>3
<1>4. CASE n < 0
  <2>1. Index(here) # 0
      BY <1>4 DEF Jump, Refused
  <2>2. Index(here') < Index(here)
      BY <1>1, <1>2, <1>4, <2>1
  <2>3. here' < here
    <3>1. CASE here < here'
        BY <1>1, <1>2, <2>2, <3>1, IndexGrows
    <3> QED
        BY <1>2, <2>2, <3>1 DEF Days
  <2>4. Between(here', here) = Index(here) - Index(here')
      BY <1>1, <1>2, <2>3, BetweenNotes DEF Days
  <2> QED
      BY <1>1, <1>2, <1>4, <2>3, <2>4
<1>5. CASE n = 0
    BY <1>1, <1>5
<1> QED
    BY <1>1, <1>3, <1>4, <1>5

\* A jump by one goes to a neighbour.
LEMMA JumpByOne ==
    ASSUME files \subseteq Days, NEW n \in -MaxJump .. MaxJump, Jump(n)
    PROVE  NextNote
<1>1. /\ here' \in files /\ here \in files /\ jump' = n
      /\ Index(here') = IF Index(here) + n < 0 THEN 0 ELSE Index(here) + n
    BY JumpFinds DEF Jump
<1>2. /\ Index(here) \in Nat /\ Index(here') \in Nat /\ here \in Days /\ here' \in Days
      /\ \A e \in files : Index(e) \in Nat /\ e \in Days
    BY <1>1, IndexBounds
<1>3. \A c, d \in Days : c \in Int /\ d \in Int
    BY DailyAssumption DEF Days
<1>4. CASE n = 1
  <2>1. Index(here') = Index(here) + 1
      BY <1>1, <1>2, <1>4
  <2>2. here' > here
    <3>1. here' # here
        BY <1>2, <2>1
    <3>2. ~(here' < here)
        BY <1>1, <1>2, <2>1, IndexGrows
    <3> QED
        BY <1>2, <1>3, <3>1, <3>2
  <2>3. ASSUME NEW e \in files, here < e, e < here' PROVE FALSE
    <3>1. Index(here) < Index(e)
        BY <1>1, <1>2, <2>3, IndexGrows
    <3>2. Index(e) < Index(here')
        BY <1>2, <2>3, IndexGrows
    <3> QED
        BY <1>2, <2>1, <3>1, <3>2
  <2> QED
      BY <1>1, <1>4, <2>2, <2>3 DEF NextNote
<1>5. CASE n = -1
  <2>1. Index(here) # 0
      BY <1>5 DEF Jump, Refused
  <2>2. Index(here) = Index(here') + 1
      BY <1>1, <1>2, <1>5, <2>1
  <2>3. here' < here
    <3>1. here' # here
        BY <1>2, <2>2
    <3>2. ~(here < here')
        BY <1>1, <1>2, <2>2, IndexGrows
    <3> QED
        BY <1>2, <1>3, <3>1, <3>2
  <2>4. ASSUME NEW e \in files, here' < e, e < here PROVE FALSE
    <3>1. Index(here') < Index(e)
        BY <1>1, <1>2, <2>4, IndexGrows
    <3>2. Index(e) < Index(here)
        BY <1>2, <2>4, IndexGrows
    <3> QED
        BY <1>2, <2>2, <3>1, <3>2
  <2> QED
      BY <1>1, <1>5, <2>3, <2>4 DEF NextNote
<1>6. CASE n # 1 /\ n # -1
    BY <1>1, <1>6 DEF NextNote
<1> QED
    BY <1>4, <1>5, <1>6

-----------------------------------------------------------------------------
(* The invariant.                                                           *)

\* OneTitle speaks of notes with a file.  Of the others, and of buffers, this
\* holds unless a file went away under its buffer.
Titles ==
    \A d \in Days \ vanished :
        /\ inFile[d] \in {0, 1} /\ inBuffer[d] \in {0, 1}
        /\ d \notin files => inFile[d] = 0 /\ inBuffer[d] = 0
        /\ d \notin buffers => inBuffer[d] = 0

DailyInv == DailyTypeOK /\ OneTitle /\ Titles

-----------------------------------------------------------------------------
LEMMA VisitKeeps ==
    ASSUME DailyInv, NEW d \in files, Visit(d),
           UNCHANGED <<clock, fileState, vanished>>,
           capturing' \in Days \cup {NoDay}, here' \in Days \cup {NoDay},
           jump' \in -MaxJump .. MaxJump
    PROVE  DailyInv'
<1> USE DEF DailyInv, DailyTypeOK, OneTitle, Titles, Visit, Visited, clock, fileState
<1>1. inBuffer' \in [Days -> 0 .. MaxTitles]
    OBVIOUS
<1>2. \A e \in Days \ {d} : inBuffer'[e] = inBuffer[e]
    OBVIOUS
<1>3. inBuffer'[d] = inBuffer[d] \/ inBuffer'[d] = inFile[d]
    OBVIOUS
<1> QED
    BY <1>1, <1>2, <1>3

LEMMA DailyInvInductive == DailyInv /\ [DailyNext]_dailyVars => DailyInv'
<1> SUFFICES ASSUME DailyInv, [DailyNext]_dailyVars PROVE DailyInv'
    OBVIOUS
<1> USE DailyAssumption
        DEF DailyInv, DailyTypeOK, OneTitle, Titles, clock, fileState, bufferState
<1>0. 0 \in -MaxJump .. MaxJump /\ {0, 1} \subseteq 0 .. MaxTitles
    OBVIOUS
<1>1. CASE Midnight
    BY <1>0, <1>1 DEF Midnight, Days
<1>2. CASE Reload
  <2>1. inBuffer' \in [Days -> 0 .. MaxTitles] /\ \A d \in Days : inBuffer'[d] = 0
      BY <1>0, <1>2 DEF Reload
  <2> QED
      BY <1>0, <1>2, <2>1 DEF Reload
<1>3. CASE Capture
  <2>1. inBuffer' \in [Days -> 0 .. MaxTitles] /\ buffers' \subseteq Days
      BY <1>3 DEF Capture, Visit, Visited
  <2>2. /\ \A e \in Days \ {default} : inBuffer'[e] = inBuffer[e]
        /\ inBuffer'[default] = inBuffer[default] \/ inBuffer'[default] = inFile[default]
      BY <1>3 DEF Capture, Visit, Visited
  <2>3. buffers' = buffers \cup {default}
      BY <1>3 DEF Capture, Visit
  <2> QED
      BY <1>0, <1>3, <2>1, <2>2, <2>3 DEF Capture
<1>4. CASE CaptureDone
  <2>1. capturing \in Days /\ files' = files \cup {capturing} /\ files' \subseteq Days
      BY <1>4 DEF CaptureDone
  <2>2. inFile' \in [Days -> 0 .. MaxTitles] /\ inFile'[capturing] = inBuffer[capturing]
      BY <1>4, <2>1 DEF CaptureDone
  <2>3. \A e \in Days \ {capturing} : inFile'[e] = inFile[e]
      BY <1>4, <2>1 DEF CaptureDone
  <2>4. /\ captured \subseteq captured' /\ captured' \subseteq Days
        /\ inBuffer[capturing] = 0 => capturing \in captured'
      BY <1>4, <2>1 DEF CaptureDone
  <2>5. OneTitle'
      BY <1>4, <2>1, <2>2, <2>3, <2>4 DEF CaptureDone
  <2>6. Titles'
      BY <1>4, <2>1, <2>2, <2>3 DEF CaptureDone
  <2> QED
      BY <1>0, <1>4, <2>1, <2>2, <2>4, <2>5, <2>6 DEF CaptureDone
<1>5. CASE CaptureAborted
  <2>1. CASE UNCHANGED bufferState
      BY <1>0, <1>5, <2>1 DEF CaptureAborted
  <2>2. CASE ~UNCHANGED bufferState
    <3>1. /\ inBuffer' \in [Days -> 0 .. MaxTitles] /\ buffers' = buffers \ {capturing}
          /\ inBuffer'[capturing] = 0 /\ \A e \in Days \ {capturing} : inBuffer'[e] = inBuffer[e]
        BY <1>0, <1>5, <2>2 DEF CaptureAborted
    <3> QED
        BY <1>0, <1>5, <3>1 DEF CaptureAborted
  <2> QED
      BY <2>1, <2>2
<1>6. ASSUME NEW d \in Days, DailyNote(d) PROVE DailyInv'
  <2>1. CASE d \in files
      BY <1>0, <1>6, <2>1, VisitKeeps DEF DailyNote
  <2>2. CASE d \notin files
    <3>1. /\ files' = files \cup {d} /\ buffers' = buffers \cup {d}
          /\ Visited(d) + 1 \in 0 .. MaxTitles
          /\ inFile' = [inFile EXCEPT ![d] = Visited(d) + 1]
          /\ inBuffer' = [inBuffer EXCEPT ![d] = Visited(d) + 1]
        BY <1>6, <2>2 DEF DailyNote, InsertTitle, Visited
    <3>2. d \notin vanished => Visited(d) = 0
        BY <2>2 DEF Visited
    <3>3. /\ inFile' \in [Days -> 0 .. MaxTitles] /\ inBuffer' \in [Days -> 0 .. MaxTitles]
          /\ \A e \in Days \ {d} : inFile'[e] = inFile[e] /\ inBuffer'[e] = inBuffer[e]
          /\ d \notin vanished => inFile'[d] = 1 /\ inBuffer'[d] = 1
        BY <3>1, <3>2
    <3> QED
        BY <1>0, <1>6, <3>1, <3>3 DEF DailyNote
  <2> QED
      BY <2>1, <2>2
<1>7. ASSUME NEW d \in Days, Pulled(d) PROVE DailyInv'
  <2>1. /\ inFile' \in [Days -> 0 .. MaxTitles]
        /\ \A e \in Days \ {d} : inFile'[e] = inFile[e]
      BY <1>0, <1>7 DEF Pulled
  <2>2. CASE d \notin files
      BY <1>0, <1>7, <2>1, <2>2 DEF Pulled
  <2>3. CASE d \in files
      BY <1>0, <1>7, <2>1, <2>3 DEF Pulled
  <2> QED
      BY <2>2, <2>3
<1>8. ASSUME NEW d \in Days, Reverted(d) PROVE DailyInv'
  <2>1. /\ inBuffer' \in [Days -> 0 .. MaxTitles] /\ inBuffer'[d] = inFile[d]
        /\ \A e \in Days \ {d} : inBuffer'[e] = inBuffer[e]
      BY <1>8 DEF Reverted
  <2> QED
      BY <1>0, <1>8, <2>1 DEF Reverted
<1>9. ASSUME NEW n \in -MaxJump .. MaxJump, Jump(n) PROVE DailyInv'
  <2>1. here' \in files
      BY <1>9, JumpMoves
  <2> QED
      BY <1>9, <2>1, VisitKeeps DEF Jump
<1>10. CASE UNCHANGED dailyVars
    BY <1>10 DEF dailyVars
<1> QED
    BY <1>1, <1>2, <1>3, <1>4, <1>5, <1>6, <1>7, <1>8, <1>9, <1>10 DEF DailyNext

LEMMA DailyInvHolds == DailySpec => []DailyInv
<1>1. ASSUME DailyInit PROVE DailyInv
  <2>1. 1 \in Days /\ 0 \in -MaxJump .. MaxJump /\ {0, 1} \subseteq 0 .. MaxTitles
      BY DailyAssumption DEF Days
  <2>2. inFile \in [Days -> 0 .. MaxTitles] /\ inBuffer \in [Days -> 0 .. MaxTitles]
      BY <1>1, <2>1 DEF DailyInit
  <2> QED
      BY <1>1, <2>1, <2>2 DEF DailyInit, DailyInv, DailyTypeOK, OneTitle, Titles
<1> QED
    BY <1>1, DailyInvInductive, PTL DEF DailySpec

-----------------------------------------------------------------------------
\* A note has one title, unless a capture saved it without one or its file went
\* away under its buffer, also when a pull brings it under an unfinished capture
\* (helheimg-daily-note).
THEOREM TitleGivenOnce == DailySpec => []OneTitle
BY DailyInvHolds, PTL DEF DailyInv

\* The state of the notes is well formed.
THEOREM DailyTypes == DailySpec => []DailyTypeOK
BY DailyInvHolds, PTL DEF DailyInv

\* Only a jump has an argument.
LEMMA OnlyJumps ==
    ASSUME DailyNext
    PROVE  jump' = 0 \/ \E n \in -MaxJump .. MaxJump : Jump(n)
BY DEF DailyNext, Midnight, Reload, Capture, CaptureDone, CaptureAborted, DailyNote, Pulled, Reverted

\* Without an argument the commands find the next note and the previous one:
\* there is no other on the way (helheim-daily-next, helheim-daily-previous).
THEOREM NextNoteFound == DailySpec => JumpsToNext
<1>1. ASSUME DailyInv, DailyNext PROVE NextNote
    BY <1>1, OnlyJumps, JumpByOne DEF DailyInv, DailyTypeOK, NextNote
<1>2. DailyInv /\ [DailyNext]_dailyVars => [NextNote]_dailyVars
    BY <1>1
<1> QED
    BY <1>2, DailyInvHolds, PTL DEF DailySpec, JumpsToNext

\* With an argument they count notes, which are days only if every day has one
\* (helheim-daily-notes.el:113).
THEOREM JumpsAsTold == DailySpec => [][CountedJump]_dailyVars
<1>1. ASSUME DailyInv, DailyNext PROVE CountedJump
    BY <1>1, OnlyJumps, JumpMoves DEF DailyInv, DailyTypeOK, CountedJump
<1>2. DailyInv /\ [DailyNext]_dailyVars => [CountedJump]_dailyVars
    BY <1>1
<1> QED
    BY <1>2, DailyInvHolds, PTL DEF DailySpec
=============================================================================
