------------------------------ MODULE DiredIds ------------------------------
(***************************************************************************)
(* helheim-dired-do-add-id: the marked files of a Dired buffer get an ID   *)
(* made of their creation time, one rename after the other, beside other   *)
(* programs that rename files too.                                         *)
(*                                                                         *)
(* A path has a directory, an ID or none, and the rest of the name.  Dired *)
(* shows the directory Top, and inserted subdirectories of it.             *)
(***************************************************************************)
EXTENDS Naturals

CONSTANTS
    Files,       \* files
    Dirs, Top,   \* directories that Dired shows; default-directory
    Names,       \* names
    Ids, NoId,   \* timestamps
    Created,     \* creation or modification time, the earlier; NoId if stat has none
    MaxMoves     \* bound on the renames by other programs

ASSUME DiredAssumption ==
    /\ Top \in Dirs /\ NoId \notin Ids /\ MaxMoves \in Nat
    /\ Created \in [Files -> Ids \cup {NoId}]

VARIABLES
    path,        \* path of each file
    listing,     \* paths that the Dired buffer shows
    todo,        \* marked paths the command still has to look at
    marked,      \* files marked when it started that nobody else moved since
    status,      \* "idle", "busy", "done" or "failed"
    moves        \* renames by other programs so far

diredVars == <<path, listing, todo, marked, status, moves>>

Paths == [dir: Dirs, id: Ids \cup {NoId}, name: Names]
FilesAt(P) == {f \in Files : path[f] \in P}
InUse == {path[f] : f \in Files}

DiredInit ==
    /\ path \in [Files -> [dir: Dirs, id: {NoId}, name: Names]]
    /\ \A f, g \in Files : path[f] = path[g] => f = g
    /\ listing = InUse /\ todo = {} /\ marked = {}
    /\ status = "idle" /\ moves = 0

-----------------------------------------------------------------------------
\* The command takes the marked paths of the listing.
AddIds(P) ==
    /\ status # "busy" /\ P \subseteq listing /\ P # {}
    /\ status' = "busy" /\ todo' = P /\ marked' = FilesAt(P)
    /\ UNCHANGED <<path, listing, moves>>

\* Mutant: the ID is made of another time than that of creation.
Prefixed_Mutant(f) ==
    [dir |-> Top, id |-> CHOOSE i \in Ids \ {Created[f]} : TRUE, name |-> path[f].name]

\* The new name has no directory: rename-file puts it under Top.
Prefixed(f) == [dir |-> Top, id |-> Created[f], name |-> path[f].name]

SkipFile(p) ==
    /\ p \in todo /\ p.id # NoId
    /\ todo' = todo \ {p}
    /\ UNCHANGED <<path, listing, marked, status, moves>>

\* Mutant: rename-file with OK-IF-ALREADY-EXISTS.
RenameFile_Mutant(p) ==
    /\ p \in todo /\ p.id = NoId
    /\ \E f \in FilesAt({p}) : Created[f] # NoId /\ path' = [path EXCEPT ![f] = Prefixed(f)]
    /\ todo' = todo \ {p}
    /\ UNCHANGED <<listing, marked, status, moves>>

RenameFile(p) ==
    /\ p \in todo /\ p.id = NoId
    /\ \E f \in FilesAt({p}) :
        /\ Created[f] # NoId /\ Prefixed(f) \notin InUse
        /\ path' = [path EXCEPT ![f] = Prefixed(f)]
    /\ todo' = todo \ {p}
    /\ UNCHANGED <<listing, marked, status, moves>>

\* Mutants: the loop goes on after an error; the rest stays to be done.
RenameFails_Ignored(p) ==
    /\ p \in todo /\ p.id = NoId
    /\ \A f \in FilesAt({p}) : Created[f] = NoId \/ Prefixed(f) \in InUse
    /\ todo' = todo \ {p}
    /\ UNCHANGED <<path, listing, marked, status, moves>>
RenameFails_Mutant(p) ==
    /\ p \in todo /\ p.id = NoId
    /\ \A f \in FilesAt({p}) : Created[f] = NoId \/ Prefixed(f) \in InUse
    /\ status' = "failed"
    /\ UNCHANGED <<path, listing, todo, marked, moves>>

\* stat finds no file or no creation time, or the new name is taken: an error
\* ends the command, and the listing is not reverted.
RenameFails(p) ==
    /\ p \in todo /\ p.id = NoId
    /\ \A f \in FilesAt({p}) : Created[f] = NoId \/ Prefixed(f) \in InUse
    /\ todo' = {} /\ status' = "failed"
    /\ UNCHANGED <<path, listing, marked, moves>>

AddIdsDone ==
    /\ status = "busy" /\ todo = {}
    /\ status' = "done" /\ listing' = InUse
    /\ UNCHANGED <<path, todo, marked, moves>>

\* gr, or auto-revert, which does not run during a command
Revert ==
    /\ status # "busy" /\ status' = "idle" /\ listing' = InUse
    /\ UNCHANGED <<path, todo, marked, moves>>

\* Another program moves a file to a free name, at any time.
Moved(f, d, n) ==
    /\ moves < MaxMoves /\ moves' = moves + 1
    /\ LET new == [path[f] EXCEPT !.dir = d, !.name = n]
       IN  new \notin InUse /\ path' = [path EXCEPT ![f] = new]
    /\ marked' = marked \ {f}
    /\ UNCHANGED <<listing, todo, status>>

DiredNext ==
    \/ \E P \in SUBSET listing : AddIds(P)
    \/ \E p \in todo : SkipFile(p) \/ RenameFile(p) \/ RenameFails(p)
    \/ AddIdsDone \/ Revert
    \/ \E f \in Files, d \in Dirs, n \in Names : Moved(f, d, n)

DiredSpec == DiredInit /\ [][DiredNext]_diredVars

-----------------------------------------------------------------------------
DiredTypeOK ==
    /\ path \in [Files -> Paths]
    /\ listing \subseteq Paths /\ todo \subseteq listing
    /\ marked \subseteq Files /\ status \in {"idle", "busy", "done", "failed"}
    /\ moves \in 0 .. MaxMoves

\* No rename takes another file's place, whatever names, creation times and
\* directories coincide: no file is lost.
NoFileLost == \A f, g \in Files : path[f] = path[g] => f = g

\* "If file already has ID --- do nothing" (helheim-dired-keys.el:261): an ID
\* is given once, is the file's creation time, and stays through further runs,
\* stale listings and other programs' renames.
IdGivenOnce ==
    [][\A f \in Files : path'[f].id # path[f].id =>
          path[f].id = NoId /\ path'[f].id = Created[f]]_diredVars

\* A command that ends without an error has given every file it was called
\* for its ID, also on a stale listing, and when others moved other files.
DoneMeansAll ==
    status = "done" => \A f \in marked : path[f].id # NoId
=============================================================================
