---------------------------- MODULE XrefBackends ----------------------------
(***************************************************************************)
(* Jumping to definitions and references (xref/autoload.el) in one buffer: *)
(* the back ends on the local and on the global xref-backend-functions,    *)
(* what they answer, and what a search does to the hook itself.            *)
(***************************************************************************)
EXTENDS Sequences, Naturals

CONSTANTS
    Backends,    \* functions of xref-backend-functions
    Globals      \* those on its default value, in order

\* What a command ends with if no back end is taken.
Outcomes == {"idle", "nothing", "error", "elisp-def"}

ASSUME BackendAssumption == Globals \in Seq(Backends) /\ Backends \cap Outcomes = {}

CONSTANT Rest    \* t, the element that stands for the default value
ASSUME RestAssumption == Rest \notin Backends

VARIABLES
    isLocal,     \* has the hook a buffer-local value?
    local,       \* that value
    answer,      \* a back end's answer at point: "xrefs", "none" or "error"
    added,       \* functions that were added locally and not removed
    found        \* the last command's outcome: a back end, or one of Outcomes

xrefVars == <<isLocal, local, answer, added, found>>

Answers  == {"xrefs", "none", "error"}
Elements(s) == {s[i] : i \in DOMAIN s}

\* delq, and delete in remove-hook: add-hook adds nothing twice, so what there
\* is to remove is one element.
Minus(s, x) ==
    IF x \notin Elements(s) THEN s
    ELSE LET i == CHOOSE i \in DOMAIN s : s[i] = x
         IN  SubSeq(s, 1, i - 1) \o SubSeq(s, i + 1, Len(s))

XrefInit ==
    /\ isLocal = FALSE /\ local = <<>> /\ added = {}
    /\ answer \in [Backends -> Answers]
    /\ found = "idle"

-----------------------------------------------------------------------------
\* add-hook and remove-hook with LOCAL, by a mode or by eglot
Register(f, append) ==
    /\ f \notin Elements(local)
    /\ LET old == IF isLocal THEN local ELSE <<Rest>>
       IN  local' = IF append THEN Append(old, f) ELSE <<f>> \o old
    /\ isLocal' = TRUE /\ added' = added \cup {f}
    /\ found' = "idle"
    /\ UNCHANGED answer

Unregister(f) ==
    /\ isLocal /\ f \in Elements(local)
    /\ LET new == Minus(local, f)
       IN  /\ isLocal' = (new # <<Rest>>)
           /\ local' = IF new = <<Rest>> THEN <<>> ELSE new
    /\ added' = added \ {f} /\ found' = "idle"
    /\ UNCHANGED answer

\* Mutants: the global functions are forgotten; the list is used up.
HookValues_Mutant == IF isLocal THEN Minus(local, Rest) ELSE Globals
Delq_Mutant == IF local # <<>> THEN Tail(local) ELSE local

\* helheim-hook-values: the local functions, wherever t is among them, then
\* the global ones.  delq changes the list itself unless t is its first.
HookValues == IF isLocal THEN Minus(local, Rest) \o Globals ELSE Globals
Delq == IF local # <<>> /\ Head(local) # Rest THEN Minus(local, Rest) ELSE local

\* helheim-xref--create-fetcher: the first back end that does not answer
\* "none" is the last one asked.
Fetched ==
    LET v == HookValues
        stops == {i \in DOMAIN v : answer[v[i]] # "none"}
        first == CHOOSE i \in stops : \A j \in stops : i <= j
    IN  IF stops = {} THEN "nothing"
        ELSE IF answer[v[first]] = "error" THEN "error" ELSE v[first]

\* helheim-xref-find-definitions, -references, and the other-window commands
Search ==
    /\ found' = Fetched
    /\ local' = Delq
    /\ UNCHANGED <<isLocal, answer, added>>

\* helheim-elisp-find-definitions asks elisp-def first and ignores its errors.
ElispSearch ==
    \/ found' = "elisp-def" /\ UNCHANGED <<isLocal, local, answer, added>>
    \/ Search

\* Point moves, a server starts or stops: other answers.
Moves ==
    /\ answer' \in [Backends -> Answers] /\ found' = "idle"
    /\ UNCHANGED <<isLocal, local, added>>

XrefNext ==
    \/ \E f \in Backends, append \in BOOLEAN : Register(f, append)
    \/ \E f \in Backends : Unregister(f)
    \/ Search \/ ElispSearch \/ Moves

XrefSpec == XrefInit /\ [][XrefNext]_xrefVars

-----------------------------------------------------------------------------
XrefTypeOK ==
    /\ isLocal \in BOOLEAN
    /\ local \in Seq(Backends \cup {Rest})
    /\ answer \in [Backends -> Answers]
    /\ added \subseteq Backends /\ found \in Backends \cup Outcomes

\* However the hook was put together and searched before, a back end is taken
\* only for its own answer, and "Nothing found" is said only when every back
\* end that a mode added here, and every global one, has no answer.  A global
\* one is taken only if no local one answers or signals, wherever t stands.
NothingLeftOut ==
    /\ found \in Backends => answer[found] = "xrefs" /\ found \in added \cup Elements(Globals)
    /\ found = "nothing" => \A f \in added \cup Elements(Globals) : answer[f] = "none"
    /\ found \in Backends \ added => \A f \in added : answer[f] = "none"

\* The destructive delq is never felt by later searches of the same command.
SearchesRepeat == [][found' \in Backends \cup {"nothing", "error"} => HookValues' = HookValues]_xrefVars
=============================================================================
