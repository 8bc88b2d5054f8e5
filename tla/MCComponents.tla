---------------------------- MODULE MCComponents ----------------------------
(* Small instances of the components that set up the session (startup,       *)
(* themes, editing states, word wrap) and of those behind single commands    *)
(* (indirect editing, xref, dired, daily notes, ibuffer).  They share no     *)
(* state, so a behaviour follows one of them (focus) and the others rest:    *)
(* their product would have more states and no new ones for any property.    *)
EXTENDS Startup, Themes, EditingStates, WordWrap,
        IndirectEdit, XrefBackends, DiredIds, DailyNotes, IbufferGroups, TLC

CONSTANTS eglot, elisp, dumb, f1, f2, f3

VARIABLE focus

MCGlobals == <<dumb>>

\* Two files were created in the same second, of the third it is not known.
MCCreated == f1 :> "created" @@ f2 :> "created" @@ f3 :> NoId

\* A project inside a project under the home directory 1/2, a project 5
\* elsewhere, and in that a copy of the path of the first.
MCHome  == <<1, 2>>
MCRoots == {<<1, 2, 3>>, <<1, 2, 3, 4>>, <<5>>}
MCDirs  == MCRoots \cup {<<1, 2>>, <<5, 1, 2, 3>>, <<1, 2, 3, 4, 6>>, <<5, 4>>}

Visiting(n, d, k) == [name |-> n, starred |-> FALSE, file |-> TRUE, dir |-> d, base |-> k]
NoFile(n, d, s)   == [name |-> n, starred |-> s, file |-> FALSE, dir |-> d, base |-> 0]

\* Among them a Dired buffer (base 0) and two buffers of one file.
MCBuffers ==
    {Visiting(1, <<1, 2, 3>>, 1), Visiting(5, <<1, 2, 3>>, 1), Visiting(3, <<1, 2, 3, 4>>, 0),
     Visiting(4, <<5, 1, 2, 3>>, 1), NoFile(7, <<1, 2>>, TRUE), NoFile(6, <<1, 2, 3, 4, 6>>, FALSE),
     NoFile(8, <<5, 4>>, FALSE)}

\* One of the initial paths.
MCPath == [f \in {f1, f2, f3} |-> [dir |-> IF f = f3 THEN "sub" ELSE Top, id |-> NoId,
                                  name |-> IF f = f2 THEN "b" ELSE "a"]]

sessionVars == <<startVars, themeVars, stateVars, wrapVars>>
commandVars == <<editVars, xrefVars, diredVars, dailyVars, ibufferVars>>

\* What rests while a component has the focus.
startRest   == <<themeVars, stateVars, wrapVars, commandVars, focus>>
themeRest   == <<startVars, stateVars, wrapVars, commandVars, focus>>
stateRest   == <<startVars, themeVars, wrapVars, commandVars, focus>>
wrapRest    == <<startVars, themeVars, stateVars, commandVars, focus>>
editRest    == <<sessionVars, xrefVars, diredVars, dailyVars, ibufferVars, focus>>
xrefRest    == <<sessionVars, editVars, diredVars, dailyVars, ibufferVars, focus>>
diredRest   == <<sessionVars, editVars, xrefVars, dailyVars, ibufferVars, focus>>
dailyRest   == <<sessionVars, editVars, xrefVars, diredVars, ibufferVars, focus>>
ibufferRest == <<sessionVars, editVars, xrefVars, diredVars, dailyVars, focus>>

\* Where a component starts in any of many states, the others start in one.
Init ==
    /\ focus \in {"startup", "themes", "states", "word wrap",
                  "edit", "xref", "dired", "daily", "ibuffer"}
    /\ focus # "word wrap" => major = [b \in WBuffers |-> CHOOSE m \in WMajors \ WrapHook : TRUE]
    /\ focus # "edit"  => parent = [l \in Lines |-> 0]
    /\ focus # "xref"  => answer = [b \in Backends |-> "none"]
    /\ focus # "dired" => path = MCPath
    /\ focus # "daily" => files = {}
    /\ StartInit /\ ThemeInit /\ StateInit /\ WrapInit
    /\ EditInit /\ XrefInit /\ DiredInit /\ DailyInit /\ IbufferInit

StartupStep == focus = "startup" /\ StartNext /\ UNCHANGED startRest
ThemesStep  == focus = "themes" /\ ThemeNext /\ UNCHANGED themeRest
StatesStep  == focus = "states" /\ StateNext /\ UNCHANGED stateRest
WrapStep    == focus = "word wrap" /\ WrapNext /\ UNCHANGED wrapRest
EditStep    == focus = "edit" /\ EditNext /\ UNCHANGED editRest
XrefStep    == focus = "xref" /\ XrefNext /\ UNCHANGED xrefRest
DiredStep   == focus = "dired" /\ DiredNext /\ UNCHANGED diredRest
DailyStep   == focus = "daily" /\ DailyNext /\ UNCHANGED dailyRest
IbufferStep == focus = "ibuffer" /\ IbufferNext /\ UNCHANGED ibufferRest

Next ==
    \/ StartupStep \/ ThemesStep \/ StatesStep \/ WrapStep
    \/ EditStep \/ XrefStep \/ DiredStep \/ DailyStep \/ IbufferStep

Spec == Init /\ [][Next]_<<sessionVars, commandVars, focus>>

\* The states of the nine components are well formed.
TypeOK ==
    /\ StartTypeOK /\ ThemeTypeOK /\ StateTypeOK /\ WrapTypeOK
    /\ EditTypeOK /\ XrefTypeOK /\ DiredTypeOK /\ DailyTypeOK /\ IbufferTypeOK
=============================================================================
