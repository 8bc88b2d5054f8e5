------------------------------- MODULE Themes --------------------------------
(***************************************************************************)
(* Color themes and the faces set for them with helheim-theme-set-faces,   *)
(* before or after the theme is loaded: the advice of load-theme and the   *)
(* custom library beneath it.                                              *)
(*                                                                         *)
(* The faces recorded for a theme only grow or change: their state is the  *)
(* number of changes so far.                                               *)
(***************************************************************************)
EXTENDS Naturals

CONSTANTS
    ThemeNames,  \* themes
    MaxFaces     \* bound on the calls of helheim-theme-set-faces for a theme

ASSUME ThemeAssumption == MaxFaces \in Nat

VARIABLES
    known,       \* custom-known-themes
    enabled,     \* custom-enabled-themes
    faces,       \* helheim-themes-faces: changes recorded for each theme
    stored,      \* ... those among the theme's settings
    shown,       \* ... those in effect since the theme was last enabled
    byHand,      \* themes enabled with enable-theme since the last load
    cleared      \* themes whose last load failed after clearing their settings

themeVars == <<known, enabled, faces, stored, shown, byHand, cleared>>

ThemeInit ==
    /\ known = {} /\ enabled = {} /\ byHand = {} /\ cleared = {}
    /\ faces = [t \in ThemeNames |-> 0] /\ stored = faces /\ shown = faces

-----------------------------------------------------------------------------
\* Mutant: the faces are not stored again after a load.
WithFaces_Mutant(t) == stored

\* custom-theme-set-faces stores the faces; enabling shows what is stored.
WithFaces(t)   == [stored EXCEPT ![t] = faces[t]]
Showing(t, st) == [shown EXCEPT ![t] = st[t]]

\* helheim-theme-set-faces
SetFaces(t) ==
    /\ faces[t] < MaxFaces
    /\ faces' = [faces EXCEPT ![t] = @ + 1]
    /\ stored' = IF t \in known THEN [stored EXCEPT ![t] = faces'[t]] ELSE stored
    /\ shown' = IF t \in enabled THEN Showing(t, stored') ELSE shown
    /\ UNCHANGED <<known, enabled, byHand, cleared>>

\* load-theme, advised: all themes are disabled first.  Loading clears the
\* settings of a known theme and makes it again; the faces come after that.
\* It finds no theme enabled, so NO-ENABLE is always as it was given.
LoadTheme(t) ==
    /\ known' = known \cup {t} /\ byHand' = {} /\ cleared' = cleared \ {t}
    /\ stored' = WithFaces(t)
    /\ \/ enabled' = {t} /\ shown' = Showing(t, stored')
       \/ enabled' = {} /\ UNCHANGED shown
    /\ UNCHANGED faces

\* ... of a theme whose file is missing, or that the user does not trust.
LoadFails(t) ==
    /\ enabled' = {} /\ byHand' = {}
    /\ stored' = [stored EXCEPT ![t] = 0]
    /\ cleared' = cleared \cup ({t} \cap known)
    /\ UNCHANGED <<known, faces, shown>>

\* M-x enable-theme, which takes known themes, and M-x disable-theme
EnableTheme(t) ==
    /\ t \in known
    /\ enabled' = enabled \cup {t} /\ shown' = Showing(t, stored)
    /\ byHand' = byHand \cup {t}
    /\ UNCHANGED <<known, faces, stored, cleared>>

DisableTheme(t) ==
    /\ t \in enabled /\ enabled' = enabled \ {t}
    /\ UNCHANGED <<known, faces, stored, shown, byHand, cleared>>

ThemeNext ==
    \E t \in ThemeNames :
        SetFaces(t) \/ LoadTheme(t) \/ LoadFails(t) \/ EnableTheme(t) \/ DisableTheme(t)

ThemeSpec == ThemeInit /\ [][ThemeNext]_themeVars

-----------------------------------------------------------------------------
ThemeTypeOK ==
    /\ enabled \subseteq known /\ known \subseteq ThemeNames /\ cleared \subseteq known
    /\ byHand \subseteq known
    /\ faces \in [ThemeNames -> 0 .. MaxFaces]
    /\ stored \in [ThemeNames -> 0 .. MaxFaces]
    /\ shown \in [ThemeNames -> 0 .. MaxFaces]

\* A theme that is enabled shows every face set for it, and one that is only
\* known has them stored, for the day it is enabled: whether the faces were set
\* before the theme was loaded, while it was known only, or while it was
\* enabled; a failed load that cleared its settings is the exception.
FacesShown ==
    \A t \in known \ cleared :
        stored[t] = faces[t] /\ (t \in enabled => shown[t] = faces[t])

\* Themes are never mixed by loading: but for those enabled by hand after the
\* last load, at most one is enabled.
OneTheme == \A s, t \in enabled \ byHand : s = t
=============================================================================
