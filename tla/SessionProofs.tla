---------------------------- MODULE SessionProofs ----------------------------
(***************************************************************************)
(* Theorems about the components of a session, each from its own           *)
(* specification: themes, editing states, startup and word wrap.           *)
(***************************************************************************)
EXTENDS Startup, Themes, EditingStates, WordWrap, TLAPS

-----------------------------------------------------------------------------
(* Themes *)

\* What is stored is part of FacesShown because enabling a theme shows it.
ThemeInv == ThemeTypeOK /\ FacesShown /\ OneTheme

LEMMA ThemeInvInductive ==
    ThemeInv /\ [ThemeNext]_themeVars => ThemeInv'
<1> SUFFICES ASSUME ThemeInv, [ThemeNext]_themeVars PROVE ThemeInv'
    OBVIOUS
<1> USE ThemeAssumption DEF ThemeInv, ThemeTypeOK, FacesShown, OneTheme
<1>1. ASSUME NEW t \in ThemeNames, SetFaces(t) PROVE ThemeInv'
    BY <1>1 DEF SetFaces, Showing
<1>2. ASSUME NEW t \in ThemeNames, LoadTheme(t) PROVE ThemeInv'
    BY <1>2 DEF LoadTheme, Showing, WithFaces
<1>3. ASSUME NEW t \in ThemeNames, LoadFails(t) PROVE ThemeInv'
    BY <1>3 DEF LoadFails
<1>4. ASSUME NEW t \in ThemeNames, EnableTheme(t) PROVE ThemeInv'
    BY <1>4 DEF EnableTheme, Showing
<1>5. ASSUME NEW t \in ThemeNames, DisableTheme(t) PROVE ThemeInv'
    BY <1>5 DEF DisableTheme
<1>6. CASE UNCHANGED themeVars
    BY <1>6 DEF themeVars
<1> QED
    BY <1>1, <1>2, <1>3, <1>4, <1>5, <1>6 DEF ThemeNext

LEMMA ThemeInvHolds == ThemeSpec => []ThemeInv
<1>1. ThemeInit => ThemeInv
    BY ThemeAssumption DEF ThemeInit, ThemeInv, ThemeTypeOK, FacesShown, OneTheme
<1> QED
    BY <1>1, ThemeInvInductive, PTL DEF ThemeSpec

\* The state of the themes is well formed.
THEOREM ThemeTypes == ThemeSpec => []ThemeTypeOK
BY ThemeInvHolds, PTL DEF ThemeInv

\* An enabled theme shows every face set for it, in whatever order the theme
\* was loaded, enabled and given faces (the advice of load-theme).
THEOREM EnabledThemesComplete == ThemeSpec => []FacesShown
BY ThemeInvHolds, PTL DEF ThemeInv

\* Loading leaves at most one theme enabled.
THEOREM ThemesNotMixed == ThemeSpec => []OneTheme
BY ThemeInvHolds, PTL DEF ThemeInv

-----------------------------------------------------------------------------
(* Editing states *)

StateInv == StateTypeOK /\ StatesFit

LEMMA StateInvInductive ==
    StateInv /\ [StateNext]_stateVars => StateInv'
<1> SUFFICES ASSUME StateInv, [StateNext]_stateVars PROVE StateInv'
    OBVIOUS
<1> USE DEF StateInv, StateTypeOK, StatesFit, HighlightFits, TypingDeferred, DeferEnds, Inserting
<1>1. ASSUME NEW b \in SBuffers, NEW s \in {"normal", "insert", "motion"}, EnterState(b, s)
      PROVE  StateInv'
    BY <1>1 DEF EnterState, Transition, Deferred, Highlight
<1>2. ASSUME NEW b \in SBuffers, NEW s \in {"normal", "motion"}, StateOfMajor(b, s)
      PROVE  StateInv'
    BY <1>2 DEF StateOfMajor, Transition, Deferred, Highlight
<1>3. ASSUME NEW b \in SBuffers, KillInState(b) PROVE StateInv'
    BY <1>3 DEF KillInState
<1>4. CASE UNCHANGED stateVars
    BY <1>4 DEF stateVars
<1> QED
    BY <1>1, <1>2, <1>3, <1>4 DEF StateNext

LEMMA StateInvHolds == StateSpec => []StateInv
<1>1. StateInit => StateInv
    BY DEF StateInit, StateInv, StateTypeOK, StatesFit, HighlightFits, TypingDeferred, DeferEnds, Inserting
<1> QED
    BY <1>1, StateInvInductive, PTL DEF StateSpec

\* The state of the buffers is well formed.
THEOREM StateTypes == StateSpec => []StateTypeOK
BY StateInvHolds, PTL DEF StateInv

\* The highlight of the current line fits the state in every buffer, and the
\* shared variable of jit-lock follows insert state, but for a buffer that
\* another one overtook and for buffers killed in that state.
THEOREM EffectsFitStates == StateSpec => []StatesFit
BY StateInvHolds, PTL DEF StateInv

-----------------------------------------------------------------------------
(* Startup *)

LEMMA AddedFirst ==
    ASSUME NEW h \in Seq(Started), NEW f \in {Pull, Grammars}
    PROVE  AddHook(h, f) = <<f>> \o h
<1>1. \A g \in Started : Depth[g] \in Nat /\ Depth[f] = 0
    BY DEF Depth, Started, Pull, Grammars, Restore
<1>2. \A i \in DOMAIN h : h[i] \in Started
    OBVIOUS
<1>3. \A i \in DOMAIN h : ~(Depth[h[i]] < Depth[f])
    BY <1>1, <1>2
<1>4. Len(h) \in Nat /\ DOMAIN h = 1 .. Len(h)
    OBVIOUS
<1>5. ASSUME NEW n \in 0 .. Len(h) PROVE Shallower(h, f, n) <=> n = 0
  <2>1. CASE n = 0
      BY <1>3, <1>4, <2>1 DEF Shallower
  <2>2. CASE n # 0
    <3>1. n \in DOMAIN h /\ n <= n
        BY <1>4, <2>2
    <3> QED
        BY <1>3, <2>2, <3>1 DEF Shallower
  <2> QED
      BY <2>1, <2>2
<1>6. (CHOOSE n \in 0 .. Len(h) : Shallower(h, f, n)) = 0
  <2>1. 0 \in 0 .. Len(h)
      BY <1>4
  <2> QED
      BY <1>5, <2>1, Zenon
<1>7. AddHook(h, f) = SubSeq(h, 1, 0) \o <<f>> \o SubSeq(h, 0 + 1, Len(h))
    BY <1>6, Zenon DEF AddHook
<1>8. SubSeq(h, 1, 0) = <<>> /\ SubSeq(h, 0 + 1, Len(h)) = h
    BY <1>4
<1> QED
    BY <1>7, <1>8

LEMMA AddedToNone == AddHook(<<>>, Restore) = <<Restore>>
<1>1. 0 .. Len(<<>>) = {0} /\ Shallower(<<>>, Restore, 0)
    BY DEF Shallower
<1>2. (CHOOSE n \in 0 .. Len(<<>>) : Shallower(<<>>, Restore, n)) = 0
    BY <1>1, Zenon
<1>3. AddHook(<<>>, Restore)
        = SubSeq(<<>>, 1, 0) \o <<Restore>> \o SubSeq(<<>>, 0 + 1, Len(<<>>))
    BY <1>2, Zenon DEF AddHook
<1> QED
    BY <1>3

Done == <<>>
Last == <<Restore>>
NoPull == <<Grammars>> \o Last
Whole == <<Pull>> \o NoPull

\* What is left of the hook, and what it will still do.  While init.el is
\* loaded the functions only gather; afterwards they are called in order.
HookGathers ==
    phase = "init" =>
        /\ called = {} /\ ~broken
        /\ exitHook <=> loads >= 3
        /\ hook = IF loads >= 3 THEN Whole ELSE IF loads = 2 THEN NoPull ELSE Last

HookRuns ==
    phase = "hooks" =>
        /\ hook \in {Whole, NoPull, Last, Done}
        /\ hook = Whole => exitHook
        /\ exitHook /\ Pull \notin called => hook = Whole
        /\ ~broken /\ gc = "off" => hook # Done

\* The two halves of PushIffPulled; the second holds at any time.
PullFirst == phase = "running" /\ exitHook => Pull \in called
PullMeansPush == Pull \in called => exitHook

StartInv ==
    StartTypeOK /\ HookGathers /\ HookRuns /\ GcRestored /\ PullFirst /\ PullMeansPush

LEMMA HookWith ==
    ASSUME NEW f \in Started, NEW s \in Seq(Started)
    PROVE  /\ <<f>> \o s \in Seq(Started) /\ <<f>> \o s # <<>>
           /\ Head(<<f>> \o s) = f /\ Tail(<<f>> \o s) = s
OBVIOUS

\* The values that the hook takes, and what its functions leave of it.
LEMMA PartsOfHook ==
    /\ Whole \in Seq(Started) /\ Whole # Done /\ Head(Whole) = Pull /\ Tail(Whole) = NoPull
    /\ NoPull \in Seq(Started) /\ NoPull # Done /\ Head(NoPull) = Grammars /\ Tail(NoPull) = Last
    /\ Last \in Seq(Started) /\ Last # Done /\ Head(Last) = Restore /\ Tail(Last) = Done
    /\ Done \in Seq(Started) /\ Done = <<>>
    /\ Whole # NoPull /\ Whole # Last /\ AddHook(<<>>, Restore) = Last
<1>1. {Pull, Grammars, Restore} \subseteq Started
    BY DEF Started
<1>2. Done \in Seq(Started) /\ Done = <<>>
    BY DEF Done
<1>3. Last \in Seq(Started) /\ Last # Done /\ Head(Last) = Restore /\ Tail(Last) = Done
    BY <1>1 DEF Last, Done
<1>4. NoPull \in Seq(Started) /\ NoPull # Done
    BY <1>1, <1>3, HookWith DEF NoPull, Done
<1>5. Head(NoPull) = Grammars
    BY <1>1, <1>3, HookWith DEF NoPull
<1>6. Tail(NoPull) = Last
    BY <1>1, <1>3, HookWith DEF NoPull
<1>7. Whole \in Seq(Started) /\ Whole # Done
    BY <1>1, <1>4, HookWith DEF Whole, Done
<1>8. Head(Whole) = Pull
    BY <1>1, <1>4, HookWith DEF Whole
<1>9. Tail(Whole) = NoPull
    BY <1>1, <1>4, HookWith DEF Whole
<1>10. Pull # Grammars /\ Pull # Restore
    BY DEF Pull, Grammars, Restore
<1>11. Whole # NoPull /\ Whole # Last
    BY <1>3, <1>5, <1>8, <1>10
<1>12. AddHook(<<>>, Restore) = Last
    BY AddedToNone DEF Last
<1> QED
    BY <1>2, <1>3, <1>4, <1>5, <1>6, <1>7, <1>8, <1>9, <1>11, <1>12

LEMMA HookOfLoads ==
    ASSUME StartInv, Load
    PROVE  hook' = IF loads' >= 3 THEN Whole
                   ELSE IF loads' = 2 THEN NoPull ELSE Last
<1>1. loads \in Nat /\ loads' = loads + 1 /\ hook \in Seq(Started)
    BY StartupAssumption DEF StartInv, StartTypeOK, Load
<1>2. hook = IF loads >= 3 THEN Whole
             ELSE IF loads = 2 THEN NoPull ELSE Last
    BY DEF StartInv, HookGathers, Load
<1>3. CASE loads' = 2
  <2>1. hook = Last
      BY <1>1, <1>2, <1>3
  <2>2. hook' = <<Grammars>> \o hook
      BY <1>1, <1>3, AddedFirst DEF Load
  <2> QED
      BY <1>3, <2>1, <2>2 DEF NoPull
<1>4. CASE loads' = 3
  <2>1. hook = NoPull
      BY <1>1, <1>2, <1>4
  <2>2. hook' = AddHook(hook, Pull)
      BY <1>4 DEF Load
  <2>3. AddHook(hook, Pull) = <<Pull>> \o hook
      BY <1>1, AddedFirst
  <2> QED
      BY <1>4, <2>1, <2>2, <2>3 DEF Whole
<1>5. CASE loads' # 2 /\ loads' # 3
  <2>1. hook' = hook
      BY <1>5 DEF Load
  <2> QED
      BY <1>1, <1>2, <1>5, <2>1
<1> QED
    BY <1>3, <1>4, <1>5

LEMMA StartTypeStep == ASSUME StartInv, StartNext PROVE StartTypeOK'
<1> USE StartupAssumption DEF StartInv, StartTypeOK
<1>1. hook' \in Seq(Started)
  <2>1. CASE EarlyInit
    <3>1. hook' = Last
        BY <2>1, PartsOfHook DEF EarlyInit
    <3> QED
        BY <3>1, PartsOfHook
  <2>2. CASE Load
      BY <2>2, HookOfLoads, PartsOfHook
  <2>3. CASE InitEnds \/ HooksDone \/ StartExit
      BY <2>3 DEF InitEnds, HooksDone, StartExit
  <2>4. CASE RunHook
    <3>1. hook \in Seq(Started) /\ hook # <<>> /\ <<>> \in Seq(Started)
        BY <2>4 DEF RunHook
    <3>2. Tail(hook) \in Seq(Started)
        BY <3>1
    <3>3. hook' = Tail(hook) \/ hook' = <<>>
        BY <2>4 DEF RunHook
    <3> QED
        BY <3>1, <3>2, <3>3, Zenon
  <2> QED
      BY <2>1, <2>2, <2>3, <2>4 DEF StartNext
<1>2. loads' \in 0 .. 3 + MaxLoads
    BY DEF StartNext, EarlyInit, Load, InitEnds, RunHook, HooksDone, StartExit
<1>3. phase' \in {"off", "init", "hooks", "running"} /\ gc' \in {"off", "16mb", "user"}
    BY DEF StartNext, EarlyInit, Load, InitEnds, RunHook, HooksDone, StartExit
<1>4. exitHook' \in BOOLEAN /\ broken' \in BOOLEAN
    BY DEF StartNext, EarlyInit, Load, InitEnds, RunHook, HooksDone, StartExit
<1>5. called' \subseteq Started
  <2>1. CASE RunHook
    <3>1. Head(hook) \in Started
        BY <2>1 DEF RunHook
    <3> QED
        BY <2>1, <3>1 DEF RunHook
  <2> QED
      BY <2>1 DEF StartNext, EarlyInit, Load, InitEnds, HooksDone, StartExit
<1> QED
    BY <1>1, <1>2, <1>3, <1>4, <1>5

LEMMA StartInvInductive == StartInv /\ [StartNext]_startVars => StartInv'
<1> SUFFICES ASSUME StartInv, [StartNext]_startVars PROVE StartInv'
    OBVIOUS
<1> DEFINE Rest == HookGathers /\ HookRuns /\ GcRestored /\ PullFirst /\ PullMeansPush
<1> USE DEF HookGathers, HookRuns, GcRestored, PullFirst, PullMeansPush
<1>0. Rest /\ StartTypeOK
    BY DEF StartInv
<1>1. CASE EarlyInit
  <2>1. hook' = Last
      BY <1>1, PartsOfHook DEF EarlyInit
  <2>2. HookGathers'
      BY <1>1, <2>1 DEF EarlyInit
  <2>3. HookRuns' /\ GcRestored' /\ PullFirst' /\ PullMeansPush'
      BY <1>1 DEF EarlyInit
  <2>4. StartTypeOK'
      BY <1>1, StartTypeStep DEF StartNext
  <2> QED
      BY <2>2, <2>3, <2>4 DEF StartInv
<1>2. CASE Load
  <2>1. loads \in Nat /\ loads' = loads + 1 /\ phase' = "init"
      BY <1>0, <1>2, StartupAssumption DEF StartTypeOK, Load
  <2>2. exitHook' <=> loads' >= 3
    <3>1. loads' >= 3 <=> loads >= 3 \/ loads' = 3
        BY <2>1
    <3>2. exitHook <=> loads >= 3
        BY <1>0, <1>2 DEF Load
    <3> QED
        BY <1>2, <3>1, <3>2, Zenon DEF Load
  <2>3. HookGathers'
      BY <1>0, <1>2, <2>2, HookOfLoads DEF Load
  <2> QED
      BY <1>0, <1>2, <2>1, <2>3, StartTypeStep DEF StartNext, StartInv, Load
<1>3. CASE InitEnds
  <2>1. HookRuns'
      BY <1>0, <1>3, PartsOfHook DEF InitEnds
  <2> QED
      BY <1>0, <1>3, <2>1, StartTypeStep DEF StartNext, StartInv, InitEnds
<1>4. CASE RunHook
  <2>1. phase' = "hooks" /\ exitHook' = exitHook
      BY <1>4 DEF RunHook
  <2>2. hook \in {Whole, NoPull, Last}
      BY <1>0, <1>4, PartsOfHook DEF RunHook
  <2>3. Pull \in called' => exitHook
      BY <1>0, <1>4, <2>2, PartsOfHook DEF RunHook, Pull, Grammars, Restore
  <2>4. hook' \in {NoPull, Last, Done}
      BY <1>4, <2>2, PartsOfHook DEF RunHook
  <2>5. exitHook => Pull \in called'
      BY <1>0, <1>4, <2>2, PartsOfHook DEF RunHook
  <2>6. ~broken' /\ gc' = "off" => hook' # Done
      BY <1>0, <1>4, <2>2, PartsOfHook DEF RunHook
  <2> QED
      BY <1>4, <2>1, <2>3, <2>4, <2>5, <2>6, PartsOfHook, StartTypeStep DEF StartNext, StartInv
<1>5. CASE HooksDone
  <2>1. hook = Done
      BY <1>5, PartsOfHook DEF HooksDone
  <2> QED
      BY <1>0, <1>5, <2>1, PartsOfHook, StartTypeStep DEF StartNext, StartInv, HooksDone
<1>6. CASE StartExit
    BY <1>0, <1>6, StartTypeStep DEF StartNext, StartInv, StartExit
<1>7. CASE UNCHANGED startVars
    BY <1>0, <1>7 DEF StartInv, StartTypeOK, startVars
<1> QED
    BY <1>1, <1>2, <1>3, <1>4, <1>5, <1>6, <1>7 DEF StartNext

LEMMA StartInvHolds == StartSpec => []StartInv
<1>1. StartInit => StartInv
  <2> SUFFICES ASSUME StartInit PROVE StartInv
      OBVIOUS
  <2>1. <<>> \in Seq(Started)
      OBVIOUS
  <2>2. StartTypeOK
    <3>1. hook \in Seq(Started)
        BY <2>1, Zenon DEF StartInit
    <3>2. loads \in 0 .. 3 + MaxLoads
        BY StartupAssumption DEF StartInit
    <3> QED
        BY <3>1, <3>2 DEF StartInit, StartTypeOK
  <2>3. HookGathers
      BY DEF StartInit, HookGathers
  <2>4. HookRuns
      BY PartsOfHook DEF StartInit, HookRuns
  <2>5. GcRestored /\ PullFirst /\ PullMeansPush
      BY DEF StartInit, GcRestored, PullFirst, PullMeansPush
  <2> QED
      BY <2>2, <2>3, <2>4, <2>5 DEF StartInv
<1> QED
    BY <1>1, StartInvInductive, PTL DEF StartSpec

\* The collector is on again in every session whose startup hook ran to its
\* end, whatever part of init.el was loaded (early-init.el:31).
THEOREM CollectorReturns == StartSpec => [](StartTypeOK /\ GcRestored)
BY StartInvHolds, PTL DEF StartInv

\* A session pushes at its end only after it has pulled, and pulls only if it
\* will push: the order on emacs-startup-hook keeps an interrupted hook from
\* separating them.
THEOREM PullAndPushTogether == StartSpec => []PushIffPulled
<1>1. StartInv => PushIffPulled
    BY DEF StartInv, PullFirst, PullMeansPush, PushIffPulled
<1> QED
    BY <1>1, StartInvHolds, PTL

\* A threshold that the user has set is not reset (early-init.el:34).
THEOREM UserValueKept == StartSpec => UserGcKept
<1>1. StartNext => (gc = "user" /\ phase # "off" => gc' = "user")
    BY DEF StartNext, EarlyInit, Load, InitEnds, RunHook, HooksDone, StartExit
<1>2. [StartNext]_startVars => [gc = "user" /\ phase # "off" => gc' = "user"]_startVars
    BY <1>1
<1> QED
    BY <1>2, PTL DEF StartSpec, UserGcKept

-----------------------------------------------------------------------------
(* Word wrap, for every number of buffers, every list of major modes and    *)
(* every fill style.                                                        *)

\* What the mode has turned on in a buffer that is wrapped for the first time
\* undoes itself: the flags are what differs from the minor modes before.
\* LeavingRestores is about one step; this is what it rests on.
Undoes ==
    \A b \in wrapped \ (mixed \cup twice) : Restored(minor[b], flags[b]) = before[b]

WrapInv == WrapTypeOK /\ WrapInForce /\ Undoes

-----------------------------------------------------------------------------
\* Switching the flags of a buffer on leaves the modes that the mode stands
\* for on, and those only: for any major mode, and any minor modes before.
LEMMA SwitchedInForce ==
    ASSUME NEW m, NEW on \in SUBSET Minors
    PROVE  LET new == Switched(on, Flags(m, on))
           IN  /\ new \in SUBSET Minors
               /\ "visual-line" \in new
               /\ m \notin Visual => "adaptive-wrap" \in new
               /\ FillStyle \in {"auto", "soft"} => "visual-fill" \in new
               /\ FillStyle = "soft" => "auto-fill" \notin new
BY DEF Switched, Flags, Minors

\* Restoring by the same flags gives the minor modes before.
LEMMA RestoredSwitched ==
    ASSUME NEW m, NEW on \in SUBSET Minors
    PROVE  Restored(Switched(on, Flags(m, on)), Flags(m, on)) = on
BY DEF Switched, Restored, Flags, Minors

LEMMA RestoredType ==
    ASSUME NEW on \in SUBSET Minors, NEW fs \in SUBSET Minors
    PROVE  Restored(on, fs) \in SUBSET Minors
BY DEF Restored, Minors

LEMMA FlagsType == ASSUME NEW m, NEW on PROVE Flags(m, on) \in SUBSET Minors
BY DEF Flags

-----------------------------------------------------------------------------
\* Enabling in any set of buffers, some of them wrapped before.
LEMMA EnableKeeps ==
    ASSUME WrapInv, NEW S \in SUBSET WBuffers, Enable(S, major, minor),
           UNCHANGED <<major, mixed>>, global' \in BOOLEAN, toggles' = toggles
    PROVE  WrapInv'
<1> USE DEF WrapInv, WrapTypeOK, WrapInForce, Undoes, Enable
<1>1. WrapTypeOK'
    BY SwitchedInForce, FlagsType
<1>2. ASSUME NEW b \in wrapped' \ mixed'
      PROVE  /\ "visual-line" \in minor'[b]
             /\ major'[b] \notin Visual => "adaptive-wrap" \in minor'[b]
             /\ FillStyle \in {"auto", "soft"} => "visual-fill" \in minor'[b]
             /\ FillStyle = "soft" => "auto-fill" \notin minor'[b]
  <2>1. CASE b \in S
    <3>1. minor'[b] = Switched(minor[b], Flags(major[b], minor[b])) /\ minor[b] \in SUBSET Minors
        BY <2>1
    <3> QED
        BY <3>1, SwitchedInForce
  <2>2. CASE b \notin S
      BY <1>2, <2>2
  <2> QED
      BY <2>1, <2>2
<1>3. ASSUME NEW b \in wrapped' \ (mixed' \cup twice')
      PROVE  Restored(minor'[b], flags'[b]) = before'[b]
  <2>1. CASE b \in S
    <3>1. b \notin wrapped /\ minor[b] \in SUBSET Minors /\ b \in WBuffers
        BY <1>3, <2>1
    <3>2. /\ minor'[b] = Switched(minor[b], Flags(major[b], minor[b]))
          /\ flags'[b] = Flags(major[b], minor[b]) /\ before'[b] = minor[b]
        BY <2>1, <3>1
    <3> QED
        BY <3>1, <3>2, RestoredSwitched
  <2>2. CASE b \notin S
      BY <1>3, <2>2
  <2> QED
      BY <2>1, <2>2
<1> QED
    BY <1>1, <1>2, <1>3

LEMMA DisableKeeps ==
    ASSUME WrapInv, NEW S \in SUBSET WBuffers, Disable(S),
           UNCHANGED <<major, toggles>>, global' \in BOOLEAN
    PROVE  WrapInv'
<1> USE DEF WrapInv, WrapTypeOK, WrapInForce, Undoes, Disable
<1>1. WrapTypeOK'
    BY RestoredType
<1>2. \A b \in wrapped' : b \notin S /\ b \in WBuffers /\ minor'[b] = minor[b]
    OBVIOUS
<1> QED
    BY <1>1, <1>2

\* A major mode wraps the buffer afresh, or leaves it without the mode.
LEMMA ChangeKeeps ==
    ASSUME WrapInv, NEW b \in WBuffers, NEW m \in WMajors, ChangeMajor(b, m)
    PROVE  WrapInv'
<1> USE DEF WrapInv, WrapTypeOK, WrapInForce, Undoes
<1> DEFINE on == IF m \in TextHook THEN {"visual-line"} ELSE {}
<1>1. on \in SUBSET Minors
    BY DEF Minors
<1>2. /\ minor' = [minor EXCEPT ![b] = IF Wraps(m) THEN Switched(on, Flags(m, on)) ELSE on]
      /\ flags' = [flags EXCEPT ![b] = IF Wraps(m) THEN Flags(m, on) ELSE {}]
      /\ before' = [before EXCEPT ![b] = on]
    BY DEF ChangeMajor
<1> HIDE DEF on
<1>3. WrapTypeOK'
    BY <1>1, <1>2, SwitchedInForce, FlagsType, WrapAssumption DEF ChangeMajor
<1>4. ASSUME NEW c \in wrapped', c # b
      PROVE  /\ c \in wrapped /\ c \in WBuffers /\ major'[c] = major[c] /\ minor'[c] = minor[c]
             /\ flags'[c] = flags[c] /\ before'[c] = before[c]
             /\ c \in mixed' <=> c \in mixed
             /\ c \in twice' <=> c \in twice
    BY <1>2, <1>4 DEF ChangeMajor
<1>5. b \in wrapped' => Wraps(m)
    BY DEF ChangeMajor
<1>6. major'[b] = m
    BY DEF ChangeMajor
<1>7. Wraps(m) => /\ minor'[b] = Switched(on, Flags(m, on))
                  /\ flags'[b] = Flags(m, on) /\ before'[b] = on
    BY <1>2
<1>8. WrapInForce'
    BY <1>1, <1>4, <1>5, <1>6, <1>7, SwitchedInForce
<1>9. Undoes'
  <2> SUFFICES ASSUME NEW c \in wrapped' \ (mixed' \cup twice')
               PROVE  Restored(minor'[c], flags'[c]) = before'[c]
      OBVIOUS
  <2>1. CASE c = b
      BY <1>1, <1>5, <1>7, <2>1, RestoredSwitched
  <2>2. CASE c # b
      BY <1>4, <2>2
  <2> QED
      BY <2>1, <2>2
<1> QED
    BY <1>3, <1>8, <1>9

LEMMA ToggleMinorKeeps ==
    ASSUME WrapInv, NEW b \in WBuffers, NEW f \in Minors, ToggleMinor(b, f)
    PROVE  WrapInv'
<1> USE DEF WrapInv, WrapTypeOK, WrapInForce, Undoes, ToggleMinor, settings
<1>1. WrapTypeOK'
  <2>1. minor' \in [WBuffers -> SUBSET Minors]
      OBVIOUS
  <2>2. toggles' \in 0 .. MaxToggles
      BY WrapAssumption
  <2> QED
      BY <2>1, <2>2
<1>2. \A c \in wrapped' \ mixed' : c # b /\ c \in wrapped \ mixed /\ minor'[c] = minor[c]
    OBVIOUS
<1> QED
    BY <1>1, <1>2

-----------------------------------------------------------------------------
LEMMA WrapInvInductive == WrapInv /\ [WrapNext]_wrapVars => WrapInv'
<1> SUFFICES ASSUME WrapInv, [WrapNext]_wrapVars PROVE WrapInv'
    OBVIOUS
<1>0. /\ wrapped \subseteq WBuffers
      /\ \A b \in WBuffers : {b} \in SUBSET WBuffers
      /\ {b \in WBuffers : major[b] \notin Unwrapped} \in SUBSET WBuffers
      /\ global \in BOOLEAN
    BY DEF WrapInv, WrapTypeOK
<1>1. ASSUME NEW b \in WBuffers, Toggle(b) PROVE WrapInv'
    BY <1>0, <1>1, EnableKeeps, DisableKeeps DEF Toggle
<1>2. CASE GlobalOn
    BY <1>0, <1>2, EnableKeeps DEF GlobalOn
<1>3. CASE GlobalOff
    BY <1>0, <1>3, DisableKeeps DEF GlobalOff
<1>4. CASE UNCHANGED wrapVars
    BY <1>4 DEF wrapVars, settings, ghosts, WrapInv, WrapTypeOK, WrapInForce, Undoes
<1> QED
    BY <1>1, <1>2, <1>3, <1>4, ChangeKeeps, ToggleMinorKeeps DEF WrapNext

LEMMA WrapInvHolds == WrapSpec => []WrapInv
<1>1. ASSUME WrapInit PROVE WrapInv
  <2>1. major \in [WBuffers -> WMajors] /\ toggles \in 0 .. MaxToggles
      BY <1>1, WrapAssumption DEF WrapInit
  <2>2. minor \in [WBuffers -> SUBSET Minors] /\ flags \in [WBuffers -> SUBSET Minors]
      BY <1>1 DEF WrapInit, Minors
  <2> QED
      BY <1>1, <2>1, <2>2 DEF WrapInit, WrapInv, WrapTypeOK, WrapInForce, Undoes
<1> QED
    BY <1>1, WrapInvInductive, PTL DEF WrapSpec

\* The state of the mode is well formed.
THEOREM WrapTypes == WrapSpec => []WrapTypeOK
BY WrapInvHolds, PTL DEF WrapInv

\* A wrapped buffer has the minor modes that the mode stands for, whoever
\* enabled it and however often, unless the user toggled one of them
\* (autoload.el, the body of the mode).
THEOREM WrapHolds == WrapSpec => []WrapInForce
BY WrapInvHolds, PTL DEF WrapInv

\* Leaving the mode gives back the minor modes before it, for any of them,
\* any major modes and any fill style, in a buffer that was wrapped once.
THEOREM LeavingUndoes == WrapSpec => LeavingRestores
<1>1. ASSUME WrapInv, WrapNext, NEW b \in wrapped \ (mixed \cup twice), b \notin wrapped'
      PROVE  minor'[b] = before'[b]
  <2> USE <1>1 DEF WrapInv, WrapTypeOK, Undoes
  <2>1. ASSUME NEW S, Disable(S) PROVE minor'[b] = before'[b]
      BY <2>1 DEF Disable
  <2>2. ASSUME NEW S, Enable(S, major, minor) PROVE FALSE
      BY <2>2 DEF Enable
  <2>3. ASSUME NEW c \in WBuffers, NEW m \in WMajors, ChangeMajor(c, m)
        PROVE  minor'[b] = before'[b]
      BY <2>3 DEF ChangeMajor
  <2>4. ASSUME NEW c \in WBuffers, NEW f \in Minors, ToggleMinor(c, f) PROVE FALSE
      BY <2>4 DEF ToggleMinor
  <2> QED
      BY <2>1, <2>2, <2>3, <2>4 DEF WrapNext, Toggle, GlobalOn, GlobalOff
<1>2. WrapInv /\ [WrapNext]_wrapVars
        => [\A b \in wrapped \ (mixed \cup twice) :
               b \notin wrapped' => minor'[b] = before'[b]]_wrapVars
    BY <1>1
<1> QED
    BY <1>2, WrapInvHolds, PTL DEF WrapSpec, LeavingRestores
=============================================================================
