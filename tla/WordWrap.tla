------------------------------ MODULE WordWrap ------------------------------
(***************************************************************************)
(* +word-wrap-mode (word-wrap/autoload.el): a buffer-local mode that turns *)
(* other minor modes on and off and remembers which, to undo it later, and *)
(* one advice that all buffers share.                                      *)
(***************************************************************************)
EXTENDS Naturals

CONSTANTS
    WBuffers,    \* buffers
    WMajors,     \* major modes; among them ...
    Visual,      \* ... +word-wrap-visual-modes
    Text,        \* ... +word-wrap-text-modes
    Unwrapped,   \* ... special modes and +word-wrap-disabled-modes
    TextHook,    \* ... those that run text-mode-hook
    WrapHook,    \* ... those whose hook calls (+word-wrap-mode +1)
    FillStyle,   \* +word-wrap-fill-style
    HasDtrt,     \* can dtrt-indent be required?
    MaxToggles   \* bound on the user's own toggles of the minor modes

ASSUME WrapAssumption ==
    /\ Visual \subseteq WMajors /\ Text \subseteq WMajors
    /\ Unwrapped \subseteq WMajors /\ TextHook \subseteq WMajors /\ WrapHook \subseteq WMajors
    /\ FillStyle \in {"auto", "soft", "margin"}
    /\ HasDtrt \in BOOLEAN /\ MaxToggles \in Nat

Minors == {"adaptive-wrap", "visual-line", "visual-fill", "auto-fill"}

VARIABLES
    major,       \* major mode of each buffer
    wrapped,     \* buffers with +word-wrap-mode
    minor,       \* the minor modes that are on in each buffer
    flags,       \* those the word wrap of the buffer has to undo
    visual,      \* buffers with +word-wrap--major-mode-is-visual
    advised,     \* is adaptive-wrap-fill-context-prefix advised?
    global,      \* +global-word-wrap-mode
    before,      \* the minor modes when +word-wrap-mode was turned on
    mixed,       \* wrapped buffers whose minor modes the user toggled since
    twice,       \* wrapped buffers where it was turned on again
    toggles      \* toggles so far

settings == <<flags, visual, advised>>
ghosts   == <<before, mixed, twice>>
wrapVars == <<major, wrapped, minor, settings, global, ghosts, toggles>>

WrapInit ==
    /\ major \in [WBuffers -> WMajors \ WrapHook]
    /\ minor = [b \in WBuffers |-> IF major[b] \in TextHook THEN {"visual-line"} ELSE {}]
    /\ flags = [b \in WBuffers |-> {}]
    /\ wrapped = {} /\ visual = {} /\ advised = FALSE /\ global = FALSE
    /\ before = minor /\ mixed = {} /\ twice = {} /\ toggles = 0

-----------------------------------------------------------------------------
\* Mutant: auto-fill is switched off by the wrong style.
Flags_Mutant(m, on) ==
    {f \in Minors : IF f = "auto-fill" THEN f \in on /\ FillStyle = "auto"
                    ELSE f \notin on /\ (f = "adaptive-wrap" => m \notin Visual)}

\* The modes that enabling switches in a buffer of major mode m with on.
Flags(m, on) ==
    {f \in Minors :
        \/ f = "adaptive-wrap" /\ f \notin on /\ m \notin Visual
        \/ f = "visual-line" /\ f \notin on
        \/ f = "visual-fill" /\ f \notin on /\ FillStyle \in {"auto", "soft"}
        \/ f = "auto-fill" /\ f \in on /\ FillStyle = "soft"}

Switched(on, fs) == (on \cup (fs \ {"auto-fill"})) \ (fs \cap {"auto-fill"})
\* Mutant: auto-fill is not switched on again.
Restored_Mutant(on, fs) == on \ fs

Restored(on, fs) == (on \ (fs \ {"auto-fill"})) \cup (fs \cap {"auto-fill"})

\* Does a wrapped line of code get additional indentation?
ExtraIndent(b) ==
    b \in wrapped /\ "adaptive-wrap" \in minor[b] /\ advised /\ major[b] \notin Text

\* Does a buffer that enters major mode m get the mode, and by whom?
Wraps(m) == m \in WrapHook \/ (global /\ m \notin Unwrapped)

\* The body of the mode with a true argument, in the buffers of S, when it
\* finds the major modes mj and the minor modes on.
Enable(S, mj, on) ==
    /\ wrapped' = wrapped \cup S
    /\ flags'   = [b \in WBuffers |-> IF b \in S THEN Flags(mj[b], on[b]) ELSE flags[b]]
    /\ minor'   = [b \in WBuffers |-> IF b \in S THEN Switched(on[b], Flags(mj[b], on[b])) ELSE on[b]]
    /\ visual'  = (visual \ S) \cup {b \in S : mj[b] \in Visual}
    /\ advised' = (advised \/ (HasDtrt /\ \E b \in S : mj[b] \notin Visual))
    /\ before'  = [b \in WBuffers |-> IF b \in S \ wrapped THEN on[b] ELSE before[b]]
    /\ twice'   = twice \cup (S \cap wrapped)

\* ... and with a negative one: the flags stay, and the advice goes.
Disable(S) ==
    /\ wrapped' = wrapped \ S
    /\ minor'   = [b \in WBuffers |-> IF b \in S THEN Restored(minor[b], flags[b]) ELSE minor[b]]
    /\ advised' = (advised /\ S \subseteq visual)
    /\ mixed'   = mixed \ S
    /\ twice'   = twice \ S
    /\ UNCHANGED <<flags, visual, before>>

-----------------------------------------------------------------------------
\* SPC t w
Toggle(b) ==
    /\ \/ b \notin wrapped /\ Enable({b}, major, minor) /\ UNCHANGED mixed
       \/ b \in wrapped /\ Disable({b})
    /\ UNCHANGED <<major, global, toggles>>

\* M-x +global-word-wrap-mode goes through all buffers.  Turned on, it
\* enables the mode also where it is on already.
GlobalOn ==
    /\ ~global /\ global' = TRUE
    /\ Enable({b \in WBuffers : major[b] \notin Unwrapped}, major, minor)
    /\ UNCHANGED <<major, mixed, toggles>>

GlobalOff ==
    /\ global /\ global' = FALSE
    /\ Disable(wrapped)
    /\ UNCHANGED <<major, toggles>>

\* A major mode kills the buffer's local variables and runs its hooks, then
\* the global mode's, which leaves alone a buffer that a hook has wrapped.
\* It does not disable: the advice stays.
ChangeMajor(b, m) ==
    /\ major' = [major EXCEPT ![b] = m]
    /\ LET on == IF m \in TextHook THEN {"visual-line"} ELSE {}
       IN  /\ minor' = [minor EXCEPT ![b] = IF Wraps(m) THEN Switched(on, Flags(m, on)) ELSE on]
           /\ flags' = [flags EXCEPT ![b] = IF Wraps(m) THEN Flags(m, on) ELSE {}]
           /\ before' = [before EXCEPT ![b] = on]
    /\ wrapped' = IF Wraps(m) THEN wrapped \cup {b} ELSE wrapped \ {b}
    /\ visual'  = IF Wraps(m) /\ m \in Visual THEN visual \cup {b} ELSE visual \ {b}
    /\ advised' = (advised \/ (HasDtrt /\ Wraps(m) /\ m \notin Visual))
    /\ mixed' = mixed \ {b} /\ twice' = twice \ {b}
    /\ UNCHANGED <<global, toggles>>

\* The user turns one of the minor modes on or off by its own command.
ToggleMinor(b, f) ==
    /\ toggles < MaxToggles /\ toggles' = toggles + 1
    /\ minor' = [minor EXCEPT ![b] = IF f \in @ THEN @ \ {f} ELSE @ \cup {f}]
    /\ mixed' = mixed \cup ({b} \cap wrapped)
    /\ UNCHANGED <<major, wrapped, settings, global, before, twice>>

WrapNext ==
    \/ GlobalOn \/ GlobalOff
    \/ \E b \in WBuffers :
        \/ Toggle(b)
        \/ \E m \in WMajors : ChangeMajor(b, m)
        \/ \E f \in Minors : ToggleMinor(b, f)

WrapSpec == WrapInit /\ [][WrapNext]_wrapVars

-----------------------------------------------------------------------------
WrapTypeOK ==
    /\ major \in [WBuffers -> WMajors]
    /\ wrapped \subseteq WBuffers /\ visual \subseteq WBuffers
    /\ mixed \subseteq wrapped /\ twice \subseteq wrapped
    /\ minor \in [WBuffers -> SUBSET Minors]
    /\ flags \in [WBuffers -> SUBSET Minors]
    /\ before \in [WBuffers -> SUBSET Minors]
    /\ advised \in BOOLEAN /\ global \in BOOLEAN /\ toggles \in 0 .. MaxToggles

\* A wrapped buffer wraps: however the mode came on, once or twice, by the
\* user, a hook or the global mode, the minor modes it stands for are on, and
\* auto-fill is off when fill-column is soft, unless the user toggled them.
WrapInForce ==
    \A b \in wrapped \ mixed :
        /\ "visual-line" \in minor[b]
        /\ major[b] \notin Visual => "adaptive-wrap" \in minor[b]
        /\ FillStyle \in {"auto", "soft"} => "visual-fill" \in minor[b]
        /\ FillStyle = "soft" => "auto-fill" \notin minor[b]

\* Leaving the mode gives a buffer back exactly the minor modes it had before
\* it, unless the user toggled one in between or the mode was turned on twice
\* (then the flags name what the mode itself had turned on).
LeavingRestores ==
    [][\A b \in wrapped \ (mixed \cup twice) :
          b \notin wrapped' => minor'[b] = before'[b]]_wrapVars

\* "In code buffers, lines which are not inside a string or comment will have
\* additional indentation" (autoload.el:40-42).
CodeIndented ==
    \A b \in wrapped \ mixed : major[b] \notin Visual \cup Text => ExtraIndent(b)
=============================================================================
