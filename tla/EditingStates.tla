---------------------------- MODULE EditingStates ----------------------------
(***************************************************************************)
(* The hooks of helheim-core.el on the states of Hel: the highlight of the *)
(* current line, local to a buffer, and jit-lock-defer-time, which all     *)
(* buffers share.  The states are those of hel-core.el.                    *)
(***************************************************************************)
CONSTANT SBuffers   \* buffers

VARIABLES
    state,       \* hel-state of each buffer; "none" without hel-local-mode
    lit,         \* buffers where global-hl-line-mode is on
    defer,       \* is jit-lock-defer-time 0.25, and not 0?
    overtaken,   \* buffers in insert state when another one left it last
    abandoned    \* a buffer was killed in insert state, and none left it since

stateVars == <<state, lit, defer, overtaken, abandoned>>

Inserting == {b \in SBuffers : state[b] = "insert"}

StateInit ==
    /\ state = [b \in SBuffers |-> "none"] /\ lit = SBuffers
    /\ defer = FALSE /\ overtaken = {} /\ abandoned = FALSE

-----------------------------------------------------------------------------
\* The functions on the enter hooks of normal and motion state.
Highlight(on, b, s) ==
    CASE s = "normal" -> on \ {b} [] s = "motion" -> on \cup {b} [] OTHER -> on

\* Mutant: the exit hook runs after the enter hook.
Deferred_Mutant(b, s) == b \notin Inserting /\ (s = "insert" \/ defer)
\* Those on the hooks of insert state: what jit-lock-defer-time is after b
\* left its state and entered s.
Deferred(b, s) == s = "insert" \/ (defer /\ b \notin Inserting)

\* Buffer b leaves its state, if it has one, and enters s.
Transition(b, s) ==
    /\ state' = [state EXCEPT ![b] = s]
    /\ defer' = Deferred(b, s)
    /\ overtaken' = IF s = "insert" THEN {}
                    ELSE IF b \in Inserting THEN Inserting \ {b} ELSE overtaken
    /\ abandoned' = (abandoned /\ b \notin Inserting)

-----------------------------------------------------------------------------
\* hel-normal-state, hel-insert-state and hel-motion-state, by a command
EnterState(b, s) ==
    /\ state[b] # "none"
    /\ Transition(b, s) /\ lit' = Highlight(lit, b, s)

\* A major mode kills the local value of global-hl-line-mode; hel-mode then
\* turns hel-local-mode off, if it is on, and on again.
StateOfMajor(b, s) == Transition(b, s) /\ lit' = Highlight(lit \cup {b}, b, s)

\* kill-buffer runs no hook of a state.
KillInState(b) ==
    /\ state' = [state EXCEPT ![b] = "none"] /\ lit' = lit \cup {b}
    /\ abandoned' = (abandoned \/ b \in Inserting) /\ overtaken' = overtaken \ {b}
    /\ UNCHANGED defer

StateNext ==
    \E b \in SBuffers :
        \/ \E s \in {"normal", "insert", "motion"} : EnterState(b, s)
        \/ \E s \in {"normal", "motion"} : StateOfMajor(b, s)
        \/ KillInState(b)

StateSpec == StateInit /\ [][StateNext]_stateVars

-----------------------------------------------------------------------------
StateTypeOK ==
    /\ state \in [SBuffers -> {"none", "normal", "insert", "motion"}]
    /\ lit \subseteq SBuffers /\ overtaken \subseteq Inserting
    /\ defer \in BOOLEAN /\ abandoned \in BOOLEAN

\* "I want current line highlighting in special modes and don't want in text
\* editing modes" (helheim-core.el:190-191): in every buffer, through commands
\* and changes of the major mode, which kill the local setting.
HighlightFits ==
    \A b \in SBuffers :
        /\ state[b] = "normal" => b \notin lit
        /\ state[b] = "motion" => b \in lit

\* "Avoid fontification while typing" (helheim-core.el:317): fontification is
\* deferred for a buffer in insert state, unless another buffer left that
\* state in the meantime, which sets the shared variable back.
TypingDeferred == \A b \in Inserting \ overtaken : defer

\* When no buffer is in insert state it is not deferred any more, unless a
\* buffer was killed in that state.
DeferEnds == defer => Inserting # {} \/ abandoned

\* What the states have set, in a buffer and for all buffers, fits them.
StatesFit == HighlightFits /\ TypingDeferred /\ DeferEnds
=============================================================================
