------------------------------- MODULE Startup -------------------------------
(***************************************************************************)
(* A session from early-init.el to its end: the files that init.el loads,  *)
(* what they put on emacs-startup-hook and kill-emacs-hook, and the garbage*)
(* collector, which is off until the last function of the startup hook.    *)
(***************************************************************************)
EXTENDS Sequences, Integers

CONSTANT MaxLoads   \* bound on the files that init.el loads after the vault's

ASSUME StartupAssumption == MaxLoads \in Nat

\* The functions of emacs-startup-hook, and the depths they are added with.
Pull     == "org-vault-sync-pull"
Grammars == "helheim-install-missing-treesit-grammars"
Restore  == "helheim--restore-original-gc-values"
Started  == {Pull, Grammars, Restore}
Depth    == [f \in Started |-> IF f = Restore THEN 105 ELSE 0]

VARIABLES
    phase,       \* "off", "init", "hooks", "running"
    loads,       \* files that init.el has loaded
    hook,        \* emacs-startup-hook, its functions still to be run
    exitHook,    \* is org-vault-sync-push on kill-emacs-hook?
    gc,          \* gc-cons-threshold: "off", "16mb" or the user's own value
    called,      \* functions of emacs-startup-hook called in this session
    broken       \* one of them signalled an error or was quit

startVars == <<phase, loads, hook, exitHook, gc, called, broken>>

StartInit ==
    /\ phase = "off" /\ loads = 0 /\ hook = <<>> /\ exitHook = FALSE
    /\ gc = "16mb" /\ called = {} /\ broken = FALSE

\* Mutant: add-hook with APPEND.
AddHook_Mutant(h, f) == Append(h, f)

\* add-hook puts a function before those of the same or a greater depth.
Shallower(h, f, n) == \A i \in DOMAIN h : i <= n <=> Depth[h[i]] < Depth[f]
AddHook(h, f) ==
    LET k == CHOOSE n \in 0 .. Len(h) : Shallower(h, f, n)
    IN  SubSeq(h, 1, k) \o <<f>> \o SubSeq(h, k + 1, Len(h))

-----------------------------------------------------------------------------
\* Mutant: the collector is switched off and its return left to init.el.
EarlyInit_Mutant ==
    /\ phase = "off" /\ phase' = "init"
    /\ gc' = "off" /\ hook' = <<>>
    /\ loads' = 0 /\ exitHook' = FALSE /\ called' = {} /\ broken' = FALSE

\* early-init.el
EarlyInit ==
    /\ phase = "off" /\ phase' = "init"
    /\ gc' = "off" /\ hook' = AddHook(<<>>, Restore)
    /\ loads' = 0 /\ exitHook' = FALSE /\ called' = {} /\ broken' = FALSE

\* init.el: helheim-core, helheim-tree-sitter, then org-vault-sync and the
\* rest.  A file of the user's may set the threshold.
Load ==
    /\ phase = "init" /\ loads < 3 + MaxLoads
    /\ loads' = loads + 1
    /\ hook' = IF loads' = 2 THEN AddHook(hook, Grammars)
               ELSE IF loads' = 3 THEN AddHook(hook, Pull) ELSE hook
    /\ exitHook' = (exitHook \/ loads' = 3)
    /\ gc' \in {gc, "user"}
    /\ UNCHANGED <<phase, called, broken>>

\* The end of init.el, or an error in one of its files: either way custom.el
\* is loaded, which may set the threshold, and the startup hook is run.
InitEnds ==
    /\ phase = "init" /\ phase' = "hooks"
    /\ gc' \in {gc, "user"}
    /\ UNCHANGED <<loads, hook, exitHook, called, broken>>

\* Calls the next function of the hook.  If it does not return (an error, or
\* C-g while git runs), those behind it are not called.
RunHook ==
    /\ phase = "hooks" /\ hook # <<>>
    /\ called' = called \cup {Head(hook)}
    /\ \/ /\ hook' = Tail(hook)
          /\ gc' = IF Head(hook) = Restore /\ gc = "off" THEN "16mb" ELSE gc
          /\ UNCHANGED broken
       \/ /\ Head(hook) # Restore
          /\ hook' = <<>> /\ broken' = TRUE
          /\ UNCHANGED gc
    /\ UNCHANGED <<phase, loads, exitHook>>

HooksDone ==
    /\ phase = "hooks" /\ hook = <<>> /\ phase' = "running"
    /\ UNCHANGED <<loads, hook, exitHook, gc, called, broken>>

\* kill-emacs, with the push if the vault's file was loaded.
StartExit ==
    /\ phase = "running" /\ phase' = "off"
    /\ UNCHANGED <<loads, hook, exitHook, gc, called, broken>>

StartNext == EarlyInit \/ Load \/ InitEnds \/ RunHook \/ HooksDone \/ StartExit

StartSpec == StartInit /\ [][StartNext]_startVars

-----------------------------------------------------------------------------
StartTypeOK ==
    /\ phase \in {"off", "init", "hooks", "running"}
    /\ loads \in 0 .. 3 + MaxLoads
    /\ hook \in Seq(Started)
    /\ exitHook \in BOOLEAN /\ broken \in BOOLEAN
    /\ gc \in {"off", "16mb", "user"}
    /\ called \subseteq Started

\* The collector is back when the session starts, however much of init.el was
\* loaded, unless a function of the startup hook did not return.
GcRestored == phase = "running" /\ ~broken => gc # "off"

\* "Reset `gc-cons-threshold' without user's config" (early-init.el:34): a
\* value that a file or custom.el has set is kept.
UserGcKept == [][gc = "user" /\ phase # "off" => gc' = "user"]_startVars

\* A session that ends with a push has begun with a pull, and the other way
\* round: neither an error in init.el nor a startup hook that does not return
\* puts the one without the other.  Both are added by one file, and the pull,
\* added last with depth 0, is called first.
PushIffPulled == phase = "running" => (exitHook <=> Pull \in called)
=============================================================================
