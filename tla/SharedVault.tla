----------------------------- MODULE SharedVault -----------------------------
(***************************************************************************)
(* What org-vault-sync.el promises of the vault, with no git in sight: a   *)
(* shared set of edits and, for each device, the edits it holds.  A device *)
(* saves an edit, learns shared edits, and publishes edits it holds, but   *)
(* only when it holds everything that is shared already.  Nothing is ever  *)
(* forgotten, by a device or by the shared copy.                           *)
(***************************************************************************)
CONSTANTS Devices, Edits

VARIABLES shared, known

vars == <<shared, known>>

TypeOK == shared \subseteq Edits /\ known \in [Devices -> SUBSET Edits]

Init ==
    /\ shared = {}
    /\ known = [d \in Devices |-> {}]

\* An edit is saved by one device, which is then the only one that holds it.
Save(d, e) ==
    /\ e \notin shared /\ \A c \in Devices : e \notin known[c]
    /\ known' = [known EXCEPT ![d] = @ \cup {e}]
    /\ UNCHANGED shared

Learn(d) ==
    /\ known' = [known EXCEPT ![d] = @ \cup shared]
    /\ UNCHANGED shared

\* A device may hold back what it has not recorded yet.
Publish(d) ==
    /\ shared \subseteq known[d]
    /\ \E S \in SUBSET known[d] : shared' = shared \cup S
    /\ UNCHANGED known

Next == \E d \in Devices : Learn(d) \/ Publish(d) \/ \E e \in Edits : Save(d, e)

Spec == Init /\ [][Next]_vars
=============================================================================
