--------------------------- MODULE DesktopAuthority ---------------------------
(***************************************************************************)
(* What the persistence contract promises a desktop about its settings:    *)
(* there is one authoritative value of each, which only an update changes. *)
(* Moving authority to the XDG store changes no value; rolling back returns *)
(* to the values of the legacy store, which nothing has touched since.     *)
(***************************************************************************)
CONSTANTS Setting,  \* the settings documents that are written under the lock
          Value     \* the contents a document can have

VARIABLES value,     \* the authoritative content of each document
          retained,  \* what the legacy store holds of it
          migrated   \* whether the XDG store is the authoritative one

vars == <<value, retained, migrated>>

Init ==
    /\ value \in [Setting -> Value]
    /\ retained = value
    /\ migrated = FALSE

\* config_set and policy_set: the authoritative store alone is written.
Update(d, v) ==
    /\ value' = [value EXCEPT ![d] = v]
    /\ retained' = IF migrated THEN retained ELSE value'
    /\ UNCHANGED migrated

\* The commit of the completed record, the only step that gives XDG authority.
Migrate ==
    /\ ~migrated
    /\ migrated' = TRUE
    /\ UNCHANGED <<value, retained>>

\* Legacy authority is restored as it was left; the XDG values stop counting.
Rollback ==
    /\ migrated
    /\ migrated' = FALSE
    /\ value' = retained
    /\ UNCHANGED retained

Next ==
    \/ \E d \in Setting, v \in Value : Update(d, v)
    \/ Migrate
    \/ Rollback

Spec == Init /\ [][Next]_vars
===============================================================================
