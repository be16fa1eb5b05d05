---------------------------- MODULE MCSettingsFiles ----------------------------
(* A small instance of SettingsFiles: the desktop policy, with the shared     *)
(* settings file and the environment file.                                   *)
EXTENDS SettingsFiles, TLC

CONSTANTS v1, v2, provider, shared, settings, environment, setProvider, setShared

\* policy_set of the default provider rewrites both files; an update of a
\* shared setting only the first.
PolicyValues == (provider :> {v1, v2}) @@ (shared :> {v1, v2})
PolicyFiles == <<settings, environment>>
PolicyListed == (settings :> {provider, shared}) @@ (environment :> {provider})
PolicyTarget == (setProvider :> provider) @@ (setShared :> shared)
PolicyRewritten ==
    (setProvider :> ((settings :> {provider}) @@ (environment :> {provider}))) @@
    (setShared :> ((settings :> {shared}) @@ (environment :> {})))

\* What edits by hand leave: anything.
AnyLines == [k \in Key |-> Lines(k)]

Symmetry == Permutations({v1, v2})
================================================================================
