--------------------------- MODULE DesktopMigration ---------------------------
(***************************************************************************)
(* The staged migration of desktop persistence from the legacy tree to the *)
(* XDG store (kilix-desktop-contract, persistence.py).                     *)
(*                                                                         *)
(* A migration holds the one global lock and copies a provider's documents *)
(* and files step by step; it can be refused, fail or be killed between    *)
(* any two steps.  Updates of settings take the same lock; desktops and    *)
(* users change files at any time without it.  Authority is what the       *)
(* migration record says, and nothing else.                                *)
(*                                                                         *)
(* Providers are named by their position in MIGRATION_ORDER; N is the one  *)
(* whose migration flips the authority (Kilix 95).                         *)
(***************************************************************************)
EXTENDS Naturals, Sequences, FiniteSets

CONSTANTS
    N,           \* how many providers the migration order has
    Item,        \* what a migration copies: a document, a file or a tree
    Plan,        \* Plan[p]: the items of provider p, in the order copied
    Entries,     \* Entries[i]: the paths item i stands for
    Tree,        \* the items that are directory trees
    Document,    \* the items that are documents: a configuration, the policy
    Separate,    \* documents of a consumer outside the migration order
    Unlocked,    \* the paths programs and users change without the lock
    Value,       \* contents
    Folder,      \* the content of a path that is a directory
    Absent,      \* the content of a path that does not exist
    Start,       \* the legacy trees the first migration may find
    MaxFaults, MaxEdits, MaxRollbacks   \* bounds on what the environment does

Provider == 1..N
Path == (UNION {Entries[i] : i \in Item}) \cup Separate
Settings == Document \cup Separate
Content == Value \cup {Absent}
\* A document always has readable contents: a missing sidecar reads as defaults.
ContentOf(e) ==
    IF e \in Settings THEN Value \ {Folder}
    ELSE IF \E i \in Tree : e \in Entries[i] THEN Content
    ELSE Content \ {Folder}

ASSUME NAssumption == N \in Nat \ {0}
ASSUME PlanAssumption ==
    /\ Plan \in [Provider -> Seq(Item)]
    /\ \A p \in Provider : Len(Plan[p]) > 0
    /\ \A i \in Item : \E p \in Provider : \E k \in 1..Len(Plan[p]) : Plan[p][k] = i
ASSUME ItemAssumption ==
    /\ DOMAIN Entries = Item
    /\ Document \subseteq Item
    /\ Tree \subseteq Item \ Document
    /\ \A d \in Document : Entries[d] = {d}
    /\ \A i \in Item \ Document : Entries[i] \cap Settings = {}
    /\ \A i \in Item \ (Tree \cup Document) : \E e \in Entries[i] : Entries[i] = {e}
\* Only Kilix 95, the last provider, has trees to copy.
ASSUME TreeAssumption ==
    \A p \in Provider : \A k \in 1..Len(Plan[p]) : Plan[p][k] \in Tree => p = N
ASSUME PathAssumption ==
    /\ Separate \cap (UNION {Entries[i] : i \in Item}) = {}
    /\ Unlocked \subseteq Path
ASSUME ContentAssumption == Absent \notin Value /\ Absent # Folder
ASSUME StartAssumption ==
    Start \subseteq {s \in [Path -> Content] : \A e \in Path : s[e] \in ContentOf(e)}
ASSUME BoundAssumption == {MaxFaults, MaxEdits, MaxRollbacks} \subseteq Nat

VARIABLES
    legacy,   \* the legacy tree: the content of every path
    xdg,      \* the XDG store, by the path of the legacy tree each entry mirrors
    record,   \* the migration record (its generation only counts the writes)
    job,      \* the migration that holds the lock, if any
    desktop,  \* whether some running desktop has resolved its paths to XDG
    seen,     \* history: what each path has held since the migration began
    faults, edits, rollbacks   \* how much of the bounds is used

store == <<legacy, xdg, record>>
budget == <<faults, edits, rollbacks>>
vars == <<legacy, xdg, record, job, desktop, seen, budget>>

NoSnapshot == [e \in Path |-> Absent]
NothingSeen == [e \in Path |-> {}]
Idle == [own |-> 0, who |-> 0, at |-> 0, retrying |-> FALSE, phase |-> "idle",
         todo |-> {}, before |-> NoSnapshot]
NoRecord == [state |-> "none", completed |-> <<>>, provider |-> 0]

Phase == {"idle", "item", "remove", "copy", "prune"}
RecordState == {"none", "in-progress", "failed", "completed", "rolled-back"}

Job == [own : 0..N, who : 0..N+1, at : Nat, retrying : BOOLEAN, phase : Phase,
        todo : SUBSET Path, before : [Path -> Content]]
Record == [state : RecordState, completed : Seq(Provider), provider : 0..N]

TypeOK ==
    /\ legacy \in [Path -> Content]
    /\ xdg \in [Path -> Content]
    /\ record \in Record
    /\ job \in Job
    /\ desktop \in BOOLEAN
    /\ seen \in [Path -> SUBSET Content]
    /\ faults \in Nat /\ edits \in Nat /\ rollbacks \in Nat

-------------------------------------------------------------------------------
\* Authority.

\* authority(): XDG is authoritative exactly under a completed record.
Migrated == record.state = "completed"

\* Every document a completed record makes authority() read is there.
AuthorityReadable == \A d \in Document : xdg[d] # Absent

\* What a desktop reads: config_get, policy_get, or a file at its resolved path.
Authoritative == IF Migrated THEN xdg ELSE legacy

-------------------------------------------------------------------------------
\* The migration that holds the lock.

Running == job.own # 0

\* The providers done so far; a rollback starts the order again.
Completed == IF record.state = "rolled-back" THEN <<>> ELSE record.completed

\* Every item of the attempt has been copied: the record can be committed.
Finished == job.who > job.own

Current == Plan[job.who][job.at]

\* Mutants: a final sync that does not replace, a retry that does not replace.
ReplaceOnlyOnRetry == job.retrying
ReplaceOnlyInSync == job.who < job.own

\* The final sync replaces what earlier migrations staged.  The provider's own
\* copy replaces existing entries only when its last attempt is on record as failed.
Replace == job.who < job.own \/ job.retrying

\* _copy_file and _ensure_private_directory refuse an existing target that
\* differs, unless replacing; a file never replaces a directory or the reverse.
Conflict(e) ==
    /\ xdg[e] # Absent
    /\ xdg[e] # legacy[e]
    /\ ~Replace \/ Folder \in {xdg[e], legacy[e]}

\* Before an item, and within it.
AtItem(own, who, at, retrying) ==
    [own |-> own, who |-> who, at |-> at, retrying |-> retrying,
     phase |-> "item", todo |-> {}, before |-> NoSnapshot]
InPhase(phase, todo, before) ==
    [own |-> job.own, who |-> job.who, at |-> job.at, retrying |-> job.retrying,
     phase |-> phase, todo |-> todo, before |-> before]

\* After the current item: the next of the same provider, or the first of the
\* next one.
Advance ==
    IF job.at < Len(Plan[job.who])
      THEN AtItem(job.own, job.who, job.at + 1, job.retrying)
      ELSE AtItem(job.own, job.who + 1, 1, job.retrying)

Present(i, s) == {e \in Entries[i] : s[e] # Absent}
Snapshot(i) == [e \in Path |-> IF e \in Entries[i] THEN legacy[e] ELSE Absent]

Init ==
    /\ legacy \in Start
    /\ xdg = NoSnapshot
    /\ record = NoRecord
    /\ job = Idle
    /\ desktop = FALSE
    /\ seen = NothingSeen
    /\ faults = 0 /\ edits = 0 /\ rollbacks = 0

\* Mutant: any provider may be migrated at any time.
BeginInAnyOrder(p) ==
    /\ ~Running
    /\ ~Migrated
    /\ job' = AtItem(p, IF p = N THEN 1 ELSE p, 1,
                     record.state = "failed" /\ record.provider = p)
    /\ seen' = [e \in Path |-> {legacy[e]}]
    /\ UNCHANGED <<store, desktop, budget>>

\* migrate(p): under the lock, refused once completed and refused out of order.
Begin(p) ==
    /\ ~Running
    /\ ~Migrated
    /\ p = Len(Completed) + 1
    /\ LET retrying == record.state = "failed" /\ record.provider = p IN
       job' = AtItem(p, IF p = N THEN 1 ELSE p, 1, retrying)
    /\ seen' = [e \in Path |-> {legacy[e]}]
    /\ UNCHANGED <<store, desktop, budget>>

\* _publish_configuration and _publish_policy: read, compare, write if needed.
PublishDocument ==
    /\ Running /\ ~Finished /\ job.phase = "item"
    /\ Current \in Document
    /\ ~Conflict(Current)
    /\ xdg' = [xdg EXCEPT ![Current] = legacy[Current]]
    /\ job' = Advance
    /\ UNCHANGED <<legacy, record, desktop, seen, budget>>

\* _copy_item, source missing: skipped, or its stale copy removed when replacing.
BeginMissingItem ==
    /\ Running /\ ~Finished /\ job.phase = "item"
    /\ Current \notin Document
    /\ Present(Current, legacy) = {}
    /\ job' = IF Replace
                THEN InPhase("remove", Present(Current, xdg), NoSnapshot)
                ELSE Advance
    /\ UNCHANGED <<store, desktop, seen, budget>>

\* _remove_managed_path, one entry at a time.
RemoveEntry(e) ==
    /\ job.phase = "remove"
    /\ e \in job.todo
    /\ xdg' = [xdg EXCEPT ![e] = Absent]
    /\ job' = [job EXCEPT !.todo = @ \ {e}]
    /\ UNCHANGED <<legacy, record, desktop, seen, budget>>

EndMissingItem ==
    /\ job.phase = "remove"
    /\ job.todo = {}
    /\ job' = Advance
    /\ UNCHANGED <<store, desktop, seen, budget>>

\* _copy_item, source present (a tree may be an empty directory): the snapshot
\* before, and the list of what there is to copy.
BeginItem ==
    /\ Running /\ ~Finished /\ job.phase = "item"
    /\ Current \notin Document
    /\ Present(Current, legacy) # {} \/ Current \in Tree
    /\ job' = InPhase("copy", Present(Current, legacy), Snapshot(Current))
    /\ UNCHANGED <<store, desktop, seen, budget>>

\* _copy_file: the bytes the source holds now, through an atomic replace.
CopyEntry(e) ==
    /\ job.phase = "copy"
    /\ e \in job.todo
    /\ legacy[e] # Absent
    /\ ~Conflict(e)
    /\ xdg' = [xdg EXCEPT ![e] = legacy[e]]
    /\ job' = [job EXCEPT !.todo = @ \ {e}]
    /\ UNCHANGED <<legacy, record, desktop, seen, budget>>

\* Pruning happens to directories, and only when replacing.
BeginPrune ==
    /\ job.phase = "copy"
    /\ job.todo = {}
    /\ Current \in Tree
    /\ Replace
    /\ job' = InPhase("prune", Present(Current, xdg), job.before)
    /\ UNCHANGED <<store, desktop, seen, budget>>

\* _prune_directory: an entry goes if the source does not have it now.
PruneEntry(e) ==
    /\ job.phase = "prune"
    /\ e \in job.todo
    /\ xdg' = [xdg EXCEPT ![e] = IF legacy[e] = Absent THEN Absent ELSE @]
    /\ job' = [job EXCEPT !.todo = @ \ {e}]
    /\ UNCHANGED <<legacy, record, desktop, seen, budget>>

\* Everything is copied (and pruned): the snapshot after is compared.
Copied ==
    /\ job.todo = {}
    /\ \/ job.phase = "prune"
       \/ job.phase = "copy" /\ ~(Current \in Tree /\ Replace)

EndItem ==
    /\ Copied
    /\ Snapshot(Current) = job.before
    /\ job' = Advance
    /\ UNCHANGED <<store, desktop, seen, budget>>

\* The attempt ends.  "failed" keeps the completed providers of the record read.
FailureRecord == [state |-> "failed", completed |-> Completed,
                  provider |-> job.own]

Abandon(recorded) ==
    /\ record' = IF recorded THEN FailureRecord ELSE record
    /\ job' = Idle
    /\ seen' = NothingSeen
    /\ UNCHANGED <<legacy, xdg, desktop, edits, rollbacks>>

\* What makes migrate() itself give up: a conflicting target, a source that
\* vanished or changed while it was copied.
Refused ==
    \/ job.phase = "item" /\ ~Finished /\ Current \in Document /\ Conflict(Current)
    \/ job.phase = "copy" /\ \E e \in job.todo : legacy[e] = Absent \/ Conflict(e)
    \/ Copied /\ Snapshot(Current) # job.before

\* The failure record is written best effort: a second error loses it.
Refuse ==
    /\ Running
    /\ Refused
    /\ \/ Abandon(TRUE) /\ UNCHANGED faults
       \/ Abandon(FALSE) /\ faults < MaxFaults /\ faults' = faults + 1

\* An I/O error while copying (recorded or not), the process killed at any
\* point, or a commit whose write failed: none but the first leaves a record.
Fault ==
    /\ Running
    /\ faults < MaxFaults
    /\ faults' = faults + 1
    /\ \E recorded \in BOOLEAN : (recorded => ~Finished) /\ Abandon(recorded)

\* Mutant: the record names the provider the copying loop stopped at.
CommitCursor ==
    /\ Running
    /\ Finished
    /\ LET done == Append(Completed, job.who) IN
       record' = [state |-> IF Len(done) = N THEN "completed" ELSE "in-progress",
                  completed |-> done, provider |-> job.own]
    /\ job' = Idle
    /\ seen' = NothingSeen
    /\ UNCHANGED <<legacy, xdg, desktop, budget>>

\* The record: the one write that advances the order and, last, the authority.
Commit ==
    /\ Running
    /\ Finished
    /\ LET done == Append(Completed, job.own) IN
       record' = [state |-> IF Len(done) = N THEN "completed" ELSE "in-progress",
                  completed |-> done, provider |-> job.own]
    /\ job' = Idle
    /\ seen' = NothingSeen
    /\ UNCHANGED <<legacy, xdg, desktop, budget>>

\* rollback(): needs a record, moves no data.
Rollback ==
    /\ ~Running
    /\ record.state # "none"
    /\ rollbacks < MaxRollbacks
    /\ record' = [state |-> "rolled-back", completed |-> record.completed,
                  provider |-> 0]
    /\ rollbacks' = rollbacks + 1
    /\ UNCHANGED <<legacy, xdg, job, desktop, seen, faults, edits>>

-------------------------------------------------------------------------------
\* What happens around it.

Noted(e, c) == [seen EXCEPT ![e] = IF Running THEN @ \cup {c} ELSE @]

\* Mutant: an update does not wait for the lock.
UpdateSettingUnlocked(d, v) ==
    /\ edits < MaxEdits
    /\ v \in ContentOf(d)
    /\ IF Migrated
         THEN xdg' = [xdg EXCEPT ![d] = v] /\ UNCHANGED legacy
         ELSE legacy' = [legacy EXCEPT ![d] = v] /\ UNCHANGED xdg
    /\ edits' = edits + 1
    /\ UNCHANGED <<record, job, desktop, seen, faults, rollbacks>>

\* config_set, policy_set, shared_settings_update: under the lock, they read
\* the authoritative document (a missing XDG one is an error) and write it.
UpdateSetting(d, v) ==
    /\ ~Running
    /\ edits < MaxEdits
    /\ v \in ContentOf(d)
    /\ IF Migrated
         THEN /\ AuthorityReadable
              /\ xdg[d] # Absent
              /\ xdg' = [xdg EXCEPT ![d] = v]
              /\ UNCHANGED legacy
         ELSE /\ legacy' = [legacy EXCEPT ![d] = v]
              /\ UNCHANGED xdg
    /\ edits' = edits + 1
    /\ UNCHANGED <<record, job, desktop, seen, faults, rollbacks>>

\* A desktop or a user changes the legacy tree: native configuration files are
\* documents too, and desktops keep writing where they started.
EditLegacy(e, c) ==
    /\ e \in Unlocked
    /\ edits < MaxEdits
    /\ c \in ContentOf(e) \ {legacy[e]}
    /\ legacy' = [legacy EXCEPT ![e] = c]
    /\ seen' = Noted(e, c)
    /\ edits' = edits + 1
    /\ UNCHANGED <<xdg, record, job, desktop, faults, rollbacks>>

\* resolved_path(): a desktop started under XDG authority uses XDG paths, and
\* goes on using them after a rollback, until it ends.
StartDesktop ==
    /\ Migrated
    /\ ~desktop
    /\ desktop' = TRUE
    /\ UNCHANGED <<store, job, seen, budget>>

EndDesktop ==
    /\ desktop
    /\ desktop' = FALSE
    /\ UNCHANGED <<store, job, seen, budget>>

EditXdg(e, c) ==
    /\ desktop
    /\ e \in Unlocked \ Settings
    /\ edits < MaxEdits
    /\ c \in ContentOf(e) \ {xdg[e]}
    /\ xdg' = [xdg EXCEPT ![e] = c]
    /\ seen' = Noted(e, c)
    /\ edits' = edits + 1
    /\ UNCHANGED <<legacy, record, job, desktop, faults, rollbacks>>

-------------------------------------------------------------------------------
Copying ==
    \/ PublishDocument
    \/ BeginMissingItem
    \/ EndMissingItem
    \/ BeginItem
    \/ BeginPrune
    \/ EndItem
    \/ \E e \in Path : RemoveEntry(e) \/ CopyEntry(e) \/ PruneEntry(e)

Migrating == Copying \/ Refuse \/ Commit

Environment ==
    \/ \E d \in Settings, v \in Value : UpdateSetting(d, v)
    \/ \E e \in Path, c \in Content : EditLegacy(e, c) \/ EditXdg(e, c)
    \/ StartDesktop
    \/ EndDesktop

Next ==
    \/ \E p \in Provider : Begin(p)
    \/ Migrating
    \/ Fault
    \/ Rollback
    \/ Environment

Spec == Init /\ [][Next]_vars

\* A migration that is running goes on, and one that did not complete is tried
\* again: the contract promises nothing to an operator who gives up.
FairSpec ==
    /\ Spec
    /\ WF_vars(Migrating)
    /\ WF_vars(\E p \in Provider : Begin(p))

-------------------------------------------------------------------------------
\* Properties.

\* The record always reads back: _record() refuses one that is not a prefix of
\* the order, or completed without all providers, and then nothing can resolve
\* the authority any more.  And a completed record is only ever committed over
\* documents that authority() can read.
RecordReadable ==
    /\ Len(record.completed) <= N
    /\ \A k \in 1..Len(record.completed) : record.completed[k] = k
    /\ Migrated => Len(record.completed) = N
    /\ Migrated => AuthorityReadable

Flip == ~Migrated /\ Migrated'

LastFiles == (UNION {Entries[Plan[N][k]] : k \in 1..Len(Plan[N])}) \ Document

\* The commit that flips the authority publishes nothing stale: each path holds
\* something it really held since that attempt began ("mixed-window writes
\* cannot go stale").  Excepted are files of the last provider that the legacy
\* tree was without at some time during the attempt: those of an earlier XDG
\* period survive there and become authoritative again.
FlipPublishesLegacy ==
    [][Flip => \A e \in Path \ Separate :
                  \/ xdg'[e] \in seen[e]
                  \/ e \in LastFiles /\ Absent \in seen[e]]_vars

\* Settings that are only written under the lock see one authoritative store:
\* no update is lost by a failed, killed, retried or completed migration, and
\* none reappears; a rollback returns to the legacy values.
Locked == Document \ Unlocked
Restricted(s) == [d \in Locked |-> s[d]]
Abstract == INSTANCE DesktopAuthority WITH
    Setting <- Locked,
    Value <- Value,
    value <- Restricted(Authoritative),
    retained <- Restricted(legacy),
    migrated <- Migrated
SingleAuthority == Abstract!Spec

\* Once faults, edits and rollbacks cease, retrying completes the migration: no
\* sequence of them leaves a state that no retry gets out of.
MigrationCompletes == <>[]Migrated
===============================================================================
