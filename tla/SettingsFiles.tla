----------------------------- MODULE SettingsFiles -----------------------------
(***************************************************************************)
(* One settings document of the persistence contract and the files it is   *)
(* spread over (kilix-desktop-contract, persistence.py).                   *)
(*                                                                         *)
(* Under legacy authority a document is a sidecar plus the native files    *)
(* older programs read: the configuration of Kilix Cap or Land has one,    *)
(* the desktop policy has two, which must agree on the default provider.   *)
(* An update, under the global lock, rewrites the sidecar and then the     *)
(* native files one after the other, and can die in between; users and     *)
(* shell scripts edit the native files at any time; readers take no lock.  *)
(* Under XDG authority the document is one file, replaced atomically.      *)
(***************************************************************************)
EXTENDS Naturals, Sequences, FiniteSets

CONSTANTS
    Key,        \* the settings of the document
    Values,     \* Values[k]: the values setting k is given
    None,       \* no value: the setting is at its default
    Files,      \* the native files, in the order they are read and rewritten
    Listed,     \* Listed[f]: the settings whose assignments in f count
    Update,     \* the kinds of update the contract's commands make
    Target,     \* Target[u]: the setting u changes
    Rewritten,  \* Rewritten[u][f]: the assignments u rewrites in f
    Repairing,  \* the updates that overlook a disagreement on their setting
    Reader,
    MaxLines,   \* how often a native file may assign one setting
    Edits,      \* Edits[k]: the assignments of k an edit by hand may leave
    MaxEdits, MaxFaults   \* bounds on what the environment does

Value == UNION {Values[k] : k \in Key}
File == {Files[i] : i \in 1..Len(Files)}
Setting == Value \cup {None}
Lines(k) == UNION {[1..n -> Values[k]] : n \in 0..MaxLines}

ASSUME FilesAssumption ==
    /\ Files \in Seq(File) /\ Files # <<>>
    /\ \A i, j \in 1..Len(Files) : Files[i] = Files[j] => i = j
    /\ Listed \in [File -> SUBSET Key]
ASSUME UpdateAssumption ==
    /\ Target \in [Update -> Key]
    /\ Rewritten \in [Update -> [File -> SUBSET Key]]
    /\ Repairing \subseteq Update
ASSUME NoneAssumption == None \notin Value
ASSUME BoundAssumption ==
    /\ \A k \in Key : Edits[k] \subseteq Lines(k)
    /\ MaxLines \in Nat \ {0} /\ MaxEdits \in Nat /\ MaxFaults \in Nat

VARIABLES
    sidecar,   \* the legacy document: Key -> Setting
    native,    \* the assignments in each native file: File -> Key -> Lines(k)
    xdg,       \* the XDG document
    migrated,  \* whether the XDG document is the authoritative one
    writer,    \* what the holder of the global lock is doing
    reader,    \* what each reader is doing
    shown,     \* history: what each reader could have been shown since it began
    expected,  \* history: the last value acknowledged for a setting, if it
               \* must still be the authoritative one
    edits, faults

store == <<sidecar, native, xdg, migrated>>
history == <<shown, expected>>
vars == <<store, writer, reader, history, edits, faults>>

Document == [Key -> Setting]
NoDocument == [k \in Key |-> None]

Idle == [phase |-> "idle"]
Writer ==
    {Idle} \cup [phase : {"publishing"}]
           \cup [phase : {"writing"}, update : Update, doc : Document,
                 at : 1..Len(Files), disturbed : BOOLEAN]
Reading ==
    {Idle} \cup [phase : {"sidecar", "xdg", "failed"}]
           \cup [phase : {"native"}, got : Document, at : 1..Len(Files),
                 listed : SUBSET Key, agreed : BOOLEAN]
           \cup [phase : {"done"}, got : Document]

NothingShown == [values |-> [k \in Key |-> {}], unreadable |-> FALSE, edited |-> FALSE]

TypeOK ==
    /\ sidecar \in Document
    /\ \A f \in File : DOMAIN native[f] = Key /\ \A k \in Key : native[f][k] \in Lines(k)
    /\ xdg \in Document
    /\ migrated \in BOOLEAN
    /\ writer \in Writer
    /\ reader \in [Reader -> Reading]
    /\ expected \in Document
    /\ edits \in 0..MaxEdits
    /\ faults \in 0..MaxFaults
    /\ shown \in [Reader -> [values : [Key -> SUBSET Setting],
                            unreadable : BOOLEAN, edited : BOOLEAN]]

-------------------------------------------------------------------------------
\* Reading the legacy document.

\* _line_assignments refuses a file that assigns one setting two values.
Conflicting(f) ==
    \E k \in Key : \E i, j \in DOMAIN native[f][k] : native[f][k][i] # native[f][k][j]

Assigned(f, k) == k \in Listed[f] /\ native[f][k] # <<>>

\* _legacy_policy refuses files that disagree.
Disagreeing(k) ==
    \E f, g \in File : /\ Assigned(f, k)
                       /\ Assigned(g, k)
                       /\ native[f][k][1] # native[g][k][1]

LegacyReadable(overlooked) ==
    /\ \A f \in File : ~Conflicting(f)
    /\ \A k \in Key \ overlooked : ~Disagreeing(k)

\* What the files assign takes precedence over the sidecar.
Merged ==
    [k \in Key |->
        IF \E f \in File : Assigned(f, k)
          THEN LET i == CHOOSE i \in 1..Len(Files) :
                           /\ Assigned(Files[i], k)
                           /\ \A j \in 1..(i - 1) : ~Assigned(Files[j], k)
               IN  native[Files[i]][k][1]
          ELSE sidecar[k]]

Readable == migrated \/ LegacyReadable({})

\* All that the files assign to k is one value.
Settled(k) ==
    \A f, g \in {h \in File : k \in Listed[h]} :
       \A i \in DOMAIN native[f][k], j \in DOMAIN native[g][k] :
          native[f][k][i] = native[g][k][j]

Authoritative == IF migrated THEN xdg ELSE Merged

\* History: what the store had for each setting at each moment of a read, and
\* whether it would have refused one.
Witnessed ==
    shown' = [r \in Reader |->
        IF reader'[r] = Idle THEN NothingShown
        ELSE IF reader'[r].phase \in {"done", "failed"} THEN shown[r]
        ELSE IF shown[r].edited \/ edits' # edits THEN [NothingShown EXCEPT !.edited = TRUE]
        ELSE [values |-> [k \in Key |-> shown[r].values[k] \cup
                             IF migrated' \/ Settled(k)' THEN {Authoritative'[k]} ELSE {}],
              unreadable |-> shown[r].unreadable \/ ~Readable',
              edited |-> FALSE]]

-------------------------------------------------------------------------------
Init ==
    /\ sidecar = NoDocument
    /\ native = [f \in File |-> [k \in Key |-> <<>>]]
    /\ xdg = NoDocument
    /\ migrated = FALSE
    /\ writer = Idle
    /\ reader = [r \in Reader |-> Idle]
    /\ shown = [r \in Reader |-> NothingShown]
    /\ expected = NoDocument
    /\ edits = 0 /\ faults = 0

\* Mutant: the new assignment goes to the end of the file.
RewriteByAppending(lines, v) == Append(lines, v)

\* Mutant: an assignment that is there already stays.
RewriteIfMissing(lines, v) == IF lines = <<>> THEN <<v>> ELSE lines

\* _rewrite_assignments changes the first assignment, or appends one.
Rewrite(lines, v) ==
    IF lines = <<>> THEN <<v>> ELSE [lines EXCEPT ![1] = v]

\* Mutant: no update overlooks a disagreement.
MayUpdateReadable(u) == LegacyReadable({})

\* policy_set of the default provider repairs: its files need not agree on it.
MayUpdate(u) == LegacyReadable(IF u \in Repairing THEN {Target[u]} ELSE {})

\* Update u of the setting to v takes the lock and reads the document.  The
\* XDG document is replaced at once; of the legacy one the sidecar goes first.
BeginUpdate(u, v) ==
    LET k == Target[u] IN
    /\ writer = Idle
    /\ IF migrated
         THEN /\ xdg' = [xdg EXCEPT ![k] = v]
              /\ expected' = [expected EXCEPT ![k] = v]
              /\ UNCHANGED <<sidecar, writer>>
         ELSE /\ MayUpdate(u)
              /\ sidecar' = [Merged EXCEPT ![k] = v]
              /\ writer' = [phase |-> "writing", update |-> u, doc |-> sidecar',
                            at |-> 1, disturbed |-> FALSE]
              /\ expected' = [expected EXCEPT ![k] = None]
              /\ UNCHANGED xdg
    /\ UNCHANGED <<native, migrated, reader, edits, faults>>
    /\ Witnessed

\* The next native file: read again, its assignments replaced, written.  With
\* the last one the update is acknowledged.
RewriteFile ==
    /\ writer.phase = "writing"
    /\ LET f == Files[writer.at]
           k == Target[writer.update]
           changes == {j \in Rewritten[writer.update][f] : writer.doc[j] # None} IN
       /\ changes # {} => ~Conflicting(f)
       /\ native' = [native EXCEPT ![f] =
              [j \in Key |-> IF j \in changes THEN Rewrite(@[j], writer.doc[j]) ELSE @[j]]]
       /\ IF writer.at < Len(Files)
            THEN /\ writer' = [writer EXCEPT !.at = @ + 1]
                 /\ UNCHANGED expected
            ELSE /\ writer' = Idle
                 /\ expected' = [expected EXCEPT
                        ![k] = IF writer.disturbed THEN None ELSE writer.doc[k]]
    /\ UNCHANGED <<sidecar, xdg, migrated, reader, edits, faults>>
    /\ Witnessed

\* A file that has become conflicting meanwhile ends the update half done.
RefuseFile ==
    /\ writer.phase = "writing"
    /\ LET f == Files[writer.at] IN
       /\ \E j \in Rewritten[writer.update][f] : writer.doc[j] # None
       /\ Conflicting(f)
    /\ writer' = Idle
    /\ UNCHANGED <<store, reader, expected, edits, faults>>
    /\ Witnessed

\* An I/O error between two writes, or the end of the process that holds the
\* lock: the lock is free and the rest is not written.
Fault ==
    /\ writer # Idle
    /\ faults < MaxFaults
    /\ faults' = faults + 1
    /\ writer' = Idle
    /\ UNCHANGED <<store, reader, expected, edits>>
    /\ Witnessed

\* migrate() publishes the document and, later under the same lock, commits
\* the record that makes it authoritative.
Publish ==
    /\ writer = Idle
    /\ ~migrated
    /\ LegacyReadable({})
    /\ xdg' = Merged
    /\ writer' = [phase |-> "publishing"]
    /\ UNCHANGED <<sidecar, native, migrated, reader, expected, edits, faults>>
    /\ Witnessed

Flip ==
    /\ writer.phase = "publishing"
    /\ migrated' = TRUE
    /\ writer' = Idle
    /\ UNCHANGED <<sidecar, native, xdg, reader, expected, edits, faults>>
    /\ Witnessed

\* rollback() moves authority back to the legacy values.
Rollback ==
    /\ writer = Idle
    /\ migrated
    /\ migrated' = FALSE
    /\ expected' = NoDocument
    /\ UNCHANGED <<sidecar, native, xdg, writer, reader, edits, faults>>
    /\ Witnessed

\* A user or a script edits a native file.
EditNative(f, k, lines) ==
    /\ edits < MaxEdits
    /\ lines # native[f][k]
    /\ native' = [native EXCEPT ![f][k] = lines]
    /\ edits' = edits + 1
    /\ IF migrated THEN UNCHANGED expected
       ELSE expected' = [expected EXCEPT ![k] = None]
    /\ writer' = IF writer.phase = "writing" /\ k = Target[writer.update]
                   THEN [writer EXCEPT !.disturbed = TRUE]
                   ELSE writer
    /\ UNCHANGED <<sidecar, xdg, migrated, reader, faults>>
    /\ Witnessed

-------------------------------------------------------------------------------
\* config_get, policy_get: the authority, then file after file, without the lock.

BeginRead(r) ==
    /\ reader[r] = Idle
    /\ reader' = [reader EXCEPT ![r] = [phase |-> IF migrated THEN "xdg" ELSE "sidecar"]]
    /\ UNCHANGED <<store, writer, expected, edits, faults>>
    /\ Witnessed

ReadXdg(r) ==
    /\ reader[r].phase = "xdg"
    /\ reader' = [reader EXCEPT ![r] = [phase |-> "done", got |-> xdg]]
    /\ UNCHANGED <<store, writer, expected, edits, faults>>
    /\ Witnessed

ReadSidecar(r) ==
    /\ reader[r].phase = "sidecar"
    /\ reader' = [reader EXCEPT ![r] = [phase |-> "native", got |-> sidecar, at |-> 1,
                                        listed |-> {}, agreed |-> TRUE]]
    /\ UNCHANGED <<store, writer, expected, edits, faults>>
    /\ Witnessed

\* Mutants: later files need not agree; the sidecar has to agree as well.
AgreesAlways(r, f) == TRUE
AgreesWithSidecar(r, f) ==
    \A k \in Key : Assigned(f, k) => native[f][k][1] = reader[r].got[k]

\* What f assigns agrees with what the files before it assigned.
Agrees(r, f) ==
    \A k \in reader[r].listed : Assigned(f, k) => native[f][k][1] = reader[r].got[k]

\* The first file that assigns a setting decides; a later one must agree.
ReadFile(r) ==
    /\ reader[r].phase = "native"
    /\ LET f == Files[reader[r].at]
           new == {k \in Key : Assigned(f, k)} \ reader[r].listed
           got == [k \in Key |-> IF k \in new THEN native[f][k][1] ELSE reader[r].got[k]]
           agreed == reader[r].agreed /\ Agrees(r, f)
       IN  reader' = [reader EXCEPT ![r] =
               IF Conflicting(f) THEN [phase |-> "failed"]
               ELSE IF reader[r].at < Len(Files)
                 THEN [phase |-> "native", got |-> got, at |-> reader[r].at + 1,
                       listed |-> reader[r].listed \cup new, agreed |-> agreed]
               ELSE IF agreed THEN [phase |-> "done", got |-> got]
               ELSE [phase |-> "failed"]]
    /\ UNCHANGED <<store, writer, expected, edits, faults>>
    /\ Witnessed

EndRead(r) ==
    /\ reader[r].phase \in {"done", "failed"}
    /\ reader' = [reader EXCEPT ![r] = Idle]
    /\ UNCHANGED <<store, writer, expected, edits, faults>>
    /\ Witnessed

-------------------------------------------------------------------------------
Writing == RewriteFile \/ RefuseFile \/ Flip

Reads == \E r \in Reader :
    BeginRead(r) \/ ReadXdg(r) \/ ReadSidecar(r) \/ ReadFile(r) \/ EndRead(r)

Repair == \E u \in Repairing : \E v \in Values[Target[u]] : BeginUpdate(u, v)

Next ==
    \/ \E u \in Update : \E v \in Values[Target[u]] : BeginUpdate(u, v)
    \/ Writing
    \/ Fault
    \/ Publish
    \/ Rollback
    \/ \E f \in File : \E k \in Listed[f] : \E lines \in Edits[k] : EditNative(f, k, lines)
    \/ Reads

Spec == Init /\ [][Next]_vars

\* A command that runs goes on, and somebody repairs a document that cannot be
\* read by setting the default provider again.
FairSpec ==
    /\ Spec
    /\ WF_vars(Writing)
    /\ WF_vars(Repair)

-------------------------------------------------------------------------------
\* Properties.

\* An acknowledged update is what the store holds for its setting, in every
\* file that counts, until the setting is updated or edited again or authority
\* is rolled back: updates of other settings, interrupted ones included, do not
\* undo it, nor does the flip ("config-set value was not observable").
UpdatesObserved ==
    \A k \in Key : expected[k] # None =>
        IF migrated THEN xdg[k] = expected[k]
        ELSE /\ Merged[k] = expected[k]
             /\ ~Disagreeing(k)
             /\ \A f \in File : k \in Listed[f] =>
                    \A i \in DOMAIN native[f][k] : native[f][k][i] = expected[k]

\* A read without the lock, across updates, crashes, flips and rollbacks,
\* returns for each setting a value that was authoritative during the read, when
\* the files did not disagree on it, unless one was edited by hand meanwhile.
ReadsAuthoritative ==
    \A r \in Reader : reader[r].phase = "done" /\ ~shown[r].edited =>
        \A k \in Key : reader[r].got[k] \in shown[r].values[k]

\* It fails closed, and only on a document that was unreadable during the read
\* or changed under it: files read before and after an update may disagree
\* although the files never did.
FailuresReal ==
    \A r \in Reader : reader[r].phase = "failed" =>
        \/ shown[r].unreadable
        \/ shown[r].edited
        \/ \E f, g \in File : f # g /\ \E k \in Listed[f] \cap Listed[g] :
               Cardinality(shown[r].values[k]) > 1

\* An interrupted update leaves a document that setting it again repairs.
Repairs == []<>Readable
===============================================================================
