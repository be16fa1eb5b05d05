----------------------- MODULE DesktopMigration_proofs -----------------------
(***************************************************************************)
(* Proofs about DesktopMigration, for any number of providers, any plan of *)
(* items, any contents and any bounds.                                     *)
(*                                                                         *)
(* The invariant has three parts beside the types: what the record can say *)
(* (RecordOK), where a running migration can be (JobOK), and what it has   *)
(* copied so far (CopyOK).  The last is stated for the attempt of the last *)
(* provider only, the one that flips the authority.                        *)
(***************************************************************************)
EXTENDS DesktopMigration, TLAPS

RecordOK ==
    /\ Len(record.completed) <= N
    /\ \A k \in 1..Len(record.completed) : record.completed[k] = k
    /\ Migrated => Len(record.completed) = N
    /\ record.state \in {"in-progress", "failed"} => Len(record.completed) < N
    /\ record.state = "none" => Len(record.completed) = 0

JobOK ==
    /\ ~Running => job = Idle
    /\ Running =>
          /\ ~Migrated
          /\ job.own = Len(Completed) + 1
          /\ job.who >= 1 /\ job.who <= job.own + 1
          /\ job.own = N \/ job.who >= job.own
          /\ job.phase # "idle"
          /\ ~Finished => job.at \in 1..Len(Plan[job.who])
          /\ job.phase \in {"remove", "copy", "prune"} =>
                ~Finished /\ Current \notin Document /\ job.todo \subseteq Entries[Current]

\* The content XDG has for a path is one that the attempt accounts for.
Settled(e) == xdg[e] \in seen[e] \/ (e \in LastFiles /\ Absent \in seen[e])
Passed(q, k) == q < job.who \/ (q = job.who /\ k < job.at)
CopiedOrLacked(e) == xdg[e] \in seen[e] \/ (Current \in Tree /\ Absent \in seen[e])

SeenOK ==
    /\ \A d \in Document : legacy[d] # Absent /\ Absent \notin seen[d]
    /\ Running => \A e \in Path : legacy[e] \in seen[e]
    /\ Running => \A d \in Locked : seen[d] = {legacy[d]}
    /\ Migrated => AuthorityReadable

CopyOK ==
    job.own = N =>
      /\ \A q \in Provider : \A k \in 1..Len(Plan[q]) :
            Passed(q, k) => \A e \in Entries[Plan[q][k]] : Settled(e)
      /\ job.phase = "remove" =>
            \A e \in Entries[Current] :
                Absent \in seen[e] /\ (e \in job.todo \/ xdg[e] \in seen[e])
      /\ job.phase = "copy" => \A e \in Entries[Current] \ job.todo : CopiedOrLacked(e)
      /\ job.phase = "prune" => \A e \in Entries[Current] : CopiedOrLacked(e)

IInv == TypeOK /\ RecordOK /\ JobOK /\ SeenOK /\ CopyOK

-------------------------------------------------------------------------------
\* What the assumptions say of an item and of a path.

\* Every item of a plan is an Item, and its entries are paths.
LEMMA PlanItem ==
    ASSUME NEW p \in Provider, NEW k \in 1..Len(Plan[p])
    PROVE  Plan[p][k] \in Item /\ Entries[Plan[p][k]] \subseteq Path
<1>1. Plan[p] \in Seq(Item)
  BY PlanAssumption
<1>2. Plan[p][k] \in Item
  BY <1>1
<1> QED
  BY <1>2 DEF Path

\* A document is a path of its own, and no entry of a file or a tree.
LEMMA DocumentPath ==
    /\ Document \subseteq Path
    /\ \A d \in Document : ContentOf(d) = Value \ {Folder}
    /\ \A i \in Item \ Document : Entries[i] \cap Document = {}
BY ItemAssumption DEF Path, ContentOf, Settings

\* No path has contents outside Content, and none of a document is Absent.
LEMMA ContentTypes ==
    /\ \A e : ContentOf(e) \subseteq Content
    /\ \A d \in Document : Absent \notin ContentOf(d)
    /\ Absent \in Content
BY ContentAssumption DEF ContentOf, Content, Settings

\* The initial states satisfy the invariant.
LEMMA InitIInv == Init => IInv
<1> SUFFICES ASSUME Init PROVE IInv
  OBVIOUS
<1>1. TypeOK
  <2>1. Absent \in Content /\ NoSnapshot \in [Path -> Content]
    BY ContentTypes DEF NoSnapshot
  <2>2. Idle \in Job
    BY <2>1, NAssumption DEF Idle, Job, Phase
  <2>3. NoRecord \in Record
    BY NAssumption DEF NoRecord, Record, RecordState
  <2>4. NothingSeen \in [Path -> SUBSET Content]
    BY DEF NothingSeen
  <2> QED
    BY <2>1, <2>2, <2>3, <2>4, StartAssumption DEF Init, TypeOK
<1>2. RecordOK
  BY NAssumption DEF Init, RecordOK, NoRecord, Migrated
<1>3. JobOK
  BY DEF Init, JobOK, Running, Idle
<1>4. SeenOK
  BY StartAssumption, DocumentPath, ContentTypes
     DEF Init, SeenOK, Running, Idle, Migrated, NoRecord, NothingSeen
<1>5. CopyOK
  BY NAssumption DEF Init, CopyOK, Idle
<1> QED
  BY <1>1, <1>2, <1>3, <1>4, <1>5 DEF IInv

-------------------------------------------------------------------------------
\* Where an item ends, and what the next position then is.
LEMMA AdvanceJob ==
    ASSUME TypeOK, JobOK, Running, ~Finished
    PROVE  /\ Advance \in Job
           /\ Advance.own = job.own
           /\ Advance.retrying = job.retrying
           /\ Advance.phase = "item"
           /\ Advance.who >= 1 /\ Advance.who <= job.own + 1
           /\ Advance.who >= job.who
           /\ Advance.who <= job.own =>
                 Advance.at \in 1..Len(Plan[Advance.who])
           /\ \A q \in Provider : \A k \in 1..Len(Plan[q]) :
                 q < Advance.who \/ (q = Advance.who /\ k < Advance.at)
                   => Passed(q, k) \/ (q = job.who /\ k = job.at)
<1>1. /\ job \in Job /\ job.own \in 1..N /\ job.who \in 1..job.own
      /\ job.who \in Provider /\ job.at \in 1..Len(Plan[job.who])
  BY NAssumption DEF TypeOK, JobOK, Running, Finished, Job, Provider
<1>2. \A q \in Provider : Len(Plan[q]) \in Nat /\ Len(Plan[q]) > 0
  BY PlanAssumption
<1>3. NoSnapshot \in [Path -> Content]
  BY ContentTypes DEF NoSnapshot
<1>4. CASE job.at < Len(Plan[job.who])
  <2>1. Advance = AtItem(job.own, job.who, job.at + 1, job.retrying)
    BY <1>4 DEF Advance
  <2>2. /\ Advance.own = job.own /\ Advance.retrying = job.retrying
        /\ Advance.phase = "item" /\ Advance.who = job.who /\ Advance.at = job.at + 1
    BY <2>1 DEF AtItem
  <2>3. Advance \in Job
    BY <1>1, <1>3, <2>1, NAssumption DEF AtItem, Job, Phase
  <2> QED
    BY <1>1, <1>2, <1>4, <2>2, <2>3 DEF Passed, Provider
<1>5. CASE ~(job.at < Len(Plan[job.who]))
  <2>1. Advance = AtItem(job.own, job.who + 1, 1, job.retrying)
    BY <1>5 DEF Advance
  <2>2. /\ Advance.own = job.own /\ Advance.retrying = job.retrying
        /\ Advance.phase = "item" /\ Advance.who = job.who + 1 /\ Advance.at = 1
    BY <2>1 DEF AtItem
  <2>3. Advance \in Job
    BY <1>1, <1>3, <2>1, NAssumption DEF AtItem, Job, Phase
  <2>4. Advance.who <= job.own => Advance.at \in 1..Len(Plan[Advance.who])
    BY <1>1, <1>2, <2>2, NAssumption DEF Provider
  <2>5. \A q \in Provider : \A k \in 1..Len(Plan[q]) :
           q < Advance.who \/ (q = Advance.who /\ k < Advance.at)
             => Passed(q, k) \/ (q = job.who /\ k = job.at)
    BY <1>1, <1>2, <1>5, <2>2 DEF Passed, Provider
  <2> QED
    BY <1>1, <2>2, <2>3, <2>4, <2>5
<1> QED
  BY <1>4, <1>5

\* The item a running attempt is at.
LEMMA CurrentItem ==
    ASSUME TypeOK, JobOK, Running, ~Finished
    PROVE  /\ job.own \in Provider /\ job.who \in Provider
           /\ job.at \in 1..Len(Plan[job.who])
           /\ Current \in Item /\ Entries[Current] \subseteq Path
           /\ Current \in Document => Current \in Path /\ Entries[Current] = {Current}
           /\ Current \notin Document => Entries[Current] \cap Document = {}
           /\ Current \in Tree => job.who = N /\ job.own = N
           /\ job.who = N /\ Current \notin Document => Entries[Current] \subseteq LastFiles
<1>1. /\ job.own \in Provider /\ job.who \in Provider /\ job.who <= job.own
      /\ job.at \in 1..Len(Plan[job.who])
  BY NAssumption DEF TypeOK, JobOK, Running, Finished, Job, Provider
<1>2. Current \in Item /\ Entries[Current] \subseteq Path
  BY <1>1, PlanItem DEF Current
<1>3. Current \in Document => Current \in Path /\ Entries[Current] = {Current}
  BY <1>2, DocumentPath, ItemAssumption
<1>4. Current \notin Document => Entries[Current] \cap Document = {}
  BY <1>2, DocumentPath
<1>5. Current \in Tree => job.who = N /\ job.own = N
  BY <1>1, TreeAssumption, NAssumption DEF Current, Provider
<1>6. job.who = N /\ Current \notin Document => Entries[Current] \subseteq LastFiles
  <2> SUFFICES ASSUME job.who = N, Current \notin Document, NEW e \in Entries[Current]
               PROVE  e \in LastFiles
    OBVIOUS
  <2>1. e \notin Document
    BY <1>4
  <2>2. e \in Entries[Plan[N][job.at]] /\ job.at \in 1..Len(Plan[N])
    BY <1>1 DEF Current
  <2> QED
    BY <2>1, <2>2 DEF LastFiles
<1> QED
  BY <1>1, <1>2, <1>3, <1>4, <1>5, <1>6

\* Moving on to the next item is all right when what was copied stays settled
\* and, in the attempt of the last provider, the current item is.
LEMMA AdvanceKeeps ==
    ASSUME IInv, Running, ~Finished,
           job' = Advance, UNCHANGED record,
           \A e \in Path : Settled(e) => Settled(e)',
           job.own = N => \A e \in Entries[Current] : Settled(e)'
    PROVE  job' \in Job /\ JobOK' /\ CopyOK'
<1>1. job' \in Job /\ job'.own = job.own /\ job'.phase = "item"
  BY AdvanceJob DEF IInv
<1>2. JobOK'
  <2>1. Running' /\ job'.own = job.own /\ (Completed' = Completed) /\ ~Migrated'
    BY <1>1 DEF IInv, JobOK, Running, Completed, Migrated
  <2>2. job.own = N \/ job'.who >= job'.own
    BY <1>1, AdvanceJob, NAssumption DEF IInv, JobOK, TypeOK, Job
  <2>3. ~Finished' => job'.at \in 1..Len(Plan[job'.who])
    BY <1>1, AdvanceJob, NAssumption DEF Finished, IInv, TypeOK, Job
  <2> QED
    BY <1>1, <2>1, <2>2, <2>3, AdvanceJob DEF IInv, JobOK
<1>3. CopyOK'
  <2> SUFFICES ASSUME job.own = N, NEW q \in Provider, NEW k \in 1..Len(Plan[q]),
                      Passed(q, k)', NEW e \in Entries[Plan[q][k]]
               PROVE  Settled(e)'
    BY <1>1 DEF CopyOK
  <2>1. Passed(q, k) \/ (q = job.who /\ k = job.at)
    BY AdvanceJob DEF IInv, Passed
  <2>2. CASE Passed(q, k)
    <3>1. Settled(e) /\ e \in Path
      BY <2>2, PlanItem DEF IInv, CopyOK
    <3> QED
      BY <3>1
  <2>3. CASE q = job.who /\ k = job.at
    BY <2>3 DEF Current
  <2> QED
    BY <2>1, <2>2, <2>3
<1> QED
  BY <1>1, <1>2, <1>3

-------------------------------------------------------------------------------
\* The steps of a migration.

LEMMA BeginStep == ASSUME IInv, NEW p \in Provider, Begin(p) PROVE IInv'
<1> USE DEF Begin, store, budget
<1>1. /\ job' = AtItem(p, IF p = N THEN 1 ELSE p, 1, record.state = "failed" /\ record.provider = p)
      /\ job'.own = p /\ job'.phase = "item" /\ job'.at = 1
      /\ job'.who = IF p = N THEN 1 ELSE p
  BY DEF AtItem
<1>2. p \in 1..N /\ 1 \in 1..N /\ \A q \in Provider : 1 \in 1..Len(Plan[q])
  BY PlanAssumption, NAssumption DEF Provider
<1>3. TypeOK'
  <2>1. job' \in Job
    BY <1>1, <1>2, ContentTypes, NAssumption DEF AtItem, Job, NoSnapshot, Phase
  <2>2. seen' \in [Path -> SUBSET Content]
    BY DEF IInv, TypeOK
  <2> QED
    BY <2>1, <2>2 DEF IInv, TypeOK
<1>4. RecordOK'
  BY DEF IInv, RecordOK, Migrated
<1>5. JobOK'
  <2>1. Running' /\ ~Migrated' /\ job'.own = Len(Completed') + 1
    BY <1>1, <1>2 DEF Running, Migrated, Completed
  <2> QED
    BY <1>1, <1>2, <2>1, NAssumption DEF JobOK, Finished, Provider
<1>6. SeenOK'
  BY DocumentPath DEF IInv, SeenOK, Running, Migrated, AuthorityReadable, TypeOK, Locked
<1>7. CopyOK'
  BY <1>1, <1>2, NAssumption DEF CopyOK, Passed, Provider
<1> QED
  BY <1>3, <1>4, <1>5, <1>6, <1>7 DEF IInv

\* Copying changes neither the record nor what was seen of the legacy tree.
LEMMA CopyingKeeps ==
    ASSUME IInv, Running, UNCHANGED <<legacy, record, seen>>
    PROVE  RecordOK' /\ SeenOK'
<1>1. RecordOK'
  BY DEF IInv, RecordOK, Migrated
<1>2. SeenOK'
  BY DEF IInv, SeenOK, JobOK, Running, Migrated
<1> QED
  BY <1>1, <1>2

LEMMA PublishDocumentStep == ASSUME IInv, PublishDocument PROVE IInv'
<1> USE DEF PublishDocument, budget
<1>1. TypeOK /\ JobOK /\ SeenOK /\ Current \in Path /\ Entries[Current] = {Current}
  BY CurrentItem DEF IInv
<1>2. xdg' \in [Path -> Content] /\ xdg'[Current] = legacy[Current]
  BY <1>1 DEF TypeOK
<1>3. \A e \in Path : e # Current => xdg'[e] = xdg[e]
  BY DEF IInv, TypeOK
<1>4. xdg'[Current] \in seen'[Current]
  BY <1>1, <1>2 DEF SeenOK
<1>5. \A e \in Path : Settled(e) => Settled(e)'
  BY <1>3, <1>4 DEF Settled
<1>6. \A e \in Entries[Current] : Settled(e)'
  BY <1>1, <1>4 DEF Settled
<1>7. job' \in Job /\ JobOK' /\ CopyOK'
  BY <1>5, <1>6, AdvanceKeeps
<1> QED
  BY <1>2, <1>7, CopyingKeeps DEF IInv, TypeOK

LEMMA BeginMissingItemStep == ASSUME IInv, BeginMissingItem PROVE IInv'
<1> USE DEF BeginMissingItem, store, budget
<1>1. TypeOK /\ JobOK /\ SeenOK /\ CopyOK
  BY DEF IInv
<1>2. \A e \in Entries[Current] : e \in Path /\ legacy[e] = Absent /\ Absent \in seen[e]
  BY <1>1, CurrentItem DEF Present, SeenOK
<1>3. RecordOK' /\ SeenOK'
  BY CopyingKeeps
<1>4. CASE Replace
  <2>1. job' = InPhase("remove", Present(Current, xdg), NoSnapshot)
    BY <1>4
  <2>2. /\ job'.own = job.own /\ job'.who = job.who /\ job'.at = job.at
        /\ job'.phase = "remove" /\ job'.todo = Present(Current, xdg)
    BY <2>1 DEF InPhase
  <2>3. Present(Current, xdg) \subseteq Entries[Current]
    BY DEF Present
  <2>4. job' \in Job
    BY <1>1, <2>1, <2>3, CurrentItem, ContentTypes DEF InPhase, TypeOK, Job, Phase, NoSnapshot
  <2>5. JobOK'
    BY <1>1, <2>2, <2>3 DEF JobOK, Running, Completed, Migrated, Finished, Current
  <2>6. CopyOK'
    <3>1. \A e \in Entries[Current] : e \in job'.todo \/ xdg[e] \in seen[e]
      BY <1>2, <2>2 DEF Present
    <3> QED
      BY <1>1, <1>2, <2>2, <3>1 DEF CopyOK, Passed, Settled, Current
  <2> QED
    BY <1>3, <2>4, <2>5, <2>6 DEF IInv, TypeOK
<1>5. CASE ~Replace
  <2>1. job' = Advance
    BY <1>5
  <2>2. \A e \in Path : Settled(e) => Settled(e)'
    BY DEF Settled
  <2>3. job.own = N => \A e \in Entries[Current] : Settled(e)'
    <3> SUFFICES ASSUME job.own = N, NEW e \in Entries[Current] PROVE Settled(e)'
      OBVIOUS
    <3>1. job.who = N
      BY <1>1, <1>5, CurrentItem DEF Replace, Finished, TypeOK, Job, Provider
    <3>2. e \in LastFiles
      BY <1>1, <3>1, CurrentItem
    <3> QED
      BY <1>2, <3>2 DEF Settled
  <2>4. job' \in Job /\ JobOK' /\ CopyOK'
    BY <2>1, <2>2, <2>3, AdvanceKeeps
  <2> QED
    BY <1>3, <2>4 DEF IInv, TypeOK
<1> QED
  BY <1>4, <1>5

\* Within an item only the list of what is left shrinks.
LEMMA WithinItem ==
    ASSUME IInv, job.phase \in {"remove", "copy", "prune"}, NEW e \in job.todo,
           job' = [job EXCEPT !.todo = @ \ {e}], UNCHANGED record
    PROVE  /\ Running /\ ~Finished /\ e \in Path /\ e \in Entries[Current]
           /\ e \notin Document
           /\ job' \in Job /\ JobOK'
           /\ job'.own = job.own /\ job'.who = job.who /\ job'.at = job.at
           /\ job'.phase = job.phase /\ job'.todo = job.todo \ {e}
<1>1. TypeOK /\ JobOK
  BY DEF IInv
<1>2. Running
  BY <1>1 DEF JobOK, Idle
<1>3. ~Finished /\ Current \notin Document /\ job.todo \subseteq Entries[Current]
  BY <1>1, <1>2 DEF JobOK
<1>4. e \in Path /\ e \in Entries[Current] /\ e \notin Document
  BY <1>1, <1>2, <1>3, CurrentItem
<1>5. /\ job' \in Job
      /\ job'.own = job.own /\ job'.who = job.who /\ job'.at = job.at
      /\ job'.phase = job.phase /\ job'.todo = job.todo \ {e}
  BY <1>1 DEF TypeOK, Job
<1>6. JobOK'
  BY <1>1, <1>2, <1>3, <1>5 DEF JobOK, Running, Completed, Migrated, Finished, Current
<1> QED
  BY <1>2, <1>3, <1>4, <1>5, <1>6

LEMMA RemoveEntryStep == ASSUME IInv, NEW e \in Path, RemoveEntry(e) PROVE IInv'
<1> USE DEF RemoveEntry, budget
<1>1. TypeOK /\ CopyOK
  BY DEF IInv
<1>2. /\ Running /\ e \in Entries[Current]
      /\ job' \in Job /\ JobOK'
      /\ job'.own = job.own /\ job'.who = job.who /\ job'.at = job.at
      /\ job'.phase = "remove" /\ job'.todo = job.todo \ {e}
  BY WithinItem
<1>3. xdg' \in [Path -> Content] /\ xdg'[e] = Absent /\ \A f \in Path \ {e} : xdg'[f] = xdg[f]
  BY <1>1, ContentTypes DEF TypeOK
<1>4. CopyOK'
  <2> SUFFICES ASSUME job.own = N PROVE CopyOK'
    BY <1>2 DEF CopyOK
  <2>1. Absent \in seen[e]
    BY <1>1, <1>2 DEF CopyOK
  <2>2. \A f \in Path : Settled(f) => Settled(f)'
    BY <1>3, <2>1 DEF Settled
  <2>3. ASSUME NEW q \in Provider, NEW k \in 1..Len(Plan[q]), Passed(q, k)',
               NEW f \in Entries[Plan[q][k]]
        PROVE  Settled(f)'
    BY <1>1, <1>2, <2>2, <2>3, PlanItem DEF CopyOK, Passed
  <2>4. \A f \in Entries[Current] :
           Absent \in seen[f] /\ (f \in job'.todo \/ xdg'[f] \in seen[f])
    <3>1. Entries[Current] \subseteq Path
      BY CurrentItem, WithinItem DEF IInv
    <3> QED
      BY <1>1, <1>2, <1>3, <2>1, <3>1 DEF CopyOK
  <2> QED
    BY <1>2, <2>3, <2>4 DEF CopyOK, Current
<1>5. RecordOK' /\ SeenOK'
  BY <1>2, CopyingKeeps
<1> QED
  BY <1>1, <1>2, <1>3, <1>4, <1>5 DEF IInv, TypeOK

LEMMA EndMissingItemStep == ASSUME IInv, EndMissingItem PROVE IInv'
<1> USE DEF EndMissingItem, store, budget
<1>1. TypeOK /\ JobOK /\ CopyOK
  BY DEF IInv
<1>2. Running /\ ~Finished
  BY <1>1 DEF JobOK, Idle
<1>3. job.own = N => \A e \in Entries[Current] : Settled(e)'
  BY <1>1 DEF CopyOK, Settled
<1>4. \A e \in Path : Settled(e) => Settled(e)'
  BY DEF Settled
<1>5. job' \in Job /\ JobOK' /\ CopyOK'
  BY <1>2, <1>3, <1>4, AdvanceKeeps
<1> QED
  BY <1>1, <1>2, <1>5, CopyingKeeps DEF IInv, TypeOK

LEMMA BeginItemStep == ASSUME IInv, BeginItem PROVE IInv'
<1> USE DEF BeginItem, store, budget
<1>1. TypeOK /\ JobOK /\ SeenOK /\ CopyOK
  BY DEF IInv
<1>2. /\ job' = InPhase("copy", Present(Current, legacy), Snapshot(Current))
      /\ job'.own = job.own /\ job'.who = job.who /\ job'.at = job.at
      /\ job'.phase = "copy" /\ job'.todo = Present(Current, legacy)
  BY DEF InPhase
<1>3. Present(Current, legacy) \subseteq Entries[Current]
  BY DEF Present
<1>4. Current \in Item /\ Entries[Current] \subseteq Path
  BY <1>1, CurrentItem
<1>5. job' \in Job
  <2>1. Snapshot(Current) \in [Path -> Content]
    BY <1>1, ContentTypes DEF Snapshot, TypeOK
  <2> QED
    BY <1>1, <1>2, <1>3, <1>4, <2>1 DEF InPhase, TypeOK, Job, Phase
<1>6. JobOK'
  BY <1>1, <1>2, <1>3 DEF JobOK, Running, Completed, Migrated, Finished, Current
<1>7. CopyOK'
  <2>1. \A e \in Entries[Current] \ job'.todo : Current \in Tree /\ Absent \in seen[e]
    <3> SUFFICES ASSUME NEW e \in Entries[Current] \ job'.todo
                 PROVE  Current \in Tree /\ Absent \in seen[e]
      OBVIOUS
    <3>1. legacy[e] = Absent /\ legacy[e] \in seen[e]
      BY <1>1, <1>2, <1>4 DEF Present, SeenOK
    <3>2. CASE Current \notin Tree
      <4>1. Entries[Current] = {e}
        BY <1>4, <3>2, ItemAssumption
      <4> QED
        BY <3>1, <3>2, <4>1 DEF Present
    <3> QED
      BY <3>1, <3>2
  <2> QED
    BY <1>1, <1>2, <2>1 DEF CopyOK, Passed, Settled, CopiedOrLacked, Current
<1> QED
  BY <1>1, <1>5, <1>6, <1>7, CopyingKeeps DEF IInv, TypeOK

LEMMA CopyEntryStep == ASSUME IInv, NEW e \in Path, CopyEntry(e) PROVE IInv'
<1> USE DEF CopyEntry, budget
<1>1. TypeOK /\ CopyOK /\ SeenOK
  BY DEF IInv
<1>2. /\ Running /\ ~Finished /\ e \in Entries[Current]
      /\ job' \in Job /\ JobOK'
      /\ job'.own = job.own /\ job'.who = job.who /\ job'.at = job.at
      /\ job'.phase = "copy" /\ job'.todo = job.todo \ {e}
  BY WithinItem
<1>3. xdg' \in [Path -> Content] /\ xdg'[e] = legacy[e] /\ \A f \in Path \ {e} : xdg'[f] = xdg[f]
  BY <1>1 DEF TypeOK
<1>4. xdg'[e] \in seen[e]
  BY <1>1, <1>2, <1>3 DEF SeenOK
<1>5. CopyOK'
  <2> SUFFICES ASSUME job.own = N PROVE CopyOK'
    BY <1>2 DEF CopyOK
  <2>1. \A f \in Path : Settled(f) => Settled(f)'
    BY <1>3, <1>4 DEF Settled
  <2>2. ASSUME NEW q \in Provider, NEW k \in 1..Len(Plan[q]), Passed(q, k)',
               NEW f \in Entries[Plan[q][k]]
        PROVE  Settled(f)'
    BY <1>1, <1>2, <2>1, <2>2, PlanItem DEF CopyOK, Passed
  <2>3. \A f \in Entries[Current] \ job'.todo : CopiedOrLacked(f)'
    <3>1. Entries[Current] \subseteq Path
      BY <1>2, CurrentItem DEF IInv
    <3> QED
      BY <1>1, <1>2, <1>3, <1>4, <3>1 DEF CopyOK, CopiedOrLacked, Current
  <2> QED
    BY <1>2, <2>2, <2>3 DEF CopyOK, Current
<1>6. RecordOK' /\ SeenOK'
  BY <1>2, CopyingKeeps
<1> QED
  BY <1>1, <1>2, <1>3, <1>5, <1>6 DEF IInv, TypeOK

LEMMA BeginPruneStep == ASSUME IInv, BeginPrune PROVE IInv'
<1> USE DEF BeginPrune, store, budget
<1>1. TypeOK /\ JobOK /\ CopyOK
  BY DEF IInv
<1>2. Running /\ ~Finished /\ Current \notin Document
  BY <1>1 DEF JobOK, Idle
<1>3. /\ job' = InPhase("prune", Present(Current, xdg), job.before)
      /\ job'.own = job.own /\ job'.who = job.who /\ job'.at = job.at
      /\ job'.phase = "prune" /\ job'.todo = Present(Current, xdg)
  BY DEF InPhase
<1>4. Present(Current, xdg) \subseteq Entries[Current] /\ Entries[Current] \subseteq Path
  BY <1>1, <1>2, CurrentItem DEF Present
<1>5. job' \in Job
  BY <1>1, <1>3, <1>4 DEF InPhase, TypeOK, Job, Phase
<1>6. JobOK'
  BY <1>1, <1>2, <1>3, <1>4 DEF JobOK, Running, Completed, Migrated, Finished, Current
<1>7. CopyOK'
  BY <1>1, <1>3 DEF CopyOK, Passed, Settled, CopiedOrLacked, Current
<1> QED
  BY <1>1, <1>2, <1>5, <1>6, <1>7, CopyingKeeps DEF IInv, TypeOK

LEMMA PruneEntryStep == ASSUME IInv, NEW e \in Path, PruneEntry(e) PROVE IInv'
<1> USE DEF PruneEntry, budget
<1>1. TypeOK /\ CopyOK /\ SeenOK
  BY DEF IInv
<1>2. /\ Running /\ ~Finished /\ e \in Entries[Current]
      /\ job' \in Job /\ JobOK'
      /\ job'.own = job.own /\ job'.who = job.who /\ job'.at = job.at
      /\ job'.phase = "prune" /\ job'.todo = job.todo \ {e}
  BY WithinItem
<1>3. /\ xdg' \in [Path -> Content] /\ \A f \in Path \ {e} : xdg'[f] = xdg[f]
      /\ xdg'[e] = xdg[e] \/ (xdg'[e] = legacy[e] /\ legacy[e] \in seen[e])
  BY <1>1, <1>2, ContentTypes DEF TypeOK, SeenOK
<1>4. CopyOK'
  <2> SUFFICES ASSUME job.own = N PROVE CopyOK'
    BY <1>2 DEF CopyOK
  <2>1. \A f \in Path : Settled(f) => Settled(f)'
    BY <1>3 DEF Settled
  <2>2. ASSUME NEW q \in Provider, NEW k \in 1..Len(Plan[q]), Passed(q, k)',
               NEW f \in Entries[Plan[q][k]]
        PROVE  Settled(f)'
    BY <1>1, <1>2, <2>1, <2>2, PlanItem DEF CopyOK, Passed
  <2>3. \A f \in Entries[Current] : CopiedOrLacked(f)'
    <3>1. Entries[Current] \subseteq Path
      BY <1>2, CurrentItem DEF IInv
    <3> QED
      BY <1>1, <1>2, <1>3, <3>1 DEF CopyOK, CopiedOrLacked, Current
  <2> QED
    BY <1>2, <2>2, <2>3 DEF CopyOK, Current
<1>5. RecordOK' /\ SeenOK'
  BY <1>2, CopyingKeeps
<1> QED
  BY <1>1, <1>2, <1>3, <1>4, <1>5 DEF IInv, TypeOK

LEMMA EndItemStep == ASSUME IInv, EndItem PROVE IInv'
<1> USE DEF EndItem, store, budget
<1>1. TypeOK /\ JobOK /\ CopyOK
  BY DEF IInv
<1>2. job.phase \in {"copy", "prune"} /\ job.todo = {}
  BY DEF Copied
<1>3. Running /\ ~Finished /\ Current \notin Document
  BY <1>1, <1>2 DEF JobOK, Idle
<1>4. job.own = N => \A e \in Entries[Current] : Settled(e)'
  <2> SUFFICES ASSUME job.own = N, NEW e \in Entries[Current] PROVE Settled(e)'
    OBVIOUS
  <2>1. CopiedOrLacked(e)
    BY <1>1, <1>2 DEF CopyOK
  <2>2. Current \in Tree => e \in LastFiles
    BY <1>1, <1>3, CurrentItem
  <2> QED
    BY <2>1, <2>2 DEF CopiedOrLacked, Settled
<1>5. \A e \in Path : Settled(e) => Settled(e)'
  BY DEF Settled
<1>6. job' \in Job /\ JobOK' /\ CopyOK'
  BY <1>3, <1>4, <1>5, AdvanceKeeps
<1> QED
  BY <1>1, <1>3, <1>6, CopyingKeeps DEF IInv, TypeOK

\* However an attempt ends, the lock is free and the authority the legacy one.
LEMMA AbandonStep ==
    ASSUME IInv, Running, NEW recorded \in BOOLEAN, Abandon(recorded), faults' \in Nat
    PROVE  IInv'
<1> USE DEF Abandon
<1>1. TypeOK /\ RecordOK /\ JobOK /\ SeenOK
  BY DEF IInv
<1>2. Completed \in Seq(Provider) /\ Len(Completed) < N
      /\ \A k \in 1..Len(Completed) : Completed[k] = k
  BY <1>1, NAssumption DEF RecordOK, JobOK, Completed, TypeOK, Record, Migrated, Running, Job
<1>3. FailureRecord \in Record
  BY <1>1, <1>2 DEF FailureRecord, TypeOK, Record, RecordState, Job
<1>4. RecordOK' /\ ~Migrated'
  <2>1. ~Migrated
    BY <1>1 DEF JobOK
  <2>2. CASE recorded
    <3>1. record'.state = "failed" /\ record'.completed = Completed
      BY <2>2 DEF FailureRecord
    <3> QED
      BY <1>2, <3>1, NAssumption DEF RecordOK, Migrated
  <2>3. CASE ~recorded
    BY <1>1, <2>1, <2>3 DEF RecordOK, Migrated
  <2> QED
    BY <2>2, <2>3
<1>5. TypeOK'
  <2>1. Idle \in Job
    BY ContentTypes, NAssumption DEF Idle, Job, Phase, NoSnapshot
  <2>2. NothingSeen \in [Path -> SUBSET Content]
    BY DEF NothingSeen
  <2> QED
    BY <1>1, <1>3, <2>1, <2>2 DEF TypeOK
<1>6. JobOK' /\ CopyOK'
  BY NAssumption DEF JobOK, CopyOK, Running, Idle
<1>7. SeenOK'
  BY <1>1, <1>4, DocumentPath DEF SeenOK, Running, Idle, NothingSeen
<1> QED
  BY <1>4, <1>5, <1>6, <1>7 DEF IInv

LEMMA RefuseStep == ASSUME IInv, Refuse PROVE IInv'
<1>1. Running /\ faults' \in Nat
  <2>1. Running /\ (faults' = faults \/ faults' = faults + 1)
    BY DEF Refuse
  <2> QED
    BY <2>1 DEF IInv, TypeOK
<1>2. CASE Abandon(TRUE)
  BY <1>1, <1>2, AbandonStep
<1>3. CASE Abandon(FALSE)
  BY <1>1, <1>3, AbandonStep
<1> QED
  BY <1>2, <1>3 DEF Refuse

LEMMA FaultStep == ASSUME IInv, Fault PROVE IInv'
<1>1. Running /\ faults' \in Nat
  BY DEF Fault, IInv, TypeOK
<1>2. PICK recorded \in BOOLEAN : Abandon(recorded)
  BY DEF Fault
<1> QED
  BY <1>1, <1>2, AbandonStep

\* At the commit of the last provider every item of the order is settled, so
\* every document is there.
LEMMA FinishedSettled ==
    ASSUME IInv, Running, Finished, job.own = N
    PROVE  /\ \A i \in Item : \A e \in Entries[i] : Settled(e)
           /\ \A d \in Document : xdg[d] \in seen[d]
           /\ AuthorityReadable
<1>1. TypeOK /\ JobOK /\ CopyOK /\ SeenOK
  BY DEF IInv
<1>2. job.who = N + 1
  BY <1>1, NAssumption DEF JobOK, Finished, TypeOK, Job
<1>3. ASSUME NEW i \in Item, NEW e \in Entries[i] PROVE Settled(e)
  <2>1. PICK p \in Provider : \E k \in 1..Len(Plan[p]) : Plan[p][k] = i
    BY PlanAssumption
  <2>2. PICK k \in 1..Len(Plan[p]) : Plan[p][k] = i
    BY <2>1
  <2>3. Passed(p, k)
    BY <1>2, NAssumption DEF Passed, Provider
  <2> QED
    BY <1>1, <2>2, <2>3 DEF CopyOK
<1>4. ASSUME NEW d \in Document PROVE xdg[d] \in seen[d]
  <2>1. d \in Item /\ Entries[d] = {d} /\ d \notin LastFiles
    BY ItemAssumption DEF LastFiles
  <2> QED
    BY <1>3, <2>1 DEF Settled
<1>5. AuthorityReadable
  BY <1>1, <1>4 DEF AuthorityReadable, SeenOK
<1> QED
  BY <1>3, <1>4, <1>5

\* The provider being migrated is the next of the order.
LEMMA CompletedOrder ==
    ASSUME IInv, Running
    PROVE  /\ Completed \in Seq(Provider) /\ job.own \in Provider
           /\ job.own = Len(Completed) + 1
           /\ \A k \in 1..Len(Completed) : Completed[k] = k
<1>1. TypeOK /\ RecordOK /\ JobOK
  BY DEF IInv
<1>2. Completed \in Seq(Provider) /\ \A k \in 1..Len(Completed) : Completed[k] = k
  BY <1>1 DEF RecordOK, Completed, TypeOK, Record
<1>3. job.own = Len(Completed) + 1 /\ job.own \in Provider
  BY <1>1, NAssumption DEF JobOK, TypeOK, Running, Job, Provider
<1> QED
  BY <1>2, <1>3

LEMMA CommitStep == ASSUME IInv, Commit PROVE IInv'
<1> USE DEF Commit, budget
<1> DEFINE done == Append(Completed, job.own)
<1>1. TypeOK /\ RecordOK /\ JobOK /\ SeenOK
  BY DEF IInv
<1>2. /\ Completed \in Seq(Provider) /\ job.own \in Provider
      /\ job.own = Len(Completed) + 1
      /\ \A k \in 1..Len(Completed) : Completed[k] = k
  BY CompletedOrder
<1>3. /\ done \in Seq(Provider) /\ Len(done) = job.own
      /\ \A k \in 1..Len(done) : done[k] = k
  BY <1>2
<1>4. /\ record'.state = IF job.own = N THEN "completed" ELSE "in-progress"
      /\ record'.completed = done /\ record' \in Record
  BY <1>1, <1>3 DEF TypeOK, Record, RecordState, Job
<1>5. RecordOK'
  BY <1>2, <1>3, <1>4, NAssumption DEF RecordOK, Migrated, Provider
<1>6. TypeOK'
  <2>1. Idle \in Job
    BY ContentTypes, NAssumption DEF Idle, Job, Phase, NoSnapshot
  <2>2. NothingSeen \in [Path -> SUBSET Content]
    BY DEF NothingSeen
  <2> QED
    BY <1>1, <1>4, <2>1, <2>2 DEF TypeOK
<1>7. JobOK' /\ CopyOK'
  BY NAssumption DEF JobOK, CopyOK, Running, Idle
<1>8. SeenOK'
  <2>1. Migrated' => AuthorityReadable'
    BY <1>4, FinishedSettled DEF Migrated, AuthorityReadable
  <2> QED
    BY <1>1, <2>1, DocumentPath DEF SeenOK, Running, Idle, NothingSeen
<1> QED
  BY <1>5, <1>6, <1>7, <1>8 DEF IInv

-------------------------------------------------------------------------------
\* The other steps.

LEMMA RollbackStep == ASSUME IInv, Rollback PROVE IInv'
<1> USE DEF Rollback
<1>1. TypeOK /\ RecordOK /\ JobOK /\ SeenOK
  BY DEF IInv
<1>2. TypeOK' /\ RecordOK' /\ ~Migrated'
  BY <1>1, NAssumption DEF TypeOK, Record, RecordState, RecordOK, Migrated
<1>3. JobOK' /\ CopyOK' /\ SeenOK'
  BY <1>1, <1>2, NAssumption DEF JobOK, CopyOK, SeenOK, Running, Idle
<1> QED
  BY <1>2, <1>3 DEF IInv

LEMMA UpdateSettingStep ==
    ASSUME IInv, NEW d \in Settings, NEW v \in Value, UpdateSetting(d, v) PROVE IInv'
<1> USE DEF UpdateSetting
<1>1. TypeOK /\ RecordOK /\ JobOK /\ SeenOK
  BY DEF IInv
<1>2. v \in Content /\ v # Absent
  BY ContentAssumption DEF Content
<1>3. TypeOK'
  BY <1>1, <1>2 DEF TypeOK
<1>4. RecordOK'
  BY <1>1 DEF RecordOK, Migrated
<1>5. JobOK' /\ CopyOK'
  BY <1>1, NAssumption DEF JobOK, CopyOK, Running, Idle
<1>6. SeenOK'
  BY <1>1, <1>2, DocumentPath DEF SeenOK, Running, Migrated, AuthorityReadable, TypeOK
<1> QED
  BY <1>3, <1>4, <1>5, <1>6 DEF IInv

\* An unlocked change only adds to what is accounted for.
LEMMA EditKeepsCopied ==
    ASSUME IInv, UNCHANGED <<record, job>>,
           \A f \in Path : seen[f] \subseteq seen'[f],
           Running => \A f \in Path : xdg'[f] = xdg[f] \/ xdg'[f] \in seen'[f]
    PROVE  RecordOK' /\ JobOK' /\ CopyOK'
<1>1. RecordOK'
  BY DEF IInv, RecordOK, Migrated
<1>2. JobOK'
  BY DEF IInv, JobOK, Running, Migrated, Completed, Finished, Current
<1>3. CopyOK'
  <2> SUFFICES ASSUME job.own = N PROVE CopyOK'
    BY DEF CopyOK
  <2>1. Running
    BY NAssumption DEF Running
  <2>2. job.phase \in {"remove", "copy", "prune"} => Entries[Current] \subseteq Path
    BY <2>1, CurrentItem DEF IInv, JobOK
  <2>3. \A q \in Provider : \A k \in 1..Len(Plan[q]) : Entries[Plan[q][k]] \subseteq Path
    BY PlanItem
  <2>4. \A f \in Path : Settled(f) => Settled(f)'
    BY <2>1 DEF Settled
  <2>5. ASSUME NEW q \in Provider, NEW k \in 1..Len(Plan[q]), Passed(q, k)',
               NEW f \in Entries[Plan[q][k]]
        PROVE  Settled(f)'
    <3>1. Passed(q, k) /\ f \in Path
      BY <2>3, <2>5 DEF Passed
    <3> QED
      BY <2>4, <3>1 DEF IInv, CopyOK
  <2>6. CASE job.phase = "remove"
    <3>1. \A f \in Entries[Current] :
             Absent \in seen'[f] /\ (f \in job.todo \/ xdg'[f] \in seen'[f])
      BY <2>1, <2>2, <2>6 DEF IInv, CopyOK
    <3> QED
      BY <2>5, <2>6, <3>1 DEF CopyOK, Current
  <2>7. CASE job.phase = "copy"
    <3>1. \A f \in Entries[Current] \ job.todo : CopiedOrLacked(f)'
      BY <2>1, <2>2, <2>7 DEF IInv, CopyOK, CopiedOrLacked, Current
    <3> QED
      BY <2>5, <2>7, <3>1 DEF CopyOK, Current
  <2>8. CASE job.phase = "prune"
    <3>1. \A f \in Entries[Current] : CopiedOrLacked(f)'
      BY <2>1, <2>2, <2>8 DEF IInv, CopyOK, CopiedOrLacked, Current
    <3> QED
      BY <2>5, <2>8, <3>1 DEF CopyOK, Current
  <2> QED
    BY <2>5, <2>6, <2>7, <2>8 DEF CopyOK
<1> QED
  BY <1>1, <1>2, <1>3

LEMMA EditLegacyStep ==
    ASSUME IInv, NEW e \in Path, NEW c \in Content, EditLegacy(e, c) PROVE IInv'
<1> USE DEF EditLegacy
<1>1. TypeOK /\ SeenOK
  BY DEF IInv
<1>2. /\ seen' \in [Path -> SUBSET Content]
      /\ \A f \in Path : seen[f] \subseteq seen'[f]
      /\ \A f \in Path \ {e} : seen'[f] = seen[f]
      /\ seen'[e] = IF Running THEN seen[e] \cup {c} ELSE seen[e]
  BY <1>1 DEF TypeOK, Noted
<1>3. TypeOK'
  BY <1>1, <1>2 DEF TypeOK
<1>4. /\ legacy'[e] = c /\ \A f \in Path \ {e} : legacy'[f] = legacy[f]
      /\ e \in Document => c # Absent
  BY <1>1, ContentTypes DEF TypeOK
<1>5. SeenOK'
  BY <1>1, <1>2, <1>4, DocumentPath
     DEF SeenOK, Running, Migrated, AuthorityReadable, Locked
<1> QED
  BY <1>2, <1>3, <1>5, EditKeepsCopied DEF IInv

LEMMA EditXdgStep ==
    ASSUME IInv, NEW e \in Path, NEW c \in Content, EditXdg(e, c) PROVE IInv'
<1> USE DEF EditXdg
<1>1. TypeOK /\ SeenOK
  BY DEF IInv
<1>2. /\ seen' \in [Path -> SUBSET Content]
      /\ \A f \in Path : seen[f] \subseteq seen'[f]
      /\ \A f \in Path \ {e} : seen'[f] = seen[f]
      /\ Running => c \in seen'[e]
  BY <1>1 DEF TypeOK, Noted
<1>3. TypeOK'
  BY <1>1, <1>2 DEF TypeOK
<1>4. xdg'[e] = c /\ \A f \in Path \ {e} : xdg'[f] = xdg[f]
  BY <1>1 DEF TypeOK
<1>5. e \notin Document
  BY DEF Settings
<1>6. SeenOK'
  BY <1>1, <1>2, <1>4, <1>5, DocumentPath
     DEF SeenOK, Running, Migrated, AuthorityReadable, Locked
<1> QED
  BY <1>2, <1>3, <1>4, <1>6, EditKeepsCopied DEF IInv

LEMMA DesktopStep == ASSUME IInv, StartDesktop \/ EndDesktop PROVE IInv'
<1>1. UNCHANGED <<store, job, seen, budget>> /\ desktop' \in BOOLEAN
  BY DEF StartDesktop, EndDesktop
<1>2. TypeOK' /\ SeenOK'
  BY <1>1 DEF IInv, TypeOK, SeenOK, store, budget, Running, Migrated, AuthorityReadable
<1> QED
  BY <1>1, <1>2, EditKeepsCopied DEF IInv, store

-------------------------------------------------------------------------------
\* The invariant is inductive.
LEMMA NextIInv == IInv /\ [Next]_vars => IInv'
<1> SUFFICES ASSUME IInv, [Next]_vars PROVE IInv'
  OBVIOUS
<1>1. ASSUME NEW p \in Provider, Begin(p) PROVE IInv'
  BY <1>1, BeginStep
<1>2. CASE Copying
  <2>1. CASE PublishDocument
    BY <2>1, PublishDocumentStep
  <2>2. CASE BeginMissingItem
    BY <2>2, BeginMissingItemStep
  <2>3. CASE EndMissingItem
    BY <2>3, EndMissingItemStep
  <2>4. CASE BeginItem
    BY <2>4, BeginItemStep
  <2>5. CASE BeginPrune
    BY <2>5, BeginPruneStep
  <2>6. CASE EndItem
    BY <2>6, EndItemStep
  <2>7. ASSUME NEW e \in Path, RemoveEntry(e) \/ CopyEntry(e) \/ PruneEntry(e) PROVE IInv'
    BY <2>7, RemoveEntryStep, CopyEntryStep, PruneEntryStep
  <2> QED
    BY <1>2, <2>1, <2>2, <2>3, <2>4, <2>5, <2>6, <2>7 DEF Copying
<1>3. CASE Refuse
  BY <1>3, RefuseStep
<1>4. CASE Commit
  BY <1>4, CommitStep
<1>5. CASE Fault
  BY <1>5, FaultStep
<1>6. CASE Rollback
  BY <1>6, RollbackStep
<1>7. ASSUME NEW d \in Settings, NEW v \in Value, UpdateSetting(d, v) PROVE IInv'
  BY <1>7, UpdateSettingStep
<1>8. ASSUME NEW e \in Path, NEW c \in Content, EditLegacy(e, c) \/ EditXdg(e, c) PROVE IInv'
  BY <1>8, EditLegacyStep, EditXdgStep
<1>9. CASE StartDesktop \/ EndDesktop
  BY <1>9, DesktopStep
<1>10. CASE UNCHANGED vars
  <2>1. UNCHANGED <<legacy, xdg, record, job, desktop, seen, faults, edits, rollbacks>>
    BY <1>10 DEF vars, budget
  <2>2. TypeOK' /\ SeenOK'
    BY <2>1 DEF IInv, TypeOK, SeenOK, Running, Migrated, AuthorityReadable
  <2> QED
    BY <2>1, <2>2, EditKeepsCopied DEF IInv
<1> QED
  BY <1>1, <1>2, <1>3, <1>4, <1>5, <1>6, <1>7, <1>8, <1>9, <1>10
     DEF Next, Migrating, Environment

LEMMA Invariance == Spec => []IInv
BY InitIInv, NextIInv, PTL DEF Spec

\* Every reachable state is of the declared types.
THEOREM TypeCorrect == Spec => []TypeOK
<1>1. IInv => TypeOK
  BY DEF IInv
<1> QED
  BY <1>1, Invariance, PTL

\* Whatever faults, refusals, retries and rollbacks happen, the record never
\* becomes one that _record() refuses, and it is completed only over documents
\* that authority() can read.
THEOREM RecordStaysReadable == Spec => []RecordReadable
<1>1. IInv => RecordReadable
  BY DEF IInv, RecordOK, SeenOK, RecordReadable
<1> QED
  BY <1>1, Invariance, PTL

-------------------------------------------------------------------------------
\* Only the commit of the last provider makes the record completed.
LEMMA FlipIsCommit ==
    ASSUME IInv, [Next]_vars, ~Migrated, Migrated'
    PROVE  Commit /\ Running /\ Finished /\ job.own = N
<1>1. ASSUME record' = record PROVE FALSE
  BY <1>1 DEF Migrated
<1>2. ASSUME NEW recorded \in BOOLEAN, Abandon(recorded) PROVE FALSE
  <2>1. record' = FailureRecord \/ record' = record
    BY <1>2 DEF Abandon
  <2> QED
    BY <2>1 DEF FailureRecord, Migrated
<1>3. ~Refuse
  BY <1>2 DEF Refuse
<1>4. ~Fault
  BY <1>2 DEF Fault
<1>5. ~Rollback
  BY DEF Rollback, Migrated
<1>6. ~Copying
  BY <1>1 DEF Copying, PublishDocument, BeginMissingItem, EndMissingItem, BeginItem,
     BeginPrune, EndItem, RemoveEntry, CopyEntry, PruneEntry, store
<1>7. ~Environment
  BY <1>1 DEF Environment, UpdateSetting, EditLegacy, EditXdg, StartDesktop, EndDesktop, store
<1>8. ASSUME NEW p \in Provider PROVE ~Begin(p)
  BY <1>1 DEF Begin, store
<1>9. ~UNCHANGED vars
  BY <1>1 DEF vars
<1>10. Commit
  BY <1>3, <1>4, <1>5, <1>6, <1>7, <1>8, <1>9 DEF Next, Migrating
<1>11. Running /\ Finished /\ Len(Append(Completed, job.own)) = N
  BY <1>10 DEF Commit, Migrated
<1>12. job.own = Len(Completed) + 1 /\ Completed \in Seq(Provider) /\ job.own \in Provider
  BY <1>11, CompletedOrder
<1> QED
  BY <1>10, <1>11, <1>12

\* The flip publishes nothing stale: for every path it makes authoritative
\* something that path held during the attempt.
THEOREM FlipIsFresh == Spec => FlipPublishesLegacy
<1> DEFINE A == Flip => \A e \in Path \ Separate :
                          \/ xdg'[e] \in seen[e]
                          \/ e \in LastFiles /\ Absent \in seen[e]
<1>1. IInv /\ [Next]_vars => [A]_vars
  <2> SUFFICES ASSUME IInv, [Next]_vars, ~Migrated, Migrated', NEW e \in Path \ Separate
               PROVE  xdg'[e] \in seen[e] \/ (e \in LastFiles /\ Absent \in seen[e])
    BY DEF Flip
  <2>1. Commit /\ Running /\ Finished /\ job.own = N
    BY FlipIsCommit
  <2>2. PICK i \in Item : e \in Entries[i]
    BY DEF Path
  <2>3. Settled(e)
    BY <2>1, <2>2, FinishedSettled
  <2>4. xdg' = xdg
    BY <2>1 DEF Commit
  <2> QED
    BY <2>3, <2>4 DEF Settled
<1> QED
  BY <1>1, Invariance, PTL DEF Spec, FlipPublishesLegacy

-------------------------------------------------------------------------------
\* DesktopMigration implements DesktopAuthority.

\* While a migration runs, a locked setting is seen with one content only: once
\* settled, the copy is the legacy one.
LEMMA FlipKeepsLocked ==
    ASSUME IInv, [Next]_vars, ~Migrated, Migrated'
    PROVE  UNCHANGED <<legacy, xdg>> /\ Restricted(xdg) = Restricted(legacy)
<1>1. Commit /\ Running /\ Finished /\ job.own = N
  BY FlipIsCommit
<1>2. \A d \in Locked : xdg[d] \in seen[d] /\ seen[d] = {legacy[d]}
  BY <1>1, FinishedSettled DEF IInv, SeenOK, Locked
<1> QED
  BY <1>1, <1>2 DEF Commit, Restricted

LEMMA InitAbstract == Init => Abstract!Init
<1> SUFFICES ASSUME Init PROVE Abstract!Init
  OBVIOUS
<1>1. ~Migrated /\ Authoritative = legacy
  BY DEF Init, NoRecord, Migrated, Authoritative
<1>2. \A d \in Locked : legacy[d] \in Value
  BY StartAssumption, DocumentPath DEF Init, Locked
<1> QED
  BY <1>1, <1>2 DEF Abstract!Init, Restricted

\* A step that leaves the authority alone and changes no locked setting.
LEMMA Stutter ==
    ASSUME Migrated' = Migrated, Restricted(Authoritative)' = Restricted(Authoritative),
           Restricted(legacy)' = Restricted(legacy)
    PROVE  UNCHANGED Abstract!vars
BY DEF Abstract!vars

\* While a migration runs or an attempt ends short of the flip, XDG is inert.
LEMMA InertStep ==
    ASSUME ~Migrated, ~Migrated', UNCHANGED legacy
    PROVE  UNCHANGED Abstract!vars
<1>1. Authoritative = legacy /\ Authoritative' = legacy'
  BY DEF Authoritative
<1>2. Migrated' = Migrated
  BY DEF Migrated
<1>3. Restricted(Authoritative)' = Restricted(Authoritative)
      /\ Restricted(legacy)' = Restricted(legacy)
  BY <1>1 DEF Restricted
<1> QED
  BY <1>2, <1>3, Stutter

LEMMA UpdateAbstract ==
    ASSUME IInv, NEW d \in Settings, NEW v \in Value, UpdateSetting(d, v)
    PROVE  [Abstract!Next]_(Abstract!vars)
<1> USE DEF UpdateSetting
<1>1. Migrated' = Migrated /\ TypeOK /\ Locked \subseteq Path
  BY DocumentPath DEF Migrated, IInv, Locked
<1>2. CASE d \notin Locked
  <2>1. Restricted(legacy)' = Restricted(legacy) /\ Restricted(xdg)' = Restricted(xdg)
    BY <1>1, <1>2 DEF Restricted, TypeOK
  <2> QED
    BY <1>1, <2>1, Stutter DEF Authoritative, Restricted
<1>3. CASE d \in Locked
  <2>1. Restricted(Authoritative)' = [Restricted(Authoritative) EXCEPT ![d] = v]
    BY <1>1, <1>3 DEF Restricted, Authoritative, TypeOK
  <2>2. Restricted(legacy)' = IF Migrated THEN Restricted(legacy) ELSE Restricted(Authoritative)'
    BY <1>1, <1>3 DEF Restricted, Authoritative
  <2>3. Abstract!Update(d, v)
    BY <1>1, <2>1, <2>2 DEF Abstract!Update
  <2> QED
    BY <1>3, <2>3 DEF Abstract!Next
<1> QED
  BY <1>2, <1>3

LEMMA NextAbstract == IInv /\ [Next]_vars => [Abstract!Next]_(Abstract!vars)
<1> SUFFICES ASSUME IInv, [Next]_vars PROVE [Abstract!Next]_(Abstract!vars)
  OBVIOUS
<1>1. CASE ~Migrated /\ Migrated'
  <2>1. UNCHANGED <<legacy, xdg>> /\ Restricted(xdg) = Restricted(legacy)
    BY <1>1, FlipKeepsLocked
  <2>2. Restricted(Authoritative) = Restricted(legacy)
        /\ Restricted(Authoritative)' = Restricted(xdg)
        /\ Restricted(legacy)' = Restricted(legacy)
    BY <1>1, <2>1 DEF Authoritative, Restricted
  <2>3. Abstract!Migrate
    BY <1>1, <2>1, <2>2 DEF Abstract!Migrate
  <2> QED
    BY <2>3 DEF Abstract!Next
<1>2. CASE ~(~Migrated /\ Migrated')
  <2>1. ASSUME Running, UNCHANGED legacy PROVE [Abstract!Next]_(Abstract!vars)
    <3>1. ~Migrated
      BY <2>1 DEF IInv, JobOK
    <3> QED
      BY <1>2, <2>1, <3>1, InertStep
  <2>2. CASE Migrating \/ Fault
    <3>1. ~Running => job.phase = "idle"
      BY DEF IInv, JobOK, Idle
    <3>2. Copying => Running
      BY <3>1 DEF Copying, PublishDocument, BeginMissingItem, EndMissingItem, BeginItem,
         BeginPrune, EndItem, Copied, RemoveEntry, CopyEntry, PruneEntry
    <3>3. Running
      BY <2>2, <3>2 DEF Migrating, Fault, Refuse, Commit
    <3>4. UNCHANGED legacy
      BY <2>2 DEF Migrating, Fault, Copying, Refuse, Commit, Abandon, store,
         PublishDocument, BeginMissingItem, EndMissingItem, BeginItem, BeginPrune, EndItem,
         RemoveEntry, CopyEntry, PruneEntry
    <3> QED
      BY <2>1, <3>3, <3>4
  <2>3. CASE UNCHANGED <<legacy, xdg, record>>
    BY <2>3, Stutter DEF Migrated, Authoritative, Restricted
  <2>4. ASSUME NEW p \in Provider, Begin(p) PROVE [Abstract!Next]_(Abstract!vars)
    BY <2>3, <2>4 DEF Begin, store
  <2>5. CASE Rollback
    <3>1. ~Migrated' /\ UNCHANGED <<legacy, xdg>> /\ Authoritative' = legacy
      BY <2>5 DEF Rollback, Migrated, Authoritative
    <3>2. CASE ~Migrated
      BY <3>1, <3>2, InertStep
    <3>3. CASE Migrated
      <4>1. Abstract!Rollback
        BY <3>1, <3>3 DEF Abstract!Rollback, Restricted
      <4> QED
        BY <4>1 DEF Abstract!Next
    <3> QED
      BY <3>2, <3>3
  <2>6. ASSUME NEW e \in Path, NEW c \in Content, EditLegacy(e, c) \/ EditXdg(e, c)
        PROVE  [Abstract!Next]_(Abstract!vars)
    <3>1. e \notin Locked /\ Locked \subseteq Path /\ TypeOK /\ Migrated' = Migrated
      BY <2>6, DocumentPath DEF EditLegacy, EditXdg, Locked, Settings, IInv, Migrated
    <3>2. Restricted(legacy)' = Restricted(legacy) /\ Restricted(xdg)' = Restricted(xdg)
      BY <2>6, <3>1 DEF EditLegacy, EditXdg, Restricted, TypeOK
    <3> QED
      BY <3>1, <3>2, Stutter DEF Authoritative, Restricted
  <2>7. ASSUME NEW d \in Settings, NEW v \in Value, UpdateSetting(d, v)
        PROVE  [Abstract!Next]_(Abstract!vars)
    BY <2>7, UpdateAbstract
  <2>8. CASE StartDesktop \/ EndDesktop \/ UNCHANGED vars
    BY <2>3, <2>8 DEF StartDesktop, EndDesktop, store, vars
  <2> QED
    BY <2>2, <2>4, <2>5, <2>6, <2>7, <2>8 DEF Next, Environment
<1> QED
  BY <1>1, <1>2

\* Migration, retries, failures and rollback are invisible to whoever reads and
\* writes settings under the lock, but for the return to legacy values.
THEOREM ImplementsAuthority == Spec => SingleAuthority
BY InitAbstract, NextAbstract, Invariance, PTL DEF Spec, SingleAuthority, Abstract!Spec
===============================================================================
