-------------------------- MODULE SettingsFiles_proofs --------------------------
(***************************************************************************)
(* Proofs about SettingsFiles, for any settings, values, native files,     *)
(* readers and bounds.  The argument for a reader without the lock is      *)
(* about what it would return if nothing changed any more: as long as it   *)
(* would not fail, each of its values was authoritative during the read.   *)
(***************************************************************************)
EXTENDS SettingsFiles, FiniteSetTheorems, WellFoundedInduction, TLAPS

\* An update rewrites its setting, and nothing else, in every file that counts
\* for it, as policy_set and shared_settings_update do.
RewritesOwn ==
    \A u \in Update : \A f \in File : Rewritten[u][f] = {Target[u]} \cap Listed[f]

AllLines(k, v) ==
    \A f \in File : k \in Listed[f] => \A i \in DOMAIN native[f][k] : native[f][k][i] = v

\* The files, or the sidecar without them, say that k is v.
Says(k, v) ==
    /\ AllLines(k, v)
    /\ (\A f \in File : ~Assigned(f, k)) => sidecar[k] = v

Typed(d) == \A k \in Key : d[k] \in Values[k] \cup {None}

StoreOK ==
    /\ native = [f \in File |-> [k \in Key |-> native[f][k]]]
    /\ Typed(sidecar) /\ Typed(xdg)

Own == Target[writer.update]

\* Whoever writes has the legacy document under the lock.
LockOK ==
    /\ writer # Idle => ~migrated
    /\ writer.phase = "writing" => writer.doc = sidecar /\ sidecar[Own] # None

Base == TypeOK /\ StoreOK /\ LockOK

-----------------------------------------------------------------------------
\* What was acknowledged, and what an update under way has written.
KeptOK ==
    \A k \in Key : expected[k] # None =>
       /\ migrated \/ writer.phase = "publishing" => xdg[k] = expected[k]
       /\ ~migrated => Says(k, expected[k])
       /\ writer.phase = "writing" => k # Own

WrittenOK ==
    writer.phase = "writing" /\ ~writer.disturbed =>
       \A j \in 1..(writer.at - 1) : Own \in Listed[Files[j]] =>
          \A i \in DOMAIN native[Files[j]][Own] : native[Files[j]][Own][i] = writer.doc[Own]

-----------------------------------------------------------------------------
\* What a reader in the middle of the files would return for k, from the files
\* as they are now.
Passes(r, k, v) ==
    /\ \A j \in reader[r].at..Len(Files) : k \in Listed[Files[j]] =>
          \A i \in DOMAIN native[Files[j]][k] : native[Files[j]][k][i] = v
    /\ k \in reader[r].listed \/ (\A j \in reader[r].at..Len(Files) : ~Assigned(Files[j], k))
          => reader[r].got[k] = v

\* A line that was read, or is as one that was.
AsRead(r, k, line) == k \in reader[r].listed /\ (reader[r].agreed => line = reader[r].got[k])

\* What has become of the files that were read: only first lines change, and
\* the update under way has changed all that it has passed.
BehindOK(r) ==
    \A j \in 1..(reader[r].at - 1) :
       /\ \A k \in Listed[Files[j]] : \A i \in DOMAIN native[Files[j]][k] :
             i > 1 => AsRead(r, k, native[Files[j]][k][i])
       /\ writer.phase = "writing" /\ j < writer.at /\ Own \in Listed[Files[j]] =>
             \A i \in DOMAIN native[Files[j]][Own] :
                \/ native[Files[j]][Own][i] = writer.doc[Own]
                \/ AsRead(r, Own, native[Files[j]][Own][i])

Seen(r, k, v) == v \in shown[r].values[k]

\* Two files gave different values to one setting during the read.
Differs(r) ==
    \E f, g \in File : f # g /\ \E k \in Listed[f] \cap Listed[g] :
       \E v, w \in shown[r].values[k] : v # w

LegacyOK(r) ==
    /\ \A k \in Key : \A v \in Setting : Says(k, v) => Seen(r, k, v)
    /\ ~shown[r].unreadable => LegacyReadable({})

NativeOK(r) ==
    /\ BehindOK(r)
    /\ reader[r].agreed =>
          \A k \in Key : \A v \in Setting : Passes(r, k, v) => Seen(r, k, v)
    /\ \A k \in reader[r].listed :
          /\ \E j \in 1..(reader[r].at - 1) : k \in Listed[Files[j]]
          /\ ~shown[r].unreadable => Seen(r, k, reader[r].got[k])
    /\ reader[r].agreed \/ shown[r].unreadable \/ Differs(r)

ReaderOK(r) ==
    /\ \A k \in Key : IsFiniteSet(shown[r].values[k])
    /\ ~shown[r].edited =>
          /\ reader[r].phase \in {"sidecar", "native"} => LegacyOK(r)
          /\ reader[r].phase = "native" => NativeOK(r)
          /\ reader[r].phase = "xdg" => \A k \in Key : Seen(r, k, xdg[k])
          /\ reader[r].phase = "done" => \A k \in Key : Seen(r, k, reader[r].got[k])
          /\ reader[r].phase = "failed" => shown[r].unreadable \/ Differs(r)

ReadersOK == \A r \in Reader : ReaderOK(r)

-----------------------------------------------------------------------------
(* The least number of a set.                                              *)
LEMMA Least ==
    ASSUME NEW T \in SUBSET Nat, T # {}
    PROVE  \E x \in T : \A y \in T : x <= y
<1>1. \E R : IsWellFoundedOn(R, Nat) /\ \A x, y \in Nat : y < x => <<y, x>> \in R
  <2>1. \A x, y \in Nat : y < x => <<y, x>> \in OpToRel(<, Nat)
    BY DEF OpToRel
  <2> QED
    BY <2>1, NatLessThanWellFounded
<1>2. PICK R : IsWellFoundedOn(R, Nat) /\ \A x, y \in Nat : y < x => <<y, x>> \in R
  BY <1>1
<1>3. PICK x \in T : \A y \in T : <<y, x>> \notin R
  BY <1>2, WFMin
<1>4. ASSUME NEW y \in T PROVE x <= y
  <2>1. x \in Nat /\ y \in Nat
    OBVIOUS
  <2>2. ~ (y < x)
    BY <1>2, <1>3, <2>1
  <2> QED
    BY <2>1, <2>2
<1> QED
  BY <1>4

(* The files have their places, and each has one.                          *)
LEMMA FilesAt ==
    /\ Len(Files) \in Nat /\ 1 \in 1..Len(Files)
    /\ \A j \in 1..Len(Files) : Files[j] \in File
    /\ \A f \in File : \E j \in 1..Len(Files) : f = Files[j]
    /\ \A i, j \in 1..Len(Files) : Files[i] = Files[j] => i = j
<1>1. Files \in Seq(File)
  BY FilesAssumption
<1> QED
  BY <1>1, FilesAssumption DEF File

\* The first file that assigns k.
First(k, i) ==
    /\ i \in 1..Len(Files)
    /\ Assigned(Files[i], k)
    /\ \A j \in 1..(i - 1) : ~Assigned(Files[j], k)

LEMMA FirstExists ==
    ASSUME NEW k, NEW f \in File, Assigned(f, k)
    PROVE  \E i : First(k, i)
<1> DEFINE T == {i \in 1..Len(Files) : Assigned(Files[i], k)}
<1>1. T \in SUBSET Nat /\ T # {}
  BY FilesAt
<1>2. PICK i \in T : \A j \in T : i <= j
  BY <1>1, Least
<1>3. i \in Nat /\ i \in 1..Len(Files) /\ Len(Files) \in Nat
  BY <1>1, FilesAt
<1>4. ASSUME NEW j \in 1..(i - 1) PROVE ~Assigned(Files[j], k)
  <2>1. j \in 1..Len(Files) /\ ~ (i <= j)
    BY <1>3
  <2> QED
    BY <1>2, <2>1
<1> QED
  BY <1>2, <1>3, <1>4 DEF First

(* What is read under the lock comes from a file that assigns it, or from  *)
(* the sidecar.                                                            *)
LEMMA MergedFrom ==
    ASSUME NEW k \in Key
    PROVE  \/ /\ \A f \in File : ~Assigned(f, k)
              /\ Merged[k] = sidecar[k]
           \/ \E f \in File : Assigned(f, k) /\ Merged[k] = native[f][k][1]
<1>1. CASE \A f \in File : ~Assigned(f, k)
  BY <1>1 DEF Merged
<1>2. CASE \E f \in File : Assigned(f, k)
  <2> DEFINE i == CHOOSE i \in 1..Len(Files) :
                     /\ Assigned(Files[i], k)
                     /\ \A j \in 1..(i - 1) : ~Assigned(Files[j], k)
  <2>1. \E i1 \in 1..Len(Files) :
           /\ Assigned(Files[i1], k)
           /\ \A j \in 1..(i1 - 1) : ~Assigned(Files[j], k)
    BY <1>2, FirstExists DEF First
  <2>2. i \in 1..Len(Files) /\ Assigned(Files[i], k)
    BY <2>1
  <2>3. Merged[k] = native[Files[i]][k][1]
    BY <1>2 DEF Merged
  <2> QED
    BY <2>2, <2>3, FilesAt
<1> QED
  BY <1>1, <1>2

(* The lines of a setting.                                                 *)
LEMMA LinesFacts ==
    ASSUME NEW k, NEW lines \in Lines(k)
    PROVE  /\ DOMAIN lines = 1..Len(lines) /\ Len(lines) \in 0..MaxLines
           /\ lines # <<>> => 1 \in DOMAIN lines
           /\ lines = <<>> => DOMAIN lines = {}
           /\ \A i \in DOMAIN lines : lines[i] \in Values[k]
           /\ lines \in Seq(Values[k])
<1>1. PICK n \in 0..MaxLines : lines \in [1..n -> Values[k]]
  BY DEF Lines
<1>2. n \in Nat /\ MaxLines \in Nat
  BY <1>1, BoundAssumption
<1>3. lines \in Seq(Values[k])
  BY <1>1, <1>2
<1>4. Len(lines) = n /\ DOMAIN lines = 1..n
  BY <1>1, <1>2, <1>3
<1> QED
  BY <1>1, <1>2, <1>3, <1>4

LEMMA LinesOf ==
    ASSUME TypeOK, NEW f \in File, NEW k \in Key
    PROVE  /\ native[f][k] \in Lines(k)
           /\ native[f][k] # <<>> => 1 \in DOMAIN native[f][k]
           /\ native[f][k] = <<>> => DOMAIN native[f][k] = {}
           /\ \A i \in DOMAIN native[f][k] : i \in Nat /\ i >= 1
                                             /\ native[f][k][i] \in Values[k]
                                             /\ native[f][k][i] \in Value
<1>1. native[f][k] \in Lines(k)
  BY DEF TypeOK
<1>2. Values[k] \subseteq Value
  BY DEF Value
<1> HIDE DEF Value
<1> QED
  BY <1>1, <1>2, LinesFacts, BoundAssumption

(* Rewriting lines gives lines.                                            *)
LEMMA RewriteLines ==
    ASSUME NEW k \in Key, NEW lines \in Lines(k), NEW v \in Values[k]
    PROVE  /\ Rewrite(lines, v) \in Lines(k)
           /\ Rewrite(lines, v) # <<>>
           /\ Rewrite(lines, v)[1] = v
           /\ \A i \in DOMAIN Rewrite(lines, v) :
                 i > 1 => i \in DOMAIN lines /\ Rewrite(lines, v)[i] = lines[i]
<1>1. PICK n \in 0..MaxLines : lines \in [1..n -> Values[k]]
  BY DEF Lines
<1>2. n \in Nat /\ MaxLines \in Nat \ {0}
  BY <1>1, BoundAssumption
<1>3. CASE lines = <<>>
  <2>1. Rewrite(lines, v) = <<v>>
    BY <1>3 DEF Rewrite
  <2>2. <<v>> \in [1..1 -> Values[k]] /\ DOMAIN <<v>> = 1..1
    OBVIOUS
  <2>3. 1 \in 0..MaxLines
    BY <1>2
  <2> QED
    BY <2>1, <2>2, <2>3 DEF Lines
<1>4. CASE lines # <<>>
  <2>1. Rewrite(lines, v) = [lines EXCEPT ![1] = v]
    BY <1>4 DEF Rewrite
  <2>2. 1 \in 1..n
    BY <1>4, LinesFacts, <1>1
  <2>3. Rewrite(lines, v) \in [1..n -> Values[k]]
    BY <1>1, <2>1
  <2>4. Rewrite(lines, v)[1] = v /\ \A i \in 1..n : i > 1 => Rewrite(lines, v)[i] = lines[i]
    BY <1>1, <2>1, <2>2
  <2>5. Rewrite(lines, v) # <<>>
    BY <2>2, <2>3
  <2> QED
    BY <1>1, <2>3, <2>4, <2>5 DEF Lines
<1> QED
  BY <1>3, <1>4

-----------------------------------------------------------------------------
\* What the files hold, each setting in its own values.
FilesOK ==
    /\ \A f \in File : DOMAIN native[f] = Key /\ \A k \in Key : native[f][k] \in Lines(k)
    /\ Typed(sidecar) /\ Typed(xdg)
    /\ sidecar \in Document /\ xdg \in Document
    /\ migrated \in BOOLEAN

(* What is read under the lock is a document of the settings' own values.  *)
LEMMA MergedTyped ==
    FilesOK => Merged \in Document /\ Typed(Merged) /\ Authoritative \in Document
<1> SUFFICES ASSUME FilesOK
             PROVE  Merged \in Document /\ Typed(Merged) /\ Authoritative \in Document
  OBVIOUS
<1>1. ASSUME NEW k \in Key PROVE Merged[k] \in Values[k] \cup {None}
  <2>1. CASE Merged[k] = sidecar[k]
    BY <2>1 DEF FilesOK, Typed
  <2>2. CASE \E f \in File : Assigned(f, k) /\ Merged[k] = native[f][k][1]
    <3>1. PICK f \in File : Assigned(f, k) /\ Merged[k] = native[f][k][1]
      BY <2>2
    <3>2. native[f][k] \in Lines(k) /\ native[f][k] # <<>>
      BY <3>1 DEF FilesOK, Assigned
    <3> QED
      BY <3>1, <3>2, LinesFacts
  <2> QED
    BY <2>1, <2>2, MergedFrom
<1>2. ASSUME NEW k \in Key PROVE Values[k] \cup {None} \subseteq Setting
  BY DEF Setting, Value
<1>3. Merged = [k \in Key |-> Merged[k]]
  BY DEF Merged
<1>4. Merged \in Document
  <2> HIDE DEF Setting
  <2> QED
    BY <1>1, <1>2, <1>3, Zenon DEF Document
<1> QED
  BY <1>1, <1>4 DEF Typed, Authoritative, FilesOK

LEMMA MergedTypedNext ==
    FilesOK' => (Authoritative \in Document)'
BY MergedTyped, PTL

(* Who holds the lock.                                                     *)
LEMMA WriterForms ==
    ASSUME writer \in Writer
    PROVE  \/ writer = Idle /\ writer.phase = "idle"
           \/ writer = [phase |-> "publishing"] /\ writer.phase = "publishing" /\ writer # Idle
           \/ /\ writer.phase = "writing" /\ writer # Idle
              /\ writer.update \in Update /\ writer.doc \in Document
              /\ writer.at \in 1..Len(Files) /\ writer.at \in Nat /\ writer.disturbed \in BOOLEAN
              /\ writer \in [phase : {"writing"}, update : Update, doc : Document,
                             at : 1..Len(Files), disturbed : BOOLEAN]
BY FilesAt DEF Writer, Idle

LEMMA OwnTyped ==
    ASSUME TypeOK, writer.phase = "writing"
    PROVE  Own \in Key
BY WriterForms, UpdateAssumption DEF TypeOK, Own

(* What a rewritten file holds.                                            *)
LEMMA RewriteTyped ==
    ASSUME TypeOK, StoreOK, LockOK, RewriteFile
    PROVE  LET f == Files[writer.at] IN
           /\ f \in File /\ ~migrated
           /\ \A g \in File : DOMAIN native'[g] = Key
           /\ \A g \in File : \A k \in Key :
                 native'[g][k] =
                    IF g = f /\ k \in Rewritten[writer.update][f] /\ writer.doc[k] # None
                      THEN Rewrite(native[g][k], writer.doc[k])
                      ELSE native[g][k]
           /\ native' = [g \in File |-> [k \in Key |-> native'[g][k]]]
           /\ \A g \in File : \A k \in Key : native'[g][k] \in Lines(k)
<1> DEFINE f == Files[writer.at]
<1>1. /\ writer.phase = "writing" /\ writer # Idle /\ writer.update \in Update
      /\ writer.at \in 1..Len(Files)
  BY WriterForms DEF TypeOK, RewriteFile
<1>2. f \in File
  BY <1>1, FilesAt
<1>3. writer.doc = sidecar /\ ~migrated
  BY <1>1 DEF LockOK
<1>4. \A k \in Key : writer.doc[k] \in Values[k] \cup {None}
  BY <1>3 DEF StoreOK, Typed
<1> DEFINE changes == {j \in Rewritten[writer.update][f] : writer.doc[j] # None}
<1>5. native' = [native EXCEPT ![f] =
              [j \in Key |-> IF j \in changes THEN Rewrite(native[f][j], writer.doc[j])
                             ELSE native[f][j]]]
  BY DEF RewriteFile
<1>6. DOMAIN native = File /\ \A g \in File : DOMAIN native[g] = Key
  BY DEF StoreOK, TypeOK
<1>7. \A k : k \in changes <=> k \in Rewritten[writer.update][f] /\ writer.doc[k] # None
  OBVIOUS
<1> HIDE DEF changes, f
<1>8. \A g \in File : DOMAIN native'[g] = Key
  BY <1>2, <1>5, <1>6
<1>9. \A g \in File : \A k \in Key :
         native'[g][k] = IF g = f /\ k \in changes
                           THEN Rewrite(native[g][k], writer.doc[k])
                           ELSE native[g][k]
  <2> SUFFICES ASSUME NEW g \in File, NEW k \in Key
               PROVE  native'[g][k] = IF g = f /\ k \in changes
                           THEN Rewrite(native[g][k], writer.doc[k])
                           ELSE native[g][k]
    OBVIOUS
  <2>1. CASE g = f
    BY <2>1, <1>2, <1>5, <1>6
  <2>2. CASE g # f
    BY <2>2, <1>5, <1>6
  <2> QED
    BY <2>1, <2>2
<1>10. native' = [g \in File |-> [k \in Key |-> native'[g][k]]]
  <2>1. native' = [g \in File |-> native'[g]]
    BY <1>5, <1>6
  <2>2. \A g \in File : native[g] = [k \in Key |-> native[g][k]]
    <3>1. native = [g \in File |-> [k \in Key |-> native[g][k]]]
      BY DEF StoreOK
    <3> QED
      BY <3>1
  <2>3. ASSUME NEW g \in File PROVE native'[g] = [k \in Key |-> native'[g][k]]
    <3>1. CASE g = f
      BY <3>1, <1>2, <1>5, <1>6
    <3>2. CASE g # f
      <4>1. native'[g] = native[g]
        BY <3>2, <1>5, <1>6
      <4> QED
        BY <4>1, <2>2, Zenon
    <3> QED
      BY <3>1, <3>2
  <2> QED
    BY <2>1, <2>3, Zenon
<1>11. \A g \in File : \A k \in Key : native'[g][k] \in Lines(k)
  BY <1>4, <1>7, <1>9, RewriteLines DEF TypeOK
<1> QED
  BY <1>2, <1>3, <1>7, <1>8, <1>9, <1>10, <1>11 DEF f

LEMMA RewriteEffect ==
    ASSUME RewritesOwn, TypeOK, StoreOK, LockOK, RewriteFile
    PROVE  /\ Files[writer.at] \in File /\ ~migrated /\ Own \in Key
           /\ writer.doc[Own] \in Values[Own]
           /\ \A g \in File : \A k \in Key :
                 native'[g][k] =
                    IF g = Files[writer.at] /\ k = Own /\ k \in Listed[g]
                      THEN Rewrite(native[g][k], writer.doc[Own])
                      ELSE native[g][k]
<1>1. /\ writer.phase = "writing" /\ writer # Idle /\ writer.update \in Update
      /\ writer.at \in 1..Len(Files)
  BY WriterForms DEF TypeOK, RewriteFile
<1>2. Files[writer.at] \in File /\ Own \in Key
  BY <1>1, FilesAt, OwnTyped
<1>3. writer.doc = sidecar /\ sidecar[Own] # None /\ ~migrated
  BY <1>1 DEF LockOK
<1>4. writer.doc[Own] \in Values[Own]
  BY <1>2, <1>3 DEF StoreOK, Typed
<1>5. Rewritten[writer.update][Files[writer.at]] = {Own} \cap Listed[Files[writer.at]]
  BY <1>1, <1>2 DEF RewritesOwn, Own
<1>6. \A g \in File : \A k \in Key :
         native'[g][k] =
            IF /\ g = Files[writer.at]
               /\ k \in Rewritten[writer.update][Files[writer.at]]
               /\ writer.doc[k] # None
              THEN Rewrite(native[g][k], writer.doc[k])
              ELSE native[g][k]
  BY RewriteTyped
<1> QED
  BY <1>1, <1>2, <1>3, <1>4, <1>5, <1>6

-----------------------------------------------------------------------------
(* The history is a set of values for each setting.                        *)
LEMMA ShownTyped ==
    ASSUME TypeOK, FilesOK', Witnessed
    PROVE  shown' \in [Reader -> [values : [Key -> SUBSET Setting],
                                  unreadable : BOOLEAN, edited : BOOLEAN]]
<1>1. Authoritative' \in Document
  BY MergedTypedNext, Zenon
<1>2. \A k \in Key : Authoritative'[k] \in Setting
  BY <1>1 DEF Document
<1> HIDE DEF Setting
<1> DEFINE S == [values : [Key -> SUBSET Setting], unreadable : BOOLEAN, edited : BOOLEAN]
<1>3. NothingShown \in S /\ [NothingShown EXCEPT !.edited = TRUE] \in S
  BY DEF NothingShown
<1>4. ASSUME NEW r \in Reader
      PROVE  [values |-> [k \in Key |-> shown[r].values[k] \cup
                             IF migrated' \/ Settled(k)' THEN {Authoritative'[k]} ELSE {}],
              unreadable |-> shown[r].unreadable \/ ~Readable',
              edited |-> FALSE] \in S
  <2>1. shown[r] \in S
    BY DEF TypeOK
  <2>2. \A k \in Key : shown[r].values[k] \cup
             (IF migrated' \/ Settled(k)' THEN {Authoritative'[k]} ELSE {}) \in SUBSET Setting
    BY <2>1, <1>2
  <2>3. (shown[r].unreadable \/ ~Readable') \in BOOLEAN
    BY DEF Readable
  <2> QED
    BY <2>2, <2>3
<1>5. \A r \in Reader : shown[r] \in S
  BY DEF TypeOK
<1> HIDE DEF S
<1> QED
  BY <1>3, <1>4, <1>5, Zenon DEF Witnessed, S

(* The parts of the state that an action leaves alone are as typed as they *)
(* were; what it changes is for each action to show.                       *)
LEMMA TypeStep ==
    ASSUME Base, FilesOK', Witnessed,
           (native = [f \in File |-> [k \in Key |-> native[f][k]]])',
           writer' \in Writer, reader' \in [Reader -> Reading], expected' \in Document,
           edits' \in 0..MaxEdits, faults' \in 0..MaxFaults, LockOK'
    PROVE  Base'
BY ShownTyped DEF Base, TypeOK, StoreOK, FilesOK

LEMMA BaseInit ==
    Init => Base
<1> SUFFICES ASSUME Init
             PROVE  Base
  OBVIOUS
<1>1. \A k \in Key : <<>> \in Lines(k)
  <2> SUFFICES ASSUME NEW k \in Key
               PROVE  <<>> \in Lines(k)
    OBVIOUS
  <2>1. <<>> \in [1..0 -> Values[k]] /\ 0 \in 0..MaxLines
    BY BoundAssumption
  <2> QED
    BY <2>1 DEF Lines
<1>2. NoDocument \in Document /\ Typed(NoDocument)
  BY DEF NoDocument, Document, Setting, Typed
<1>3. \A f \in File : native[f] = [k \in Key |-> <<>>]
  BY DEF Init
<1>4. \A f \in File : DOMAIN native[f] = Key /\ \A k \in Key : native[f][k] \in Lines(k)
  BY <1>1, <1>3
<1>5. native = [f \in File |-> [k \in Key |-> native[f][k]]]
  BY DEF Init
<1>6. shown \in [Reader -> [values : [Key -> SUBSET Setting],
                            unreadable : BOOLEAN, edited : BOOLEAN]]
  BY DEF Init, NothingShown
<1>7. 0 \in 0..MaxEdits /\ 0 \in 0..MaxFaults
  BY BoundAssumption
<1>8. writer \in Writer /\ reader \in [Reader -> Reading]
  BY DEF Init, Writer, Reading
<1>9. LockOK
  BY DEF Init, LockOK, Idle
<1> QED
  BY <1>2, <1>4, <1>5, <1>6, <1>7, <1>8, <1>9 DEF Init, Base, TypeOK, StoreOK

LEMMA BaseFiles ==
    Base => FilesOK
BY DEF Base, TypeOK, StoreOK, FilesOK

-----------------------------------------------------------------------------
\* Each step of the environment, of the holder of the lock and of the readers.
LEMMA BeginUpdateBase ==
    ASSUME Base, NEW u \in Update, NEW v \in Values[Target[u]], BeginUpdate(u, v)
    PROVE  Base'
<1> DEFINE k == Target[u]
<1> USE DEF Base
<1>1. k \in Key
  BY UpdateAssumption
<1>2. v # None /\ v \in Setting
  BY <1>1, NoneAssumption DEF Value, Setting
<1>3. UNCHANGED <<native, migrated, reader, edits, faults>> /\ Witnessed /\ writer = Idle
  BY DEF BeginUpdate
<1> HIDE DEF k
<1>4. ASSUME NEW d \in Document, Typed(d)
      PROVE  [d EXCEPT ![k] = v] \in Document /\ Typed([d EXCEPT ![k] = v])
             /\ [d EXCEPT ![k] = v][k] = v
  <2> HIDE DEF Setting
  <2> QED
    BY <1>1, <1>2, <1>4 DEF Document, Typed, k
<1>5. None \in Setting
  BY DEF Setting
<1>6. [expected EXCEPT ![k] = v] \in Document /\ [expected EXCEPT ![k] = None] \in Document
  <2> HIDE DEF Setting
  <2> QED
    BY <1>1, <1>2, <1>5 DEF TypeOK, Document, k
<1>7. CASE migrated
  <2>1. /\ xdg' = [xdg EXCEPT ![k] = v] /\ expected' = [expected EXCEPT ![k] = v]
        /\ UNCHANGED <<sidecar, writer>>
    BY <1>7 DEF BeginUpdate, k
  <2>2. FilesOK'
    BY <2>1, <1>3, <1>4, BaseFiles DEF FilesOK, Typed
  <2>3. writer' = Idle /\ LockOK'
    BY <2>1, <1>3 DEF LockOK, Idle
  <2> QED
    BY <2>1, <2>2, <2>3, <1>3, <1>6, TypeStep DEF TypeOK, StoreOK
<1>8. CASE ~migrated
  <2>1. /\ sidecar' = [Merged EXCEPT ![k] = v]
        /\ writer' = [phase |-> "writing", update |-> u, doc |-> sidecar',
                      at |-> 1, disturbed |-> FALSE]
        /\ expected' = [expected EXCEPT ![k] = None]
        /\ UNCHANGED xdg
    BY <1>8 DEF BeginUpdate, k
  <2>2. sidecar' \in Document /\ Typed(sidecar') /\ sidecar'[k] = v
    BY <2>1, <1>4, MergedTyped, BaseFiles
  <2>3. FilesOK'
    BY <2>1, <2>2, <1>3, BaseFiles DEF FilesOK, Typed
  <2>4. writer' \in Writer
    BY <2>1, <2>2, FilesAt DEF Writer
  <2>5. LockOK'
    BY <2>1, <2>2, <1>2, <1>3, <1>8 DEF LockOK, Own, k
  <2> QED
    BY <2>1, <2>3, <2>4, <2>5, <1>3, <1>6, TypeStep DEF TypeOK, StoreOK
<1> QED
  BY <1>7, <1>8

LEMMA RewriteFileBase ==
    ASSUME Base, RewriteFile
    PROVE  Base'
<1> USE DEF Base
<1>1. /\ writer.phase = "writing" /\ writer.update \in Update /\ writer.doc \in Document
      /\ writer.at \in 1..Len(Files) /\ writer.at \in Nat
      /\ writer \in [phase : {"writing"}, update : Update, doc : Document,
                             at : 1..Len(Files), disturbed : BOOLEAN]
  BY WriterForms DEF TypeOK, RewriteFile
<1>2. UNCHANGED <<sidecar, xdg, migrated, reader, edits, faults>> /\ Witnessed
  BY DEF RewriteFile
<1>3. FilesOK'
  BY <1>2, RewriteTyped, BaseFiles DEF FilesOK, Typed
<1>4. (native = [f \in File |-> [k \in Key |-> native[f][k]]])'
  BY RewriteTyped, Zenon
<1>5. CASE writer.at < Len(Files)
  <2>1. writer' = [writer EXCEPT !.at = writer.at + 1] /\ UNCHANGED expected
    BY <1>5 DEF RewriteFile
  <2>2. writer.at + 1 \in 1..Len(Files)
    BY <1>1, <1>5, FilesAt
  <2>3. /\ writer' \in [phase : {"writing"}, update : Update, doc : Document,
                             at : 1..Len(Files), disturbed : BOOLEAN]
        /\ writer'.phase = writer.phase /\ writer'.doc = writer.doc
        /\ writer'.update = writer.update
    BY <1>1, <2>1, <2>2
  <2>4. writer' \in Writer
    BY <2>3 DEF Writer
  <2>5. LockOK'
    <3>1. Own' = Own
      BY <2>3 DEF Own
    <3>2. writer # Idle
      BY <1>1 DEF Idle
    <3> QED
      BY <3>1, <3>2, <2>3, <1>1, <1>2 DEF LockOK
  <2> QED
    BY <2>1, <2>4, <2>5, <1>2, <1>3, <1>4, TypeStep DEF TypeOK
<1>6. CASE ~ (writer.at < Len(Files))
  <2>1. writer' = Idle
        /\ expected' = [expected EXCEPT ![Target[writer.update]] =
                           IF writer.disturbed THEN None ELSE writer.doc[Target[writer.update]]]
    BY <1>6 DEF RewriteFile
  <2>2. expected' \in Document
    <3>1. writer.doc[Target[writer.update]] \in Setting /\ None \in Setting
      BY <1>1, UpdateAssumption DEF Document, Setting
    <3> HIDE DEF Setting
    <3> QED
      BY <2>1, <3>1 DEF TypeOK, Document
  <2>3. writer' \in Writer /\ LockOK'
    BY <2>1 DEF Writer, LockOK, Idle
  <2> QED
    BY <2>2, <2>3, <1>2, <1>3, <1>4, TypeStep DEF TypeOK
<1> QED
  BY <1>5, <1>6

LEMMA UnlockBase ==
    ASSUME Base, RefuseFile \/ Fault
    PROVE  Base'
<1> USE DEF Base
<1>1. /\ UNCHANGED <<store, reader, expected, edits>> /\ Witnessed /\ writer' = Idle
      /\ faults' \in 0..MaxFaults
  BY BoundAssumption DEF RefuseFile, Fault, TypeOK
<1>2. FilesOK'
  BY <1>1, BaseFiles DEF FilesOK, Typed, store
<1>3. writer' \in Writer /\ LockOK'
  BY <1>1 DEF Writer, LockOK, Idle
<1> QED
  BY <1>1, <1>2, <1>3, TypeStep DEF TypeOK, StoreOK, store

LEMMA PublishBase ==
    ASSUME Base, Publish
    PROVE  Base'
<1> USE DEF Base
<1>1. /\ UNCHANGED <<sidecar, native, migrated, reader, expected, edits, faults>> /\ Witnessed
      /\ writer' = [phase |-> "publishing"] /\ ~migrated /\ xdg' = Merged
  BY DEF Publish
<1>2. FilesOK'
  BY <1>1, BaseFiles, MergedTyped DEF FilesOK, Typed
<1>3. writer' \in Writer /\ LockOK'
  BY <1>1 DEF Writer, LockOK
<1> QED
  BY <1>1, <1>2, <1>3, TypeStep DEF TypeOK, StoreOK

LEMMA AuthorityBase ==
    ASSUME Base, Flip \/ Rollback
    PROVE  Base'
<1> USE DEF Base
<1>1. /\ UNCHANGED <<sidecar, native, xdg, reader, edits, faults>> /\ Witnessed
      /\ writer' = Idle /\ migrated' \in BOOLEAN /\ expected' \in Document
  BY DEF Flip, Rollback, NoDocument, Document, Setting, TypeOK
<1>2. FilesOK'
  BY <1>1, BaseFiles DEF FilesOK, Typed
<1>3. writer' \in Writer /\ LockOK'
  BY <1>1 DEF Writer, LockOK, Idle
<1> QED
  BY <1>1, <1>2, <1>3, TypeStep DEF TypeOK, StoreOK

(* An edit changes the lines of one setting in one file.                   *)
LEMMA EditEffect ==
    ASSUME FilesOK, StoreOK, NEW f \in File, NEW k \in Listed[f], NEW lines \in Edits[k],
           EditNative(f, k, lines)
    PROVE  /\ k \in Key
           /\ \A g \in File : DOMAIN native'[g] = Key
           /\ \A g \in File : \A j \in Key :
                 native'[g][j] = IF g = f /\ j = k THEN lines ELSE native[g][j]
           /\ native' = [g \in File |-> [j \in Key |-> native'[g][j]]]
           /\ \A g \in File : \A j \in Key : native'[g][j] \in Lines(j)
<1>1. native' = [native EXCEPT ![f][k] = lines]
  BY DEF EditNative
<1>2. k \in Key /\ lines \in Lines(k)
  BY FilesAssumption, BoundAssumption
<1>3. DOMAIN native = File /\ \A g \in File : DOMAIN native[g] = Key
  BY DEF StoreOK, FilesOK
<1>4. \A g \in File : \A j \in Key :
                 native'[g][j] = IF g = f /\ j = k THEN lines ELSE native[g][j]
  BY <1>1, <1>2, <1>3
<1>5. \A g \in File : DOMAIN native'[g] = Key
  BY <1>1, <1>2, <1>3
<1>6. native' = [g \in File |-> [j \in Key |-> native'[g][j]]]
  <2>1. native' = [g \in File |-> native'[g]]
    BY <1>1, <1>3
  <2>2. \A g \in File : native[g] = [j \in Key |-> native[g][j]]
    <3>1. native = [g \in File |-> [j \in Key |-> native[g][j]]]
      BY DEF StoreOK
    <3> QED
      BY <3>1
  <2>3. ASSUME NEW g \in File PROVE native'[g] = [j \in Key |-> native'[g][j]]
    <3>1. CASE g = f
      <4>1. native'[g] = [native[f] EXCEPT ![k] = lines]
        BY <3>1, <1>1, <1>3
      <4>2. native[f] = [j \in Key |-> native[f][j]]
        BY <2>2, Zenon
      <4>3. native'[g] = [j \in Key |-> IF j = k THEN lines ELSE native[f][j]]
        BY <4>1, <1>3, <1>2
      <4> QED
        BY <4>3
    <3>2. CASE g # f
      <4>1. native'[g] = native[g]
        BY <3>2, <1>1, <1>3
      <4> QED
        BY <4>1, <2>2, Zenon
    <3> QED
      BY <3>1, <3>2
  <2> QED
    BY <2>1, <2>3, Zenon
<1>7. \A g \in File : \A j \in Key : native'[g][j] \in Lines(j)
  BY <1>2, <1>4 DEF FilesOK
<1> QED
  BY <1>2, <1>4, <1>5, <1>6, <1>7

LEMMA EditNativeBase ==
    ASSUME Base, NEW f \in File, NEW k \in Listed[f], NEW lines \in Edits[k],
           EditNative(f, k, lines)
    PROVE  Base'
<1> USE DEF Base
<1>1. /\ UNCHANGED <<sidecar, xdg, migrated, reader, faults>> /\ Witnessed
      /\ edits' \in 0..MaxEdits
  BY BoundAssumption DEF EditNative, TypeOK
<1>2. FilesOK'
  BY <1>1, BaseFiles, EditEffect DEF FilesOK, Typed
<1>3. (native = [g \in File |-> [j \in Key |-> native[g][j]]])'
  BY BaseFiles, EditEffect, Zenon
<1>4. expected' \in Document
  <2>1. k \in Key /\ None \in Setting
    BY FilesAssumption DEF Setting
  <2>2. expected' = expected \/ expected' = [expected EXCEPT ![k] = None]
    BY DEF EditNative
  <2> HIDE DEF Setting
  <2> QED
    BY <2>1, <2>2 DEF TypeOK, Document
<1>5. writer' \in Writer /\ LockOK'
  <2>1. CASE writer' = writer
    <3>1. Own' = Own
      BY <2>1 DEF Own
    <3> QED
      BY <2>1, <3>1, <1>1 DEF LockOK, TypeOK
  <2>2. CASE writer.phase = "writing" /\ writer' = [writer EXCEPT !.disturbed = TRUE]
    <3>1. /\ writer' \in [phase : {"writing"}, update : Update, doc : Document,
                             at : 1..Len(Files), disturbed : BOOLEAN]
          /\ writer'.phase = writer.phase /\ writer'.doc = writer.doc
          /\ writer'.update = writer.update /\ writer # Idle
      BY <2>2, WriterForms DEF TypeOK
    <3>2. writer' \in Writer
      BY <3>1 DEF Writer
    <3>3. Own' = Own
      BY <3>1 DEF Own
    <3> QED
      BY <3>1, <3>2, <3>3, <2>2, <1>1 DEF LockOK
  <2> QED
    BY <2>1, <2>2 DEF EditNative
<1> QED
  BY <1>1, <1>2, <1>3, <1>4, <1>5, TypeStep DEF TypeOK

(* A reader changes only what it is doing.                                 *)
LEMMA ReadEffect ==
    ASSUME Base, NEW r \in Reader,
           BeginRead(r) \/ ReadXdg(r) \/ ReadSidecar(r) \/ ReadFile(r) \/ EndRead(r)
    PROVE  /\ UNCHANGED <<store, writer, expected, edits, faults>> /\ Witnessed
           /\ reader'[r] \in Reading
           /\ reader' = [reader EXCEPT ![r] = reader'[r]]
<1> USE DEF Base
<1>1. UNCHANGED <<store, writer, expected, edits, faults>> /\ Witnessed
  BY DEF BeginRead, ReadXdg, ReadSidecar, ReadFile, EndRead
<1>2. DOMAIN reader = Reader /\ reader[r] \in Reading
  BY DEF TypeOK
<1>3. \E x \in Reading : reader' = [reader EXCEPT ![r] = x]
  <2>1. CASE BeginRead(r)
    BY <2>1 DEF BeginRead, Reading
  <2>2. CASE ReadXdg(r)
    BY <2>2 DEF ReadXdg, Reading, TypeOK
  <2>3. CASE ReadSidecar(r)
    <3>1. [phase |-> "native", got |-> sidecar, at |-> 1, listed |-> {}, agreed |-> TRUE]
            \in Reading
      BY FilesAt DEF Reading, TypeOK
    <3> QED
      BY <2>3, <3>1 DEF ReadSidecar
  <2>4. CASE ReadFile(r)
    <3> DEFINE f == Files[reader[r].at]
               new == {k \in Key : Assigned(f, k)} \ reader[r].listed
               got == [k \in Key |-> IF k \in new THEN native[f][k][1] ELSE reader[r].got[k]]
               agreed == reader[r].agreed /\ Agrees(r, f)
    <3>1. /\ reader[r].phase = "native" /\ reader[r].got \in Document
          /\ reader[r].at \in 1..Len(Files) /\ reader[r].listed \in SUBSET Key
          /\ reader[r].agreed \in BOOLEAN
      BY <1>2, <2>4 DEF ReadFile, Reading, Idle
    <3>2. reader' = [reader EXCEPT ![r] =
               IF Conflicting(f) THEN [phase |-> "failed"]
               ELSE IF reader[r].at < Len(Files)
                 THEN [phase |-> "native", got |-> got, at |-> reader[r].at + 1,
                       listed |-> reader[r].listed \cup new, agreed |-> agreed]
               ELSE IF agreed THEN [phase |-> "done", got |-> got]
               ELSE [phase |-> "failed"]]
      BY <2>4 DEF ReadFile
    <3>3. f \in File
      BY <3>1, FilesAt
    <3>4. \A k \in new : native[f][k][1] \in Setting
      BY <3>3, LinesOf DEF Assigned, Setting
    <3>5. got \in Document
      <4> HIDE DEF Setting
      <4> QED
        BY <3>1, <3>4 DEF Document
    <3>6. reader[r].listed \cup new \in SUBSET Key /\ agreed \in BOOLEAN
      BY <3>1 DEF Agrees
    <3> HIDE DEF f, new, got, agreed
    <3>7. CASE Conflicting(f)
      BY <3>2, <3>7 DEF Reading
    <3>8. CASE ~Conflicting(f) /\ reader[r].at < Len(Files)
      <4>1. reader[r].at + 1 \in 1..Len(Files)
        BY <3>1, <3>8, FilesAt
      <4>2. [phase |-> "native", got |-> got, at |-> reader[r].at + 1,
             listed |-> reader[r].listed \cup new, agreed |-> agreed] \in Reading
        BY <3>5, <3>6, <4>1 DEF Reading
      <4> QED
        BY <3>2, <3>8, <4>2
    <3>9. CASE ~Conflicting(f) /\ ~ (reader[r].at < Len(Files))
      <4>1. [phase |-> "done", got |-> got] \in Reading /\ [phase |-> "failed"] \in Reading
        BY <3>5 DEF Reading
      <4> QED
        BY <3>2, <3>9, <4>1
    <3> QED
      BY <3>7, <3>8, <3>9
  <2>5. CASE EndRead(r)
    BY <2>5 DEF EndRead, Reading
  <2> QED
    BY <2>1, <2>2, <2>3, <2>4, <2>5
<1> QED
  BY <1>1, <1>2, <1>3

LEMMA ReadBase ==
    ASSUME Base, NEW r \in Reader,
           BeginRead(r) \/ ReadXdg(r) \/ ReadSidecar(r) \/ ReadFile(r) \/ EndRead(r)
    PROVE  Base'
<1> USE DEF Base
<1>1. UNCHANGED <<store, writer, expected, edits, faults>> /\ Witnessed
  BY ReadEffect
<1>2. reader' \in [Reader -> Reading]
  BY ReadEffect DEF TypeOK
<1>3. FilesOK'
  BY <1>1, BaseFiles DEF FilesOK, Typed, store
<1>4. Own' = Own
  BY <1>1 DEF Own
<1> QED
  BY <1>1, <1>2, <1>3, <1>4, TypeStep DEF TypeOK, StoreOK, LockOK, store

LEMMA BaseStep ==
    Base /\ [Next]_vars => Base'
<1> SUFFICES ASSUME Base, [Next]_vars
             PROVE  Base'
  OBVIOUS
<1>1. ASSUME NEW u \in Update, NEW v \in Values[Target[u]], BeginUpdate(u, v) PROVE Base'
  BY <1>1, BeginUpdateBase
<1>2. CASE Writing
  BY <1>2, RewriteFileBase, UnlockBase, AuthorityBase DEF Writing
<1>3. CASE Fault \/ Publish \/ Rollback
  BY <1>3, UnlockBase, PublishBase, AuthorityBase
<1>4. ASSUME NEW f \in File, NEW k \in Listed[f], NEW lines \in Edits[k],
             EditNative(f, k, lines)
      PROVE  Base'
  BY <1>4, EditNativeBase
<1>5. CASE Reads
  BY <1>5, ReadBase DEF Reads
<1>6. CASE UNCHANGED vars
  BY <1>6 DEF Base, TypeOK, StoreOK, LockOK, Typed, Own, vars, store, history
<1> QED
  BY <1>1, <1>2, <1>3, <1>4, <1>5, <1>6 DEF Next

(* Whatever updates, edits, interruptions, migrations and reads come one   *)
(* after the other or in between each other, the two documents, the native *)
(* files, the writer and the readers hold what they are meant to hold: no  *)
(* half-written document comes to be taken for one.                        *)
THEOREM TypeCorrect == Spec => []TypeOK
<1>1. Base => TypeOK
  BY DEF Base
<1> QED
  BY BaseInit, BaseStep, <1>1, PTL DEF Spec

-----------------------------------------------------------------------------
(* What the files say is what is read under the lock, and no file refuses. *)
LEMMA SaysMerged ==
    ASSUME TypeOK, NEW k \in Key, NEW v, Says(k, v)
    PROVE  Merged[k] = v /\ ~Disagreeing(k) /\ Settled(k)
<1>1. \A f \in File : Assigned(f, k) => native[f][k][1] = v
  BY LinesOf DEF Assigned, Says, AllLines
<1>2. Merged[k] = v
  BY <1>1, MergedFrom DEF Says
<1>3. ~Disagreeing(k)
  BY <1>1 DEF Disagreeing
<1>4. Settled(k)
  BY DEF Settled, Says, AllLines
<1> QED
  BY <1>2, <1>3, <1>4

(* An update that starts keeps what is known of the other settings.        *)
LEMMA BeginUpdateKept ==
    ASSUME Base, KeptOK, NEW u \in Update, NEW v \in Values[Target[u]], BeginUpdate(u, v)
    PROVE  KeptOK' /\ WrittenOK'
<1> USE DEF Base
<1>1. Target[u] \in Key /\ writer = Idle /\ UNCHANGED <<native, migrated>>
  BY UpdateAssumption DEF BeginUpdate
<1>2. CASE migrated
  <2>1. /\ xdg' = [xdg EXCEPT ![Target[u]] = v]
        /\ expected' = [expected EXCEPT ![Target[u]] = v]
        /\ writer' = Idle /\ migrated'
    BY <1>1, <1>2 DEF BeginUpdate
  <2>2. WrittenOK' /\ writer'.phase = "idle"
    BY <2>1 DEF WrittenOK, Idle
  <2>3. ASSUME NEW k \in Key, expected'[k] # None PROVE xdg'[k] = expected'[k]
    BY <2>1, <2>3, <1>1, <1>2 DEF KeptOK, TypeOK, Document
  <2> QED
    BY <2>1, <2>2, <2>3 DEF KeptOK
<1>3. CASE ~migrated
  <2>1. /\ sidecar' = [Merged EXCEPT ![Target[u]] = v]
        /\ writer' = [phase |-> "writing", update |-> u, doc |-> sidecar',
                      at |-> 1, disturbed |-> FALSE]
        /\ expected' = [expected EXCEPT ![Target[u]] = None]
        /\ ~migrated'
    BY <1>1, <1>3 DEF BeginUpdate
  <2>2. WrittenOK'
    BY <2>1 DEF WrittenOK
  <2>3. Own' = Target[u] /\ writer'.phase = "writing"
    BY <2>1 DEF Own
  <2>4. ASSUME NEW k \in Key, expected'[k] # None
        PROVE  k # Target[u] /\ expected'[k] = expected[k] /\ Says(k, expected[k])
    BY <2>1, <2>4, <1>1, <1>3 DEF KeptOK, TypeOK, Document
  <2>5. ASSUME NEW k \in Key, expected'[k] # None
        PROVE  Says(k, expected[k])'
    <3>1. Says(k, expected[k]) /\ k # Target[u] /\ expected'[k] = expected[k]
      BY <2>4, <2>5
    <3>2. sidecar'[k] = Merged[k]
      BY <2>1, <3>1 DEF Merged
    <3>3. Merged[k] = expected[k]
      BY <3>1, SaysMerged
    <3> QED
      BY <3>1, <3>2, <3>3, <1>1 DEF Says, AllLines, Assigned
  <2> QED
    BY <2>1, <2>2, <2>3, <2>4, <2>5 DEF KeptOK
<1> QED
  BY <1>2, <1>3

(* With one line to a setting the rewritten file says the new value only.  *)
LEMMA OneLine ==
    ASSUME MaxLines = 1, RewritesOwn, Base, RewriteFile
    PROVE  Own \in Listed[Files[writer.at]] =>
              \A i \in DOMAIN native'[Files[writer.at]][Own] :
                 native'[Files[writer.at]][Own][i] = writer.doc[Own]
<1> USE DEF Base
<1> SUFFICES ASSUME Own \in Listed[Files[writer.at]]
             PROVE  \A i \in DOMAIN native'[Files[writer.at]][Own] :
                       native'[Files[writer.at]][Own][i] = writer.doc[Own]
  OBVIOUS
<1> DEFINE f == Files[writer.at]
           lines == Rewrite(native[f][Own], writer.doc[Own])
<1>1. f \in File /\ Own \in Key /\ writer.doc[Own] \in Values[Own]
      /\ native'[f][Own] = lines
  BY RewriteEffect
<1>2. lines \in Lines(Own) /\ lines[1] = writer.doc[Own]
  BY <1>1, RewriteLines, LinesOf
<1> HIDE DEF lines
<1>3. DOMAIN lines \subseteq {1}
  <2>1. DOMAIN lines = 1..Len(lines) /\ Len(lines) \in 0..1
    BY <1>2, LinesFacts
  <2> QED
    BY <2>1
<1> QED
  BY <1>1, <1>2, <1>3

LEMMA RewriteFileKept ==
    ASSUME MaxLines = 1, RewritesOwn, Base, KeptOK, WrittenOK, RewriteFile
    PROVE  KeptOK' /\ WrittenOK'
<1> USE DEF Base
<1> DEFINE f == Files[writer.at]
<1>1. /\ writer.phase = "writing" /\ writer.doc \in Document
      /\ writer.at \in 1..Len(Files) /\ writer.at \in Nat
      /\ writer \in [phase : {"writing"}, update : Update, doc : Document,
                             at : 1..Len(Files), disturbed : BOOLEAN]
      /\ writer.disturbed \in BOOLEAN
  BY WriterForms DEF TypeOK, RewriteFile
<1>2. UNCHANGED <<sidecar, xdg, migrated>> /\ ~migrated /\ Own \in Key /\ f \in File
  BY RewriteEffect DEF RewriteFile
<1>3. \A g \in File : \A k \in Key :
         k # Own \/ g # f \/ k \notin Listed[g] => native'[g][k] = native[g][k]
  BY RewriteEffect
<1>4. ASSUME NEW k \in Key, k # Own, expected[k] # None
      PROVE  Says(k, expected[k]) /\ (expected'[k] = expected[k] => Says(k, expected[k])')
  <2>1. Says(k, expected[k])
    BY <1>2, <1>4 DEF KeptOK
  <2>2. \A g \in File : native'[g][k] = native[g][k]
    BY <1>3, <1>4
  <2> QED
    BY <2>1, <2>2, <1>2 DEF Says, AllLines, Assigned
<1>5. expected[Own] = None
  BY <1>1, <1>2 DEF KeptOK
<1>6. ~writer.disturbed =>
         \A j \in 1..writer.at : Own \in Listed[Files[j]] =>
            \A i \in DOMAIN native'[Files[j]][Own] :
               native'[Files[j]][Own][i] = writer.doc[Own]
  <2> SUFFICES ASSUME ~writer.disturbed, NEW j \in 1..writer.at, Own \in Listed[Files[j]]
               PROVE  \A i \in DOMAIN native'[Files[j]][Own] :
                         native'[Files[j]][Own][i] = writer.doc[Own]
    OBVIOUS
  <2>1. CASE j = writer.at
    BY <2>1, OneLine
  <2>2. CASE j # writer.at
    <3>1. j \in 1..(writer.at - 1) /\ j \in 1..Len(Files)
      BY <2>2, <1>1, FilesAt
    <3>2. Files[j] # f /\ Files[j] \in File
      BY <3>1, <2>2, <1>1, FilesAt
    <3>3. native'[Files[j]][Own] = native[Files[j]][Own]
      BY <3>2, <1>3, <1>2
    <3> QED
      BY <3>1, <3>3, <1>1 DEF WrittenOK
  <2> QED
    BY <2>1, <2>2
<1>7. CASE writer.at < Len(Files)
  <2>1. writer' = [writer EXCEPT !.at = writer.at + 1] /\ expected' = expected
    BY <1>7 DEF RewriteFile
  <2>2. /\ writer'.phase = "writing" /\ writer'.doc = writer.doc
        /\ writer'.update = writer.update /\ writer'.at = writer.at + 1
        /\ writer'.disturbed = writer.disturbed
    BY <1>1, <2>1
  <2>3. Own' = Own
    BY <2>2 DEF Own
  <2>4. WrittenOK'
    <3>1. 1..(writer'.at - 1) = 1..writer.at
      BY <2>2, <1>1
    <3> QED
      BY <3>1, <2>2, <2>3, <1>6 DEF WrittenOK
  <2>5. KeptOK'
    BY <2>1, <2>2, <2>3, <1>2, <1>4, <1>5 DEF KeptOK
  <2> QED
    BY <2>4, <2>5
<1>8. CASE ~ (writer.at < Len(Files))
  <2>1. writer' = Idle
        /\ expected' = [expected EXCEPT ![Own] =
                           IF writer.disturbed THEN None ELSE writer.doc[Own]]
    BY <1>8 DEF RewriteFile, Own
  <2>2. writer'.phase = "idle" /\ WrittenOK'
    BY <2>1 DEF WrittenOK, Idle
  <2>3. \A k \in Key : k # Own => expected'[k] = expected[k]
    BY <2>1
  <2>4. ASSUME NEW k \in Key, k = Own, expected'[k] # None
        PROVE  Says(k, expected[k])'
    <3>1. ~writer.disturbed /\ expected'[k] = writer.doc[Own]
      BY <2>1, <2>4, <1>2 DEF TypeOK, Document
    <3>2. \A g \in File : Own \in Listed[g] =>
             \A i \in DOMAIN native'[g][Own] : native'[g][Own][i] = writer.doc[Own]
      <4>1. \A g \in File : \E j \in 1..writer.at : g = Files[j]
        BY <1>1, <1>8, FilesAt
      <4> QED
        BY <4>1, <3>1, <1>6
    <3>3. sidecar'[Own] = writer.doc[Own]
      BY <1>1, <1>2 DEF LockOK
    <3> QED
      BY <2>4, <3>1, <3>2, <3>3 DEF Says, AllLines
  <2> QED
    BY <2>2, <2>3, <2>4, <1>2, <1>4 DEF KeptOK
<1> QED
  BY <1>7, <1>8

LEMMA UnlockKept ==
    ASSUME Base, KeptOK, RefuseFile \/ Fault
    PROVE  KeptOK' /\ WrittenOK'
<1>1. UNCHANGED <<store, expected>> /\ writer' = Idle
  BY DEF RefuseFile, Fault
<1>2. writer'.phase = "idle"
  BY <1>1 DEF Idle
<1> QED
  BY <1>1, <1>2 DEF KeptOK, WrittenOK, Says, AllLines, Assigned, store

(* What is published is what is read under the lock.                       *)
LEMMA PublishKept ==
    ASSUME Base, KeptOK, Publish
    PROVE  KeptOK' /\ WrittenOK'
<1>1. /\ UNCHANGED <<sidecar, native, migrated, expected>> /\ ~migrated
      /\ writer' = [phase |-> "publishing"] /\ xdg' = Merged
  BY DEF Publish
<1>2. writer'.phase = "publishing"
  BY <1>1
<1>3. \A k \in Key : expected[k] # None => Says(k, expected[k]) /\ xdg'[k] = expected[k]
  BY <1>1, SaysMerged DEF KeptOK, Base
<1> QED
  BY <1>1, <1>2, <1>3 DEF KeptOK, WrittenOK, Says, AllLines, Assigned

LEMMA AuthorityKept ==
    ASSUME Base, KeptOK, Flip \/ Rollback
    PROVE  KeptOK' /\ WrittenOK'
<1>1. writer' = Idle /\ writer'.phase = "idle"
  BY DEF Flip, Rollback, Idle
<1>2. CASE Flip
  BY <1>1, <1>2 DEF Flip, KeptOK, WrittenOK
<1>3. CASE Rollback
  <2>1. \A k \in Key : expected'[k] = None
    BY <1>3 DEF Rollback, NoDocument
  <2> QED
    BY <1>1, <2>1 DEF KeptOK, WrittenOK
<1> QED
  BY <1>2, <1>3

(* An edit takes back what was acknowledged of its setting, and marks the  *)
(* update of it that is under way.                                         *)
LEMMA EditNativeKept ==
    ASSUME Base, KeptOK, WrittenOK, NEW f \in File, NEW k \in Listed[f], NEW lines \in Edits[k],
           EditNative(f, k, lines)
    PROVE  KeptOK' /\ WrittenOK'
<1> USE DEF Base
<1>1. UNCHANGED <<sidecar, xdg, migrated>> /\ k \in Key
  BY BaseFiles, EditEffect DEF EditNative
<1>2. \A g \in File : \A j \in Key : j # k => native'[g][j] = native[g][j]
  BY BaseFiles, EditEffect
<1>3. /\ writer'.phase = writer.phase /\ writer'.update = writer.update
      /\ writer'.doc = writer.doc /\ writer'.at = writer.at
      /\ writer.phase = "writing" => Own' = Own
      /\ ~writer'.disturbed /\ writer.phase = "writing" => k # Own /\ ~writer.disturbed
  <2>1. CASE writer' = writer /\ ~ (writer.phase = "writing" /\ k = Own)
    BY <2>1, WriterForms DEF TypeOK, Own, Idle
  <2>2. CASE writer' = [writer EXCEPT !.disturbed = TRUE] /\ writer.phase = "writing"
    BY <2>2, WriterForms DEF TypeOK, Own
  <2> QED
    BY <2>1, <2>2 DEF EditNative, Own
<1>4. WrittenOK'
  <2> SUFFICES ASSUME writer'.phase = "writing", ~writer'.disturbed,
                      NEW j \in 1..(writer.at - 1), Own \in Listed[Files[j]],
                      NEW i \in DOMAIN native'[Files[j]][Own]
               PROVE  native'[Files[j]][Own][i] = writer.doc[Own]
    BY <1>3 DEF WrittenOK
  <2>1. writer.phase = "writing" /\ writer.at \in 1..Len(Files) /\ writer.at \in Nat
        /\ k # Own /\ ~writer.disturbed /\ Own \in Key
    BY <1>3, WriterForms, OwnTyped DEF TypeOK
  <2>2. Files[j] \in File
    BY <2>1, FilesAt
  <2>3. native'[Files[j]][Own] = native[Files[j]][Own]
    BY <2>1, <2>2, <1>2
  <2> QED
    BY <2>1, <2>3 DEF WrittenOK
<1>5. KeptOK'
  <2> SUFFICES ASSUME NEW j \in Key, expected'[j] # None
               PROVE  /\ migrated \/ writer.phase = "publishing" => xdg[j] = expected'[j]
                      /\ ~migrated => Says(j, expected[j])'
                      /\ writer.phase = "writing" => j # Own
    BY <1>1, <1>3 DEF KeptOK
  <2>1. expected'[j] = expected[j] /\ (~migrated => j # k)
    BY <1>1 DEF EditNative, TypeOK, Document
  <2>2. ~migrated => Says(j, expected[j])'
    <3> SUFFICES ASSUME ~migrated
                 PROVE  Says(j, expected[j])'
      OBVIOUS
    <3>1. Says(j, expected[j]) /\ \A g \in File : native'[g][j] = native[g][j]
      BY <2>1, <1>2 DEF KeptOK
    <3> QED
      BY <3>1, <2>1, <1>1 DEF Says, AllLines, Assigned
  <2> QED
    BY <2>1, <2>2 DEF KeptOK
<1> QED
  BY <1>4, <1>5

LEMMA KeptStep ==
    ASSUME MaxLines = 1, RewritesOwn, Base, KeptOK, WrittenOK, [Next]_vars
    PROVE  KeptOK' /\ WrittenOK'
<1>1. ASSUME NEW u \in Update, NEW v \in Values[Target[u]], BeginUpdate(u, v)
      PROVE  KeptOK' /\ WrittenOK'
  BY <1>1, BeginUpdateKept
<1>2. CASE Writing
  BY <1>2, RewriteFileKept, UnlockKept, AuthorityKept DEF Writing
<1>3. CASE Fault \/ Publish \/ Rollback
  BY <1>3, UnlockKept, PublishKept, AuthorityKept
<1>4. ASSUME NEW f \in File, NEW k \in Listed[f], NEW lines \in Edits[k],
             EditNative(f, k, lines)
      PROVE  KeptOK' /\ WrittenOK'
  BY <1>4, EditNativeKept
<1>5. CASE Reads \/ UNCHANGED vars
  <2>1. UNCHANGED <<store, writer, expected>>
    BY <1>5, ReadEffect DEF Reads, vars, history
  <2> QED
    BY <2>1 DEF KeptOK, WrittenOK, Says, AllLines, Assigned, Own, store
<1> QED
  BY <1>1, <1>2, <1>3, <1>4, <1>5 DEF Next

(* Where a file assigns a setting at most once, an update that was         *)
(* acknowledged is what the store holds, in every file that counts, through*)
(* interrupted updates of other settings, publishing and the flip, however *)
(* many files and settings there are.                                      *)
THEOREM UpdatesAreObserved ==
    MaxLines = 1 /\ RewritesOwn => (Spec => []UpdatesObserved)
<1> SUFFICES ASSUME MaxLines = 1, RewritesOwn
             PROVE  Spec => []UpdatesObserved
  OBVIOUS
<1> DEFINE IInv == Base /\ KeptOK /\ WrittenOK
<1>1. Init => IInv
  <2>1. Init => KeptOK /\ WrittenOK
    BY DEF Init, KeptOK, WrittenOK, NoDocument, Idle
  <2> QED
    BY <2>1, BaseInit
<1>2. IInv /\ [Next]_vars => IInv'
  BY BaseStep, KeptStep
<1>3. IInv => UpdatesObserved
  <2> SUFFICES ASSUME Base, KeptOK, NEW k \in Key, expected[k] # None
               PROVE  IF migrated THEN xdg[k] = expected[k]
                      ELSE /\ Merged[k] = expected[k]
                           /\ ~Disagreeing(k)
                           /\ \A f \in File : k \in Listed[f] =>
                                \A i \in DOMAIN native[f][k] : native[f][k][i] = expected[k]
    BY DEF UpdatesObserved
  <2>1. CASE migrated
    BY <2>1 DEF KeptOK
  <2>2. CASE ~migrated
    <3>1. Says(k, expected[k])
      BY <2>2 DEF KeptOK
    <3> QED
      BY <2>2, <3>1, SaysMerged DEF Base, Says, AllLines
  <2> QED
    BY <2>1, <2>2
<1> HIDE DEF IInv
<1> QED
  BY <1>1, <1>2, <1>3, PTL DEF Spec

-----------------------------------------------------------------------------
\* A reader without the lock.

(* A document that can be read has one value for each setting.             *)
LEMMA ReadableSettled ==
    ASSUME TypeOK, LegacyReadable({}), NEW k \in Key
    PROVE  /\ Settled(k) /\ Says(k, Merged[k])
           /\ \A f \in File : Assigned(f, k) => Says(k, native[f][k][1])
<1>1. ASSUME NEW f \in File, k \in Listed[f], NEW i \in DOMAIN native[f][k]
      PROVE  Assigned(f, k) /\ native[f][k][i] = native[f][k][1]
  <2>1. ~Conflicting(f)
    BY DEF LegacyReadable
  <2>2. native[f][k] # <<>> /\ 1 \in DOMAIN native[f][k]
    BY <1>1, LinesOf
  <2> QED
    BY <1>1, <2>1, <2>2 DEF Conflicting, Assigned
<1>2. \A f, g \in File : Assigned(f, k) /\ Assigned(g, k) => native[f][k][1] = native[g][k][1]
  BY DEF LegacyReadable, Disagreeing
<1>3. Settled(k)
  BY <1>1, <1>2 DEF Settled
<1>4. ASSUME NEW f \in File, Assigned(f, k) PROVE Says(k, native[f][k][1])
  BY <1>1, <1>2, <1>4 DEF Says, AllLines
<1>5. Says(k, Merged[k])
  <2>1. CASE /\ \A f \in File : ~Assigned(f, k)
             /\ Merged[k] = sidecar[k]
    BY <1>1, <2>1 DEF Says, AllLines
  <2>2. CASE \E f \in File : Assigned(f, k) /\ Merged[k] = native[f][k][1]
    BY <1>4, <2>2
  <2> QED
    BY <2>1, <2>2, MergedFrom
<1> QED
  BY <1>3, <1>4, <1>5

(* A history of a reader that goes on keeps what it has, and takes in what *)
(* the store is afterwards.                                                *)
LEMMA ShownGoesOn ==
    ASSUME TypeOK, Witnessed, NEW r \in Reader,
           reader'[r] # Idle, reader'[r].phase \notin {"done", "failed"}, ~shown'[r].edited
    PROVE  /\ ~shown[r].edited /\ edits' = edits
           /\ shown'[r].unreadable = (shown[r].unreadable \/ ~Readable')
           /\ \A k \in Key : shown[r].values[k] \subseteq shown'[r].values[k]
           /\ \A k \in Key : migrated' \/ Settled(k)' => Authoritative'[k] \in shown'[r].values[k]
<1>1. CASE shown[r].edited \/ edits' # edits
  BY <1>1 DEF Witnessed, NothingShown
<1>2. CASE ~ (shown[r].edited \/ edits' # edits)
  <2>1. shown'[r] =
          [values |-> [k \in Key |-> shown[r].values[k] \cup
                             IF migrated' \/ Settled(k)' THEN {Authoritative'[k]} ELSE {}],
           unreadable |-> shown[r].unreadable \/ ~Readable',
           edited |-> FALSE]
    BY <1>2 DEF Witnessed
  <2>2. \A k \in Key : shown'[r].values[k] = shown[r].values[k] \cup
                             IF migrated' \/ Settled(k)' THEN {Authoritative'[k]} ELSE {}
    BY <2>1
  <2>3. shown'[r].unreadable = (shown[r].unreadable \/ ~Readable')
    BY <2>1
  <2> QED
    BY <1>2, <2>2, <2>3
<1> QED
  BY <1>1, <1>2

LEMMA ShownEnds ==
    ASSUME Witnessed, NEW r \in Reader, reader'[r].phase \in {"done", "failed"}
    PROVE  shown'[r] = shown[r]
BY DEF Witnessed, Idle

LEMMA ShownFinite ==
    ASSUME Witnessed, NEW r \in Reader, NEW k \in Key, IsFiniteSet(shown[r].values[k])
    PROVE  IsFiniteSet(shown'[r].values[k])
<1>1. IsFiniteSet({})
  BY FS_EmptySet
<1> DEFINE more == IF migrated' \/ Settled(k)' THEN {Authoritative'[k]} ELSE {}
<1>2. IsFiniteSet(shown[r].values[k] \cup more)
  <2>1. CASE migrated' \/ Settled(k)'
    BY <2>1, FS_AddElement
  <2>2. CASE ~ (migrated' \/ Settled(k)')
    <3>1. shown[r].values[k] \cup more = shown[r].values[k]
      BY <2>2
    <3> QED
      BY <3>1
  <2> QED
    BY <2>1, <2>2
<1>3. \/ shown'[r].values[k] = {}
      \/ shown'[r].values[k] = shown[r].values[k]
      \/ shown'[r].values[k] = shown[r].values[k] \cup more
  <2>1. CASE reader'[r] = Idle
    BY <2>1 DEF Witnessed, NothingShown
  <2>2. CASE reader'[r] # Idle /\ reader'[r].phase \in {"done", "failed"}
    BY <2>2 DEF Witnessed
  <2>3. CASE /\ reader'[r] # Idle /\ reader'[r].phase \notin {"done", "failed"}
             /\ shown[r].edited \/ edits' # edits
    BY <2>3 DEF Witnessed, NothingShown
  <2>4. CASE /\ reader'[r] # Idle /\ reader'[r].phase \notin {"done", "failed"}
             /\ ~ (shown[r].edited \/ edits' # edits)
    BY <2>4 DEF Witnessed
  <2> QED
    BY <2>1, <2>2, <2>3, <2>4
<1> QED
  BY <1>1, <1>2, <1>3

(* What the legacy files say is in the history of whoever reads them.      *)
LEMMA SaysMergedAll ==
    TypeOK => \A k \in Key : \A v : Says(k, v) => Merged[k] = v /\ Settled(k)
BY SaysMerged

LEMMA SaysMergedNext ==
    TypeOK' => (\A k \in Key : \A v : Says(k, v) => Merged[k] = v /\ Settled(k))'
BY SaysMergedAll, PTL

LEMMA LegacyGoesOn ==
    ASSUME Base, Base', Witnessed, NEW r \in Reader,
           reader'[r] # Idle, reader'[r].phase \notin {"done", "failed"}, ~shown'[r].edited,
           migrated' => LegacyOK(r) /\ UNCHANGED <<sidecar, native>>
    PROVE  LegacyOK(r)'
<1>1. /\ shown'[r].unreadable = (shown[r].unreadable \/ ~Readable')
      /\ \A k \in Key : shown[r].values[k] \subseteq shown'[r].values[k]
      /\ \A k \in Key : migrated' \/ Settled(k)' => Authoritative'[k] \in shown'[r].values[k]
  BY ShownGoesOn DEF Base
<1>2. CASE ~migrated'
  <2>1. ~shown'[r].unreadable => LegacyReadable({})'
    BY <1>1, <1>2 DEF Readable
  <2>2. Authoritative' = Merged'
    BY <1>2 DEF Authoritative
  <2>3. ASSUME NEW k \in Key, NEW v \in Setting, Says(k, v)'
        PROVE  v \in shown'[r].values[k]
    <3>1. Merged'[k] = v /\ Settled(k)'
      BY <2>3, SaysMergedNext DEF Base
    <3> QED
      BY <3>1, <2>2, <1>1
  <2> QED
    BY <2>1, <2>3 DEF LegacyOK, Seen
<1>3. CASE migrated'
  <2>1. LegacyOK(r) /\ UNCHANGED <<sidecar, native>>
    BY <1>3
  <2>2. ~shown'[r].unreadable => LegacyReadable({})'
    BY <2>1, <1>1 DEF LegacyOK, LegacyReadable, Conflicting, Disagreeing, Assigned
  <2>3. ASSUME NEW k \in Key, NEW v \in Setting, Says(k, v)'
        PROVE  v \in shown'[r].values[k]
    BY <2>3, <2>1, <1>1 DEF LegacyOK, Seen, Says, AllLines, Assigned
  <2> QED
    BY <2>2, <2>3 DEF LegacyOK, Seen
<1> QED
  BY <1>2, <1>3

(* The XDG document a reader has found authoritative is in its history, for*)
(* it is replaced at once, and after a rollback only by what is then       *)
(* authoritative.                                                          *)
LEMMA XdgGoesOn ==
    ASSUME Base, Base', Witnessed, NEW r \in Reader, NEW k \in Key,
           reader'[r] # Idle, reader'[r].phase \notin {"done", "failed"}, ~shown'[r].edited,
           migrated' \/ (Seen(r, k, xdg[k]) /\ xdg' = xdg) \/ Publish
    PROVE  Seen(r, k, xdg[k])'
<1>1. /\ shown[r].values[k] \subseteq shown'[r].values[k]
      /\ migrated' \/ Settled(k)' => Authoritative'[k] \in shown'[r].values[k]
  BY ShownGoesOn DEF Base
<1>2. CASE migrated'
  BY <1>1, <1>2 DEF Authoritative, Seen
<1>3. CASE Seen(r, k, xdg[k]) /\ xdg' = xdg
  BY <1>1, <1>3 DEF Seen
<1>4. CASE Publish
  <2>1. /\ UNCHANGED <<sidecar, native, migrated>> /\ ~migrated /\ LegacyReadable({})
        /\ xdg' = Merged
    BY <1>4 DEF Publish
  <2>2. Says(k, xdg[k])'
    <3>1. Says(k, Merged[k])
      BY <2>1, ReadableSettled DEF Base
    <3> QED
      BY <3>1, <2>1 DEF Says, AllLines, Assigned
  <2>3. Merged'[k] = xdg'[k] /\ Settled(k)'
    BY <2>2, SaysMergedNext DEF Base
  <2> QED
    BY <2>1, <2>3, <1>1 DEF Seen, Authoritative
<1> QED
  BY <1>2, <1>3, <1>4

\* A difference, once seen, stays in the history.
LEMMA DiffersGoesOn ==
    ASSUME NEW r, Differs(r),
           \A k \in Key : shown[r].values[k] \subseteq shown'[r].values[k]
    PROVE  Differs(r)'
<1>1. \A f \in File : Listed[f] \subseteq Key
  BY FilesAssumption
<1> QED
  BY <1>1 DEF Differs

-----------------------------------------------------------------------------
\* A reader in the middle of the files, while others go on.

(* What a reader is doing in the middle of the files.                      *)
LEMMA NativeForms ==
    ASSUME TypeOK, NEW r \in Reader, reader[r].phase = "native"
    PROVE  /\ reader[r].got \in Document /\ reader[r].at \in 1..Len(Files)
           /\ reader[r].at \in Nat /\ reader[r].listed \in SUBSET Key
           /\ reader[r].agreed \in BOOLEAN /\ reader[r] # Idle
<1>1. reader[r] \in Reading
  BY DEF TypeOK
<1> HIDE DEF Document
<1> QED
  BY <1>1, FilesAt DEF Reading, Idle

(* The parts that only the history can change.                             *)
LEMMA NativeGoesOn ==
    ASSUME Base, Base', Witnessed, NEW r \in Reader,
           reader[r].phase = "native", UNCHANGED reader[r], ~shown'[r].edited,
           ReaderOK(r),
           migrated' => UNCHANGED <<sidecar, native>>,
           BehindOK(r)',
           reader[r].agreed =>
              \A k \in Key : \A v \in Setting :
                 Passes(r, k, v)' => Seen(r, k, v) \/ Seen(r, k, v)'
    PROVE  ReaderOK(r)'
<1>1. /\ reader'[r] # Idle /\ reader'[r].phase = "native" /\ reader[r].listed \in SUBSET Key
      /\ reader'[r].phase \notin {"done", "failed"}
  BY NativeForms DEF Base
<1>2. /\ ~shown[r].edited
      /\ shown'[r].unreadable = (shown[r].unreadable \/ ~Readable')
      /\ \A k \in Key : shown[r].values[k] \subseteq shown'[r].values[k]
  BY <1>1, ShownGoesOn DEF Base
<1>3. LegacyOK(r) /\ NativeOK(r)
  BY <1>2 DEF ReaderOK
<1>4. LegacyOK(r)'
  BY <1>1, <1>3, LegacyGoesOn
<1>5. \A k \in Key : \A v : Seen(r, k, v) => Seen(r, k, v)'
  BY <1>2 DEF Seen
<1>6. NativeOK(r)'
  <2>1. reader'[r].agreed =>
           \A k \in Key : \A v \in Setting : Passes(r, k, v)' => Seen(r, k, v)'
    BY <1>5
  <2>2. \A k \in reader'[r].listed :
          /\ \E j \in 1..(reader'[r].at - 1) : k \in Listed[Files[j]]
          /\ ~shown'[r].unreadable => Seen(r, k, reader[r].got[k])'
    BY <1>1, <1>2, <1>3, <1>5 DEF NativeOK, Seen
  <2>3. reader'[r].agreed \/ shown'[r].unreadable \/ Differs(r)'
    BY <1>2, <1>3, DiffersGoesOn DEF NativeOK
  <2> QED
    BY <2>1, <2>2, <2>3 DEF NativeOK
<1>7. \A k \in Key : IsFiniteSet(shown'[r].values[k])
  BY ShownFinite DEF ReaderOK
<1> QED
  BY <1>1, <1>4, <1>6, <1>7 DEF ReaderOK

(* A step that leaves the files alone, and does not go on writing.         *)
LEMMA StillFiles ==
    ASSUME Base, Base', Witnessed, NEW r \in Reader,
           reader[r].phase = "native", UNCHANGED reader[r], ~shown'[r].edited,
           ReaderOK(r), native' = native, migrated' => sidecar' = sidecar,
           writer' = writer \/ writer'.phase # "writing" \/ writer'.at = 1
    PROVE  ReaderOK(r)'
<1>1. ~shown[r].edited /\ reader[r].at \in Nat
  BY NativeForms, ShownGoesOn DEF Base
<1>2. NativeOK(r)
  BY <1>1 DEF ReaderOK
<1>3. BehindOK(r)'
  <2> SUFFICES ASSUME NEW j \in 1..(reader[r].at - 1)
               PROVE
       /\ \A k \in Listed[Files[j]] : \A i \in DOMAIN native[Files[j]][k] :
             i > 1 => AsRead(r, k, native[Files[j]][k][i])'
       /\ writer'.phase = "writing" /\ j < writer'.at /\ Own' \in Listed[Files[j]] =>
             \A i \in DOMAIN native[Files[j]][Own'] :
                \/ native[Files[j]][Own'][i] = writer'.doc[Own']
                \/ (AsRead(r, Own, native[Files[j]][Own][i]))'
    BY DEF BehindOK
  <2>1. \A k \in Listed[Files[j]] : \A i \in DOMAIN native[Files[j]][k] :
             i > 1 => AsRead(r, k, native[Files[j]][k][i])
    BY <1>2 DEF NativeOK, BehindOK
  <2>2. CASE writer' = writer
    <3>1. Own' = Own
      BY <2>2 DEF Own
    <3> QED
      BY <1>2, <2>1, <2>2, <3>1 DEF NativeOK, BehindOK, AsRead
  <2>3. CASE writer'.phase # "writing" \/ writer'.at = 1
    <3>1. ~ (writer'.phase = "writing" /\ j < writer'.at)
      BY <2>3, <1>1
    <3> QED
      BY <2>1, <3>1 DEF AsRead
  <2> QED
    BY <2>2, <2>3
<1>4. reader[r].agreed =>
              \A k \in Key : \A v \in Setting : Passes(r, k, v)' => Seen(r, k, v)
  BY <1>2 DEF NativeOK, Passes, Assigned
<1> QED
  BY <1>3, <1>4, NativeGoesOn

(* What has become of the files a reader has passed, when the update under *)
(* way rewrites the next one.                                              *)
LEMMA RewriteBehind ==
    ASSUME RewritesOwn, Base, RewriteFile, NEW r \in Reader,
           reader[r].phase = "native", BehindOK(r)
    PROVE  BehindOK(r)'
<1> USE DEF Base
<1> DEFINE w == writer.at
           v == writer.doc[Own]
<1>1. /\ writer.phase = "writing" /\ w \in 1..Len(Files) /\ w \in Nat
      /\ writer \in [phase : {"writing"}, update : Update, doc : Document,
                     at : 1..Len(Files), disturbed : BOOLEAN]
  BY WriterForms DEF TypeOK, RewriteFile
<1>2. /\ Files[w] \in File /\ Own \in Key /\ v \in Values[Own]
      /\ \A g \in File : \A k \in Key :
            native'[g][k] = IF g = Files[w] /\ k = Own /\ k \in Listed[g]
                              THEN Rewrite(native[g][k], v) ELSE native[g][k]
  BY RewriteEffect
<1>3. reader[r].at \in 1..Len(Files) /\ reader[r].at \in Nat /\ reader' = reader
  BY NativeForms DEF RewriteFile
<1>4. /\ writer'.phase = "writing" => /\ writer'.at = w + 1 /\ writer'.doc = writer.doc
                                      /\ writer'.update = writer.update
  <2>1. CASE w < Len(Files)
    BY <1>1, <2>1 DEF RewriteFile
  <2>2. CASE ~ (w < Len(Files))
    BY <2>2 DEF RewriteFile, Idle
  <2> QED
    BY <2>1, <2>2
<1> HIDE DEF w, v
<1>5. ASSUME NEW j \in 1..(reader[r].at - 1), NEW k \in Listed[Files[j]],
             NEW i \in DOMAIN native'[Files[j]][k]
      PROVE  /\ \/ i \in DOMAIN native[Files[j]][k]
                     /\ native'[Files[j]][k][i] = native[Files[j]][k][i]
                     /\ (j # w \/ i > 1 \/ k # Own)
                \/ j = w /\ k = Own /\ i = 1 /\ native'[Files[j]][k][i] = v
             /\ j \in 1..Len(Files) /\ Files[j] \in File /\ k \in Key
  <2>1. j \in 1..Len(Files) /\ Files[j] \in File /\ k \in Key
    BY <1>3, FilesAt, FilesAssumption
  <2>2. CASE j = w /\ k = Own
    <3>1. native'[Files[j]][k] = Rewrite(native[Files[j]][k], v)
      BY <1>2, <2>1, <2>2
    <3>2. native[Files[j]][k] \in Lines(k)
      BY <2>1, LinesOf
    <3>3. /\ Rewrite(native[Files[j]][k], v) \in Lines(k)
          /\ Rewrite(native[Files[j]][k], v)[1] = v
          /\ \A x \in DOMAIN Rewrite(native[Files[j]][k], v) :
               x > 1 => x \in DOMAIN native[Files[j]][k]
                        /\ Rewrite(native[Files[j]][k], v)[x] = native[Files[j]][k][x]
      BY <1>2, <2>1, <2>2, <3>2, RewriteLines
    <3>4. i \in Nat /\ i >= 1
      <4>1. DOMAIN native'[Files[j]][k] = 1..Len(native'[Files[j]][k])
            /\ Len(native'[Files[j]][k]) \in 0..MaxLines
        BY <3>1, <3>3, LinesFacts
      <4> QED
        BY <4>1, BoundAssumption
    <3>5. i = 1 \/ i > 1
      BY <3>4
    <3> QED
      BY <2>1, <2>2, <3>1, <3>3, <3>5
  <2>3. CASE ~ (j = w /\ k = Own)
    <3>1. Files[j] # Files[w] \/ k # Own
      BY <2>1, <2>3, <1>1, FilesAt
    <3>2. native'[Files[j]][k] = native[Files[j]][k]
      BY <1>2, <2>1, <3>1
    <3> QED
      BY <2>1, <2>3, <3>2
  <2> QED
    BY <2>2, <2>3
<1>6. ASSUME NEW j \in 1..(reader[r].at - 1), NEW k \in Listed[Files[j]],
             NEW i \in DOMAIN native'[Files[j]][k], i > 1
      PROVE  AsRead(r, k, native'[Files[j]][k][i])
  BY <1>5, <1>6 DEF BehindOK
<1>7. ASSUME NEW j \in 1..(reader[r].at - 1), writer'.phase = "writing", j < writer'.at,
             Own \in Listed[Files[j]], NEW i \in DOMAIN native'[Files[j]][Own]
      PROVE  \/ native'[Files[j]][Own][i] = v
             \/ AsRead(r, Own, native'[Files[j]][Own][i])
  <2>1. CASE j = w
    <3>1. \/ native'[Files[j]][Own][i] = v
          \/ i > 1
      BY <1>5, <1>7, <2>1
    <3> QED
      BY <3>1, <1>6, <1>7
  <2>2. CASE j # w
    <3>1. j < w
      BY <1>1, <1>4, <1>7, <1>3, <2>2
    <3>2. i \in DOMAIN native[Files[j]][Own]
          /\ native'[Files[j]][Own][i] = native[Files[j]][Own][i]
      BY <1>5, <1>7, <2>2
    <3> QED
      BY <1>1, <1>7, <3>1, <3>2 DEF BehindOK, w, v
  <2> QED
    BY <2>1, <2>2
<1>8. writer'.phase = "writing" => Own' = Own /\ writer'.doc[Own] = v
  BY <1>4 DEF Own, v
<1> SUFFICES ASSUME NEW j \in 1..(reader[r].at - 1)
             PROVE
       /\ \A k \in Listed[Files[j]] : \A i \in DOMAIN native'[Files[j]][k] :
             i > 1 => (k \in reader[r].listed
                       /\ (reader[r].agreed => native'[Files[j]][k][i] = reader[r].got[k]))
       /\ writer'.phase = "writing" /\ j < writer'.at /\ Own' \in Listed[Files[j]] =>
             \A i \in DOMAIN native'[Files[j]][Own'] :
                \/ native'[Files[j]][Own'][i] = writer'.doc[Own']
                \/ Own' \in reader[r].listed
                   /\ (reader[r].agreed => native'[Files[j]][Own'][i] = reader[r].got[Own'])
  BY <1>3 DEF BehindOK, AsRead
<1>9. \A k \in Listed[Files[j]] : \A i \in DOMAIN native'[Files[j]][k] :
             i > 1 => (k \in reader[r].listed
                       /\ (reader[r].agreed => native'[Files[j]][k][i] = reader[r].got[k]))
  BY <1>6 DEF AsRead
<1>10. ASSUME writer'.phase = "writing", j < writer'.at, Own' \in Listed[Files[j]],
              NEW i \in DOMAIN native'[Files[j]][Own']
       PROVE  \/ native'[Files[j]][Own'][i] = writer'.doc[Own']
              \/ Own' \in reader[r].listed
                   /\ (reader[r].agreed => native'[Files[j]][Own'][i] = reader[r].got[Own'])
  BY <1>7, <1>8, <1>10 DEF AsRead
<1> QED
  BY <1>9, <1>10

(* What a reader would return then was authoritative, or has just become   *)
(* so: then the update has rewritten every file.                           *)
LEMMA RewritePasses ==
    ASSUME RewritesOwn, Base, RewriteFile, NEW r \in Reader,
           reader[r].phase = "native", BehindOK(r), reader[r].agreed,
           NEW k \in Key, NEW x \in Setting, Passes(r, k, x)'
    PROVE  Passes(r, k, x) \/ Says(k, x)'
<1> USE DEF Base
<1> DEFINE w == writer.at
           v == writer.doc[Own]
<1>1. writer.phase = "writing" /\ w \in 1..Len(Files) /\ w \in Nat
  BY WriterForms DEF TypeOK, RewriteFile
<1>2. /\ Files[w] \in File /\ Own \in Key /\ v \in Values[Own]
      /\ \A g \in File : \A j \in Key :
            native'[g][j] = IF g = Files[w] /\ j = Own /\ j \in Listed[g]
                              THEN Rewrite(native[g][j], v) ELSE native[g][j]
  BY RewriteEffect
<1>3. reader[r].at \in 1..Len(Files) /\ reader[r].at \in Nat /\ reader' = reader
  BY NativeForms DEF RewriteFile
<1> HIDE DEF w, v
<1>4. ASSUME \A j \in reader[r].at..Len(Files) : native'[Files[j]][k] = native[Files[j]][k]
      PROVE  Passes(r, k, x)
  BY <1>3, <1>4 DEF Passes, Assigned
<1>5. CASE k = Own /\ k \in Listed[Files[w]] /\ w >= reader[r].at
  <2>1. w \in reader[r].at..Len(Files)
    BY <1>1, <1>3, <1>5, FilesAt
  <2>2. native'[Files[w]][k] = Rewrite(native[Files[w]][k], v)
    BY <1>2, <1>5
  <2>3. /\ native'[Files[w]][k] # <<>> /\ native'[Files[w]][k][1] = v
        /\ 1 \in DOMAIN native'[Files[w]][k]
    <3>1. native[Files[w]][k] \in Lines(k)
      BY <1>2, LinesOf
    <3> QED
      BY <2>2, <3>1, <1>2, <1>5, RewriteLines, LinesFacts
  <2>4. v = x
    BY <2>1, <2>3, <1>3, <1>5 DEF Passes
  <2>5. k \in reader[r].listed => reader[r].got[k] = x
    BY <1>3 DEF Passes
  <2>6. ASSUME NEW f \in File, k \in Listed[f], NEW i \in DOMAIN native'[f][k]
        PROVE  native'[f][k][i] = x
    <3>1. PICK j \in 1..Len(Files) : f = Files[j]
      BY FilesAt
    <3>2. CASE j >= reader[r].at
      <4>1. j \in reader[r].at..Len(Files)
        BY <3>1, <3>2, <1>3, FilesAt
      <4> QED
        BY <2>6, <3>1, <4>1, <1>3 DEF Passes
    <3>3. CASE ~ (j >= reader[r].at)
      <4>1. j \in 1..(reader[r].at - 1) /\ j < w
        BY <3>3, <1>1, <1>3, <1>5, FilesAt
      <4>2. f # Files[w]
        BY <3>1, <4>1, <1>1, FilesAt
      <4>3. native'[f][k] = native[f][k]
        BY <4>2, <1>2
      <4>4. native[f][k][i] = v \/ AsRead(r, k, native[f][k][i])
        BY <2>6, <3>1, <4>1, <4>3, <1>1, <1>5 DEF BehindOK, w, v
      <4> QED
        BY <4>3, <4>4, <2>4, <2>5 DEF AsRead
    <3> QED
      BY <3>2, <3>3
  <2>7. Says(k, x)'
    BY <2>3, <2>6, <1>2, <1>5 DEF Says, AllLines, Assigned
  <2> QED
    BY <2>7
<1>6. CASE ~ (k = Own /\ k \in Listed[Files[w]] /\ w >= reader[r].at)
  <2>1. ASSUME NEW j \in reader[r].at..Len(Files)
        PROVE  native'[Files[j]][k] = native[Files[j]][k]
    <3>1. j \in 1..Len(Files) /\ Files[j] \in File /\ j >= reader[r].at
      BY <1>3, FilesAt
    <3>2. Files[j] # Files[w] \/ j = w
      BY <3>1, <1>1, FilesAt
    <3> QED
      BY <3>1, <3>2, <1>2, <1>6
  <2> QED
    BY <2>1, <1>4
<1> QED
  BY <1>5, <1>6

LEMMA RewriteReader ==
    ASSUME RewritesOwn, Base, Base', RewriteFile, NEW r \in Reader,
           reader[r].phase = "native", ~shown'[r].edited, ReaderOK(r)
    PROVE  ReaderOK(r)'
<1>1. Witnessed /\ reader' = reader /\ migrated' = migrated /\ ~migrated
  BY RewriteEffect DEF RewriteFile, Base
<1>2. reader'[r] # Idle /\ reader'[r].phase \notin {"done", "failed"}
  BY <1>1, NativeForms DEF Base
<1>3. /\ ~shown[r].edited
      /\ \A k \in Key : migrated' \/ Settled(k)' => Authoritative'[k] \in shown'[r].values[k]
  BY <1>1, <1>2, ShownGoesOn DEF Base
<1>4. BehindOK(r) /\ NativeOK(r)
  BY <1>3 DEF ReaderOK, NativeOK
<1>5. BehindOK(r)'
  BY <1>4, RewriteBehind
<1>6. ASSUME reader[r].agreed, NEW k \in Key, NEW x \in Setting, Passes(r, k, x)'
      PROVE  Seen(r, k, x) \/ Seen(r, k, x)'
  <2>1. CASE Passes(r, k, x)
    BY <2>1, <1>4, <1>6 DEF NativeOK
  <2>2. CASE Says(k, x)'
    <3>1. Merged'[k] = x /\ Settled(k)'
      BY <2>2, SaysMergedNext DEF Base
    <3> QED
      BY <3>1, <1>1, <1>3 DEF Seen, Authoritative
  <2> QED
    BY <2>1, <2>2, <1>4, <1>6, RewritePasses
<1> QED
  BY <1>1, <1>5, <1>6, NativeGoesOn

-----------------------------------------------------------------------------
\* A reader reads on.

\* What r has for k once it has read f.
Got(r, f, k) ==
    IF Assigned(f, k) /\ k \notin reader[r].listed THEN native[f][k][1] ELSE reader[r].got[k]

LEMMA ReadFileEffect ==
    ASSUME Base, NEW r \in Reader, ReadFile(r)
    PROVE  LET f == Files[reader[r].at] IN
           /\ f \in File /\ reader[r].phase = "native"
           /\ \/ Conflicting(f) /\ reader'[r].phase = "failed"
              \/ /\ ~Conflicting(f) /\ reader[r].at < Len(Files)
                 /\ reader'[r].phase = "native" /\ reader'[r].at = reader[r].at + 1
                 /\ reader'[r].listed = reader[r].listed \cup {k \in Key : Assigned(f, k)}
                 /\ reader'[r].agreed = (reader[r].agreed /\ Agrees(r, f))
                 /\ \A k \in Key : reader'[r].got[k] = Got(r, f, k)
              \/ /\ ~Conflicting(f) /\ reader[r].at = Len(Files)
                 /\ reader'[r].phase = "done" /\ reader[r].agreed /\ Agrees(r, f)
                 /\ \A k \in Key : reader'[r].got[k] = Got(r, f, k)
              \/ /\ reader'[r].phase = "failed" /\ ~ (reader[r].agreed /\ Agrees(r, f))
<1> USE DEF Base
<1> DEFINE f == Files[reader[r].at]
           new == {k \in Key : Assigned(f, k)} \ reader[r].listed
           got == [k \in Key |-> IF k \in new THEN native[f][k][1] ELSE reader[r].got[k]]
           agreed == reader[r].agreed /\ Agrees(r, f)
<1>1. /\ reader[r].phase = "native" /\ reader[r].at \in 1..Len(Files) /\ reader[r].at \in Nat
      /\ DOMAIN reader = Reader
  BY NativeForms DEF ReadFile, TypeOK
<1>2. reader'[r] = IF Conflicting(f) THEN [phase |-> "failed"]
               ELSE IF reader[r].at < Len(Files)
                 THEN [phase |-> "native", got |-> got, at |-> reader[r].at + 1,
                       listed |-> reader[r].listed \cup new, agreed |-> agreed]
               ELSE IF agreed THEN [phase |-> "done", got |-> got]
               ELSE [phase |-> "failed"]
  BY <1>1 DEF ReadFile
<1>3. \A k \in Key : got[k] = Got(r, f, k)
  BY DEF Got
<1>4. reader[r].listed \cup new = reader[r].listed \cup {k \in Key : Assigned(f, k)}
  OBVIOUS
<1>5. f \in File /\ (reader[r].at < Len(Files) \/ reader[r].at = Len(Files))
  BY <1>1, FilesAt
<1> HIDE DEF f, new, got, agreed
<1>6. CASE Conflicting(f)
  BY <1>1, <1>2, <1>5, <1>6 DEF f
<1>7. CASE ~Conflicting(f) /\ reader[r].at < Len(Files)
  <2>1. reader'[r] = [phase |-> "native", got |-> got, at |-> reader[r].at + 1,
                      listed |-> reader[r].listed \cup new, agreed |-> agreed]
    BY <1>2, <1>7
  <2>2. /\ reader'[r].phase = "native" /\ reader'[r].at = reader[r].at + 1
        /\ reader'[r].listed = reader[r].listed \cup {k \in Key : Assigned(f, k)}
        /\ reader'[r].agreed = agreed /\ reader'[r].got = got
    BY <2>1, <1>4
  <2> QED
    BY <2>2, <1>1, <1>3, <1>5, <1>7 DEF f, agreed
<1>8. CASE ~Conflicting(f) /\ reader[r].at = Len(Files)
  <2>1. CASE agreed
    <3>1. reader'[r] = [phase |-> "done", got |-> got]
      BY <1>1, <1>2, <1>8, <2>1
    <3> QED
      BY <3>1, <2>1, <1>1, <1>3, <1>5, <1>8 DEF f, agreed
  <2>2. CASE ~agreed
    <3>1. reader'[r] = [phase |-> "failed"]
      BY <1>1, <1>2, <1>8, <2>2
    <3> QED
      BY <3>1, <2>2, <1>1, <1>5 DEF f, agreed
  <2> QED
    BY <2>1, <2>2
<1> QED
  BY <1>5, <1>6, <1>7, <1>8

(* All lines of the file that is read are what the reader has for their    *)
(* setting.                                                                *)
LEMMA LinesRead ==
    ASSUME TypeOK, NEW r \in Reader, NEW f \in File, ~Conflicting(f), Agrees(r, f),
           NEW k \in Key, k \in Listed[f], NEW i \in DOMAIN native[f][k]
    PROVE  Assigned(f, k) /\ native[f][k][i] = Got(r, f, k)
<1>1. native[f][k] # <<>> /\ 1 \in DOMAIN native[f][k]
  BY LinesOf
<1>2. native[f][k][i] = native[f][k][1]
  BY <1>1 DEF Conflicting
<1> QED
  BY <1>1, <1>2 DEF Assigned, Agrees, Got

(* A reader that has got past a file would have done so before.            *)
LEMMA PassesBefore ==
    ASSUME Base, NEW r \in Reader, ReadFile(r), NEW k \in Key, NEW v,
           ~Conflicting(Files[reader[r].at]), Agrees(r, Files[reader[r].at]),
           \A j \in (reader[r].at + 1)..Len(Files) : k \in Listed[Files[j]] =>
              \A i \in DOMAIN native[Files[j]][k] : native[Files[j]][k][i] = v,
           \/ k \in reader[r].listed \/ Assigned(Files[reader[r].at], k)
           \/ \A j \in (reader[r].at + 1)..Len(Files) : ~Assigned(Files[j], k)
           => Got(r, Files[reader[r].at], k) = v
    PROVE  Passes(r, k, v)
<1> USE DEF Base
<1> DEFINE f == Files[reader[r].at]
<1>1. reader[r].at \in 1..Len(Files) /\ reader[r].at \in Nat /\ f \in File
  BY ReadFileEffect, NativeForms
<1>2. ASSUME NEW j \in reader[r].at..Len(Files), k \in Listed[Files[j]],
             NEW i \in DOMAIN native[Files[j]][k]
      PROVE  native[Files[j]][k][i] = v
  <2>1. CASE j = reader[r].at
    <3>1. Assigned(f, k) /\ native[f][k][i] = Got(r, f, k)
      BY <1>1, <1>2, <2>1, LinesRead
    <3> QED
      BY <2>1, <3>1
  <2>2. CASE j # reader[r].at
    <3>1. j \in (reader[r].at + 1)..Len(Files)
      BY <1>1, <2>2, FilesAt
    <3> QED
      BY <3>1, <1>2
  <2> QED
    BY <2>1, <2>2
<1>3. ASSUME k \in reader[r].listed
      PROVE  reader[r].got[k] = v
  BY <1>3 DEF Got
<1>4. ASSUME \A j \in reader[r].at..Len(Files) : ~Assigned(Files[j], k)
      PROVE  reader[r].got[k] = v
  <2>1. \A j \in (reader[r].at + 1)..Len(Files) : j \in reader[r].at..Len(Files)
    BY <1>1, FilesAt
  <2>2. reader[r].at \in reader[r].at..Len(Files)
    BY <1>1, FilesAt
  <2> QED
    BY <1>4, <2>1, <2>2 DEF Got
<1> QED
  BY <1>2, <1>3, <1>4 DEF Passes

(* A file that disagrees with those before it differs from one of them.    *)
LEMMA DisagreeingDiffers ==
    ASSUME Base, NEW r \in Reader, ReadFile(r), LegacyOK(r), NativeOK(r),
           ~ (reader[r].agreed /\ Agrees(r, Files[reader[r].at]))
    PROVE  shown[r].unreadable \/ Differs(r)
<1> USE DEF Base
<1> DEFINE f == Files[reader[r].at]
<1> SUFFICES ASSUME ~shown[r].unreadable, reader[r].agreed, ~Agrees(r, f)
             PROVE  Differs(r)
  BY DEF NativeOK
<1>1. f \in File /\ reader[r].at \in 1..Len(Files) /\ reader[r].at \in Nat
      /\ reader[r].listed \subseteq Key
  BY ReadFileEffect, NativeForms
<1>2. PICK k \in reader[r].listed : Assigned(f, k) /\ native[f][k][1] # reader[r].got[k]
  BY DEF Agrees
<1>3. PICK j \in 1..(reader[r].at - 1) : k \in Listed[Files[j]]
  BY DEF NativeOK
<1>4. Files[j] # f /\ Files[j] \in File
  BY <1>1, FilesAt
<1>5. Seen(r, k, reader[r].got[k])
  BY DEF NativeOK
<1>6. Seen(r, k, native[f][k][1])
  <2>1. Says(k, native[f][k][1])
    BY <1>1, <1>2, ReadableSettled DEF LegacyOK
  <2>2. native[f][k][1] \in Setting
    BY <1>1, <1>2, LinesOf DEF Assigned, Setting
  <2> QED
    BY <1>1, <2>1, <2>2 DEF LegacyOK
<1>7. k \in Listed[f] \cap Listed[Files[j]]
  BY <1>2, <1>3 DEF Assigned
<1> HIDE DEF f
<1> QED
  BY <1>1, <1>2, <1>4, <1>5, <1>6, <1>7 DEF Differs, Seen

LEMMA ReadFileReader ==
    ASSUME Base, Base', NEW r \in Reader, ReadFile(r), ReaderOK(r)
    PROVE  ReaderOK(r)'
<1> USE DEF Base
<1> DEFINE f == Files[reader[r].at]
<1>1. /\ f \in File /\ reader[r].phase = "native" /\ reader[r].at \in 1..Len(Files)
      /\ reader[r].at \in Nat /\ reader[r].listed \in SUBSET Key
      /\ reader[r].agreed \in BOOLEAN
  BY ReadFileEffect, NativeForms
<1>2. UNCHANGED <<sidecar, native, xdg, migrated, writer>> /\ Witnessed
  BY DEF ReadFile, store
<1>3. \A k \in Key : IsFiniteSet(shown'[r].values[k])
  BY <1>2, ShownFinite DEF ReaderOK
<1>4. CASE reader'[r].phase = "failed"
  <2>1. shown'[r] = shown[r]
    BY <1>2, <1>4, ShownEnds
  <2>2. ASSUME ~shown[r].edited PROVE shown[r].unreadable \/ Differs(r)
    <3>1. LegacyOK(r) /\ NativeOK(r)
      BY <1>1, <2>2 DEF ReaderOK
    <3>2. CASE Conflicting(f)
      BY <1>1, <3>1, <3>2 DEF LegacyOK, LegacyReadable
    <3>3. CASE ~ (reader[r].agreed /\ Agrees(r, f))
      BY <3>1, <3>3, DisagreeingDiffers
    <3> QED
      BY <1>4, <3>2, <3>3, ReadFileEffect
  <2>3. Differs(r) => Differs(r)'
    BY <2>1 DEF Differs
  <2> QED
    BY <1>3, <1>4, <2>1, <2>2, <2>3 DEF ReaderOK
<1>5. CASE reader'[r].phase = "done"
  <2>1. shown'[r] = shown[r]
    BY <1>2, <1>5, ShownEnds
  <2>2. /\ ~Conflicting(f) /\ reader[r].at = Len(Files) /\ reader[r].agreed /\ Agrees(r, f)
        /\ \A k \in Key : reader'[r].got[k] = Got(r, f, k)
    BY <1>5, ReadFileEffect
  <2>3. ASSUME ~shown[r].edited, NEW k \in Key PROVE Seen(r, k, reader'[r].got[k])
    <3>1. Passes(r, k, Got(r, f, k))
      <4>1. \A j \in (reader[r].at + 1)..Len(Files) : FALSE
        BY <1>1, <2>2
      <4> QED
        BY <2>2, <4>1, PassesBefore
    <3>2. Got(r, f, k) \in Setting
      <4>1. reader'[r] \in Reading /\ reader'[r] # Idle
        BY <1>5 DEF TypeOK, Idle
      <4>2. reader'[r].got \in Document
        BY <4>1, <1>5 DEF Reading
      <4> QED
        BY <2>2, <4>2 DEF Document
    <3> QED
      BY <1>1, <2>2, <2>3, <3>1, <3>2 DEF ReaderOK, NativeOK
  <2> QED
    BY <1>3, <1>5, <2>1, <2>3 DEF ReaderOK, Seen
<1>6. CASE reader'[r].phase = "native"
  <2>1. /\ ~Conflicting(f) /\ reader[r].at < Len(Files)
        /\ reader'[r].at = reader[r].at + 1
        /\ reader'[r].listed = reader[r].listed \cup {k \in Key : Assigned(f, k)}
        /\ reader'[r].agreed = (reader[r].agreed /\ Agrees(r, f))
        /\ \A k \in Key : reader'[r].got[k] = Got(r, f, k)
    BY <1>6, ReadFileEffect
  <2> SUFFICES ASSUME ~shown'[r].edited
               PROVE  LegacyOK(r)' /\ NativeOK(r)'
    BY <1>3, <1>6 DEF ReaderOK
  <2>2. reader'[r] # Idle /\ reader'[r].phase \notin {"done", "failed"}
    BY <1>6 DEF Idle
  <2>3. /\ ~shown[r].edited
        /\ shown'[r].unreadable = (shown[r].unreadable \/ ~Readable')
        /\ \A k \in Key : shown[r].values[k] \subseteq shown'[r].values[k]
    BY <1>2, <2>2, ShownGoesOn
  <2>4. LegacyOK(r) /\ NativeOK(r)
    BY <1>1, <2>3 DEF ReaderOK
  <2>5. LegacyOK(r)'
    BY <1>2, <2>2, <2>4, LegacyGoesOn
  <2>6. \A k \in reader[r].listed : reader'[r].got[k] = reader[r].got[k]
    BY <1>1, <2>1 DEF Got
  <2> DEFINE Now(k, line) == /\ k \in reader'[r].listed
                             /\ reader'[r].agreed => line = reader'[r].got[k]
  <2>7. ASSUME NEW k \in Key, NEW line, AsRead(r, k, line) PROVE Now(k, line)
    BY <2>1, <2>6, <2>7 DEF AsRead
  <2>8. ASSUME NEW k \in Listed[f], NEW i \in DOMAIN native[f][k]
        PROVE  Now(k, native[f][k][i])
    <3>1. k \in Key /\ Assigned(f, k)
      BY <1>1, LinesOf, FilesAssumption DEF Assigned
    <3>2. Agrees(r, f) => native[f][k][i] = Got(r, f, k)
      BY <1>1, <2>1, <3>1, LinesRead
    <3> QED
      BY <2>1, <3>1, <3>2
  <2>9. BehindOK(r)'
    <3>1. Own' = Own /\ UNCHANGED <<writer, native>>
      BY <1>2 DEF Own
    <3>2. ASSUME NEW j \in 1..(reader'[r].at - 1)
          PROVE
       /\ \A k \in Listed[Files[j]] : \A i \in DOMAIN native[Files[j]][k] :
             i > 1 => Now(k, native[Files[j]][k][i])
       /\ writer.phase = "writing" /\ j < writer.at /\ Own \in Listed[Files[j]] =>
             \A i \in DOMAIN native[Files[j]][Own] :
                \/ native[Files[j]][Own][i] = writer.doc[Own]
                \/ Now(Own, native[Files[j]][Own][i])
      <4>1. j \in 1..(reader[r].at - 1) \/ j = reader[r].at
        BY <1>1, <2>1
      <4>2. j \in 1..Len(Files)
        BY <1>1, <4>1, FilesAt
      <4>3. Files[j] \in File
        BY <4>2, FilesAt
      <4>4. Listed[Files[j]] \subseteq Key
        BY <4>3, FilesAssumption
      <4>5. CASE j = reader[r].at
        BY <2>8, <4>5
      <4>6. CASE j \in 1..(reader[r].at - 1)
        <5>1. /\ \A k \in Listed[Files[j]] : \A i \in DOMAIN native[Files[j]][k] :
                     i > 1 => AsRead(r, k, native[Files[j]][k][i])
              /\ writer.phase = "writing" /\ j < writer.at /\ Own \in Listed[Files[j]] =>
                     \A i \in DOMAIN native[Files[j]][Own] :
                        \/ native[Files[j]][Own][i] = writer.doc[Own]
                        \/ AsRead(r, Own, native[Files[j]][Own][i])
          BY <2>4, <4>6 DEF NativeOK, BehindOK
        <5> HIDE DEF Now
        <5> QED
          BY <5>1, <4>4, <2>7
      <4> QED
        BY <4>1, <4>5, <4>6
    <3> QED
      BY <3>1, <3>2 DEF BehindOK, AsRead
  <2>10. ASSUME reader'[r].agreed, NEW k \in Key, NEW v \in Setting, Passes(r, k, v)'
         PROVE  Seen(r, k, v)'
    <3>1. \A j \in (reader[r].at + 1)..Len(Files) : k \in Listed[Files[j]] =>
             \A i \in DOMAIN native[Files[j]][k] : native[Files[j]][k][i] = v
      BY <1>2, <2>1, <2>10 DEF Passes
    <3>2. \/ k \in reader[r].listed \/ Assigned(f, k)
          \/ \A j \in (reader[r].at + 1)..Len(Files) : ~Assigned(Files[j], k)
          => Got(r, f, k) = v
      BY <1>2, <2>1, <2>10 DEF Passes, Assigned
    <3>3. Passes(r, k, v)
      BY <2>1, <2>10, <3>1, <3>2, PassesBefore
    <3> QED
      BY <2>1, <2>3, <2>4, <2>10, <3>3 DEF NativeOK, Seen
  <2>11. ASSUME NEW k \in reader'[r].listed
         PROVE  /\ \E j \in 1..(reader'[r].at - 1) : k \in Listed[Files[j]]
                /\ ~shown'[r].unreadable => reader'[r].got[k] \in shown'[r].values[k]
    <3>1. CASE k \in reader[r].listed
      <4>1. \E j \in 1..(reader[r].at - 1) : k \in Listed[Files[j]]
        BY <2>4, <3>1 DEF NativeOK
      <4>2. \A j \in 1..(reader[r].at - 1) : j \in 1..(reader'[r].at - 1)
        BY <1>1, <2>1
      <4>3. ~shown'[r].unreadable => reader'[r].got[k] \in shown'[r].values[k]
        BY <1>1, <2>3, <2>4, <2>6, <3>1 DEF NativeOK, Seen
      <4> QED
        BY <4>1, <4>2, <4>3
    <3>2. CASE k \notin reader[r].listed
      <4>1. k \in Key /\ Assigned(f, k) /\ reader'[r].got[k] = native[f][k][1]
        BY <1>1, <2>1, <2>11, <3>2 DEF Got
      <4>2. reader[r].at \in 1..(reader'[r].at - 1)
        BY <1>1, <2>1
      <4>3. ASSUME ~shown'[r].unreadable PROVE Seen(r, k, native[f][k][1])
        <5>1. Says(k, native[f][k][1])
          BY <1>1, <2>3, <2>4, <4>1, <4>3, ReadableSettled DEF LegacyOK
        <5>2. native[f][k][1] \in Setting
          BY <1>1, <4>1, LinesOf DEF Assigned, Setting
        <5> QED
          BY <4>1, <5>1, <5>2, <2>4 DEF LegacyOK
      <4> QED
        BY <4>1, <4>2, <4>3, <2>3 DEF Assigned, Seen
    <3> QED
      BY <3>1, <3>2
  <2>12. reader'[r].agreed \/ shown'[r].unreadable \/ Differs(r)'
    <3>1. ~reader'[r].agreed => shown[r].unreadable \/ Differs(r)
      BY <2>1, <2>4, DisagreeingDiffers
    <3> QED
      BY <3>1, <2>3, DiffersGoesOn
  <2>13. NativeOK(r)'
    BY <2>9, <2>10, <2>11, <2>12 DEF NativeOK, Seen
  <2> QED
    BY <2>5, <2>13
<1> QED
  BY <1>4, <1>5, <1>6, ReadFileEffect

(* A read begins with the authority, then takes the document it names.     *)
LEMMA ReadBegins ==
    ASSUME Base, Base', NEW r \in Reader, ReaderOK(r),
           BeginRead(r) \/ ReadXdg(r) \/ ReadSidecar(r) \/ EndRead(r)
    PROVE  ReaderOK(r)'
<1> USE DEF Base
<1>1. UNCHANGED <<sidecar, native, xdg, migrated, writer>> /\ Witnessed /\ DOMAIN reader = Reader
  BY DEF BeginRead, ReadXdg, ReadSidecar, EndRead, store, TypeOK
<1>2. \A k \in Key : IsFiniteSet(shown'[r].values[k])
  BY <1>1, ShownFinite DEF ReaderOK
<1>3. CASE BeginRead(r)
  <2>1. reader'[r] = [phase |-> IF migrated THEN "xdg" ELSE "sidecar"]
    BY <1>1, <1>3 DEF BeginRead
  <2>2. reader'[r] # Idle /\ reader'[r].phase \notin {"done", "failed"}
    BY <2>1 DEF Idle
  <2>3. CASE migrated
    <3>1. reader'[r].phase = "xdg"
      BY <2>1, <2>3
    <3>2. ~shown'[r].edited => \A k \in Key : Seen(r, k, xdg[k])'
      BY <1>1, <2>2, <2>3, XdgGoesOn
    <3> QED
      BY <1>2, <3>1, <3>2 DEF ReaderOK
  <2>4. CASE ~migrated
    <3>1. reader'[r].phase = "sidecar"
      BY <2>1, <2>4
    <3>2. ~shown'[r].edited => LegacyOK(r)'
      BY <1>1, <2>2, <2>4, LegacyGoesOn
    <3> QED
      BY <1>2, <3>1, <3>2 DEF ReaderOK
  <2> QED
    BY <2>3, <2>4
<1>4. CASE ReadXdg(r)
  <2>1. reader'[r] = [phase |-> "done", got |-> xdg] /\ reader[r].phase = "xdg"
    BY <1>1, <1>4 DEF ReadXdg
  <2>2. reader'[r].phase = "done" /\ reader'[r].got = xdg /\ shown'[r] = shown[r]
    BY <1>1, <2>1, ShownEnds
  <2> QED
    BY <1>2, <2>1, <2>2 DEF ReaderOK, Seen
<1>5. CASE ReadSidecar(r)
  <2>1. reader'[r] = [phase |-> "native", got |-> sidecar, at |-> 1,
                      listed |-> {}, agreed |-> TRUE] /\ reader[r].phase = "sidecar"
    BY <1>1, <1>5 DEF ReadSidecar
  <2>2. /\ reader'[r] # Idle /\ reader'[r].phase = "native"
        /\ reader'[r].got = sidecar /\ reader'[r].at = 1 /\ reader'[r].listed = {}
        /\ reader'[r].agreed
    BY <2>1 DEF Idle
  <2> SUFFICES ASSUME ~shown'[r].edited
               PROVE  LegacyOK(r)' /\ NativeOK(r)'
    BY <1>2, <2>2 DEF ReaderOK
  <2>3. ~shown[r].edited /\ \A k \in Key : shown[r].values[k] \subseteq shown'[r].values[k]
    BY <1>1, <2>2, ShownGoesOn
  <2>4. LegacyOK(r)
    BY <2>1, <2>3 DEF ReaderOK
  <2>5. LegacyOK(r)'
    BY <1>1, <2>2, <2>4, LegacyGoesOn
  <2>6. ASSUME NEW k \in Key, NEW v \in Setting, Passes(r, k, v)'
        PROVE  Seen(r, k, v)'
    <3>1. \A f \in File : \E j \in reader'[r].at..Len(Files) : f = Files[j]
      BY <2>2, FilesAt
    <3>2. Says(k, v)
      <4>1. ASSUME NEW f \in File, k \in Listed[f], NEW i \in DOMAIN native[f][k]
            PROVE  native[f][k][i] = v
        <5>1. PICK j \in reader'[r].at..Len(Files) : f = Files[j]
          BY <3>1
        <5>2. k \in Listed[Files[j]] =>
                \A n \in DOMAIN native'[Files[j]][k] : native'[Files[j]][k][n] = v
          BY <2>6 DEF Passes
        <5> QED
          BY <1>1, <4>1, <5>1, <5>2
      <4>2. ASSUME \A f \in File : ~Assigned(f, k)
            PROVE  sidecar[k] = v
        <5>1. \A j \in reader'[r].at..Len(Files) : Files[j] \in File
          BY <2>2, FilesAt
        <5>2. \A j \in reader'[r].at..Len(Files) : ~Assigned(Files[j], k)'
          BY <1>1, <4>2, <5>1 DEF Assigned
        <5> QED
          BY <2>2, <2>6, <5>2 DEF Passes
      <4> QED
        BY <4>1, <4>2 DEF Says, AllLines
    <3> QED
      BY <2>3, <2>4, <2>6, <3>2 DEF LegacyOK, Seen
  <2>7. BehindOK(r)'
    BY <2>2 DEF BehindOK
  <2> QED
    BY <2>2, <2>5, <2>6, <2>7 DEF NativeOK
<1>6. CASE EndRead(r)
  <2>1. reader'[r].phase = "idle"
    BY <1>1, <1>6 DEF EndRead, Idle
  <2> QED
    BY <1>2, <2>1 DEF ReaderOK
<1> QED
  BY <1>3, <1>4, <1>5, <1>6

(* Steps of others that leave the files alone, and do not go on writing.   *)
LEMMA OthersGoOn ==
    ASSUME Base, Base', Witnessed, NEW r \in Reader, ReaderOK(r), UNCHANGED reader[r],
           native' = native, migrated' => sidecar' = sidecar,
           writer' = writer \/ writer'.phase # "writing" \/ writer'.at = 1,
           migrated' \/ xdg' = xdg \/ Publish
    PROVE  ReaderOK(r)'
<1> USE DEF Base
<1>1. \A k \in Key : IsFiniteSet(shown'[r].values[k])
  BY ShownFinite DEF ReaderOK
<1>2. reader'[r] # Idle => reader'[r].phase # "idle"
  <2>1. reader'[r] \in Reading
    BY DEF TypeOK
  <2> QED
    BY <2>1 DEF Reading
<1>3. CASE reader'[r] = Idle
  BY <1>1, <1>3 DEF ReaderOK, Idle
<1>4. CASE reader'[r].phase \in {"done", "failed"}
  <2>1. shown'[r] = shown[r]
    BY <1>4, ShownEnds
  <2>2. Differs(r) => Differs(r)'
    BY <2>1 DEF Differs
  <2> QED
    BY <1>1, <1>4, <2>1, <2>2 DEF ReaderOK, Seen
<1>5. CASE reader'[r] # Idle /\ reader'[r].phase \notin {"done", "failed"}
  <2> SUFFICES ASSUME ~shown'[r].edited
               PROVE  ReaderOK(r)'
    BY <1>1 DEF ReaderOK
  <2>1. ~shown[r].edited
    BY <1>5, ShownGoesOn
  <2>2. CASE reader'[r].phase = "native"
    BY <2>2, StillFiles
  <2>3. CASE reader'[r].phase = "sidecar"
    <3>1. LegacyOK(r)'
      BY <1>5, <2>1, <2>3, LegacyGoesOn DEF ReaderOK
    <3> QED
      BY <1>1, <2>3, <3>1 DEF ReaderOK
  <2>4. CASE reader'[r].phase = "xdg"
    <3>1. \A k \in Key : Seen(r, k, xdg[k])'
      BY <1>5, <2>1, <2>4, XdgGoesOn DEF ReaderOK
    <3> QED
      BY <1>1, <2>4, <3>1 DEF ReaderOK
  <2> QED
    BY <1>1, <1>5, <2>2, <2>3, <2>4 DEF ReaderOK
<1> QED
  BY <1>3, <1>4, <1>5

(* An edit by hand takes every reader that is under way out of the account.*)
LEMMA EditReader ==
    ASSUME Base, Base', NEW f \in File, NEW k \in Listed[f], NEW lines \in Edits[k],
           EditNative(f, k, lines), NEW r \in Reader, ReaderOK(r)
    PROVE  ReaderOK(r)'
<1> USE DEF Base
<1>1. Witnessed /\ reader' = reader /\ edits' # edits
  BY DEF EditNative, TypeOK
<1>2. \A j \in Key : IsFiniteSet(shown'[r].values[j])
  BY <1>1, ShownFinite DEF ReaderOK
<1>3. CASE reader'[r] = Idle
  BY <1>2, <1>3 DEF ReaderOK, Idle
<1>4. CASE reader'[r].phase \in {"done", "failed"}
  <2>1. shown'[r] = shown[r]
    BY <1>1, <1>4, ShownEnds
  <2>2. Differs(r) => Differs(r)'
    BY <2>1 DEF Differs
  <2> QED
    BY <1>1, <1>2, <1>4, <2>1, <2>2 DEF ReaderOK, Seen
<1>5. CASE reader'[r] # Idle /\ reader'[r].phase \notin {"done", "failed"}
  <2>1. shown'[r].edited
    BY <1>1, <1>5, ShownGoesOn
  <2> QED
    BY <1>2, <2>1 DEF ReaderOK
<1> QED
  BY <1>3, <1>4, <1>5

LEMMA RewriteOthers ==
    ASSUME RewritesOwn, Base, Base', RewriteFile, NEW r \in Reader, ReaderOK(r)
    PROVE  ReaderOK(r)'
<1> USE DEF Base
<1>1. /\ Witnessed /\ reader' = reader /\ xdg' = xdg /\ migrated' = migrated /\ ~migrated
  BY RewriteEffect DEF RewriteFile
<1>2. \A k \in Key : IsFiniteSet(shown'[r].values[k])
  BY <1>1, ShownFinite DEF ReaderOK
<1>3. CASE reader'[r] = Idle
  BY <1>2, <1>3 DEF ReaderOK, Idle
<1>4. CASE reader'[r].phase \in {"done", "failed"}
  <2>1. shown'[r] = shown[r]
    BY <1>1, <1>4, ShownEnds
  <2>2. Differs(r) => Differs(r)'
    BY <2>1 DEF Differs
  <2> QED
    BY <1>1, <1>2, <1>4, <2>1, <2>2 DEF ReaderOK, Seen
<1>5. CASE reader'[r] # Idle /\ reader'[r].phase \notin {"done", "failed"}
  <2> SUFFICES ASSUME ~shown'[r].edited
               PROVE  ReaderOK(r)'
    BY <1>2 DEF ReaderOK
  <2>1. ~shown[r].edited
    BY <1>1, <1>5, ShownGoesOn
  <2>2. CASE reader'[r].phase = "native"
    BY <1>1, <2>2, RewriteReader
  <2>3. CASE reader'[r].phase = "sidecar"
    <3>1. LegacyOK(r)'
      BY <1>1, <1>5, LegacyGoesOn
    <3> QED
      BY <1>2, <2>3, <3>1 DEF ReaderOK
  <2>4. CASE reader'[r].phase = "xdg"
    <3>1. \A k \in Key : Seen(r, k, xdg[k])'
      BY <1>1, <1>5, <2>1, <2>4, XdgGoesOn DEF ReaderOK
    <3> QED
      BY <1>2, <2>4, <3>1 DEF ReaderOK
  <2>5. reader'[r].phase \in {"native", "sidecar", "xdg"}
    <3>1. reader'[r] \in Reading
      BY DEF TypeOK
    <3> QED
      BY <3>1, <1>5 DEF Reading, Idle
  <2> QED
    BY <2>2, <2>3, <2>4, <2>5
<1> QED
  BY <1>3, <1>4, <1>5

LEMMA ReadersStep ==
    ASSUME RewritesOwn, Base, Base', [Next]_vars, ReadersOK
    PROVE  ReadersOK'
<1> SUFFICES ASSUME NEW r \in Reader
             PROVE  ReaderOK(r)'
  BY DEF ReadersOK
<1> USE DEF Base
<1>0. ReaderOK(r)
  BY DEF ReadersOK
<1>1. ASSUME NEW u \in Update, NEW v \in Values[Target[u]], BeginUpdate(u, v)
      PROVE  ReaderOK(r)'
  <2>1. /\ Witnessed /\ UNCHANGED <<native, migrated, reader>> /\ writer = Idle
        /\ migrated => sidecar' = sidecar
        /\ migrated \/ xdg' = xdg
        /\ writer' = writer \/ writer'.at = 1
    BY <1>1 DEF BeginUpdate
  <2> QED
    BY <1>0, <2>1, OthersGoOn
<1>2. CASE RewriteFile
  BY <1>0, <1>2, RewriteOthers
<1>3. CASE RefuseFile \/ Fault \/ Flip \/ Rollback \/ Publish
  <2>1. /\ Witnessed /\ UNCHANGED <<sidecar, native, reader>> /\ writer'.phase # "writing"
        /\ xdg' = xdg \/ Publish
    BY <1>3 DEF RefuseFile, Fault, Flip, Rollback, Publish, Idle, store
  <2> QED
    BY <1>0, <2>1, OthersGoOn
<1>4. ASSUME NEW f \in File, NEW k \in Listed[f], NEW lines \in Edits[k],
             EditNative(f, k, lines)
      PROVE  ReaderOK(r)'
  BY <1>0, <1>4, EditReader
<1>5. ASSUME NEW q \in Reader,
             BeginRead(q) \/ ReadXdg(q) \/ ReadSidecar(q) \/ ReadFile(q) \/ EndRead(q)
      PROVE  ReaderOK(r)'
  <2>1. CASE q = r
    BY <1>0, <1>5, <2>1, ReadBegins, ReadFileReader
  <2>2. CASE q # r
    <3>1. /\ UNCHANGED <<sidecar, native, xdg, migrated, writer>> /\ Witnessed
          /\ reader' = [reader EXCEPT ![q] = reader'[q]]
      BY <1>5, ReadEffect DEF store
    <3>2. reader'[r] = reader[r]
      BY <2>2, <3>1 DEF TypeOK
    <3> QED
      BY <1>0, <3>1, <3>2, OthersGoOn
  <2> QED
    BY <2>1, <2>2
<1>6. CASE UNCHANGED vars
  <2>1. UNCHANGED <<sidecar, native, xdg, migrated, writer, reader, shown>>
    BY <1>6 DEF vars, store, history
  <2> QED
    BY <1>0, <2>1
       DEF ReaderOK, LegacyOK, NativeOK, BehindOK, Passes, AsRead, Seen, Differs, Says, AllLines,
           Assigned, LegacyReadable, Conflicting, Disagreeing, Own
<1> QED
  BY <1>1, <1>2, <1>3, <1>4, <1>5, <1>6 DEF Next, Writing, Reads

LEMMA ReadersInit ==
    Init => ReadersOK
<1> SUFFICES ASSUME Init, NEW r \in Reader
             PROVE  ReaderOK(r)
  BY DEF ReadersOK
<1>1. reader[r].phase = "idle" /\ \A k \in Key : shown[r].values[k] = {}
  BY DEF Init, Idle, NothingShown
<1>2. \A k \in Key : IsFiniteSet(shown[r].values[k])
  BY <1>1, FS_EmptySet
<1> QED
  BY <1>1, <1>2 DEF ReaderOK

LEMMA ReadersInvariant ==
    ASSUME RewritesOwn
    PROVE  Spec => [](Base /\ ReadersOK)
<1>1. Init => Base /\ ReadersOK
  BY BaseInit, ReadersInit
<1>2. Base /\ ReadersOK /\ [Next]_vars => (Base /\ ReadersOK)'
  BY BaseStep, ReadersStep
<1> QED
  BY <1>1, <1>2, PTL DEF Spec

(* A read that takes no lock, and that updates of any number of files, half*)
(* done ones included, migrations and rollbacks overlap in any way, shows  *)
(* for each setting a value that was authoritative during the read and on  *)
(* which the files then agreed, unless somebody edited a file by hand.     *)
THEOREM ReadsAreAuthoritative ==
    RewritesOwn => (Spec => []ReadsAuthoritative)
<1> SUFFICES ASSUME RewritesOwn
             PROVE  Spec => []ReadsAuthoritative
  OBVIOUS
<1>1. Base /\ ReadersOK => ReadsAuthoritative
  BY DEF ReadersOK, ReaderOK, ReadsAuthoritative, Seen
<1> QED
  BY <1>1, ReadersInvariant, PTL

(* Such a read fails only if a read under the lock would have failed at    *)
(* some moment of it, or if some setting that two files assign had two     *)
(* authoritative values during it, or if somebody edited a file by hand.   *)
THEOREM FailuresAreReal ==
    RewritesOwn => (Spec => []FailuresReal)
<1> SUFFICES ASSUME RewritesOwn
             PROVE  Spec => []FailuresReal
  OBVIOUS
<1>1. Base /\ ReadersOK => FailuresReal
  <2> SUFFICES ASSUME ReadersOK, NEW r \in Reader, reader[r].phase = "failed",
                      ~shown[r].unreadable, ~shown[r].edited
               PROVE  \E f, g \in File : f # g /\ \E k \in Listed[f] \cap Listed[g] :
                         Cardinality(shown[r].values[k]) > 1
    BY DEF FailuresReal
  <2>1. Differs(r) /\ \A k \in Key : IsFiniteSet(shown[r].values[k])
    BY DEF ReadersOK, ReaderOK
  <2>2. PICK f \in File, g \in File : f # g /\ \E k \in Listed[f] \cap Listed[g] :
           \E v, w \in shown[r].values[k] : v # w
    BY <2>1 DEF Differs
  <2>3. PICK k \in Listed[f] \cap Listed[g] : \E v, w \in shown[r].values[k] : v # w
    BY <2>2
  <2>4. PICK v \in shown[r].values[k], w \in shown[r].values[k] : v # w
    BY <2>3
  <2>5. k \in Key
    BY FilesAssumption
  <2>6. IsFiniteSet({v}) /\ Cardinality({v}) = 1
    BY FS_Singleton
  <2>7. Cardinality({v} \cup {w}) = 2
    <3>1. w \notin {v}
      BY <2>4
    <3>2. Cardinality({v} \cup {w}) = Cardinality({v}) + 1
      BY <2>6, <3>1, FS_AddElement
    <3> QED
      BY <2>6, <3>2
  <2>8. Cardinality({v} \cup {w}) <= Cardinality(shown[r].values[k])
    BY <2>1, <2>5, FS_Subset
  <2>9. Cardinality(shown[r].values[k]) \in Nat
    BY <2>1, <2>5, FS_CardinalityType
  <2> QED
    BY <2>2, <2>3, <2>7, <2>8, <2>9
<1> QED
  BY <1>1, ReadersInvariant, PTL
=============================================================================
