--------------------------- MODULE DocRecovery_proofs ---------------------------
(***************************************************************************)
(* Proofs about DocRecovery, for any number of desktops, windows, texts    *)
(* and failed saves.                                                       *)
(*                                                                         *)
(* Two invariants. IInv says how the directory, the windows and the        *)
(* dialogs hang together wherever saving may fail. KeptInv adds where the  *)
(* only copy of a text is while a record changes hands; it needs that the  *)
(* save of a reopened window does not fail.                                *)
(***************************************************************************)
EXTENDS DocRecovery, FiniteSetTheorems, TLAPS

WindowsOK ==
    \A w \in Window :
        /\ ~window[w].used => record[w] = None /\ window[w].at = None
        /\ window[w].at = None => window[w].written = NoText
        /\ window[w].at # None => life[window[w].at] = "up"
        /\ window[w].modified => window[w].text # NoText

\* What the memo of an open window says of its record.
RecordsOK ==
    \A w \in Window : window[w].at # None =>
        IF window[w].written = NoText THEN record[w] = None
        ELSE record[w] = [text |-> window[w].written, owner |-> window[w].at]

Ended(w) == window[w].used /\ window[w].at = None

\* What a dialog offers is the record of a window that has ended, or a record
\* that is gone.
Stale(i) ==
    /\ Ended(i.token)
    /\ record[i.token] # None => record[i.token].text = i.text

ItemsOK ==
    \A d \in Desktop :
        /\ \A i \in offer[d] : Stale(i)
        /\ \A w \in kept[d] : Ended(w)
        /\ restoring[d] # None =>
              /\ \A i \in restoring[d].items : Stale(i)
              /\ restoring[d].old # None => Ended(restoring[d].old)

\* Only a running desktop goes on with an answer.
AnsweringOK == \A d \in Desktop : restoring[d] # None => life[d] = "up"

IInv == TypeOK /\ WindowsOK /\ RecordsOK /\ ItemsOK /\ AnsweringOK

\* The record that an answer forgets next has a copy under a window of the
\* same desktop.
CopyOf(d, w) ==
    \E u \in Window :
        /\ window[u].at = d
        /\ window[u].modified
        /\ window[u].written # NoText
        /\ record[w] # None => record[w].text = window[u].written

RestoringOK ==
    \A d \in Desktop :
        restoring[d] # None /\ restoring[d].old # None => CopyOf(d, restoring[d].old)

\* The record that keeps a text is one that no pass drops.
Firm(w, t) ==
    /\ record[w] # None
    /\ record[w].text = t
    /\ window[w].at # None => window[w].modified

FirmlyKept == \A t \in owed : \E w \in Window : Firm(w, t)

KeptInv == IInv /\ RestoringOK /\ FirmlyKept

-------------------------------------------------------------------------------
\* The pieces a step is made of.

\* A record is not None.
LEMMA RecordType ==
    /\ None \notin Record
    /\ \A t \in Text, d \in Desktop :
          /\ [text |-> t, owner |-> d] \in Record
          /\ [text |-> t, owner |-> d] # None
    /\ NoText \notin Text
<1>1. None \notin Record
  BY NoneAssumption DEF Record
<1>2. ASSUME NEW t \in Text, NEW d \in Desktop
      PROVE  [text |-> t, owner |-> d] \in Record
  BY DEF Record
<1>3. NoText \notin Text
  BY DEF Text, NoText
<1> QED
  BY <1>1, <1>2, <1>3

\* The documents that a step makes.
LEMMA DocumentType ==
    /\ Closed \in Document
    /\ Closed.used /\ Closed.at = None /\ ~Closed.modified /\ Closed.written = NoText
    /\ \A d \in Desktop, t \in Text \cup {NoText} : Opened(d, t) \in Document
<1>1. Closed.used /\ Closed.at = None /\ ~Closed.modified /\ Closed.written = NoText
  BY DEF Closed, Unopened
<1>2. Closed \in Document
  BY DEF Closed, Unopened, Document
<1>3. ASSUME NEW d \in Desktop, NEW t \in Text \cup {NoText}
      PROVE  Opened(d, t) \in Document
  BY DEF Opened, Document
<1> QED
  BY <1>1, <1>2, <1>3

\* What is left of an answer has its type.
LEMMA ProgressType ==
    ASSUME NEW items \in SUBSET Item, NEW old \in Window \cup {None}
    PROVE  /\ Progress(items, old) \in Restoring \cup {None}
           /\ Progress(items, old) # None =>
                 Progress(items, old) = [items |-> items, old |-> old]
BY DEF Progress, Restoring

\* A count of failed saves stays below its bound.
LEMMA FailType ==
    ASSUME TypeOK, NEW place, NEW failed \in SUBSET Window, Fail(place, failed)
    PROVE  /\ faults' \in 0..MaxFaults
           /\ failed # {} => place \in Failing
<1>1. IsFiniteSet(failed) /\ Cardinality(failed) \in Nat
  BY WindowAssumption, FS_Subset, FS_CardinalityType
<1>2. failed = {} => Cardinality(failed) = 0
  BY FS_EmptySet
<1> QED
  BY <1>1, <1>2, BoundAssumption DEF Fail, TypeOK

\* What a starting or reopening desktop is offered: records of windows that
\* have ended.
LEMMA PendingStale ==
    ASSUME IInv, NEW d \in Desktop
    PROVE  /\ Pending(d) \subseteq Item
           /\ \A i \in Pending(d) :
                 /\ record[i.token] # None
                 /\ record[i.token].text = i.text
                 /\ Ended(i.token) \/ window[i.token].at = d
<1> SUFFICES ASSUME NEW w \in Window, record[w] # None, ~OwnedByAnother(w, d)
             PROVE  /\ [token |-> w, text |-> record[w].text] \in Item
                    /\ Ended(w) \/ window[w].at = d
  BY DEF Pending
<1>1. record[w] \in Record /\ window[w] \in Document
  BY DEF IInv, TypeOK
<1>2. [token |-> w, text |-> record[w].text] \in Item
  BY <1>1 DEF Item, Record
<1>3. window[w].used
  BY DEF IInv, WindowsOK
<1>4. ASSUME window[w].at # None PROVE window[w].at = d
  <2>1. record[w] = [text |-> window[w].written, owner |-> window[w].at]
    BY <1>4 DEF IInv, RecordsOK
  <2>2. record[w].owner = window[w].at
    BY <2>1
  <2>3. life[window[w].at] = "up"
    BY <1>4 DEF IInv, WindowsOK
  <2> QED
    BY <2>2, <2>3 DEF OwnedByAnother
<1> QED
  BY <1>2, <1>3, <1>4 DEF Ended

\* A window that has ended stays as it is, and its record stays or goes.
EndedStays ==
    \A w \in Window : Ended(w) =>
        window'[w] = window[w] /\ record'[w] \in {record[w], None}

\* A stale item stays stale.
LEMMA StaleStays ==
    ASSUME EndedStays, NEW i \in Item, Stale(i)
    PROVE  Stale(i)'
BY DEF EndedStays, Stale, Ended, Item

\* The initial states satisfy both invariants.
LEMMA InitKeptInv == Init => KeptInv
<1> SUFFICES ASSUME Init PROVE KeptInv
  OBVIOUS
<1>1. Unopened \in Document
  BY DEF Unopened, Document
<1>2. TypeOK
  BY <1>1, BoundAssumption DEF Init, TypeOK
<1>3. WindowsOK /\ RecordsOK
  BY DEF Init, WindowsOK, RecordsOK, Unopened
<1>4. ItemsOK /\ AnsweringOK /\ RestoringOK /\ FirmlyKept
  BY DEF Init, ItemsOK, AnsweringOK, RestoringOK, FirmlyKept
<1> QED
  BY <1>2, <1>3, <1>4 DEF KeptInv, IInv

\* The dialogs and answers after a step are made of what was stale before it.
DialogsFrom ==
    \A d \in Desktop :
        /\ \A i \in offer'[d] : Stale(i)
        /\ \A w \in kept'[d] : Ended(w)
        /\ restoring'[d] # None =>
              /\ \A i \in restoring'[d].items : Stale(i)
              /\ restoring'[d].old # None => Ended(restoring'[d].old)

\* Then they are in order after the step too.
LEMMA ItemsFrom ==
    ASSUME TypeOK', EndedStays, DialogsFrom
    PROVE  ItemsOK'
<1> SUFFICES ASSUME NEW d \in Desktop
             PROVE  /\ \A i \in offer'[d] : Stale(i)'
                    /\ \A w \in kept'[d] : Ended(w)'
                    /\ restoring'[d] # None =>
                          /\ \A i \in restoring'[d].items : Stale(i)'
                          /\ (restoring[d].old # None => Ended(restoring[d].old))'
  BY DEF ItemsOK, Stale, Ended
<1>1. ASSUME NEW w \in Window, Ended(w) PROVE Ended(w)'
  BY <1>1 DEF EndedStays, Ended
<1>2. offer'[d] \subseteq Item /\ kept'[d] \subseteq Window
  BY DEF TypeOK
<1>3. ASSUME restoring'[d] # None
      PROVE  restoring'[d].items \subseteq Item /\ restoring'[d].old \in Window \cup {None}
  BY <1>3 DEF TypeOK, Restoring
<1>4. ASSUME NEW i \in Item, Stale(i) PROVE Stale(i)'
  BY <1>4, StaleStays
<1>5. \A i \in offer'[d] : Stale(i)'
  BY <1>2, <1>4 DEF DialogsFrom, Stale, Ended
<1>6. \A w \in kept'[d] : Ended(w)'
  BY <1>1, <1>2 DEF DialogsFrom, Ended
<1>7. ASSUME restoring'[d] # None
      PROVE  /\ \A i \in restoring'[d].items : Stale(i)'
             /\ (restoring[d].old # None => Ended(restoring[d].old))'
  BY <1>1, <1>3, <1>4, <1>7 DEF DialogsFrom, Stale, Ended
<1> QED
  BY <1>5, <1>6, <1>7

\* In particular when no dialog opens and no answer begins.
LEMMA ItemsStay ==
    ASSUME IInv, TypeOK', EndedStays, UNCHANGED <<dialogs, restoring>>
    PROVE  ItemsOK'
<1>1. DialogsFrom
  BY DEF DialogsFrom, IInv, ItemsOK, dialogs
<1> QED
  BY <1>1, ItemsFrom

-------------------------------------------------------------------------------
\* The steps that touch the dialogs only.

\* A desktop starts.
LEMMA StartStep ==
    ASSUME IInv, NEW d \in Desktop, Start(d)
    PROVE  IInv' /\ EndedStays
<1>1. TypeOK'
  BY PendingStale DEF Start, IInv, TypeOK, bounds
<1>2. WindowsOK' /\ RecordsOK'
  BY DEF Start, FreshDesktop, IInv, TypeOK, WindowsOK, RecordsOK
<1>3. ASSUME NEW i \in Pending(d) PROVE Stale(i)
  <2>1. i \in Item /\ i.token \in Window
    BY PendingStale DEF Item
  <2>2. window[i.token].at = d => d = None
    BY <2>1 DEF Start, FreshDesktop, IInv, WindowsOK
  <2> QED
    BY <2>2, PendingStale, NoneAssumption DEF Stale
<1>4. EndedStays
  BY DEF Start, EndedStays
<1>5. DialogsFrom
  BY <1>3 DEF DialogsFrom, Start, IInv, TypeOK, ItemsOK
<1>6. AnsweringOK'
  BY DEF Start, IInv, TypeOK, AnsweringOK
<1> QED
  BY <1>1, <1>2, <1>4, <1>5, <1>6, ItemsFrom DEF IInv

\* The answers that begin or go on with a restore without opening a window.
LEMMA AnswerStep ==
    ASSUME IInv, NEW d \in Desktop,
           \/ Restore(d) \/ Later(d)
           \/ \E w \in Window : Reopen(d, w)
           \/ \E i \in Item : RestoreRefused(d, i)
    PROVE  IInv' /\ EndedStays
<1>1. UNCHANGED <<life, window, record, typed, faults, owed>>
  BY DEF Restore, Later, Reopen, RestoreRefused, bounds
<1>2. WindowsOK' /\ RecordsOK' /\ EndedStays
  BY <1>1 DEF IInv, WindowsOK, RecordsOK, EndedStays
<1>3. TypeOK' /\ DialogsFrom
  <2> DEFINE Goal == TypeOK' /\ DialogsFrom
  <2>1. CASE Restore(d)
    <3>1. Progress(offer[d], None) \in Restoring \cup {None}
      BY ProgressType DEF IInv, TypeOK
    <3>2. Progress(offer[d], None) # None =>
             Progress(offer[d], None) = [items |-> offer[d], old |-> None]
      BY ProgressType DEF IInv, TypeOK
    <3> QED
      BY <1>1, <2>1, <3>1, <3>2 DEF Restore, DialogsFrom, IInv, TypeOK, ItemsOK
  <2>2. CASE Later(d)
    <3>1. UNCHANGED restoring
      BY <2>2 DEF Later
    <3>2. /\ offer' \in [Desktop -> SUBSET Item]
          /\ kept' \in [Desktop -> SUBSET Window]
          /\ \A e \in Desktop : offer'[e] \subseteq offer[e] /\ kept'[e] \subseteq kept[e]
      BY <2>2 DEF Later, IInv, TypeOK
    <3> QED
      BY <1>1, <3>1, <3>2 DEF DialogsFrom, IInv, TypeOK, ItemsOK
  <2>3. ASSUME NEW w \in Window, Reopen(d, w) PROVE Goal
    <3> DEFINE items == {i \in Pending(d) : i.token = w}
    <3>1. items \subseteq Item /\ \A i \in items : Stale(i)
      BY <2>3, PendingStale DEF Reopen, IInv, ItemsOK, Stale
    <3>2. /\ Progress(items, None) \in Restoring \cup {None}
          /\ Progress(items, None) # None =>
                Progress(items, None) = [items |-> items, old |-> None]
      BY <3>1, ProgressType
    <3>3. restoring' = [restoring EXCEPT ![d] = Progress(items, None)]
      BY <2>3 DEF Reopen
    <3>4. UNCHANGED offer /\ kept' = [kept EXCEPT ![d] = @ \ {w}]
      BY <2>3 DEF Reopen
    <3> HIDE DEF items
    <3> QED
      BY <1>1, <3>1, <3>2, <3>3, <3>4 DEF DialogsFrom, IInv, TypeOK, ItemsOK
  <2>4. ASSUME NEW i \in Item, RestoreRefused(d, i) PROVE Goal
    <3> DEFINE items == restoring[d].items \ {i}
    <3>1. items \subseteq Item /\ \A j \in items : Stale(j)
      BY <2>4 DEF RestoreRefused, IInv, ItemsOK, TypeOK, Restoring
    <3>2. /\ Progress(items, None) \in Restoring \cup {None}
          /\ Progress(items, None) # None =>
                Progress(items, None) = [items |-> items, old |-> None]
      BY <3>1, ProgressType
    <3>3. restoring' = [restoring EXCEPT ![d] = Progress(items, None)]
      BY <2>4 DEF RestoreRefused, IInv, TypeOK
    <3>4. UNCHANGED dialogs
      BY <2>4 DEF RestoreRefused
    <3> HIDE DEF items
    <3> QED
      BY <1>1, <3>1, <3>2, <3>3, <3>4 DEF DialogsFrom, IInv, TypeOK, ItemsOK, dialogs
  <2> QED
    BY <2>1, <2>2, <2>3, <2>4
<1>4. AnsweringOK'
  BY <1>1 DEF Restore, Later, Reopen, RestoreRefused, Idle, IInv, TypeOK, AnsweringOK
<1> QED
  BY <1>2, <1>3, <1>4, ItemsFrom DEF IInv

-------------------------------------------------------------------------------
\* The steps that touch windows and records.

\* A desktop ends.
LEMMA StopStep ==
    ASSUME IInv, NEW d \in Desktop, Stop(d)
    PROVE  IInv' /\ EndedStays
<1>1. /\ window' = [w \in Window |-> IF window[w].at = d THEN Closed ELSE window[w]]
      /\ life' = [life EXCEPT ![d] = "down"]
      /\ offer' = [offer EXCEPT ![d] = {}]
      /\ kept' = [kept EXCEPT ![d] = {}]
      /\ restoring' = [restoring EXCEPT ![d] = None]
      /\ UNCHANGED <<record, typed, faults, owed>>
  BY DEF Stop, Shown, bounds
<1>2. TypeOK'
  BY <1>1, DocumentType DEF IInv, TypeOK
<1>3. WindowsOK'
  BY <1>1, DocumentType DEF IInv, TypeOK, WindowsOK
<1>4. RecordsOK'
  BY <1>1, DocumentType DEF IInv, RecordsOK
<1>5. EndedStays
  BY <1>1, NoneAssumption DEF EndedStays, Ended
<1>6. DialogsFrom
  BY <1>1 DEF DialogsFrom, IInv, TypeOK, ItemsOK
<1>7. AnsweringOK'
  BY <1>1 DEF IInv, TypeOK, AnsweringOK
<1> QED
  BY <1>2, <1>3, <1>4, <1>5, <1>6, <1>7, ItemsFrom DEF IInv

\* A window opens, is typed into, saved or closed by the user.
LEMMA EditStep ==
    ASSUME IInv, NEW d \in Desktop, NEW w \in Window,
           Open(d, w) \/ Type(d, w) \/ Save(d, w) \/ Close(d, w)
    PROVE  IInv' /\ EndedStays
<1>1. UNCHANGED <<life, offer, kept, restoring, faults>> /\ Idle(d)
  BY DEF Open, Type, Save, Close, dialogs, bounds
<1>2. window[w] \in Document
  BY DEF IInv, TypeOK
<1>3. d # None
  BY NoneAssumption
<1> DEFINE Goal == TypeOK' /\ WindowsOK' /\ RecordsOK' /\ EndedStays
<1>4. ASSUME Open(d, w) PROVE Goal
  <2>1. /\ ~window[w].used
        /\ window' = [window EXCEPT ![w] = Opened(d, NoText)]
        /\ UNCHANGED <<record, typed, owed>>
    BY <1>4 DEF Open, FreshWindow, bounds
  <2>2. Opened(d, NoText) \in Document
    BY DocumentType
  <2>3. /\ Opened(d, NoText).used /\ Opened(d, NoText).at = d
        /\ ~Opened(d, NoText).modified /\ Opened(d, NoText).written = NoText
    BY DEF Opened
  <2>4. TypeOK'
    BY <1>1, <2>1, <2>2 DEF IInv, TypeOK
  <2>5. WindowsOK' /\ RecordsOK'
    BY <1>1, <1>3, <2>1, <2>3 DEF IInv, TypeOK, WindowsOK, RecordsOK, Idle
  <2>6. EndedStays
    BY <2>1 DEF EndedStays, Ended, IInv, TypeOK
  <2> QED
    BY <2>4, <2>5, <2>6
<1>5. ASSUME Type(d, w) PROVE Goal
  <2>1. /\ window[w].at = d
        /\ typed < MaxTexts /\ typed' = typed + 1
        /\ window' = [window EXCEPT ![w].text = typed', ![w].modified = TRUE]
        /\ UNCHANGED <<record, owed>>
    BY <1>5 DEF Type, Shown
  <2>2. typed' \in 0..MaxTexts /\ typed' \in Text /\ typed' # NoText
    BY <2>1, BoundAssumption DEF IInv, TypeOK, Text, NoText
  <2>3. TypeOK'
    BY <1>1, <1>2, <2>1, <2>2 DEF IInv, TypeOK, Document
  <2>4. WindowsOK' /\ RecordsOK'
    BY <1>1, <1>2, <2>1, <2>2 DEF IInv, TypeOK, WindowsOK, RecordsOK, Document
  <2>5. EndedStays
    BY <1>3, <2>1 DEF EndedStays, Ended, IInv, TypeOK
  <2> QED
    BY <2>3, <2>4, <2>5
<1>6. ASSUME Save(d, w) PROVE Goal
  <2>1. /\ window[w].at = d
        /\ window' = [window EXCEPT ![w].modified = FALSE]
        /\ owed' \subseteq owed
        /\ UNCHANGED <<record, typed>>
    BY <1>6 DEF Save, Shown, bounds
  <2>2. TypeOK'
    BY <1>1, <1>2, <2>1 DEF IInv, TypeOK, Document
  <2>3. WindowsOK' /\ RecordsOK'
    BY <1>1, <1>2, <2>1 DEF IInv, TypeOK, WindowsOK, RecordsOK, Document
  <2>4. EndedStays
    BY <1>3, <2>1 DEF EndedStays, Ended, IInv, TypeOK
  <2> QED
    BY <2>2, <2>3, <2>4
<1>7. ASSUME Close(d, w) PROVE Goal
  <2>1. /\ window[w].at = d
        /\ window' = [window EXCEPT ![w] = Closed]
        /\ record' = [record EXCEPT ![w] = None]
        /\ owed' \subseteq owed
        /\ UNCHANGED typed
    BY <1>7 DEF Close, Shown, bounds
  <2>2. TypeOK'
    BY <1>1, <2>1, DocumentType DEF IInv, TypeOK
  <2>3. WindowsOK' /\ RecordsOK'
    BY <1>1, <2>1, DocumentType DEF IInv, TypeOK, WindowsOK, RecordsOK
  <2>4. EndedStays
    BY <1>3, <2>1 DEF EndedStays, Ended, IInv, TypeOK
  <2> QED
    BY <2>2, <2>3, <2>4
<1>8. Goal
  BY <1>4, <1>5, <1>6, <1>7
<1>9. AnsweringOK'
  BY <1>1 DEF IInv, AnsweringOK
<1> QED
  BY <1>1, <1>8, <1>9, ItemsStay DEF IInv, dialogs

\* A record that a checkpoint saves has its type.
LEMMA UnwrittenType ==
    ASSUME IInv, NEW w \in Window, Unwritten(w)
    PROVE  /\ window[w].text \in Text
           /\ \A d \in Desktop : [text |-> window[w].text, owner |-> d] \in Record
<1>1. window[w].text \in Text
  BY DEF IInv, TypeOK, WindowsOK, Document, Unwritten
<1> QED
  BY <1>1, RecordType

\* A pass over the windows of one desktop, whatever fails.
LEMMA PassStep ==
    ASSUME IInv, NEW d \in Desktop, Idle(d),
           NEW failed \in SUBSET Shown(d), NEW dropped \in SUBSET Shown(d),
           NEW due \in SUBSET Shown(d),
           \A w \in due : Unwritten(w),
           \A w \in dropped : Settled(w),
           failed \subseteq due,
           Fail("pass", failed),
           Memo(due, failed, dropped),
           Recorded(d, due \ failed, dropped),
           Acknowledged(due \ failed),
           UNCHANGED <<life, dialogs, restoring, typed>>
    PROVE  IInv' /\ EndedStays
<1> DEFINE saved == due \ failed
<1>1. Shown(d) \subseteq Window
  BY DEF Shown
<1>2. faults' \in 0..MaxFaults
  BY <1>1, FailType DEF IInv
<1>3. /\ record' \in [Window -> Record \cup {None}]
      /\ \A w \in saved : /\ window[w].text \in Text
                          /\ record'[w] = [text |-> window[w].text, owner |-> d]
      /\ \A w \in Window \ saved : record'[w] = IF w \in dropped THEN None ELSE record[w]
  <2>1. \A w \in saved : /\ window[w].text \in Text
                         /\ [text |-> window[w].text, owner |-> d] \in Record
    BY <1>1, UnwrittenType
  <2>2. saved \subseteq Window
    BY <1>1
  <2>3. record' = [w \in Window |->
           IF w \in saved THEN [text |-> window[w].text, owner |-> d]
           ELSE IF w \in dropped THEN None ELSE record[w]]
    BY DEF Recorded
  <2> HIDE DEF saved
  <2> QED
    BY <2>1, <2>2, <2>3 DEF IInv, TypeOK
<1>4. \A w \in saved : window[w].at = d /\ window[w].modified /\ window[w] \in Document
  BY <1>1 DEF Shown, Unwritten, IInv, TypeOK
<1>5. \A w \in dropped : window[w].at = d /\ ~window[w].modified /\ window[w] \in Document
  BY <1>1 DEF Shown, Settled, IInv, TypeOK
<1>6. window' = [w \in Window |->
         IF w \in saved THEN [window[w] EXCEPT !.written = window[w].text]
         ELSE IF w \in dropped THEN [window[w] EXCEPT !.written = NoText] ELSE window[w]]
  BY DEF Memo
<1>7. owed' \subseteq Text
  BY <1>3 DEF Acknowledged, IInv, TypeOK
<1> HIDE DEF saved
<1>8. window' \in [Window -> Document]
  <2> SUFFICES ASSUME NEW w \in Window
               PROVE  window'[w] \in Document
    BY <1>6
  <2> QED
    BY <1>3, <1>4, <1>6 DEF Document, IInv, TypeOK
<1>9. TypeOK'
  BY <1>2, <1>3, <1>7, <1>8 DEF IInv, TypeOK, dialogs
<1>10. ASSUME NEW w \in Window
       PROVE  /\ window'[w].used = window[w].used
              /\ window'[w].at = window[w].at
              /\ window'[w].modified = window[w].modified
              /\ window'[w].text = window[w].text
              /\ window'[w].written =
                    IF w \in saved THEN window[w].text
                    ELSE IF w \in dropped THEN NoText ELSE window[w].written
  <2>1. window[w] \in Document
    BY DEF IInv, TypeOK
  <2> QED
    BY <1>6, <2>1 DEF Document
<1>11. d # None
  BY NoneAssumption
<1>12. WindowsOK'
  BY <1>3, <1>4, <1>5, <1>10, <1>11 DEF IInv, WindowsOK
<1>13. RecordsOK'
  <2> SUFFICES ASSUME NEW w \in Window, window'[w].at # None
               PROVE  IF window'[w].written = NoText THEN record'[w] = None
                      ELSE record'[w] = [text |-> window'[w].written, owner |-> window'[w].at]
    BY DEF RecordsOK
  <2>1. CASE w \in saved
    <3>1. /\ window'[w].written = window[w].text
          /\ window'[w].at = d
          /\ record'[w] = [text |-> window[w].text, owner |-> d]
          /\ window[w].text \in Text
      BY <1>3, <1>4, <1>10, <2>1
    <3> QED
      BY <3>1, RecordType
  <2>2. CASE w \notin saved
    BY <1>3, <1>5, <1>10, <2>2 DEF IInv, RecordsOK
  <2> QED
    BY <2>1, <2>2
<1>14. EndedStays
  BY <1>3, <1>4, <1>5, <1>6, <1>11 DEF EndedStays, Ended
<1>15. AnsweringOK'
  BY DEF IInv, AnsweringOK
<1> QED
  BY <1>9, <1>12, <1>13, <1>14, <1>15, ItemsStay DEF IInv

\* The two passes of the code.
LEMMA TickStep ==
    ASSUME IInv, NEW d \in Desktop, Tick(d) \/ LoopFault(d)
    PROVE  IInv' /\ EndedStays
<1>1. CASE Tick(d)
  <2> DEFINE due == {w \in Shown(d) : Unwritten(w)}
             dropped == {w \in Shown(d) : Settled(w)}
  <2>1. PICK failed \in SUBSET due :
           /\ Fail("pass", failed)
           /\ Memo(due, failed, dropped)
           /\ Recorded(d, due \ failed, dropped)
           /\ Acknowledged(due \ failed)
    BY <1>1 DEF Tick
  <2>2. Idle(d) /\ UNCHANGED <<life, dialogs, restoring, typed>>
    BY <1>1 DEF Tick
  <2>3. /\ due \in SUBSET Shown(d) /\ \A w \in due : Unwritten(w)
        /\ dropped \in SUBSET Shown(d) /\ \A w \in dropped : Settled(w)
    OBVIOUS
  <2> HIDE DEF due, dropped
  <2> QED
    BY <2>1, <2>2, <2>3, PassStep
<1>2. CASE LoopFault(d)
  <2> DEFINE due == {w \in Shown(d) : Unwritten(w)}
  <2>1. PICK failed \in SUBSET due :
           /\ Fail("pass", failed)
           /\ Memo(due, failed, {})
           /\ Recorded(d, due \ failed, {})
           /\ Acknowledged(due \ failed)
    BY <1>2 DEF LoopFault
  <2>2. Idle(d) /\ UNCHANGED <<life, dialogs, restoring, typed>>
    BY <1>2 DEF LoopFault
  <2>3. due \in SUBSET Shown(d) /\ \A w \in due : Unwritten(w)
    OBVIOUS
  <2>4. {} \in SUBSET Shown(d) /\ \A w \in {} : Settled(w)
    OBVIOUS
  <2> HIDE DEF due
  <2> QED
    BY <2>1, <2>2, <2>3, <2>4, PassStep
<1> QED
  BY <1>1, <1>2

\* A window fails.
LEMMA WindowFaultStep ==
    ASSUME IInv, NEW d \in Desktop, NEW w \in Window, WindowFault(d, w)
    PROVE  IInv' /\ EndedStays
<1> DEFINE due == {v \in {w} : Unwritten(v)}
<1>1. PICK failed \in SUBSET due :
         /\ Fail("fault", failed)
         /\ Recorded(d, due \ failed, {})
         /\ Acknowledged(due \ failed)
         /\ kept' = IF window[w].modified /\ failed = {}
                      THEN [kept EXCEPT ![d] = @ \cup {w}] ELSE kept
  BY DEF WindowFault
<1>2. /\ window[w].at = d
      /\ window' = [window EXCEPT ![w] = Closed]
      /\ UNCHANGED <<life, offer, restoring, typed>>
  BY DEF WindowFault, Shown
<1>3. faults' \in 0..MaxFaults
  BY <1>1, FailType DEF IInv
<1> DEFINE saved == due \ failed
<1>4. /\ \A v \in saved : v = w /\ window[v].text \in Text
                       /\ [text |-> window[v].text, owner |-> d] \in Record
      /\ saved \subseteq Window
  BY UnwrittenType
<1>5. record' = [v \in Window |->
         IF v \in saved THEN [text |-> window[v].text, owner |-> d] ELSE record[v]]
  BY <1>1 DEF Recorded
<1>6. owed' \subseteq Text
  BY <1>1, <1>4 DEF Acknowledged, IInv, TypeOK
<1> HIDE DEF saved
<1>7. TypeOK'
  <2>1. record' \in [Window -> Record \cup {None}]
    BY <1>4, <1>5 DEF IInv, TypeOK
  <2>2. kept' \in [Desktop -> SUBSET Window]
    BY <1>1 DEF IInv, TypeOK
  <2> QED
    BY <1>2, <1>3, <1>6, <2>1, <2>2, DocumentType DEF IInv, TypeOK
<1>8. d # None
  BY NoneAssumption
<1>9. WindowsOK'
  BY <1>2, <1>4, <1>5, <1>8, DocumentType DEF IInv, TypeOK, WindowsOK
<1>10. RecordsOK'
  BY <1>2, <1>4, <1>5, <1>8, DocumentType DEF IInv, TypeOK, RecordsOK
<1>11. EndedStays
  BY <1>2, <1>4, <1>5, <1>8 DEF EndedStays, Ended, IInv, TypeOK
<1>12. ItemsOK'
  <2>1. Ended(w)'
    BY <1>2, DocumentType DEF Ended, IInv, TypeOK
  <2>2. ASSUME NEW v \in Window, Ended(v) PROVE Ended(v)'
    BY <1>11, <2>2 DEF EndedStays, Ended
  <2>3. ASSUME NEW i \in Item, Stale(i) PROVE Stale(i)'
    BY <1>11, <2>3, StaleStays
  <2>4. \A e \in Desktop : /\ offer[e] \subseteq Item
                           /\ kept'[e] \subseteq kept[e] \cup {w}
                           /\ kept[e] \subseteq Window
    BY <1>1 DEF IInv, TypeOK
  <2>5. \A e \in Desktop : restoring[e] # None =>
           restoring[e].items \subseteq Item /\ restoring[e].old \in Window \cup {None}
    BY DEF IInv, TypeOK, Restoring
  <2> SUFFICES ASSUME NEW e \in Desktop
               PROVE  /\ \A i \in offer'[e] : Stale(i)'
                      /\ \A v \in kept'[e] : Ended(v)'
                      /\ restoring'[e] # None =>
                            /\ \A i \in restoring'[e].items : Stale(i)'
                            /\ (restoring[e].old # None => Ended(restoring[e].old))'
    BY DEF ItemsOK, Stale, Ended
  <2>6. \A i \in offer'[e] : Stale(i)'
    BY <1>2, <2>3, <2>4 DEF IInv, ItemsOK, Stale, Ended
  <2>7. \A v \in kept'[e] : Ended(v)'
    BY <2>1, <2>2, <2>4 DEF IInv, ItemsOK, Ended
  <2>8. ASSUME restoring'[e] # None
        PROVE  /\ \A i \in restoring'[e].items : Stale(i)'
               /\ (restoring[e].old # None => Ended(restoring[e].old))'
    BY <1>2, <2>2, <2>3, <2>5, <2>8 DEF IInv, ItemsOK, Stale, Ended
  <2> QED
    BY <2>6, <2>7, <2>8
<1>13. AnsweringOK'
  BY <1>2 DEF IInv, AnsweringOK
<1> QED
  BY <1>7, <1>9, <1>10, <1>11, <1>12, <1>13 DEF IInv

\* Records of ended windows are dropped.
LEMMA DropStep ==
    ASSUME IInv, NEW d \in Desktop, Discard(d) \/ Forget(d)
    PROVE  IInv' /\ EndedStays
<1>1. UNCHANGED <<life, window, kept, typed, faults>> /\ owed' \subseteq owed
  BY DEF Discard, Forget, dialogs, bounds
<1>2. PICK gone \in SUBSET Window :
         /\ \A w \in gone : Ended(w)
         /\ record' = [w \in Window |-> IF w \in gone THEN None ELSE record[w]]
  <2>1. CASE Discard(d)
    <3> DEFINE tokens == {i.token : i \in offer[d]}
    <3>1. tokens \subseteq Window /\ \A w \in tokens : Ended(w)
      BY DEF IInv, TypeOK, Item, ItemsOK, Stale
    <3>2. record' = [w \in Window |-> IF w \in tokens THEN None ELSE record[w]]
      BY <2>1 DEF Discard
    <3> QED
      BY <3>1, <3>2
  <2>2. CASE Forget(d)
    <3> DEFINE old == restoring[d].old
    <3>1. old \in Window /\ Ended(old)
      BY <2>2 DEF Forget, IInv, TypeOK, Restoring, ItemsOK
    <3>2. record' = [w \in Window |-> IF w \in {old} THEN None ELSE record[w]]
      BY <2>2, <3>1 DEF Forget, IInv, TypeOK
    <3> QED
      BY <3>1, <3>2
  <2> QED
    BY <2>1, <2>2
<1>3. /\ offer' \in [Desktop -> SUBSET Item]
      /\ restoring' \in [Desktop -> Restoring \cup {None}]
      /\ \A e \in Desktop :
            /\ offer'[e] \subseteq offer[e]
            /\ restoring'[e] # None =>
                  /\ restoring[e] # None
                  /\ restoring'[e].items = restoring[e].items
                  /\ restoring'[e].old \in {None, restoring[e].old}
  <2>1. CASE Discard(d)
    BY <2>1 DEF Discard, IInv, TypeOK
  <2>2. CASE Forget(d)
    <3> DEFINE items == restoring[d].items
    <3>1. items \subseteq Item /\ restoring[d] # None
      BY <2>2 DEF Forget, IInv, TypeOK, Restoring
    <3>2. /\ Progress(items, None) \in Restoring \cup {None}
          /\ Progress(items, None) # None =>
                Progress(items, None) = [items |-> items, old |-> None]
      BY <3>1, ProgressType
    <3>3. restoring' = [restoring EXCEPT ![d] = Progress(items, None)] /\ UNCHANGED offer
      BY <2>2 DEF Forget, IInv, TypeOK, dialogs
    <3> QED
      BY <3>1, <3>2, <3>3 DEF IInv, TypeOK
  <2> QED
    BY <2>1, <2>2
<1>4. TypeOK'
  BY <1>1, <1>2, <1>3 DEF IInv, TypeOK
<1>5. WindowsOK' /\ RecordsOK' /\ EndedStays
  BY <1>1, <1>2 DEF IInv, WindowsOK, RecordsOK, EndedStays, Ended
<1>6. DialogsFrom
  BY <1>1, <1>3 DEF DialogsFrom, IInv, ItemsOK
<1>7. AnsweringOK'
  BY <1>1, <1>3 DEF IInv, AnsweringOK
<1> QED
  BY <1>4, <1>5, <1>6, <1>7, ItemsFrom DEF IInv

\* One item is reopened in a new window, whose record may fail to be saved.
LEMMA RestoreItemStep ==
    ASSUME IInv, NEW d \in Desktop, NEW i \in Item, NEW w \in Window, RestoreItem(d, i, w)
    PROVE  IInv' /\ EndedStays
<1> DEFINE items == restoring[d].items \ {i}
<1>1. /\ restoring[d] # None /\ i \in restoring[d].items
      /\ ~window[w].used
      /\ restoring' = [restoring EXCEPT ![d] = Progress(items, i.token)]
      /\ UNCHANGED <<life, offer, kept, typed>>
  BY DEF RestoreItem, FreshWindow, dialogs, IInv, TypeOK
<1>2. PICK failed \in SUBSET {w} :
         /\ Fail("restore", failed)
         /\ window' = [window EXCEPT ![w] = [Opened(d, i.text) EXCEPT
                          !.written = IF w \in {w} \ failed THEN i.text ELSE NoText]]
         /\ record' = [v \in Window |->
               IF v \in {w} \ failed THEN [text |-> i.text, owner |-> d] ELSE record[v]]
         /\ owed' = owed \cup {i.text : v \in {w} \ failed}
  BY DEF RestoreItem
<1>3. /\ i.token \in Window /\ i.text \in Text /\ i.text # NoText
      /\ [text |-> i.text, owner |-> d] \in Record
      /\ d # None
  BY RecordType, NoneAssumption DEF Item
<1>4. life[d] = "up"
  BY <1>1 DEF IInv, AnsweringOK
<1> DEFINE written == IF w \in {w} \ failed THEN i.text ELSE NoText
           opened == [Opened(d, i.text) EXCEPT !.written = written]
<1>5. /\ opened \in Document
      /\ opened.used /\ opened.at = d /\ opened.modified
      /\ opened.text = i.text /\ opened.written = written
  BY <1>3 DEF Opened, Document
<1>6. written = IF w \in {w} \ failed THEN i.text ELSE NoText
  OBVIOUS
<1>7. window' = [window EXCEPT ![w] = opened]
  BY <1>2
<1> HIDE DEF opened, written
<1>8. items \subseteq Item /\ Stale(i) /\ \A j \in items : Stale(j)
  BY <1>1 DEF IInv, TypeOK, Restoring, ItemsOK
<1>9. /\ Progress(items, i.token) \in Restoring \cup {None}
      /\ Progress(items, i.token) # None =>
            Progress(items, i.token) = [items |-> items, old |-> i.token]
  BY <1>3, <1>8, ProgressType
<1> HIDE DEF items
<1>10. TypeOK'
  <2>1. faults' \in 0..MaxFaults
    BY <1>2, FailType DEF IInv
  <2>2. record' \in [Window -> Record \cup {None}]
    BY <1>2, <1>3 DEF IInv, TypeOK
  <2>3. owed' \subseteq Text
    BY <1>2, <1>3 DEF IInv, TypeOK
  <2> QED
    BY <1>1, <1>5, <1>7, <1>9, <2>1, <2>2, <2>3 DEF IInv, TypeOK
<1>11. WindowsOK'
  <2>1. window'[w] = opened
    BY <1>1, <1>7 DEF IInv, TypeOK
  <2>2. \A v \in Window \ {w} : window'[v] = window[v] /\ record'[v] = record[v]
    BY <1>2, <1>7 DEF IInv, TypeOK
  <2>3. /\ window'[w].used
        /\ window'[w].at = d /\ d # None
        /\ window'[w].text # NoText
    BY <1>3, <1>5, <2>1
  <2>4. UNCHANGED life
    BY <1>1
  <2> QED
    BY <1>4, <2>2, <2>3, <2>4 DEF IInv, WindowsOK
<1>12. RecordsOK'
  <2>1. record[w] = None /\ window'[w] = opened
    BY <1>1, <1>7 DEF IInv, TypeOK, WindowsOK
  <2>2. IF window'[w].written = NoText THEN record'[w] = None
        ELSE record'[w] = [text |-> window'[w].written, owner |-> window'[w].at]
    BY <1>2, <1>3, <1>5, <1>6, <2>1
  <2>3. \A v \in Window \ {w} : window'[v] = window[v] /\ record'[v] = record[v]
    BY <1>2, <1>7 DEF IInv, TypeOK
  <2> QED
    BY <2>2, <2>3 DEF IInv, RecordsOK
<1>13. EndedStays
  BY <1>1, <1>2, <1>7 DEF EndedStays, Ended, IInv, TypeOK
<1>14. DialogsFrom
  BY <1>1, <1>8, <1>9 DEF DialogsFrom, IInv, TypeOK, ItemsOK, Stale
<1>15. AnsweringOK'
  BY <1>1, <1>4 DEF IInv, TypeOK, AnsweringOK
<1> QED
  BY <1>10, <1>11, <1>12, <1>13, <1>14, <1>15, ItemsFrom DEF IInv

-------------------------------------------------------------------------------
\* A step of desktop d.
Step(d) ==
    \/ Start(d) \/ Stop(d)
    \/ \E w \in Window : Open(d, w) \/ Type(d, w) \/ Save(d, w) \/ Close(d, w)
    \/ \E w \in Window : WindowFault(d, w)
    \/ Tick(d) \/ LoopFault(d)
    \/ \/ Restore(d) \/ Later(d)
       \/ \E w \in Window : Reopen(d, w)
       \/ \E i \in Item : RestoreRefused(d, i)
    \/ Discard(d) \/ Forget(d)
    \/ \E w \in Window, i \in Item : RestoreItem(d, i, w)

\* Next is a step of some desktop.
LEMMA NextStep == Next => \E d \in Desktop : Step(d)
BY DEF Next, Step

\* Every step preserves the invariant.
LEMMA StepIInv ==
    ASSUME IInv, NEW d \in Desktop, Step(d)
    PROVE  IInv' /\ EndedStays
<1>1. CASE Start(d)
  BY <1>1, StartStep
<1>2. CASE Stop(d)
  BY <1>2, StopStep
<1>3. ASSUME NEW w \in Window, Open(d, w) \/ Type(d, w) \/ Save(d, w) \/ Close(d, w)
      PROVE  IInv' /\ EndedStays
  BY <1>3, EditStep
<1>4. ASSUME NEW w \in Window, WindowFault(d, w)
      PROVE  IInv' /\ EndedStays
  BY <1>4, WindowFaultStep
<1>5. CASE Tick(d) \/ LoopFault(d)
  BY <1>5, TickStep
<1>6. CASE \/ Restore(d) \/ Later(d)
           \/ \E w \in Window : Reopen(d, w)
           \/ \E i \in Item : RestoreRefused(d, i)
  BY <1>6, AnswerStep
<1>7. CASE Discard(d) \/ Forget(d)
  BY <1>7, DropStep
<1>8. ASSUME NEW w \in Window, NEW i \in Item, RestoreItem(d, i, w)
      PROVE  IInv' /\ EndedStays
  BY <1>8, RestoreItemStep
<1> QED
  BY <1>1, <1>2, <1>3, <1>4, <1>5, <1>6, <1>7, <1>8 DEF Step

\* So does a stutter.
LEMMA NextIInv == IInv /\ [Next]_vars => IInv'
<1> SUFFICES ASSUME IInv, [Next]_vars PROVE IInv'
  OBVIOUS
<1>1. CASE UNCHANGED vars
  <2>1. UNCHANGED <<life, window, record, offer, kept, restoring, typed, faults, owed>>
    BY <1>1 DEF vars, dialogs, bounds
  <2> QED
    BY <2>1 DEF IInv, TypeOK, WindowsOK, RecordsOK, ItemsOK, Stale, Ended, AnsweringOK
<1>2. CASE Next
  BY <1>2, NextStep, StepIInv
<1> QED
  BY <1>1, <1>2

\* Wherever saves fail, the variables keep their types: a record is never
\* saved without a text, and an answer Restore with nothing left to do is over
\* (doc_recovery.py, write and offer).
THEOREM TypeCorrect == Spec => []TypeOK
<1>1. Init => IInv
  BY InitKeptInv DEF KeptInv
<1>2. IInv => TypeOK
  BY DEF IInv
<1> QED
  BY <1>1, <1>2, NextIInv, PTL DEF Spec

\* Wherever saves fail, the memo of an open window tells the truth about its
\* record, which no other desktop has taken away or written over
\* (doc_recovery.py, _owned_by_another_live_desktop and write).
THEOREM RecordsBacked == Spec => []Backed
<1>1. Init => IInv
  BY InitKeptInv DEF KeptInv
<1>2. IInv => Backed
  BY DEF IInv, WindowsOK, RecordsOK, Backed
<1> QED
  BY <1>1, <1>2, NextIInv, PTL DEF Spec

-------------------------------------------------------------------------------
\* No recorded text is lost, as long as the record of a reopened window is
\* saved.

\* What a step of one desktop leaves to the others.
LEMMA OthersStay ==
    ASSUME IInv, NEW d \in Desktop, Step(d)
    PROVE  /\ \A u \in Window : window[u].at \notin {d, None} => window'[u] = window[u]
           /\ \A e \in Desktop \ {d} : restoring'[e] = restoring[e]
<1> DEFINE Goal ==
    /\ \A u \in Window : window[u].at \notin {d, None} => window'[u] = window[u]
    /\ \A e \in Desktop \ {d} : restoring'[e] = restoring[e]
<1>1. CASE Start(d)
  BY <1>1 DEF Start
<1>2. CASE Stop(d)
  BY <1>2 DEF Stop, Shown, IInv, TypeOK
<1>3. ASSUME NEW w \in Window, Open(d, w) \/ Type(d, w) \/ Save(d, w) \/ Close(d, w)
      PROVE  Goal
  BY <1>3 DEF Open, Type, Save, Close, Shown, FreshWindow, IInv, TypeOK, WindowsOK
<1>4. ASSUME NEW w \in Window, WindowFault(d, w)
      PROVE  Goal
  BY <1>4 DEF WindowFault, Shown, IInv, TypeOK
<1>5. CASE Tick(d)
  <2>1. UNCHANGED restoring
    BY <1>5 DEF Tick
  <2>2. PICK due \in SUBSET Shown(d), failed \in SUBSET Shown(d), dropped \in SUBSET Shown(d) :
           Memo(due, failed, dropped)
    BY <1>5 DEF Tick
  <2> QED
    BY <2>1, <2>2 DEF Memo, Shown
<1>6. CASE LoopFault(d)
  <2>1. UNCHANGED restoring
    BY <1>6 DEF LoopFault
  <2>2. PICK due \in SUBSET Shown(d), failed \in SUBSET Shown(d) : Memo(due, failed, {})
    BY <1>6 DEF LoopFault
  <2> QED
    BY <2>1, <2>2 DEF Memo, Shown
<1>7. CASE \/ Restore(d) \/ Later(d)
           \/ \E w \in Window : Reopen(d, w)
           \/ \E i \in Item : RestoreRefused(d, i)
  BY <1>7 DEF Restore, Later, Reopen, RestoreRefused, IInv, TypeOK
<1>8. CASE Discard(d) \/ Forget(d)
  BY <1>8 DEF Discard, Forget, IInv, TypeOK
<1>9. ASSUME NEW w \in Window, NEW i \in Item, RestoreItem(d, i, w)
      PROVE  Goal
  <2>1. ~window[w].used /\ restoring' = [restoring EXCEPT ![d] = Progress(@.items \ {i}, i.token)]
    BY <1>9 DEF RestoreItem, FreshWindow
  <2>2. window[w].at = None
    BY <2>1 DEF IInv, WindowsOK
  <2>3. \A u \in Window \ {w} : window'[u] = window[u]
    BY <1>9 DEF RestoreItem, IInv, TypeOK
  <2> QED
    BY <2>1, <2>2, <2>3 DEF IInv, TypeOK
<1> QED
  BY <1>1, <1>2, <1>3, <1>4, <1>5, <1>6, <1>7, <1>8, <1>9 DEF Step

\* Only RestoreItem leaves a record to forget.
LEMMA NothingToForget ==
    ASSUME IInv, NEW d \in Desktop, Step(d),
           ~ \E w \in Window, i \in Item : RestoreItem(d, i, w)
    PROVE  restoring'[d] # None => restoring'[d].old = None
<1>1. ASSUME NEW items \in SUBSET Item, restoring' = [restoring EXCEPT ![d] = Progress(items, None)]
      PROVE  restoring'[d] # None => restoring'[d].old = None
  BY <1>1, ProgressType DEF IInv, TypeOK
<1>2. ASSUME UNCHANGED restoring, restoring[d] = None \/ life[d] # "up"
      PROVE  restoring'[d] = None
  BY <1>2 DEF IInv, AnsweringOK
<1>3. CASE Start(d)
  BY <1>2, <1>3 DEF Start, FreshDesktop
<1>4. CASE Stop(d)
  BY <1>4 DEF Stop, IInv, TypeOK
<1>5. ASSUME NEW w \in Window, Open(d, w) \/ Type(d, w) \/ Save(d, w) \/ Close(d, w)
      PROVE  restoring'[d] = None
  BY <1>2, <1>5 DEF Open, Type, Save, Close, Idle
<1>6. ASSUME NEW w \in Window, WindowFault(d, w)
      PROVE  restoring'[d] = None
  BY <1>2, <1>6 DEF WindowFault, Idle
<1>7. CASE Tick(d) \/ LoopFault(d) \/ Later(d) \/ Discard(d)
  BY <1>2, <1>7 DEF Tick, LoopFault, Later, Discard, Idle
<1>8. CASE Restore(d)
  BY <1>1, <1>8 DEF Restore, IInv, TypeOK
<1>9. ASSUME NEW w \in Window, Reopen(d, w)
      PROVE  restoring'[d] # None => restoring'[d].old = None
  <2> DEFINE items == {i \in Pending(d) : i.token = w}
  <2>1. items \in SUBSET Item
    BY PendingStale
  <2>2. restoring' = [restoring EXCEPT ![d] = Progress(items, None)]
    BY <1>9 DEF Reopen
  <2> HIDE DEF items
  <2> QED
    BY <1>1, <2>1, <2>2
<1>10. ASSUME NEW i \in Item, RestoreRefused(d, i)
       PROVE  restoring'[d] # None => restoring'[d].old = None
  <2>1. restoring[d].items \ {i} \in SUBSET Item
    BY <1>10 DEF RestoreRefused, IInv, TypeOK, Restoring
  <2> QED
    BY <1>1, <1>10, <2>1 DEF RestoreRefused, IInv, TypeOK
<1>11. CASE Forget(d)
  <2>1. restoring[d].items \in SUBSET Item
    BY <1>11 DEF Forget, IInv, TypeOK, Restoring
  <2> QED
    BY <1>1, <1>11, <2>1 DEF Forget, IInv, TypeOK
<1> QED
  BY <1>3, <1>4, <1>5, <1>6, <1>7, <1>8, <1>9, <1>10, <1>11 DEF Step

\* A copy stays while its desktop goes on with the answer.
LEMMA CopyStays ==
    ASSUME IInv, IInv', EndedStays,
           NEW d \in Desktop, NEW w \in Window, Ended(w), CopyOf(d, w),
           \A u \in Window : window[u].at = d => window'[u] = window[u]
    PROVE  CopyOf(d, w)'
<1>1. PICK u \in Window :
         /\ window[u].at = d
         /\ window[u].modified
         /\ window[u].written # NoText
         /\ record[w] # None => record[w].text = window[u].written
  BY DEF CopyOf
<1>2. window'[u] = window[u] /\ record'[w] \in {record[w], None}
  BY <1>1 DEF EndedStays
<1> QED
  BY <1>1, <1>2 DEF CopyOf

\* The window that reopens an item and its record hold the text of the item.
Reopened(d, i, w) ==
    /\ window'[w].at = d /\ window'[w].modified /\ window'[w].written = i.text
    /\ record[w] = None
    /\ record'[w] = [text |-> i.text, owner |-> d]
    /\ \A v \in Window \ {w} : window'[v] = window[v] /\ record'[v] = record[v]
    /\ owed' = owed \cup {i.text}

\* They do when the save of the record succeeds.
LEMMA ReopenedKept ==
    ASSUME "restore" \notin Failing, IInv,
           NEW d \in Desktop, NEW i \in Item, NEW w \in Window, RestoreItem(d, i, w)
    PROVE  Reopened(d, i, w)
<1>1. PICK failed \in SUBSET {w} :
         /\ Fail("restore", failed)
         /\ window' = [window EXCEPT ![w] = [Opened(d, i.text) EXCEPT
                          !.written = IF w \in {w} \ failed THEN i.text ELSE NoText]]
         /\ record' = [v \in Window |->
               IF v \in {w} \ failed THEN [text |-> i.text, owner |-> d] ELSE record[v]]
         /\ owed' = owed \cup {i.text : v \in {w} \ failed}
  BY DEF RestoreItem
<1>2. failed = {}
  BY <1>1, FailType DEF IInv
<1>3. i.text \in Text /\ i.text # NoText
  BY RecordType DEF Item
<1>4. window' = [window EXCEPT ![w] = [Opened(d, i.text) EXCEPT !.written = i.text]]
  BY <1>1, <1>2
<1>5. window'[w].at = d /\ window'[w].modified /\ window'[w].written = i.text
  BY <1>3, <1>4 DEF Opened, IInv, TypeOK
<1>6. record[w] = None
  BY DEF RestoreItem, FreshWindow, IInv, WindowsOK
<1>7. record'[w] = [text |-> i.text, owner |-> d]
  BY <1>1, <1>2
<1>8. \A v \in Window \ {w} : window'[v] = window[v] /\ record'[v] = record[v]
  BY <1>1, <1>2, <1>4 DEF IInv, TypeOK
<1>9. owed' = owed \cup {i.text}
  BY <1>1, <1>2
<1> QED
  BY <1>5, <1>6, <1>7, <1>8, <1>9 DEF Reopened

\* So the record of the item, which the answer forgets next, has a copy.
LEMMA ReopenedCopy ==
    ASSUME "restore" \notin Failing, IInv, EndedStays,
           NEW d \in Desktop, NEW i \in Item, NEW w \in Window, RestoreItem(d, i, w)
    PROVE  CopyOf(d, i.token)'
<1>1. Reopened(d, i, w)
  BY ReopenedKept
<1>2. window'[w].at = d /\ window'[w].modified /\ window'[w].written = i.text
  BY <1>1 DEF Reopened
<1>3. i.token \in Window /\ i.text # NoText
  BY RecordType DEF Item
<1>4. Stale(i)
  BY DEF RestoreItem, IInv, ItemsOK
<1>5. record'[i.token] # None => record'[i.token].text = i.text
  BY <1>3, <1>4 DEF EndedStays, Stale
<1> QED
  BY <1>2, <1>3, <1>5 DEF CopyOf

\* Where an answer has a record to forget, there is a copy of it.
LEMMA StepRestoring ==
    ASSUME "restore" \notin Failing, KeptInv, NEW d \in Desktop, Step(d)
    PROVE  RestoringOK'
<1>1. IInv /\ IInv' /\ EndedStays
  BY StepIInv DEF KeptInv
<1> SUFFICES ASSUME NEW e \in Desktop, restoring'[e] # None, restoring'[e].old # None
             PROVE  CopyOf(e, restoring[e].old)'
  BY DEF RestoringOK, CopyOf
<1>2. CASE e # d
  <2>1. restoring'[e] = restoring[e]
    BY <1>1, <1>2, OthersStay
  <2>2. restoring[e].old \in Window /\ Ended(restoring[e].old)
    BY <1>1, <2>1 DEF IInv, TypeOK, Restoring, ItemsOK
  <2>3. CopyOf(e, restoring[e].old)
    BY <2>1 DEF KeptInv, RestoringOK
  <2>4. \A u \in Window : window[u].at = e => window'[u] = window[u]
    BY <1>1, <1>2, OthersStay, NoneAssumption
  <2> DEFINE old == restoring[e].old
  <2>5. CopyOf(e, old)'
    BY <1>1, <2>1, <2>2, <2>3, <2>4, CopyStays
  <2> QED
    BY <2>5
<1>3. CASE e = d
  <2>1. PICK w \in Window, i \in Item : RestoreItem(d, i, w)
    BY <1>1, <1>3, NothingToForget
  <2>2. CopyOf(d, i.token)'
    BY <1>1, <2>1, ReopenedCopy DEF CopyOf
  <2>3. restoring'[d].old = i.token
    <3>1. restoring[d].items \ {i} \in SUBSET Item /\ i.token \in Window \cup {None}
      BY <1>1, <2>1 DEF RestoreItem, IInv, TypeOK, Restoring, Item
    <3> QED
      BY <1>1, <1>3, <2>1, <3>1, ProgressType DEF RestoreItem, IInv, TypeOK
  <2> QED
    BY <1>3, <2>2, <2>3 DEF CopyOf
<1> QED
  BY <1>2, <1>3

\* A record under an open window holds what the memo says.
LEMMA FirmMemo ==
    ASSUME IInv, NEW w \in Window, NEW t \in Text, Firm(w, t), window[w].at # None
    PROVE  window[w].written = t /\ window[w].modified
<1>1. record[w] # None /\ record[w].text = t /\ window[w].modified
  BY DEF Firm
<1>2. record[w] = [text |-> window[w].written, owner |-> window[w].at]
  BY <1>1 DEF IInv, RecordsOK
<1> QED
  BY <1>1, <1>2

\* What a checkpoint acknowledges is kept, by a record it saves or by one that
\* it does not touch.
LEMMA CheckpointKept ==
    ASSUME IInv, NEW d \in Desktop, FirmlyKept,
           NEW saved \in SUBSET Shown(d), NEW dropped \in SUBSET Shown(d),
           \A w \in saved : Unwritten(w),
           \A w \in dropped : Settled(w),
           Recorded(d, saved, dropped),
           Acknowledged(saved),
           \A w \in Window : \/ window'[w].at = None
                             \/ /\ window'[w].at = window[w].at
                                /\ window'[w].modified = window[w].modified
    PROVE  FirmlyKept'
<1> SUFFICES ASSUME NEW t \in owed' PROVE \E w \in Window : Firm(w, t)'
  BY DEF FirmlyKept, Firm
<1>1. saved \subseteq Window /\ dropped \subseteq Window
  BY DEF Shown
<1>2. d # None
  BY NoneAssumption
<1>3. CASE \E w \in saved : t = window[w].text
  <2>1. PICK w \in saved : t = window[w].text
    BY <1>3
  <2>2. [text |-> t, owner |-> d] # None
    BY <1>1, <2>1, UnwrittenType, RecordType
  <2>3. record'[w] = [text |-> t, owner |-> d]
    BY <1>1, <2>1 DEF Recorded
  <2>4. window[w].modified
    BY <2>1 DEF Unwritten
  <2>5. Firm(w, t)'
    BY <1>1, <2>2, <2>3, <2>4 DEF Firm
  <2> QED
    BY <1>1, <2>5
<1>4. CASE t \notin {window[w].text : w \in saved}
  <2>1. t \in owed /\ t \notin {window[w].written : w \in saved}
    BY <1>4 DEF Acknowledged
  <2>2. PICK w \in Window : Firm(w, t)
    BY <2>1 DEF FirmlyKept
  <2>3. t \in Text
    BY <2>1 DEF IInv, TypeOK
  <2>4. w \notin saved /\ w \notin dropped
    BY <1>2, <2>1, <2>2, <2>3, FirmMemo DEF Shown, Settled
  <2>5. record'[w] = record[w]
    BY <2>4 DEF Recorded
  <2>6. Firm(w, t)'
    BY <2>2, <2>5 DEF Firm
  <2> QED
    BY <2>6
<1> QED
  BY <1>3, <1>4

\* Every step of the code keeps what it owes.
LEMMA StepKept ==
    ASSUME "restore" \notin Failing, KeptInv, NEW d \in Desktop, Step(d)
    PROVE  FirmlyKept'
<1>1. IInv /\ IInv' /\ EndedStays /\ FirmlyKept
  BY StepIInv DEF KeptInv
<1>2. owed \subseteq Text
  BY <1>1 DEF IInv, TypeOK
<1>3. d # None
  BY NoneAssumption
<1>4. CASE \/ Start(d) \/ Restore(d) \/ Later(d)
           \/ \E w \in Window : Reopen(d, w)
           \/ \E i \in Item : RestoreRefused(d, i)
  <2>1. UNCHANGED <<window, record, owed>>
    BY <1>4 DEF Start, Restore, Later, Reopen, RestoreRefused
  <2> QED
    BY <1>1, <2>1 DEF FirmlyKept, Firm
<1>5. CASE Stop(d)
  <2>1. /\ UNCHANGED <<record, owed>>
        /\ \A w \in Window : window'[w] = window[w] \/ window'[w].at = None
    BY <1>5, DocumentType DEF Stop
  <2> QED
    BY <1>1, <2>1 DEF FirmlyKept, Firm
<1>6. ASSUME NEW w \in Window, Open(d, w) PROVE FirmlyKept'
  <2>1. record[w] = None /\ UNCHANGED <<record, owed>>
    BY <1>1, <1>6 DEF Open, FreshWindow, IInv, WindowsOK
  <2>2. \A v \in Window \ {w} : window'[v] = window[v]
    BY <1>1, <1>6 DEF Open, IInv, TypeOK
  <2> QED
    BY <1>1, <2>1, <2>2 DEF FirmlyKept, Firm
<1>7. ASSUME NEW w \in Window, Type(d, w) PROVE FirmlyKept'
  <2>1. /\ UNCHANGED <<record, owed>>
        /\ \A v \in Window : /\ window'[v].at = window[v].at
                             /\ window[v].modified => window'[v].modified
    <3>1. window[w] \in Document
      BY <1>1 DEF IInv, TypeOK
    <3> QED
      BY <1>1, <1>7, <3>1 DEF Type, Document, IInv, TypeOK
  <2> QED
    BY <1>1, <2>1 DEF FirmlyKept, Firm
<1>8. ASSUME NEW w \in Window, Save(d, w) \/ Close(d, w) PROVE FirmlyKept'
  <2>1. /\ window[w].at = d
        /\ owed' = owed \ Texts(w)
        /\ \A v \in Window \ {w} : window'[v] = window[v] /\ record'[v] = record[v]
    BY <1>1, <1>8 DEF Save, Close, Shown, IInv, TypeOK
  <2> SUFFICES ASSUME NEW t \in owed' PROVE \E v \in Window : Firm(v, t)'
    BY DEF FirmlyKept, Firm
  <2>2. t \in owed /\ t \in Text /\ t # window[w].written
    BY <1>2, <2>1 DEF Texts
  <2>3. PICK v \in Window : Firm(v, t)
    BY <1>1, <2>2 DEF FirmlyKept
  <2>4. v # w
    BY <1>1, <1>3, <2>1, <2>2, <2>3, FirmMemo
  <2>5. Firm(v, t)'
    BY <2>1, <2>3, <2>4 DEF Firm
  <2> QED
    BY <2>5
<1>9. CASE Tick(d)
  <2> DEFINE due == {w \in Shown(d) : Unwritten(w)}
             dropped == {w \in Shown(d) : Settled(w)}
  <2>1. PICK failed \in SUBSET due :
           /\ Memo(due, failed, dropped)
           /\ Recorded(d, due \ failed, dropped)
           /\ Acknowledged(due \ failed)
    BY <1>9 DEF Tick
  <2>2. /\ due \ failed \in SUBSET Shown(d) /\ \A w \in due \ failed : Unwritten(w)
        /\ dropped \in SUBSET Shown(d) /\ \A w \in dropped : Settled(w)
    OBVIOUS
  <2> HIDE DEF due, dropped
  <2>3. \A w \in Window : /\ window'[w].at = window[w].at
                          /\ window'[w].modified = window[w].modified
    BY <1>1, <2>1 DEF Memo, IInv, TypeOK, Document
  <2> QED
    BY <1>1, <2>1, <2>2, <2>3, CheckpointKept
<1>10. CASE LoopFault(d)
  <2> DEFINE due == {w \in Shown(d) : Unwritten(w)}
  <2>1. PICK failed \in SUBSET due :
           /\ Memo(due, failed, {})
           /\ Recorded(d, due \ failed, {})
           /\ Acknowledged(due \ failed)
    BY <1>10 DEF LoopFault
  <2>2. due \ failed \in SUBSET Shown(d) /\ \A w \in due \ failed : Unwritten(w)
    OBVIOUS
  <2>3. {} \in SUBSET Shown(d) /\ \A w \in {} : Settled(w)
    OBVIOUS
  <2> HIDE DEF due
  <2>4. \A w \in Window : /\ window'[w].at = window[w].at
                          /\ window'[w].modified = window[w].modified
    BY <1>1, <2>1 DEF Memo, IInv, TypeOK, Document
  <2> QED
    BY <1>1, <2>1, <2>2, <2>3, <2>4, CheckpointKept
<1>11. ASSUME NEW w \in Window, WindowFault(d, w) PROVE FirmlyKept'
  <2> DEFINE due == {v \in {w} : Unwritten(v)}
  <2>1. PICK failed \in SUBSET due :
           /\ Recorded(d, due \ failed, {})
           /\ Acknowledged(due \ failed)
    BY <1>11 DEF WindowFault
  <2>2. due \ failed \in SUBSET Shown(d) /\ \A v \in due \ failed : Unwritten(v)
    BY <1>11 DEF WindowFault
  <2>3. {} \in SUBSET Shown(d) /\ \A v \in {} : Settled(v)
    OBVIOUS
  <2>4. \A v \in Window : window'[v] = window[v] \/ window'[v].at = None
    BY <1>1, <1>11, DocumentType DEF WindowFault, IInv, TypeOK
  <2> HIDE DEF due
  <2> QED
    BY <1>1, <2>1, <2>2, <2>3, <2>4, CheckpointKept
<1>12. CASE Discard(d)
  <2> SUFFICES ASSUME NEW t \in owed' PROVE \E v \in Window : Firm(v, t)'
    BY DEF FirmlyKept, Firm
  <2>1. t \in owed /\ \A i \in offer[d] : t # i.text
    BY <1>12 DEF Discard
  <2>2. PICK v \in Window : Firm(v, t)
    BY <1>1, <2>1 DEF FirmlyKept
  <2>3. \A i \in offer[d] : v # i.token
    BY <1>1, <2>1, <2>2 DEF Firm, IInv, ItemsOK, Stale
  <2>4. record'[v] = record[v] /\ UNCHANGED window
    BY <1>12, <2>3 DEF Discard
  <2>5. Firm(v, t)'
    BY <2>2, <2>4 DEF Firm
  <2> QED
    BY <2>5
<1>13. CASE Forget(d)
  <2> DEFINE old == restoring[d].old
  <2>1. restoring[d] # None /\ old # None /\ UNCHANGED <<window, owed>>
        /\ record' = [record EXCEPT ![old] = None]
    BY <1>13 DEF Forget
  <2>2. old \in Window /\ Ended(old)
    BY <1>1, <2>1 DEF IInv, TypeOK, Restoring, ItemsOK
  <2> SUFFICES ASSUME NEW t \in owed PROVE \E v \in Window : Firm(v, t)'
    BY <2>1 DEF FirmlyKept, Firm
  <2>3. PICK v \in Window : Firm(v, t)
    BY <1>1 DEF FirmlyKept
  <2>4. CASE v # old
    <3>1. Firm(v, t)'
      BY <1>1, <2>1, <2>3, <2>4 DEF Firm, IInv, TypeOK
    <3> QED
      BY <3>1
  <2>5. CASE v = old
    <3>1. PICK u \in Window :
             /\ window[u].at = d
             /\ window[u].modified
             /\ window[u].written # NoText
             /\ window[u].written = t
      BY <2>1, <2>3, <2>5 DEF KeptInv, RestoringOK, CopyOf, Firm
    <3>2. record[u] = [text |-> t, owner |-> d]
      BY <1>1, <1>3, <3>1 DEF IInv, RecordsOK
    <3>3. u # old /\ record[u] # None
      BY <1>2, <1>3, <2>2, <3>1, <3>2, RecordType DEF Ended
    <3>4. Firm(u, t)'
      BY <1>1, <2>1, <3>1, <3>2, <3>3 DEF Firm, IInv, TypeOK
    <3> QED
      BY <3>4
  <2> QED
    BY <2>4, <2>5
<1>14. ASSUME NEW w \in Window, NEW i \in Item, RestoreItem(d, i, w) PROVE FirmlyKept'
  <2>1. /\ window'[w].at = d /\ window'[w].modified
        /\ record[w] = None /\ record'[w] = [text |-> i.text, owner |-> d]
        /\ \A v \in Window \ {w} : window'[v] = window[v] /\ record'[v] = record[v]
        /\ owed' = owed \cup {i.text}
    <3>1. Reopened(d, i, w)
      BY <1>1, <1>14, ReopenedKept
    <3> QED
      BY <3>1 DEF Reopened
  <2>2. [text |-> i.text, owner |-> d] # None
    BY RecordType DEF Item
  <2> SUFFICES ASSUME NEW t \in owed' PROVE \E v \in Window : Firm(v, t)'
    BY DEF FirmlyKept, Firm
  <2>3. CASE t = i.text
    <3>1. Firm(w, t)'
      BY <1>1, <2>1, <2>2, <2>3 DEF Firm, IInv, TypeOK
    <3> QED
      BY <3>1
  <2>4. CASE t \in owed
    <3>1. PICK v \in Window : Firm(v, t)
      BY <1>1, <2>4 DEF FirmlyKept
    <3>2. v # w
      BY <2>1, <3>1 DEF Firm
    <3>3. Firm(v, t)'
      BY <1>1, <2>1, <3>1, <3>2 DEF Firm, IInv, TypeOK
    <3> QED
      BY <3>3
  <2> QED
    BY <2>1, <2>3, <2>4
<1> QED
  BY <1>4, <1>5, <1>6, <1>7, <1>8, <1>9, <1>10, <1>11, <1>12, <1>13, <1>14 DEF Step

\* A step of the specification preserves both invariants.
LEMMA NextKeptInv ==
    ASSUME "restore" \notin Failing
    PROVE  KeptInv /\ [Next]_vars => KeptInv'
<1> SUFFICES ASSUME KeptInv, [Next]_vars PROVE KeptInv'
  OBVIOUS
<1>1. IInv'
  BY NextIInv DEF KeptInv
<1>2. CASE UNCHANGED vars
  <2>1. UNCHANGED <<window, record, restoring, owed>>
    BY <1>2 DEF vars
  <2> QED
    BY <1>1, <2>1 DEF KeptInv, RestoringOK, CopyOf, FirmlyKept, Firm
<1>3. CASE Next
  BY <1>1, <1>3, NextStep, StepRestoring, StepKept DEF KeptInv
<1> QED
  BY <1>2, <1>3

\* Unless the save of a reopened window fails, a text that was recorded stays
\* recorded until the user replaces, saves or discards it: whatever window
\* fails, desktop ends or pass is cut short (doc_recovery.py, restore and tick).
THEOREM TextsKept ==
    ASSUME "restore" \notin Failing
    PROVE  Spec => []TextKept
<1>1. Init => KeptInv
  BY InitKeptInv
<1>2. KeptInv => TextKept
  BY DEF KeptInv, FirmlyKept, Firm, TextKept
<1>3. KeptInv /\ [Next]_vars => KeptInv'
  BY NextKeptInv
<1> QED
  BY <1>1, <1>2, <1>3, PTL DEF Spec
===============================================================================
