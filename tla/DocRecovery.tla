------------------------------ MODULE DocRecovery ------------------------------
(***************************************************************************)
(* The checkpoints of unsaved documents of Kilix 95 (doc_recovery.py, with *)
(* its callers in main.py and wm.py).                                      *)
(*                                                                         *)
(* Several desktops, each one process, share a directory of records. A     *)
(* record holds the text of one window and names the desktop that wrote    *)
(* it. It outlives its window when the window fails and its desktop when   *)
(* that ends; the next start offers every record that no other running     *)
(* desktop owns. Desktops, windows and texts are used once: a window       *)
(* stands for its record's token too, which is a fresh UUID.               *)
(*                                                                         *)
(* A desktop is single-threaded: what it does between two writes to the    *)
(* directory is one step, and it ends only between steps. A desktop that   *)
(* ends in the middle of a pass over its windows is one whose later writes *)
(* of that pass failed.                                                    *)
(***************************************************************************)
EXTENDS Naturals, FiniteSets

CONSTANTS
    Desktop,
    Window,
    None,
    Failing,              \* where saving a record may fail
    MaxTexts, MaxFaults   \* bounds on what is typed and on failed saves

Text == 1..MaxTexts
NoText == 0
Place == {"pass", "fault", "restore"}

ASSUME NoneAssumption == None \notin Desktop \cup Window \cup [text : Text, owner : Desktop]
ASSUME WindowAssumption == IsFiniteSet(Window)
ASSUME FailingAssumption == Failing \subseteq Place
ASSUME BoundAssumption == MaxTexts \in Nat /\ MaxFaults \in Nat

VARIABLES
    life,       \* life[d]: "new", "up" or "down"
    window,     \* window[w]: the document in w, and the desktop that shows it
    record,     \* record[w]: what the directory holds for w, or None
    offer,      \* offer[d]: the items of the dialog Document Recovery of d
    kept,       \* kept[d]: the failed windows that dialogs of d offer to reopen
    restoring,  \* restoring[d]: how far the answer Restore has got, or None
    typed,      \* how many texts the user has typed
    faults,     \* how many saves of a record have failed
    owed        \* history: the texts that have been recorded and that the
                \* user has neither replaced, saved nor discarded since

dialogs == <<offer, kept>>
bounds == <<typed, faults>>
vars == <<life, window, record, dialogs, restoring, bounds, owed>>

Document == [used : BOOLEAN, at : Desktop \cup {None},
             text : Text \cup {NoText}, modified : BOOLEAN,
             written : Text \cup {NoText}]   \* _recovery_written
Record == [text : Text, owner : Desktop]
Item == [token : Window, text : Text]
Restoring ==
    {r \in [items : SUBSET Item,         \* what is still to be reopened
            old : Window \cup {None}] :  \* the record to forget next
        r.items # {} \/ r.old # None}

Unopened == [used |-> FALSE, at |-> None, text |-> NoText, modified |-> FALSE, written |-> NoText]
Closed == [Unopened EXCEPT !.used = TRUE]
Opened(d, t) == [used |-> TRUE, at |-> d, text |-> t, modified |-> t # NoText, written |-> NoText]

TypeOK ==
    /\ life \in [Desktop -> {"new", "up", "down"}]
    /\ window \in [Window -> Document]
    /\ record \in [Window -> Record \cup {None}]
    /\ offer \in [Desktop -> SUBSET Item]
    /\ kept \in [Desktop -> SUBSET Window]
    /\ restoring \in [Desktop -> Restoring \cup {None}]
    /\ typed \in 0..MaxTexts
    /\ faults \in 0..MaxFaults
    /\ owed \subseteq Text

-------------------------------------------------------------------------------
Shown(d) == {w \in Window : window[w].at = d}
Idle(d) == life[d] = "up" /\ restoring[d] = None

\* A process or a window that is new is like every other: any will do.
FreshDesktop(d) == life[d] = "new" /\ d = CHOOSE e \in Desktop : life[e] = "new"
FreshWindow(w) == ~window[w].used /\ w = CHOOSE v \in Window : ~window[v].used

\* write() does nothing when the memo says that the record is up to date.
Unwritten(w) == window[w].modified /\ window[w].text # window[w].written

\* closed() and tick() drop the record of a window that is not modified.
Settled(w) == ~window[w].modified /\ window[w].written # NoText

Texts(w) == {window[w].text, window[w].written}

\* Mutant: the owner of a record is not looked at.
OwnedByNobody(w, d) == FALSE

\* _owned_by_another_live_desktop
OwnedByAnother(w, d) ==
    /\ record[w].owner # d
    /\ life[record[w].owner] = "up"

\* pending(), as desktop d sees the directory.
Pending(d) ==
    {[token |-> w, text |-> record[w].text] :
        w \in {w \in Window : record[w] # None /\ ~OwnedByAnother(w, d)}}

\* Saves of a record that fail; each kind of place is enabled by Failing.
Fail(place, failed) ==
    /\ failed # {} => place \in Failing /\ faults + Cardinality(failed) <= MaxFaults
    /\ faults' = faults + Cardinality(failed)

\* Save the records of the windows of `saved`, drop those of `dropped`.
Recorded(d, saved, dropped) ==
    record' = [w \in Window |->
        IF w \in saved THEN [text |-> window[w].text, owner |-> d]
        ELSE IF w \in dropped THEN None ELSE record[w]]
\* Mutant: the memo is set before the save, and stays when that fails.
MemoFirst(due, failed, dropped) ==
    window' = [w \in Window |->
        IF w \in due THEN [window[w] EXCEPT !.written = window[w].text]
        ELSE IF w \in dropped THEN [window[w] EXCEPT !.written = NoText] ELSE window[w]]

Memo(due, failed, dropped) ==
    window' = [w \in Window |->
        IF w \in due \ failed THEN [window[w] EXCEPT !.written = window[w].text]
        ELSE IF w \in dropped THEN [window[w] EXCEPT !.written = NoText] ELSE window[w]]

Acknowledged(saved) ==
    owed' = (owed \ {window[w].written : w \in saved}) \cup {window[w].text : w \in saved}

\* The answer Restore goes on while it has items to reopen or a record to forget.
Progress(items, old) ==
    IF items = {} /\ old = None THEN None ELSE [items |-> items, old |-> old]

Init ==
    /\ life = [d \in Desktop |-> "new"]
    /\ window = [w \in Window |-> Unopened]
    /\ record = [w \in Window |-> None]
    /\ offer = [d \in Desktop |-> {}]
    /\ kept = [d \in Desktop |-> {}]
    /\ restoring = [d \in Desktop |-> None]
    /\ typed = 0 /\ faults = 0
    /\ owed = {}

-------------------------------------------------------------------------------
\* The life of a desktop.

\* _start_document_recovery
Start(d) ==
    /\ FreshDesktop(d)
    /\ life' = [life EXCEPT ![d] = "up"]
    /\ offer' = [offer EXCEPT ![d] = Pending(d)]
    /\ UNCHANGED <<window, record, kept, restoring, bounds, owed>>

\* The process dies, or the user leaves: _cleanup_windows closes no document.
Stop(d) ==
    /\ life[d] = "up"
    /\ life' = [life EXCEPT ![d] = "down"]
    /\ window' = [w \in Window |-> IF w \in Shown(d) THEN Closed ELSE window[w]]
    /\ offer' = [offer EXCEPT ![d] = {}]
    /\ kept' = [kept EXCEPT ![d] = {}]
    /\ restoring' = [restoring EXCEPT ![d] = None]
    /\ UNCHANGED <<record, bounds, owed>>

-------------------------------------------------------------------------------
\* Editing.

Open(d, w) ==
    /\ Idle(d)
    /\ FreshWindow(w)
    /\ window' = [window EXCEPT ![w] = Opened(d, NoText)]
    /\ UNCHANGED <<life, record, dialogs, restoring, bounds, owed>>

Type(d, w) ==
    /\ Idle(d)
    /\ w \in Shown(d)
    /\ typed < MaxTexts
    /\ typed' = typed + 1
    /\ window' = [window EXCEPT ![w].text = typed', ![w].modified = TRUE]
    /\ UNCHANGED <<life, record, dialogs, restoring, faults, owed>>

\* The user saves the document, or gives it up for a new one: the record is
\* dropped by the next pass only.
Save(d, w) ==
    /\ Idle(d)
    /\ w \in Shown(d)
    /\ window[w].modified
    /\ window' = [window EXCEPT ![w].modified = FALSE]
    /\ owed' = owed \ Texts(w)
    /\ UNCHANGED <<life, record, dialogs, restoring, bounds>>

\* A deliberate close, after the question whether to save.
Close(d, w) ==
    /\ Idle(d)
    /\ w \in Shown(d)
    /\ window' = [window EXCEPT ![w] = Closed]
    /\ record' = [record EXCEPT ![w] = None]
    /\ owed' = owed \ Texts(w)
    /\ UNCHANGED <<life, dialogs, restoring, bounds>>

-------------------------------------------------------------------------------
\* Checkpoints.

\* The pass over all windows, at most once a second.
Tick(d) ==
    /\ Idle(d)
    /\ LET due == {w \in Shown(d) : Unwritten(w)}
           dropped == {w \in Shown(d) : Settled(w)}
       IN  \E failed \in SUBSET due :
              /\ Fail("pass", failed)
              /\ Memo(due, failed, dropped)
              /\ Recorded(d, due \ failed, dropped)
              /\ Acknowledged(due \ failed)
    /\ UNCHANGED <<life, dialogs, restoring, typed>>

\* _loop_fault: a fault outside any window checkpoints the modified ones.
LoopFault(d) ==
    /\ Idle(d)
    /\ LET due == {w \in Shown(d) : Unwritten(w)}
       IN  \E failed \in SUBSET due :
              /\ Fail("pass", failed)
              /\ Memo(due, failed, {})
              /\ Recorded(d, due \ failed, {})
              /\ Acknowledged(due \ failed)
    /\ UNCHANGED <<life, dialogs, restoring, typed>>

\* window_fault: checkpoint the failing window, close it, keep its record.
WindowFault(d, w) ==
    /\ Idle(d)
    /\ w \in Shown(d)
    /\ LET due == {v \in {w} : Unwritten(v)}
       IN  \E failed \in SUBSET due :
              /\ Fail("fault", failed)
              /\ Recorded(d, due \ failed, {})
              /\ Acknowledged(due \ failed)
              /\ kept' = IF window[w].modified /\ failed = {}
                           THEN [kept EXCEPT ![d] = @ \cup {w}] ELSE kept
    /\ window' = [window EXCEPT ![w] = Closed]
    /\ UNCHANGED <<life, offer, restoring, typed>>

-------------------------------------------------------------------------------
\* The answers to the dialogs.

Restore(d) ==
    /\ Idle(d)
    /\ offer[d] # {}
    /\ restoring' = [restoring EXCEPT ![d] = Progress(offer[d], None)]
    /\ offer' = [offer EXCEPT ![d] = {}]
    /\ UNCHANGED <<life, window, record, kept, bounds, owed>>

Later(d) ==
    /\ Idle(d)
    /\ \/ /\ offer[d] # {}
          /\ offer' = [offer EXCEPT ![d] = {}]
          /\ UNCHANGED kept
       \/ /\ \E w \in kept[d] : kept' = [kept EXCEPT ![d] = @ \ {w}]
          /\ UNCHANGED offer
    /\ UNCHANGED <<life, window, record, restoring, bounds, owed>>

Discard(d) ==
    /\ Idle(d)
    /\ offer[d] # {}
    /\ LET tokens == {i.token : i \in offer[d]}
       IN  record' = [w \in Window |-> IF w \in tokens THEN None ELSE record[w]]
    /\ owed' = owed \ {i.text : i \in offer[d]}
    /\ offer' = [offer EXCEPT ![d] = {}]
    /\ UNCHANGED <<life, window, kept, restoring, bounds>>

\* Reopen looks the record up again among the pending ones.
Reopen(d, w) ==
    /\ Idle(d)
    /\ w \in kept[d]
    /\ kept' = [kept EXCEPT ![d] = @ \ {w}]
    /\ restoring' = [restoring EXCEPT ![d] = Progress({i \in Pending(d) : i.token = w}, None)]
    /\ UNCHANGED <<life, window, record, offer, bounds, owed>>

\* Mutant: the old record is forgotten before the new one is written.
ForgetThenWrite(d, i, w) ==
    /\ restoring[d] # None
    /\ restoring[d].old = None
    /\ i \in restoring[d].items
    /\ FreshWindow(w)
    /\ window' = [window EXCEPT ![w] = Opened(d, i.text)]
    /\ record' = [record EXCEPT ![i.token] = None]
    /\ restoring' = [restoring EXCEPT ![d] = Progress(@.items \ {i}, None)]
    /\ UNCHANGED <<life, dialogs, bounds, owed>>

\* restore() up to the save of the reopened window's own record.
RestoreItem(d, i, w) ==
    /\ restoring[d] # None
    /\ restoring[d].old = None
    /\ i \in restoring[d].items
    /\ FreshWindow(w)
    /\ \E failed \in SUBSET {w} :
          LET saved == {w} \ failed
          IN  /\ Fail("restore", failed)
              /\ window' = [window EXCEPT ![w] = [Opened(d, i.text) EXCEPT
                                !.written = IF w \in saved THEN i.text ELSE NoText]]
              /\ record' = [v \in Window |->
                    IF v \in saved THEN [text |-> i.text, owner |-> d] ELSE record[v]]
              /\ owed' = owed \cup {i.text : v \in saved}
    /\ restoring' = [restoring EXCEPT ![d] = Progress(@.items \ {i}, i.token)]
    /\ UNCHANGED <<life, dialogs, typed>>

\* The program does not open: the record stays pending.
RestoreRefused(d, i) ==
    /\ restoring[d] # None
    /\ restoring[d].old = None
    /\ i \in restoring[d].items
    /\ restoring' = [restoring EXCEPT ![d] = Progress(@.items \ {i}, None)]
    /\ UNCHANGED <<life, window, record, dialogs, bounds, owed>>

\* The rest of restore(): _forget of the old token.
Forget(d) ==
    /\ restoring[d] # None
    /\ restoring[d].old # None
    /\ record' = [record EXCEPT ![restoring[d].old] = None]
    /\ restoring' = [restoring EXCEPT ![d] = Progress(@.items, None)]
    /\ UNCHANGED <<life, window, dialogs, bounds, owed>>

Next ==
    \E d \in Desktop :
        \/ Start(d) \/ Stop(d)
        \/ \E w \in Window :
              \/ Open(d, w) \/ Type(d, w) \/ Save(d, w) \/ Close(d, w)
              \/ WindowFault(d, w) \/ Reopen(d, w)
              \/ \E i \in Item : RestoreItem(d, i, w)
        \/ Tick(d) \/ LoopFault(d)
        \/ Restore(d) \/ Later(d) \/ Discard(d)
        \/ \E i \in Item : RestoreRefused(d, i)
        \/ Forget(d)

Spec == Init /\ [][Next]_vars

\* A running desktop goes on with what it has begun, and passes over its windows.
Fairness ==
    \A d \in Desktop :
        /\ WF_vars(Tick(d))
        /\ WF_vars(Forget(d))
        /\ WF_vars(\E i \in Item : RestoreRefused(d, i) \/ \E w \in Window : RestoreItem(d, i, w))

FairSpec == Spec /\ Fairness

-------------------------------------------------------------------------------
\* A text that was recorded stays recorded, whatever ends, fails or is
\* reopened, until the user replaces, saves or discards it.
TextKept == \A t \in owed : \E w \in Window : record[w] # None /\ record[w].text = t

\* The least of it: a text that was recorded is in the directory or on a screen.
NotLost ==
    \A t \in owed : \E w \in Window :
        \/ record[w] # None /\ record[w].text = t
        \/ window[w].at # None /\ window[w].text = t

\* The memo of an open window tells the truth: nothing another desktop does
\* takes the record of a document away while it is being edited.
Backed ==
    \A w \in Window :
        window[w].written # NoText =>
            record[w] = [text |-> window[w].written, owner |-> window[w].at]

\* Unsaved changes are recorded in the end, even if a save fails on the way,
\* unless they are saved or given up first.
Checkpointed ==
    \A w \in Window :
        window[w].modified ~>
            \/ ~window[w].modified
            \/ record[w] # None /\ record[w].text = window[w].text
===============================================================================
