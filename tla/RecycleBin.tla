------------------------------ MODULE RecycleBin ------------------------------
(***************************************************************************)
(* The recycle bin that the desktops of a user share (recycle.py) and its  *)
(* window (apps/recyclebin.py): items are moved in under a fresh token and *)
(* published by a sidecar, moved back, or purged.                          *)
(*                                                                         *)
(* Items are whole files; a folder is one.  A location is <<"desk", n, v>>,*)
(* name n with the v-th suffix that _unique gives; <<"home", t, v>>, where *)
(* an item without a sidecar is restored; or <<"bin", t, 1>>.  The tempora-*)
(* ry sidecar is a leak at worst and left out.                             *)
(***************************************************************************)
EXTENDS Integers, FiniteSets

CONSTANTS
    Desktop, File,
    MaxNames,      \* bound: names in the folders of the user
    MaxVariants,   \* bound: suffixes of a name
    MaxSends,      \* bound: items that are sent, and so tokens
    MaxFaults      \* bound: calls that fail and desktops that die

ASSUME ConstantsOK ==
    /\ MaxNames \in Nat /\ MaxVariants \in Nat \ {0}
    /\ MaxSends \in Nat /\ MaxFaults \in Nat

VARIABLES
    at,         \* the locations that hold each file, complete
    part,       \* the locations that hold a part of one
    info,       \* the published sidecars: token to origin, if there is one
    sends,      \* tokens given so far
    task,       \* what each desktop is doing
    view,       \* what its bin window lists
    faults,
    born,       \* ghost: files that have existed
    purged,     \* ghost: files that a purge has removed
    replaced,   \* ghost: files that a move has replaced
    sent        \* ghost: the sends that returned, token to file and origin

vars == <<at, part, info, sends, task, view, faults, born, purged, replaced, sent>>
ghosts == <<born, purged, replaced, sent>>

Token == 1..MaxSends
Variant == 1..MaxVariants
Spot ==
    ({"desk"} \X (1..MaxNames) \X Variant) \cup ({"home"} \X Token \X Variant)
Bin(t) == <<"bin", t, 1>>
Loc == Spot \cup {Bin(t) : t \in Token}
Nowhere == <<"none", 0, 0>>

\* A listed item: its token, and the file, unless it was incomplete.
Item == Token \X SUBSET File

\* op: the move is for a send, its undoing or a restore.  what: the file that
\* is being copied.  shown: the item that the user has been asked about.
Task == [step : {"idle", "move", "copy", "copied", "publish", "unlink",
                 "confirm", "purge", "forget"},
         op : {"none", "send", "undo", "restore", "delete", "empty"},
         token : Token \cup {0}, from : Loc \cup {Nowhere},
         to : Loc \cup {Nowhere}, what : SUBSET File, todo : SUBSET Token, shown : SUBSET Item]

NoTask == [step |-> "idle", op |-> "none", token |-> 0, from |-> Nowhere,
          to |-> Nowhere, what |-> {}, todo |-> {}, shown |-> {}]

TypeOK ==
    /\ at \in [File -> SUBSET Loc] /\ part \subseteq Loc
    /\ info \in [Token -> SUBSET Spot]
    /\ sends \in 0..MaxSends /\ faults \in 0..MaxFaults
    /\ task \in [Desktop -> Task]
    /\ view \in [Desktop -> SUBSET Item]
    /\ born \subseteq File /\ purged \subseteq File /\ replaced \subseteq File
    /\ sent \in [Token -> SUBSET (File \X Spot)]

Init ==
    /\ at = [f \in File |-> {}] /\ part = {}
    /\ info = [t \in Token |-> {}]
    /\ sends = 0 /\ faults = 0
    /\ task = [d \in Desktop |-> NoTask]
    /\ view = [d \in Desktop |-> {}]
    /\ born = {} /\ purged = {} /\ replaced = {}
    /\ sent = [t \in Token |-> {}]

-----------------------------------------------------------------------------
FilesAt(l) == {f \in File : l \in at[f]}
Occupied(l) == l \in part \/ FilesAt(l) # {}
InBin == {t \in Token : Occupied(Bin(t))}

\* items: the bin as a window lists it.
Items == {<<t, FilesAt(Bin(t))>> : t \in InBin}

\* _unique: l itself, or its first suffix that is free.
Unique(l, m) ==
    \/ m = l /\ ~Occupied(l)
    \/ /\ Occupied(l)
       /\ m \in Spot /\ m[1] = l[1] /\ m[2] = l[2] /\ m[3] > l[3]
       /\ ~Occupied(m)
       /\ \A v \in (l[3] + 1)..(m[3] - 1) : Occupied(<<l[1], l[2], v>>)

\* Mutant: the token is the name of what is sent.
TokenOfName(l) == l[2]

\* uuid4: a token that was never given before.
NewToken(l) == sends + 1

Fault == faults < MaxFaults /\ faults' = faults + 1

Become(d, t) == task' = [task EXCEPT ![d] = t]
Refreshed(d) == view' = [view EXCEPT ![d] = Items]

Remove(l) == [f \in File |-> at[f] \ {l}]

-----------------------------------------------------------------------------
(* What the user begins.                                                   *)

\* Another program saves a file where there is none.
Save(f, l) ==
    /\ f \notin born /\ ~Occupied(l)
    /\ l[1] = "desk" /\ l[3] = 1
    /\ at' = [at EXCEPT ![f] = {l}]
    /\ born' = born \cup {f}
    /\ UNCHANGED <<part, info, sends, task, view, faults, purged, replaced, sent>>

\* The sidecar is written under its temporary name before the move.
Send(d, l) ==
    /\ task[d].step = "idle" /\ Occupied(l) /\ sends < MaxSends
    /\ sends' = sends + 1
    /\ Become(d, [NoTask EXCEPT !.step = "move", !.op = "send",
                    !.token = NewToken(l), !.from = l, !.to = Bin(NewToken(l))])
    /\ UNCHANGED <<at, part, info, view, faults, ghosts>>

\* The window is opened or refreshed.
Refresh(d) ==
    /\ task[d].step = "idle"
    /\ Refreshed(d)
    /\ UNCHANGED <<at, part, info, sends, task, faults, ghosts>>

\* A listed item goes back to its origin, or home if it has no sidecar.
Restore(d, item) ==
    LET t == item[1]
        origin == info[t] \cup {l \in {<<"home", t, 1>>} : info[t] = {}}
    IN  /\ task[d].step = "idle" /\ item \in view[d]
        /\ \/ /\ ~Occupied(Bin(t))
              /\ Refreshed(d)
              /\ UNCHANGED task
           \/ /\ Occupied(Bin(t))
              /\ \E l \in origin, m \in Spot :
                    /\ Unique(l, m)
                    /\ Become(d, [NoTask EXCEPT !.step = "move", !.op = "restore",
                                    !.token = t, !.from = Bin(t), !.to = m])
              /\ UNCHANGED view
        /\ UNCHANGED <<at, part, info, sends, faults, ghosts>>

\* Delete asks about one listed item, Empty about all of them.
Ask(d) ==
    /\ task[d].step = "idle"
    /\ \/ \E item \in view[d] :
             Become(d, [NoTask EXCEPT !.step = "confirm", !.op = "delete",
                          !.todo = {item[1]}, !.shown = {item}])
       \/ /\ view[d] # {}
          /\ Become(d, [NoTask EXCEPT !.step = "confirm", !.op = "empty"])
    /\ UNCHANGED <<at, part, info, sends, view, faults, ghosts>>

\* Yes: what is emptied is what the bin holds now.
Answer(d) ==
    LET t == task[d]
    IN  /\ t.step = "confirm"
        /\ \/ Become(d, NoTask)
           \/ Become(d, [t EXCEPT !.step = "purge",
                           !.todo = IF t.op = "delete" THEN @ ELSE InBin])
        /\ UNCHANGED <<at, part, info, sends, view, faults, ghosts>>

-----------------------------------------------------------------------------
(* shutil.move: a rename, or between file systems a copy, and what follows *)
(* it in send and restore.                                                 *)

\* The caller goes on after a move.
Moved(d) ==
    LET t == task[d]
    IN  Become(d, IF t.op = "undo" THEN NoTask
                  ELSE [NoTask EXCEPT !.step = IF t.op = "send" THEN "publish"
                                              ELSE "unlink",
                                     !.op = t.op, !.token = t.token,
                                     !.from = t.from, !.to = t.to])

Rename(d) ==
    LET t == task[d]
    IN  /\ t.step = "move" /\ Occupied(t.from)
        /\ at' = [f \in File |-> IF t.from \in at[f]
                                 THEN (at[f] \ {t.from}) \cup {t.to}
                                 ELSE at[f] \ {t.to}]
        /\ part' = IF t.from \in part THEN (part \ {t.from}) \cup {t.to}
                   ELSE part \ {t.to}
        /\ replaced' = replaced \cup FilesAt(t.to)
        /\ Moved(d)
        /\ UNCHANGED <<info, sends, view, faults, born, purged, sent>>

CopyBegins(d) ==
    LET t == task[d]
    IN  /\ t.step = "move" /\ Occupied(t.from)
        /\ at' = Remove(t.to)
        /\ part' = part \cup {t.to}
        /\ replaced' = replaced \cup FilesAt(t.to)
        /\ Become(d, [t EXCEPT !.step = "copy", !.what = FilesAt(t.from)])
        /\ UNCHANGED <<info, sends, view, faults, born, purged, sent>>

CopyEnds(d) ==
    LET t == task[d]
    IN  /\ t.step = "copy" /\ t.to \in part
        /\ at' = [f \in File |-> IF f \in t.what THEN at[f] \cup {t.to} ELSE at[f]]
        /\ part' = IF t.what = {} THEN part ELSE part \ {t.to}
        /\ Become(d, [t EXCEPT !.step = "copied"])
        /\ UNCHANGED <<info, sends, view, faults, ghosts>>

\* The source is removed by its name, whatever it is by now.
RemoveSource(d) ==
    LET t == task[d]
    IN  /\ t.step = "copied" /\ Occupied(t.from)
        /\ at' = Remove(t.from)
        /\ part' = part \ {t.from}
        /\ replaced' = replaced \cup (FilesAt(t.from) \ t.what)
        /\ Moved(d)
        /\ UNCHANGED <<info, sends, view, faults, born, purged, sent>>

\* A call fails, or finds the source gone, or the copy; a part of the copy
\* stays where it is.  A restore reports it and lists the bin again.
MoveRaises(d) ==
    LET t == task[d]
    IN  /\ t.step \in {"move", "copy", "copied"}
        /\ \/ t.step # "copy" /\ ~Occupied(t.from) /\ UNCHANGED faults
           \/ t.step = "copy" /\ t.to \notin part /\ UNCHANGED faults
           \/ Fault
        /\ Become(d, NoTask)
        /\ IF t.op = "restore" THEN Refreshed(d) ELSE UNCHANGED view
        /\ UNCHANGED <<at, part, info, sends, ghosts>>

Publish(d) ==
    LET t == task[d]
    IN  /\ t.step = "publish"
        /\ info' = [info EXCEPT ![t.token] = {t.from}]
        /\ sent' = [sent EXCEPT ![t.token] = FilesAt(Bin(t.token)) \X {t.from}]
        /\ Become(d, NoTask)
        /\ UNCHANGED <<at, part, sends, view, faults, born, purged, replaced>>

\* Mutant: an item that cannot be published is removed.
PublishFailsRemoving(d) ==
    LET t == task[d]
    IN  /\ t.step = "publish"
        /\ Fault
        /\ at' = Remove(t.to)
        /\ Become(d, NoTask)
        /\ UNCHANGED <<part, info, sends, view, ghosts>>

PublishFails(d) ==
    LET t == task[d]
    IN  /\ t.step = "publish"
        /\ Fault
        /\ Become(d, [t EXCEPT !.step = "move", !.op = "undo",
                        !.from = t.to, !.to = t.from])
        /\ UNCHANGED <<at, part, info, sends, view, ghosts>>

\* The end of a restore.
Unlink(d) ==
    LET t == task[d]
    IN  /\ t.step = "unlink"
        /\ info' = [info EXCEPT ![t.token] = {}]
        /\ Become(d, NoTask)
        /\ Refreshed(d)
        /\ UNCHANGED <<at, part, sends, faults, ghosts>>

-----------------------------------------------------------------------------
(* Purging.                                                                *)

\* A removal that fails is not noticed.
PurgeItem(d, t) ==
    /\ task[d].step = "purge" /\ t \in task[d].todo
    /\ \/ /\ at' = Remove(Bin(t))
          /\ part' = part \ {Bin(t)}
          /\ purged' = purged \cup FilesAt(Bin(t))
          /\ UNCHANGED faults
       \/ /\ Fault /\ Occupied(Bin(t))
          /\ UNCHANGED <<at, part, purged>>
    /\ Become(d, [task[d] EXCEPT !.step = "forget", !.token = t, !.todo = @ \ {t}])
    /\ UNCHANGED <<info, sends, view, born, replaced, sent>>

\* ... and its sidecar is removed all the same.
Forget(d) ==
    LET t == task[d]
    IN  /\ t.step = "forget"
        /\ info' = [info EXCEPT ![t.token] = {}]
        /\ sent' = [sent EXCEPT ![t.token] = {}]
        /\ Become(d, [t EXCEPT !.step = "purge"])
        /\ UNCHANGED <<at, part, sends, view, faults, born, purged, replaced>>

PurgeEnds(d) ==
    /\ task[d].step = "purge" /\ task[d].todo = {}
    /\ Become(d, NoTask)
    /\ Refreshed(d)
    /\ UNCHANGED <<at, part, info, sends, faults, ghosts>>

Crash(d) ==
    /\ Fault
    /\ task[d].step # "idle"
    /\ Become(d, NoTask)
    /\ view' = [view EXCEPT ![d] = {}]
    /\ UNCHANGED <<at, part, info, sends, ghosts>>

-----------------------------------------------------------------------------
Next ==
    \/ \E f \in File, l \in Spot : Save(f, l)
    \/ \E d \in Desktop :
         \/ \E l \in Spot : Send(d, l)
         \/ \E item \in view[d] : Restore(d, item)
         \/ \E t \in Token : PurgeItem(d, t)
         \/ Refresh(d) \/ Ask(d) \/ Answer(d)
         \/ Rename(d) \/ CopyBegins(d) \/ CopyEnds(d) \/ RemoveSource(d)
         \/ MoveRaises(d) \/ Publish(d) \/ PublishFails(d) \/ Unlink(d)
         \/ Forget(d) \/ PurgeEnds(d) \/ Crash(d)

Spec == Init /\ [][Next]_vars

-----------------------------------------------------------------------------
(* A file exists, complete, until a purge removes it or a move replaces    *)
(* it, whatever fails and whoever dies between two calls.                  *)
NothingLost ==
    \A f \in born \ (purged \cup replaced) : at[f] # {}

(* An item whose send has returned has its origin in the sidecar as long   *)
(* as it is in the bin, whatever else is restored, sent or purged; only a  *)
(* purge that fails to remove it forgets where it came from.               *)
OriginKept ==
    \A t \in Token : \A s \in sent[t] :
       Bin(t) \in at[s[1]] => info[t] = {s[2]}

(* Delete purges the file that its question named, or nothing.             *)
DeletesShown ==
    [][\A d \in Desktop :
         /\ task[d].op = "delete" /\ task[d].step = "purge" /\ task'[d].step = "forget"
         => \A item \in task[d].shown :
               item[2] # {} => purged' \subseteq purged \cup item[2]]_vars
===============================================================================
