-------------------------- MODULE Kilix95Files_proofs --------------------------
(***************************************************************************)
(* Proofs about the two components behind the folder windows of kilix-95:  *)
(* RecycleBin, which moves the files, and DirectoryMonitor, which keeps    *)
(* the listings of them current.  They share no state, and neither part    *)
(* uses a fact of the other; both are proved for any value of the          *)
(* constants.                                                              *)
(*                                                                         *)
(* RecycleBin: its types, OriginKept, DeletesShown and NothingLost.  The   *)
(* inductive invariant says who may still put something under a token:     *)
(* only the send it was made for, and only before it is published; and     *)
(* that a file has more locations than sources that are still to be        *)
(* removed.                                                                *)
(*                                                                         *)
(* DirectoryMonitor: its types, NoSupersededRows and NoLostWakeup.  The    *)
(* inductive invariant says that whatever is still marked current, a scan  *)
(* being read or a result on its way to a view, is no older than the last  *)
(* new generation of its path.                                             *)
(***************************************************************************)
EXTENDS RecycleBin, DirectoryMonitor, FiniteSetTheorems, TLAPS

Moving == {"move", "copy", "copied"}

\* What a task is doing fits what it was asked for.
TaskOK(k) ==
    /\ k.token <= sends
    /\ k.op = "send" =>
         /\ k.step \in Moving \cup {"publish"}
         /\ k.token \in Token /\ k.from \in Spot /\ k.to = Bin(k.token)
    /\ k.op \in {"undo", "restore"} =>
         /\ k.step \in Moving \cup {"unlink"}
         /\ k.token \in Token /\ k.from = Bin(k.token) /\ k.to \in Spot
    /\ k.step \in Moving => k.op \in {"send", "undo", "restore"}
    /\ k.step = "publish" => k.op = "send"
    /\ k.step = "unlink" => k.op = "restore"
    /\ k.step = "forget" => k.token \in Token
    /\ \A t \in k.todo : t <= sends

TasksOK == \A d \in Desktop : TaskOK(task[d])

Sends(d, t) == task[d].op = "send" /\ task[d].token = t

\* A token is used by one send.
OneSender ==
    \A d, e \in Desktop :
       task[d].op = "send" /\ task[e].op = "send" /\ task[d].token = task[e].token => d = e

\* A token under which nothing has been put yet.
Untouched(t) ==
    \/ t > sends
    \/ \E d \in Desktop : Sends(d, t) /\ task[d].step = "move"

Listed(d) == view[d] \cup task[d].shown

UntouchedOK ==
    \A t \in Token : Untouched(t) =>
       /\ Bin(t) \notin part /\ \A f \in File : Bin(t) \notin at[f]
       /\ \A d \in Desktop :
            /\ task[d].token = t => task[d].op = "send"
            /\ t \notin task[d].todo
            /\ \A item \in Listed(d) : item[1] # t

\* Until it is published nothing is recorded of a send.
RecordsOK ==
    \A t \in Token : t > sends \/ (\E d \in Desktop : Sends(d, t)) => sent[t] = {}

\* Until it has been copied there is no file.
CopiesOK ==
    \A d \in Desktop : task[d].op = "send" /\ task[d].step = "copy" =>
       \A f \in File : Bin(task[d].token) \notin at[f]

\* What was listed under its name is all that its token can ever hold.
ListedOK ==
    \A d \in Desktop : \A item \in Listed(d) : item[2] # {} =>
       /\ \A f \in File : Bin(item[1]) \in at[f] => f \in item[2]
       /\ \A e \in Desktop : Sends(e, item[1]) => task[e].step \notin {"move", "copy"}

\* After a restore its token holds nothing.
UnlinkOK ==
    \A d \in Desktop : task[d].step = "unlink" =>
       /\ Bin(task[d].token) \notin part
       /\ \A f \in File : Bin(task[d].token) \notin at[f]

\* A Delete asks about what it purges.
DeleteOK ==
    \A d \in Desktop : task[d].op = "delete" =>
       \A item \in task[d].shown : task[d].todo \subseteq {item[1]}

IInv ==
    /\ TypeOK /\ TasksOK /\ OneSender /\ UntouchedOK /\ CopiesOK
    /\ ListedOK /\ UnlinkOK /\ DeleteOK /\ RecordsOK /\ OriginKept

-----------------------------------------------------------------------------
(* Bins of different tokens are different places, and none is a spot.      *)
LEMMA BinFacts ==
    /\ \A t, u \in Token : Bin(t) = Bin(u) => t = u
    /\ \A t \in Token : Bin(t) \notin Spot /\ Bin(t) \in Loc
    /\ Spot \subseteq Loc
BY DEF Bin, Spot, Loc

(* What every step of a task leaves true: the task d becomes k, and only   *)
(* its own send, that has put nothing there yet, may put something under a *)
(* token.                                                                  *)
TaskStep(d, k) ==
    /\ sends' = sends
    /\ task' = [task EXCEPT ![d] = k]
    /\ \A t \in Token : Bin(t) \in part' =>
         Bin(t) \in part \/ (Sends(d, t) /\ task[d].step = "move" /\ k.step # "move")
    /\ \A t \in Token, f \in File : Bin(t) \in at'[f] =>
         \/ Bin(t) \in at[f]
         \/ /\ Sends(d, t) /\ k.step \notin {"move", "copy"}
            /\ task[d].step = "move" \/ (task[d].step = "copy" /\ Bin(t) \in part)
    /\ k.op = "send" =>
         /\ task[d].op = "send" /\ k.token = task[d].token
         /\ k.step = "move" => task[d].step = "move"
         /\ k.step = "copy" => task[d].step \in {"move", "copy"}

Seen(e) == view'[e] \subseteq view[e] \/ (at' = at /\ view'[e] \subseteq view[e] \cup Items)

LEMMA TasksAfter ==
    ASSUME IInv, NEW d \in Desktop, NEW k \in Task, TaskStep(d, k), TaskOK(k)
    PROVE  TasksOK' /\ OneSender'
<1>1. task \in [Desktop -> Task]
  BY DEF IInv, TypeOK
<1>2. \A e \in Desktop : task'[e] = IF e = d THEN k ELSE task[e]
  BY <1>1 DEF TaskStep
<1>3. \A e \in Desktop : TaskOK(task[e])'
  BY <1>2 DEF IInv, TasksOK, TaskOK, TaskStep, Sends
<1>4. OneSender'
  BY <1>2 DEF IInv, OneSender, TaskStep
<1> QED
  BY <1>3, <1>4 DEF TasksOK

LEMMA UntouchedBefore ==
    ASSUME IInv, NEW d \in Desktop, NEW k \in Task, TaskStep(d, k),
           NEW t \in Token, Untouched(t)'
    PROVE  Untouched(t) /\ (Sends(d, t) => k.step = "move")
<1>1. task \in [Desktop -> Task] /\ sends \in Nat /\ t \in Nat
  BY DEF IInv, TypeOK, Token
<1>2. \A e \in Desktop : task'[e] = IF e = d THEN k ELSE task[e]
  BY <1>1 DEF TaskStep
<1>3. CASE t > sends
  <2>1. ~Sends(d, t)
    BY <1>1, <1>3 DEF IInv, TasksOK, TaskOK, Sends, Task
  <2> QED
    BY <1>3, <2>1 DEF Untouched
<1>4. CASE \E e \in Desktop : (Sends(e, t) /\ task[e].step = "move")'
  <2>1. PICK e \in Desktop : (Sends(e, t) /\ task[e].step = "move")'
    BY <1>4
  <2>2. task'[e].op = "send" /\ task'[e].token = t /\ task'[e].step = "move"
    BY <2>1 DEF Sends
  <2>3. Sends(e, t) /\ task[e].step = "move"
    BY <1>2, <2>2 DEF TaskStep, Sends
  <2>4. Sends(d, t) => d = e
    BY <2>3 DEF IInv, OneSender, Sends
  <2>5. Sends(d, t) => k.step = "move"
    BY <1>2, <2>2, <2>4
  <2> QED
    BY <2>3, <2>5 DEF Untouched
<1> QED
  BY <1>3, <1>4 DEF Untouched, TaskStep

LEMMA UntouchedAfter ==
    ASSUME IInv, NEW d \in Desktop, NEW k \in Task, TaskStep(d, k),
           \A e \in Desktop : Seen(e),
           k.op # "send" /\ k.token \in Token => ~Untouched(k.token),
           \A t \in k.todo : ~Untouched(t),
           k.shown \subseteq Listed(d)
    PROVE  UntouchedOK'
<1>1. task \in [Desktop -> Task]
  BY DEF IInv, TypeOK
<1>2. \A e \in Desktop : task'[e] = IF e = d THEN k ELSE task[e]
  BY <1>1 DEF TaskStep
<1> SUFFICES ASSUME NEW t \in Token, Untouched(t)'
             PROVE  /\ Bin(t) \notin part' /\ \A f \in File : Bin(t) \notin at'[f]
                    /\ \A e \in Desktop :
                         /\ task'[e].token = t => task'[e].op = "send"
                         /\ t \notin task'[e].todo
                         /\ \A item \in Listed(e)' : item[1] # t
  BY DEF UntouchedOK
<1>3. Untouched(t) /\ (Sends(d, t) => k.step = "move")
  BY UntouchedBefore
<1>4. /\ Bin(t) \notin part /\ \A f \in File : Bin(t) \notin at[f]
      /\ \A e \in Desktop :
           /\ task[e].token = t => task[e].op = "send"
           /\ t \notin task[e].todo
           /\ \A item \in Listed(e) : item[1] # t
  BY <1>3 DEF IInv, UntouchedOK
<1>5. Bin(t) \notin part' /\ \A f \in File : Bin(t) \notin at'[f]
  BY <1>3, <1>4 DEF TaskStep
<1>6. ASSUME NEW e \in Desktop PROVE task'[e].token = t => task'[e].op = "send"
  BY <1>2, <1>3, <1>4, <1>6
<1>7. ASSUME NEW e \in Desktop PROVE t \notin task'[e].todo
  BY <1>2, <1>3, <1>4, <1>7
<1>8. \A item \in Items : item[1] # t
  BY <1>4 DEF Items, InBin, Occupied, FilesAt
<1>9. ASSUME NEW e \in Desktop, NEW item \in Listed(e)' PROVE item[1] # t
  <2>1. CASE item \in view'[e]
    BY <1>4, <1>8, <2>1 DEF Seen, Listed
  <2>2. CASE item \in task'[e].shown
    BY <1>2, <1>4, <2>2 DEF Listed
  <2> QED
    BY <1>9, <2>1, <2>2 DEF Listed
<1> QED
  BY <1>5, <1>6, <1>7, <1>9

LEMMA CopiesAfter ==
    ASSUME IInv, NEW d \in Desktop, NEW k \in Task, TaskStep(d, k)
    PROVE  CopiesOK'
<1>1. task \in [Desktop -> Task]
  BY DEF IInv, TypeOK
<1>2. \A e \in Desktop : task'[e] = IF e = d THEN k ELSE task[e]
  BY <1>1 DEF TaskStep
<1> SUFFICES ASSUME NEW e \in Desktop, task'[e].op = "send", task'[e].step = "copy",
                    NEW f \in File
             PROVE  Bin(task'[e].token) \notin at'[f]
  BY DEF CopiesOK
<1>3. task[e].op = "send" /\ task[e].token = task'[e].token
  BY <1>2 DEF TaskStep
<1>4. task[e].token \in Token
  BY <1>3 DEF IInv, TasksOK, TaskOK
<1>5. task[e].step \in {"move", "copy"}
  BY <1>2 DEF TaskStep
<1>6. Bin(task[e].token) \notin at[f]
  <2>1. CASE task[e].step = "move"
    <3>1. Untouched(task[e].token)
      BY <1>3, <2>1 DEF Untouched, Sends
    <3> QED
      BY <1>4, <3>1 DEF IInv, UntouchedOK
  <2>2. CASE task[e].step = "copy"
    BY <1>3, <2>2 DEF IInv, CopiesOK
  <2> QED
    BY <1>5, <2>1, <2>2
<1>7. Sends(d, task[e].token) => e = d
  BY <1>3 DEF IInv, OneSender, Sends
<1>8. Sends(d, task[e].token) => k.step = "copy"
  BY <1>2, <1>7
<1> QED
  BY <1>3, <1>4, <1>6, <1>8 DEF TaskStep

LEMMA ListedAfter ==
    ASSUME IInv, NEW d \in Desktop, NEW k \in Task, TaskStep(d, k),
           \A e \in Desktop : Seen(e),
           k.shown \subseteq Listed(d)
    PROVE  ListedOK'
<1>1. task \in [Desktop -> Task] /\ view \in [Desktop -> SUBSET Item]
  BY DEF IInv, TypeOK
<1>2. \A e \in Desktop : task'[e] = IF e = d THEN k ELSE task[e]
  BY <1>1 DEF TaskStep
<1>3. \A e \in Desktop : Listed(e) \subseteq Item
  BY <1>1 DEF Listed, Task
<1>4. ASSUME NEW i \in Desktop, NEW item \in Listed(i), item[2] # {}
      PROVE  /\ \A f \in File : Bin(item[1]) \in at'[f] => f \in item[2]
             /\ \A e \in Desktop :
                  Sends(e, item[1])' => task'[e].step \notin {"move", "copy"}
  <2>1. item[1] \in Token
    BY <1>3, <1>4 DEF Item
  <2>2. /\ \A f \in File : Bin(item[1]) \in at[f] => f \in item[2]
        /\ \A e \in Desktop : Sends(e, item[1]) => task[e].step \notin {"move", "copy"}
    BY <1>4 DEF IInv, ListedOK
  <2>3. \A f \in File : Bin(item[1]) \in at'[f] => f \in item[2]
    BY <2>1, <2>2 DEF TaskStep
  <2>4. ASSUME NEW e \in Desktop, Sends(e, item[1])'
        PROVE  task'[e].step \notin {"move", "copy"}
    <3>1. Sends(e, item[1])
      BY <1>2, <2>4 DEF TaskStep, Sends
    <3> QED
      BY <1>2, <2>2, <2>4, <3>1 DEF TaskStep, Sends
  <2> QED
    BY <2>3, <2>4
<1>5. ASSUME NEW item \in Items, item[2] # {}, at' = at
      PROVE  /\ \A f \in File : Bin(item[1]) \in at'[f] => f \in item[2]
             /\ \A e \in Desktop :
                  Sends(e, item[1])' => task'[e].step \notin {"move", "copy"}
  <2>1. PICK t \in Token : item = <<t, FilesAt(Bin(t))>>
    BY <1>5 DEF Items, InBin
  <2>2. item[1] = t /\ item[2] = FilesAt(Bin(t))
    BY <2>1
  <2>3. \A f \in File : Bin(item[1]) \in at'[f] => f \in item[2]
    BY <1>5, <2>2 DEF FilesAt
  <2>4. PICK f \in File : Bin(t) \in at[f]
    BY <1>5, <2>2 DEF FilesAt
  <2>5. ASSUME NEW e \in Desktop, Sends(e, t) PROVE task[e].step \notin {"move", "copy"}
    <3>1. task[e].step # "move"
      BY <2>4, <2>5 DEF IInv, UntouchedOK, Untouched
    <3>2. task[e].step # "copy"
      BY <2>4, <2>5 DEF IInv, CopiesOK, Sends
    <3> QED
      BY <3>1, <3>2
  <2>6. ASSUME NEW e \in Desktop, Sends(e, t)' PROVE task'[e].step \notin {"move", "copy"}
    <3>1. Sends(e, t)
      BY <1>2, <2>6 DEF TaskStep, Sends
    <3> QED
      BY <1>2, <2>5, <2>6, <3>1 DEF TaskStep, Sends
  <2> QED
    BY <2>2, <2>3, <2>6
<1>6. ASSUME NEW i \in Desktop, NEW item \in Listed(i)', item[2] # {}
      PROVE  (\E j \in Desktop : item \in Listed(j)) \/ (item \in Items /\ at' = at)
  <2>1. CASE item \in view'[i]
    BY <2>1 DEF Seen, Listed
  <2>2. CASE item \in task'[i].shown
    BY <1>2, <2>2 DEF Listed
  <2> QED
    BY <1>6, <2>1, <2>2 DEF Listed
<1> QED
  BY <1>4, <1>5, <1>6 DEF ListedOK

LEMMA UnlinkAfter ==
    ASSUME IInv, NEW d \in Desktop, NEW k \in Task, TaskStep(d, k),
           k.step = "unlink" =>
              /\ Bin(k.token) \notin part'
              /\ \A f \in File : Bin(k.token) \notin at'[f]
    PROVE  UnlinkOK'
<1>1. task \in [Desktop -> Task]
  BY DEF IInv, TypeOK
<1>2. \A e \in Desktop : task'[e] = IF e = d THEN k ELSE task[e]
  BY <1>1 DEF TaskStep
<1>3. ASSUME NEW e \in Desktop, e # d, task[e].step = "unlink"
      PROVE  /\ Bin(task[e].token) \notin part'
             /\ \A f \in File : Bin(task[e].token) \notin at'[f]
  <2>1. task[e].op = "restore" /\ task[e].token \in Token
    BY <1>3 DEF IInv, TasksOK, TaskOK
  <2>2. /\ Bin(task[e].token) \notin part
        /\ \A f \in File : Bin(task[e].token) \notin at[f]
    BY <1>3 DEF IInv, UnlinkOK
  <2>3. ~Untouched(task[e].token)
    BY <2>1 DEF IInv, UntouchedOK
  <2>4. Sends(d, task[e].token) => task[d].step # "move"
    BY <2>3 DEF Untouched
  <2> QED
    BY <2>1, <2>2, <2>4 DEF TaskStep
<1> QED
  BY <1>2, <1>3 DEF UnlinkOK

LEMMA DeleteAfter ==
    ASSUME IInv, NEW d \in Desktop, NEW k \in Task, TaskStep(d, k),
           k.op = "delete" => \A item \in k.shown : k.todo \subseteq {item[1]}
    PROVE  DeleteOK'
<1>1. task \in [Desktop -> Task]
  BY DEF IInv, TypeOK
<1>2. \A e \in Desktop : task'[e] = IF e = d THEN k ELSE task[e]
  BY <1>1 DEF TaskStep
<1> QED
  BY <1>2 DEF IInv, DeleteOK

LEMMA RecordsAfter ==
    ASSUME IInv, NEW d \in Desktop, NEW k \in Task, TaskStep(d, k),
           info' = info, sent' = sent
    PROVE  RecordsOK' /\ OriginKept'
<1>1. task \in [Desktop -> Task]
  BY DEF IInv, TypeOK
<1>2. \A e \in Desktop : task'[e] = IF e = d THEN k ELSE task[e]
  BY <1>1 DEF TaskStep
<1>3. \A t \in Token : (\E e \in Desktop : Sends(e, t)') => \E e \in Desktop : Sends(e, t)
  BY <1>2 DEF TaskStep, Sends
<1>4. RecordsOK'
  BY <1>3 DEF IInv, RecordsOK, TaskStep
<1>5. ASSUME NEW t \in Token, NEW s \in sent'[t], Bin(t) \in at'[s[1]]
      PROVE  info'[t] = {s[2]}
  <2>1. s \in sent[t] /\ sent \in [Token -> SUBSET (File \X Spot)]
    BY <1>5 DEF IInv, TypeOK
  <2>2. s[1] \in File
    BY <2>1
  <2>3. ~Sends(d, t)
    BY <2>1 DEF IInv, RecordsOK
  <2>4. Bin(t) \in at[s[1]]
    BY <1>5, <2>2, <2>3 DEF TaskStep
  <2> QED
    BY <2>1, <2>4 DEF IInv, OriginKept
<1> QED
  BY <1>4, <1>5 DEF OriginKept

\* What a step has to show of the task that it leaves.
TaskLeft(d, k) ==
    /\ TaskOK(k)
    /\ k.op # "send" /\ k.token \in Token => ~Untouched(k.token)
    /\ \A t \in k.todo : ~Untouched(t)
    /\ k.shown \subseteq Listed(d)
    /\ k.op = "delete" => \A item \in k.shown : k.todo \subseteq {item[1]}
    /\ k.step = "unlink" =>
         /\ Bin(k.token) \notin part'
         /\ \A f \in File : Bin(k.token) \notin at'[f]

LEMMA StepKeeps ==
    ASSUME IInv, NEW d \in Desktop, NEW k \in Task, TaskStep(d, k), TaskLeft(d, k),
           \A e \in Desktop : Seen(e), TypeOK', RecordsOK', OriginKept'
    PROVE  IInv'
<1>1. TasksOK' /\ OneSender'
  BY TasksAfter DEF TaskLeft
<1>2. UntouchedOK'
  BY UntouchedAfter DEF TaskLeft
<1>3. CopiesOK' /\ ListedOK' /\ UnlinkOK' /\ DeleteOK'
  BY CopiesAfter, ListedAfter, UnlinkAfter, DeleteAfter DEF TaskLeft
<1> QED
  BY <1>1, <1>2, <1>3 DEF IInv

-----------------------------------------------------------------------------
(* Facts about a task that is as the invariant has it.                     *)
LEMMA FreshOK ==
    ASSUME IInv, NEW d \in Desktop
    PROVE  NoTask \in Task /\ TaskLeft(d, NoTask)
BY DEF IInv, TypeOK, NoTask, Task, TaskLeft, TaskOK, Moving, Token

\* A token of a task that is not the send it is for.
LEMMA TokenUsed ==
    ASSUME IInv, NEW d \in Desktop, task[d].token \in Token,
           task[d].op # "send" \/ task[d].step # "move"
    PROVE  ~Untouched(task[d].token)
<1> SUFFICES ASSUME Untouched(task[d].token) PROVE FALSE
  OBVIOUS
<1>1. task[d].op = "send" /\ task[d].step # "move"
  BY DEF IInv, UntouchedOK
<1>2. task[d].token <= sends /\ task[d].token \in Nat /\ sends \in Nat
  BY DEF IInv, TasksOK, TaskOK, TypeOK, Token
<1>3. PICK e \in Desktop : Sends(e, task[d].token) /\ task[e].step = "move"
  BY <1>2 DEF Untouched
<1>4. e = d
  BY <1>1, <1>3 DEF IInv, OneSender, Sends
<1> QED
  BY <1>1, <1>3, <1>4

LEMMA TypesOf ==
    ASSUME IInv
    PROVE  /\ at \in [File -> SUBSET Loc] /\ part \subseteq Loc
           /\ info \in [Token -> SUBSET Spot]
           /\ sends \in 0..MaxSends /\ sends \in Nat /\ faults \in 0..MaxFaults
           /\ task \in [Desktop -> Task]
           /\ view \in [Desktop -> SUBSET Item]
           /\ born \subseteq File /\ purged \subseteq File /\ replaced \subseteq File
           /\ sent \in [Token -> SUBSET (File \X Spot)]
           /\ Items \subseteq Item
<1>1. Items \subseteq Item
  BY DEF Items, Item, InBin, FilesAt
<1> QED
  BY <1>1, ConstantsOK DEF IInv, TypeOK

\* The effect of becoming k.
LEMMA Became ==
    ASSUME IInv, NEW d \in Desktop, NEW k \in Task, Become(d, k)
    PROVE  /\ task' \in [Desktop -> Task]
           /\ task' = [task EXCEPT ![d] = k]
           /\ \A e \in Desktop : task'[e] = IF e = d THEN k ELSE task[e]
BY DEF IInv, TypeOK, Become

LEMMA FaultType ==
    ASSUME IInv, Fault
    PROVE  faults' \in 0..MaxFaults
BY ConstantsOK DEF IInv, TypeOK, Fault

LEMMA RefreshedType ==
    ASSUME IInv, NEW d \in Desktop, Refreshed(d)
    PROVE  /\ view' \in [Desktop -> SUBSET Item]
           /\ \A e \in Desktop : view'[e] \subseteq view[e] \cup Items
BY TypesOf DEF Refreshed

-----------------------------------------------------------------------------
LEMMA InitInv == Init => IInv
<1> SUFFICES ASSUME Init PROVE IInv
  OBVIOUS
<1>1. task = [d \in Desktop |-> NoTask] /\ sends = 0 /\ part = {}
  BY DEF Init
<1>2. NoTask \in Task
  BY DEF NoTask, Task
<1>3. TypeOK
  BY <1>2, ConstantsOK DEF Init, TypeOK
<1>4. \A d \in Desktop : Listed(d) = {}
  BY DEF Init, Listed, NoTask
<1>5. TasksOK /\ OneSender /\ CopiesOK /\ UnlinkOK /\ DeleteOK
  BY <1>1 DEF NoTask, TasksOK, TaskOK, OneSender, CopiesOK, UnlinkOK, DeleteOK, Token, Moving
<1>6. ListedOK
  BY <1>4 DEF ListedOK
<1>7. UntouchedOK
  BY <1>4 DEF UntouchedOK, Init, NoTask, Token
<1>8. RecordsOK /\ OriginKept
  BY DEF Init, RecordsOK, OriginKept
<1> QED
  BY <1>3, <1>5, <1>6, <1>7, <1>8 DEF IInv

(* A step that changes only a task, and what is listed.                    *)
LEMMA QuietStep ==
    ASSUME IInv, NEW d \in Desktop, NEW k \in Task, Become(d, k), TaskLeft(d, k),
           UNCHANGED <<at, part, info, sends, ghosts>>,
           k.op # "send", faults' \in 0..MaxFaults,
           view' = view \/ Refreshed(d) \/ view' = [view EXCEPT ![d] = {}]
    PROVE  IInv'
<1>1. TaskStep(d, k)
  BY Became DEF TaskStep
<1>2. view' \in [Desktop -> SUBSET Item] /\ \A e \in Desktop : Seen(e)
  BY TypesOf, RefreshedType DEF Seen
<1>3. TypeOK'
  BY TypesOf, Became, <1>2 DEF TypeOK, ghosts
<1>4. RecordsOK' /\ OriginKept'
  BY <1>1, RecordsAfter DEF ghosts
<1> QED
  BY <1>1, <1>2, <1>3, <1>4, StepKeeps

LEMMA SaveKeeps ==
    ASSUME IInv, NEW f \in File, NEW l \in Spot, Save(f, l)
    PROVE  IInv'
<1> USE DEF Save
<1>1. at' \in [File -> SUBSET Loc] /\ born' \subseteq File
  BY TypesOf, BinFacts
<1>2. TypeOK'
  BY <1>1, TypesOf DEF TypeOK
<1>3. \A t \in Token, g \in File : Bin(t) \in at'[g] => Bin(t) \in at[g]
  BY TypesOf, BinFacts
<1>4. TasksOK' /\ OneSender' /\ DeleteOK' /\ RecordsOK'
  BY DEF IInv, TasksOK, TaskOK, OneSender, DeleteOK, RecordsOK, Sends
<1>5. UntouchedOK'
  BY <1>3 DEF IInv, UntouchedOK, Untouched, Sends, Listed
<1>6. CopiesOK'
  BY <1>3 DEF IInv, CopiesOK, TasksOK, TaskOK
<1>7. UnlinkOK'
  BY <1>3 DEF IInv, UnlinkOK, TasksOK, TaskOK
<1>8. ListedOK'
  <2>1. \A d \in Desktop : \A item \in Listed(d) : item[1] \in Token
    BY TypesOf DEF Listed, Task, Item
  <2> QED
    BY <1>3, <2>1 DEF IInv, ListedOK, Sends, Listed
<1>9. OriginKept'
  BY <1>3, TypesOf DEF IInv, OriginKept
<1> QED
  BY <1>2, <1>4, <1>5, <1>6, <1>7, <1>8, <1>9 DEF IInv

LEMMA SendKeeps ==
    ASSUME IInv, NEW d \in Desktop, NEW l \in Spot, Send(d, l)
    PROVE  IInv'
<1> PICK n \in Token : n = sends + 1
  BY TypesOf, ConstantsOK DEF Send, Token
<1>0. [NoTask EXCEPT !.step = "move", !.op = "send",
         !.token = n, !.from = l, !.to = Bin(n)] \in Task
  BY BinFacts DEF NoTask, Task
<1> PICK k \in Task : k = [NoTask EXCEPT !.step = "move", !.op = "send",
                              !.token = n, !.from = l, !.to = Bin(n)]
  BY <1>0
<1>1. n \in Nat /\ sends' = n /\ n > sends /\ Become(d, k)
  BY TypesOf DEF Send, NewToken, Token
<1>2. /\ k.op = "send" /\ k.step = "move" /\ k.token = n /\ k.from = l
      /\ k.to = Bin(n) /\ k.todo = {} /\ k.shown = {} /\ k \in Task
  BY DEF NoTask
<1>3. \A e \in Desktop : task'[e] = IF e = d THEN k ELSE task[e]
  BY <1>1, <1>2, Became
<1>4. task[d].step = "idle" /\ UNCHANGED <<at, part, info, view, faults, ghosts>>
  BY DEF Send
<1>5. TypeOK'
  BY <1>1, <1>2, <1>4, TypesOf, Became, ConstantsOK DEF TypeOK, ghosts, Token
<1>6. \A e \in Desktop : task[e].token \in Nat /\ task[e].token < n
  BY <1>1, TypesOf DEF IInv, TasksOK, TaskOK, Task, Token
<1>7. TasksOK'
  <2>1. TaskOK(k)'
    BY <1>1, <1>2, TypesOf DEF TaskOK, Moving
  <2>2. \A e \in Desktop : TaskOK(task[e])'
    <3> SUFFICES ASSUME NEW e \in Desktop PROVE TaskOK(task[e])'
      OBVIOUS
    <3>1. CASE e = d
      BY <1>3, <2>1, <3>1 DEF TaskOK
    <3>2. CASE e # d
      <4>1. task'[e] = task[e] /\ TaskOK(task[e])
        BY <1>3, <3>2 DEF IInv, TasksOK
      <4>2. task[e].token \in Nat /\ task[e].todo \subseteq Nat /\ sends \in Nat
        BY TypesOf DEF Task, Token
      <4> QED
        BY <1>1, <4>1, <4>2 DEF TaskOK
    <3> QED
      BY <3>1, <3>2
  <2> QED
    BY <2>2 DEF TasksOK
<1>16. ASSUME NEW e \in Desktop, NEW t
       PROVE  /\ Sends(e, t)' => (e = d /\ t = n) \/ (e # d /\ Sends(e, t))
              /\ e = d => task'[e].token = n
              /\ e # d => task'[e] = task[e] /\ task'[e].token # n
  <2>1. task[e].token # n
    BY <1>1, <1>6
  <2>2. CASE e = d
    BY <1>2, <1>3, <2>2 DEF Sends
  <2>3. CASE e # d
    BY <1>3, <2>1, <2>3 DEF Sends
  <2> QED
    BY <2>2, <2>3
<1>8. OneSender'
  <2> SUFFICES ASSUME NEW e \in Desktop, NEW i \in Desktop,
                      task'[e].op = "send", task'[i].op = "send",
                      task'[e].token = task'[i].token
               PROVE  e = i
    BY DEF OneSender
  <2>1. CASE e = d \/ i = d
    BY <1>16, <2>1
  <2>2. CASE e # d /\ i # d
    BY <1>16, <2>2 DEF IInv, OneSender
  <2> QED
    BY <2>1, <2>2
<1>9. \A t \in Token : Untouched(t)' => Untouched(t)
  <2>1. \A t \in Token : t > sends' => t > sends
    BY <1>1, TypesOf DEF Token
  <2>2. Untouched(n)
    BY <1>1 DEF Untouched
  <2> QED
    BY <1>16, <2>1, <2>2 DEF Untouched, Sends
<1>10. UntouchedOK'
  <2> SUFFICES ASSUME NEW t \in Token, Untouched(t)'
               PROVE  /\ Bin(t) \notin part' /\ \A f \in File : Bin(t) \notin at'[f]
                      /\ \A e \in Desktop :
                           /\ task'[e].token = t => task'[e].op = "send"
                           /\ t \notin task'[e].todo
                           /\ \A item \in Listed(e)' : item[1] # t
    BY DEF UntouchedOK
  <2>1. \A e \in Desktop : Listed(e)' \subseteq Listed(e)
    BY <1>2, <1>3, <1>4 DEF Listed
  <2>2. /\ Bin(t) \notin part /\ \A f \in File : Bin(t) \notin at[f]
        /\ \A e \in Desktop :
             /\ task[e].token = t => task[e].op = "send"
             /\ t \notin task[e].todo
             /\ \A item \in Listed(e) : item[1] # t
    BY <1>9 DEF IInv, UntouchedOK
  <2> QED
    BY <1>2, <1>3, <1>4, <2>1, <2>2
<1>11. CopiesOK' /\ UnlinkOK' /\ DeleteOK'
  BY <1>2, <1>3, <1>4 DEF IInv, CopiesOK, UnlinkOK, DeleteOK
<1>12. ListedOK'
  <2>1. \A e \in Desktop : Listed(e)' \subseteq Listed(e)
    BY <1>2, <1>3, <1>4 DEF Listed
  <2>2. \A e \in Desktop : \A item \in Listed(e) : item[1] # n
    BY <1>1 DEF IInv, UntouchedOK, Untouched
  <2>3. \A e, i \in Desktop : \A item \in Listed(i) :
           Sends(e, item[1])' => Sends(e, item[1]) /\ task'[e] = task[e]
    <3> SUFFICES ASSUME NEW e \in Desktop, NEW i \in Desktop,
                        NEW item \in Listed(i), Sends(e, item[1])'
                 PROVE  Sends(e, item[1]) /\ task'[e] = task[e]
      OBVIOUS
    <3> QED
      BY <1>16, <2>2
  <2> QED
    BY <1>4, <2>1, <2>3 DEF IInv, ListedOK
<1>13. RecordsOK'
  <2>1. \A t \in Token : t > sends' => t > sends
    BY <1>1, TypesOf DEF Token
  <2> QED
    BY <1>1, <1>4, <1>16, <2>1 DEF IInv, RecordsOK, ghosts
<1>14. OriginKept'
  BY <1>4 DEF IInv, OriginKept, ghosts
<1> QED
  BY <1>5, <1>7, <1>8, <1>10, <1>11, <1>12, <1>13, <1>14 DEF IInv

(* The task that is left as it is.                                         *)
\* The tokens of what a window lists have been used.
LEMMA ListedUsed ==
    ASSUME IInv, NEW d \in Desktop, NEW item \in Listed(d)
    PROVE  item \in Item /\ item[1] \in Token /\ item[1] <= sends /\ ~Untouched(item[1])
<1>1. item \in Item /\ item[1] \in Token
  BY TypesOf DEF Listed, Task, Item
<1>2. ~Untouched(item[1])
  BY <1>1 DEF IInv, UntouchedOK
<1>3. item[1] <= sends
  BY <1>1, <1>2, TypesOf DEF Untouched, Token
<1> QED
  BY <1>1, <1>2, <1>3

\* So have those that the bin holds.
LEMMA InBinUsed ==
    ASSUME IInv, NEW t \in InBin
    PROVE  t \in Token /\ t <= sends /\ ~Untouched(t)
<1>1. t \in Token /\ Occupied(Bin(t))
  BY DEF InBin
<1>2. ~Untouched(t)
  BY <1>1 DEF IInv, UntouchedOK, Occupied, FilesAt
<1> QED
  BY <1>1, <1>2, TypesOf DEF Untouched, Token

LEMMA RefreshKeeps ==
    ASSUME IInv, NEW d \in Desktop, Refresh(d)
    PROVE  IInv'
<1> PICK k \in Task : k = task[d]
  BY TypesOf
<1>1. Refreshed(d) /\ UNCHANGED <<at, part, info, sends, task, faults, ghosts>>
      /\ k.step = "idle"
  BY DEF Refresh
<1>2. TaskOK(k) /\ k.op # "send" /\ k.step \notin Moving \cup {"publish", "unlink"}
  BY <1>1 DEF IInv, TasksOK, TaskOK, Moving
<1>3. TaskLeft(d, k)
  BY <1>2, TokenUsed DEF IInv, TaskLeft, UntouchedOK, Listed, DeleteOK, Task
<1>4. Become(d, k)
  BY <1>1, TypesOf DEF Become
<1> QED
  BY <1>1, <1>2, <1>3, <1>4, QuietStep, TypesOf

LEMMA RestoreKeeps ==
    ASSUME IInv, NEW d \in Desktop, NEW item \in view[d], Restore(d, item)
    PROVE  IInv'
<1>1. item \in Listed(d)
  BY DEF Listed
<1>2. item[1] \in Token /\ item[1] <= sends /\ ~Untouched(item[1])
  BY <1>1, ListedUsed
<1>3. UNCHANGED <<at, part, info, sends, faults, ghosts>> /\ task[d].step = "idle"
  BY DEF Restore
<1>4. CASE Refreshed(d) /\ task' = task
  BY <1>3, <1>4, RefreshKeeps DEF Refresh, ghosts
<1>5. CASE view' = view /\ \E m \in Spot :
             Become(d, [NoTask EXCEPT !.step = "move", !.op = "restore",
                          !.token = item[1], !.from = Bin(item[1]), !.to = m])
  <2> PICK m \in Spot :
             Become(d, [NoTask EXCEPT !.step = "move", !.op = "restore",
                          !.token = item[1], !.from = Bin(item[1]), !.to = m])
    BY <1>5
  <2> DEFINE k == [NoTask EXCEPT !.step = "move", !.op = "restore",
                     !.token = item[1], !.from = Bin(item[1]), !.to = m]
  <2>1. /\ k \in Task /\ k.step = "move" /\ k.op = "restore" /\ k.token = item[1]
        /\ k.from = Bin(item[1]) /\ k.to = m /\ k.todo = {} /\ k.shown = {}
    BY <1>2, BinFacts DEF NoTask, Task
  <2>2. Become(d, k)
    OBVIOUS
  <2> HIDE DEF k
  <2>3. TaskLeft(d, k)
    BY <1>2, <2>1 DEF TaskLeft, TaskOK, Moving
  <2> QED
    BY <1>3, <1>5, <2>1, <2>2, <2>3, QuietStep, TypesOf
<1> QED
  BY <1>4, <1>5 DEF Restore

LEMMA AskKeeps ==
    ASSUME IInv, NEW d \in Desktop, Ask(d)
    PROVE  IInv'
<1>1. UNCHANGED <<at, part, info, sends, view, faults, ghosts>> /\ task[d].step = "idle"
  BY DEF Ask
<1>2. ASSUME NEW item \in view[d],
             Become(d, [NoTask EXCEPT !.step = "confirm", !.op = "delete",
                          !.todo = {item[1]}, !.shown = {item}])
      PROVE  IInv'
  <2>1. item \in Listed(d) /\ item \in Item /\ item[1] \in Token /\ item[1] <= sends
        /\ ~Untouched(item[1])
    BY ListedUsed DEF Listed
  <2> DEFINE k == [NoTask EXCEPT !.step = "confirm", !.op = "delete",
                     !.todo = {item[1]}, !.shown = {item}]
  <2>2. /\ k \in Task /\ k.step = "confirm" /\ k.op = "delete" /\ k.token = 0
        /\ k.todo = {item[1]} /\ k.shown = {item}
    BY <2>1 DEF NoTask, Task
  <2>3. Become(d, k)
    BY <1>2
  <2> HIDE DEF k
  <2>4. TaskLeft(d, k)
    BY <2>1, <2>2, TypesOf DEF TaskLeft, TaskOK, Moving, Token
  <2> QED
    BY <1>1, <2>2, <2>3, <2>4, QuietStep, TypesOf
<1>3. ASSUME Become(d, [NoTask EXCEPT !.step = "confirm", !.op = "empty"])
      PROVE  IInv'
  <2> DEFINE k == [NoTask EXCEPT !.step = "confirm", !.op = "empty"]
  <2>2. /\ k \in Task /\ k.step = "confirm" /\ k.op = "empty" /\ k.token = 0
        /\ k.todo = {} /\ k.shown = {}
    BY DEF NoTask, Task
  <2>3. Become(d, k)
    BY <1>3
  <2> HIDE DEF k
  <2>4. TaskLeft(d, k)
    BY <2>2, TypesOf DEF TaskLeft, TaskOK, Moving, Token
  <2> QED
    BY <1>1, <2>2, <2>3, <2>4, QuietStep, TypesOf
<1> QED
  BY <1>2, <1>3 DEF Ask

LEMMA AnswerKeeps ==
    ASSUME IInv, NEW d \in Desktop, Answer(d)
    PROVE  IInv'
<1>1. /\ UNCHANGED <<at, part, info, sends, view, faults, ghosts>>
      /\ task[d].step = "confirm"
  BY DEF Answer
<1>2. CASE Become(d, NoTask)
  BY <1>1, <1>2, FreshOK, QuietStep, TypesOf DEF NoTask
<1>3. ASSUME NEW T, T = IF task[d].op = "delete" THEN task[d].todo ELSE InBin,
             Become(d, [task[d] EXCEPT !.step = "purge", !.todo = T])
      PROVE  IInv'
  <2>1. task[d] \in Task /\ TaskOK(task[d]) /\ task[d].op # "send"
    BY <1>1, TypesOf DEF IInv, TasksOK, TaskOK, Moving
  <2>2. T \subseteq Token /\ \A t \in T : t <= sends /\ ~Untouched(t)
    BY <1>3, <2>1, InBinUsed DEF IInv, UntouchedOK, TaskOK, Task
  <2> DEFINE k == [task[d] EXCEPT !.step = "purge", !.todo = T]
  <2>3. /\ k \in Task /\ k.step = "purge" /\ k.op = task[d].op
        /\ k.token = task[d].token /\ k.todo = T /\ k.shown = task[d].shown
        /\ k.from = task[d].from /\ k.to = task[d].to
    BY <2>1, <2>2 DEF Task
  <2>4. Become(d, k)
    BY <1>3
  <2> HIDE DEF k
  <2>5. k.op \notin {"undo", "restore"}
    BY <1>1, <2>1, <2>3 DEF TaskOK, Moving
  <2>6. TaskOK(k)
    BY <2>1, <2>2, <2>3, <2>5 DEF TaskOK, Moving
  <2>7. k.op = "delete" => \A item \in k.shown : k.todo \subseteq {item[1]}
    BY <1>3, <2>3 DEF IInv, DeleteOK
  <2>8. k.token \in Token => ~Untouched(k.token)
    BY <2>1, <2>3, TokenUsed
  <2>9. TaskLeft(d, k)
    BY <2>2, <2>3, <2>6, <2>7, <2>8 DEF TaskLeft, Listed
  <2> QED
    BY <1>1, <2>1, <2>3, <2>4, <2>9, QuietStep, TypesOf
<1> QED
  BY <1>2, <1>3 DEF Answer

LEMMA MoveRaisesKeeps ==
    ASSUME IInv, NEW d \in Desktop, MoveRaises(d)
    PROVE  IInv'
<1>1. /\ Become(d, NoTask) /\ UNCHANGED <<at, part, info, sends, ghosts>>
      /\ view' = view \/ Refreshed(d)
  BY DEF MoveRaises
<1>2. faults' \in 0..MaxFaults
  BY FaultType, TypesOf DEF MoveRaises
<1> QED
  BY <1>1, <1>2, FreshOK, QuietStep DEF NoTask

LEMMA PublishFailsKeeps ==
    ASSUME IInv, NEW d \in Desktop, PublishFails(d)
    PROVE  IInv'
<1> DEFINE k == [task[d] EXCEPT !.step = "move", !.op = "undo",
                   !.from = task[d].to, !.to = task[d].from]
<1>1. /\ task[d].step = "publish" /\ Fault /\ Become(d, k)
      /\ UNCHANGED <<at, part, info, sends, view, ghosts>>
  BY DEF PublishFails
<1>2. task[d] \in Task /\ TaskOK(task[d]) /\ task[d].op = "send"
  BY <1>1, TypesOf DEF IInv, TasksOK, TaskOK, Moving
<1>3. /\ k \in Task /\ k.step = "move" /\ k.op = "undo" /\ k.token = task[d].token
      /\ k.from = Bin(k.token) /\ k.to \in Spot /\ k.token \in Token
      /\ k.todo = task[d].todo /\ k.shown = task[d].shown
  BY <1>2, BinFacts DEF Task, TaskOK
<1> HIDE DEF k
<1>4. ~Untouched(k.token)
  BY <1>1, <1>3, TokenUsed
<1>5. \A t \in k.todo : ~Untouched(t)
  BY <1>2, <1>3 DEF IInv, UntouchedOK, Task
<1>6. TaskLeft(d, k)
  BY <1>2, <1>3, <1>4, <1>5 DEF TaskLeft, TaskOK, Moving, Listed
<1> QED
  BY <1>1, <1>3, <1>6, FaultType, QuietStep

LEMMA PurgeEndsKeeps ==
    ASSUME IInv, NEW d \in Desktop, PurgeEnds(d)
    PROVE  IInv'
BY FreshOK, QuietStep, TypesOf DEF PurgeEnds, NoTask

LEMMA CrashKeeps ==
    ASSUME IInv, NEW d \in Desktop, Crash(d)
    PROVE  IInv'
BY FreshOK, QuietStep, FaultType DEF Crash, NoTask

-----------------------------------------------------------------------------
(* Moves.                                                                  *)

\* What a task that moves something looks like.
LEMMA Mover ==
    ASSUME IInv, NEW d \in Desktop, task[d].step \in Moving
    PROVE  LET k == task[d]
           IN  /\ k \in Task /\ TaskOK(k) /\ k.token \in Token
               /\ k.op \in {"send", "undo", "restore"}
               /\ k.op = "send" => k.from \in Spot /\ k.to = Bin(k.token)
               /\ k.op # "send" => k.from = Bin(k.token) /\ k.to \in Spot
               /\ k.from \in Loc /\ k.to \in Loc
               /\ \A t \in k.todo : ~Untouched(t)
<1>1. task[d] \in Task /\ TaskOK(task[d])
  BY TypesOf DEF IInv, TasksOK
<1>2. \A t \in task[d].todo : ~Untouched(t)
  BY <1>1 DEF IInv, UntouchedOK, Task
<1> QED
  BY <1>1, <1>2, BinFacts DEF TaskOK

\* The task after a move, given where the move left things.
LEMMA MovedLeft ==
    ASSUME IInv, NEW d \in Desktop, task[d].step \in Moving, Moved(d),
           Bin(task[d].token) = task[d].from =>
              /\ Bin(task[d].token) \notin part'
              /\ \A f \in File : Bin(task[d].token) \notin at'[f]
    PROVE  \E k \in Task :
              /\ Become(d, k) /\ TaskLeft(d, k)
              /\ k.op = "send" => task[d].op = "send" /\ k.token = task[d].token
              /\ k.step \notin {"move", "copy"}
<1>1. CASE task[d].op = "undo"
  BY <1>1, FreshOK DEF Moved, NoTask
<1>2. CASE task[d].op # "undo"
  <2> DEFINE k == [NoTask EXCEPT !.step = IF task[d].op = "send" THEN "publish"
                                         ELSE "unlink",
                                !.op = task[d].op, !.token = task[d].token,
                                !.from = task[d].from, !.to = task[d].to]
  <2>1. Become(d, k)
    BY <1>2 DEF Moved
  <2>2. /\ k \in Task /\ k.step = (IF task[d].op = "send" THEN "publish" ELSE "unlink")
        /\ k.op = task[d].op /\ k.token = task[d].token
        /\ k.from = task[d].from /\ k.to = task[d].to /\ k.todo = {} /\ k.shown = {}
    BY Mover, <1>2 DEF NoTask, Task
  <2> HIDE DEF k
  <2>3. k.op # "send" => ~Untouched(k.token)
    BY <2>2, Mover, TokenUsed
  <2>4. TaskOK(k)
    BY <1>2, <2>2, Mover DEF TaskOK, Moving
  <2>5. TaskLeft(d, k)
    BY <1>2, <2>2, <2>3, <2>4, Mover DEF TaskLeft
  <2> QED
    BY <2>1, <2>2, <2>5
<1> QED
  BY <1>1, <1>2

\* A step of a move that leaves the records alone.
LEMMA MoveStep ==
    ASSUME IInv, NEW d \in Desktop, NEW k \in Task, TaskStep(d, k), TaskLeft(d, k),
           UNCHANGED <<info, sends, view, faults, born, purged, sent>>,
           at' \in [File -> SUBSET Loc], part' \subseteq Loc,
           replaced' \subseteq File
    PROVE  IInv'
<1>1. task' \in [Desktop -> Task]
  BY TypesOf DEF TaskStep
<1>2. TypeOK'
  BY <1>1, TypesOf DEF TypeOK
<1>3. \A e \in Desktop : Seen(e)
  BY DEF Seen
<1>4. RecordsOK' /\ OriginKept'
  BY RecordsAfter
<1> QED
  BY <1>2, <1>3, <1>4, StepKeeps

LEMMA RenameKeeps ==
    ASSUME IInv, NEW d \in Desktop, Rename(d)
    PROVE  IInv'
<1> DEFINE j == task[d]
<1>1. j.step = "move" /\ j.step \in Moving
  BY DEF Rename, Moving
<1>2. /\ at' = [f \in File |-> IF j.from \in at[f]
                               THEN (at[f] \ {j.from}) \cup {j.to}
                               ELSE at[f] \ {j.to}]
      /\ part' = IF j.from \in part THEN (part \ {j.from}) \cup {j.to}
                 ELSE part \ {j.to}
      /\ replaced' = replaced \cup FilesAt(j.to)
      /\ Moved(d)
      /\ UNCHANGED <<info, sends, view, faults, born, purged, sent>>
  BY DEF Rename
<1>3. /\ j \in Task /\ j.token \in Token /\ j.op \in {"send", "undo", "restore"}
      /\ j.op = "send" => j.from \in Spot /\ j.to = Bin(j.token)
      /\ j.op # "send" => j.from = Bin(j.token) /\ j.to \in Spot
      /\ j.from \in Loc /\ j.to \in Loc
  BY <1>1, Mover
<1> HIDE DEF j
<1>4. at' \in [File -> SUBSET Loc] /\ part' \subseteq Loc /\ replaced' \subseteq File
  BY <1>2, <1>3, TypesOf DEF FilesAt
<1>5. Bin(j.token) = j.from =>
         Bin(j.token) \notin part' /\ \A f \in File : Bin(j.token) \notin at'[f]
  BY <1>2, <1>3, BinFacts
<1>6. PICK k \in Task :
              /\ Become(d, k) /\ TaskLeft(d, k)
              /\ k.op = "send" => j.op = "send" /\ k.token = j.token
              /\ k.step \notin {"move", "copy"}
  BY <1>1, <1>2, <1>5, MovedLeft DEF j
<1>7. ASSUME NEW t \in Token
      PROVE  /\ Bin(t) \in part' => Bin(t) \in part \/ (j.op = "send" /\ j.token = t)
             /\ \A f \in File : Bin(t) \in at'[f] =>
                    Bin(t) \in at[f] \/ (j.op = "send" /\ j.token = t)
  BY <1>2, <1>3, BinFacts
<1>8. TaskStep(d, k)
  BY <1>1, <1>2, <1>6, <1>7 DEF TaskStep, Become, Sends, j
<1> QED
  BY <1>2, <1>4, <1>6, <1>8, MoveStep

LEMMA CopyBeginsKeeps ==
    ASSUME IInv, NEW d \in Desktop, CopyBegins(d)
    PROVE  IInv'
<1> DEFINE j == task[d]
           k == [task[d] EXCEPT !.step = "copy", !.what = FilesAt(task[d].from)]
<1>1. j.step = "move" /\ j.step \in Moving
  BY DEF CopyBegins, Moving
<1>2. /\ at' = Remove(j.to) /\ part' = part \cup {j.to}
      /\ replaced' = replaced \cup FilesAt(j.to)
      /\ Become(d, k)
      /\ UNCHANGED <<info, sends, view, faults, born, purged, sent>>
  BY DEF CopyBegins
<1>3. /\ j \in Task /\ TaskOK(j) /\ j.token \in Token /\ j.op \in {"send", "undo", "restore"}
      /\ j.op = "send" => j.from \in Spot /\ j.to = Bin(j.token)
      /\ j.op # "send" => j.from = Bin(j.token) /\ j.to \in Spot
      /\ j.from \in Loc /\ j.to \in Loc
      /\ \A t \in j.todo : ~Untouched(t)
  BY <1>1, Mover
<1>4. /\ k \in Task /\ k.step = "copy" /\ k.op = j.op /\ k.token = j.token
      /\ k.from = j.from /\ k.to = j.to /\ k.todo = j.todo /\ k.shown = j.shown
  BY <1>3 DEF Task, FilesAt
<1>5. j.op # "send" => ~Untouched(j.token)
  BY <1>3, TokenUsed
<1> HIDE DEF k
<1>6. TaskOK(k)
  BY <1>1, <1>3, <1>4 DEF TaskOK, Moving
<1>7. TaskLeft(d, k)
  BY <1>3, <1>4, <1>5, <1>6 DEF TaskLeft, Listed
<1> HIDE DEF j
<1>8. at' \in [File -> SUBSET Loc] /\ part' \subseteq Loc /\ replaced' \subseteq File
  BY <1>2, <1>3, TypesOf DEF FilesAt, Remove
<1>9. ASSUME NEW t \in Token
      PROVE  /\ Bin(t) \in part' => Bin(t) \in part \/ (j.op = "send" /\ j.token = t)
             /\ \A f \in File : Bin(t) \in at'[f] => Bin(t) \in at[f]
  BY <1>2, <1>3, BinFacts DEF Remove
<1>10. TaskStep(d, k)
  BY <1>1, <1>2, <1>4, <1>9 DEF TaskStep, Become, Sends, j
<1> QED
  BY <1>2, <1>4, <1>7, <1>8, <1>10, MoveStep

LEMMA CopyEndsKeeps ==
    ASSUME IInv, NEW d \in Desktop, CopyEnds(d)
    PROVE  IInv'
<1> DEFINE j == task[d]
           k == [task[d] EXCEPT !.step = "copied"]
<1>1. j.step = "copy" /\ j.step \in Moving /\ j.to \in part
  BY DEF CopyEnds, Moving
<1>2. /\ at' = [f \in File |-> IF f \in j.what THEN at[f] \cup {j.to} ELSE at[f]]
      /\ part' \subseteq part
      /\ Become(d, k)
      /\ UNCHANGED <<info, sends, view, faults, ghosts>>
  BY DEF CopyEnds
<1>3. /\ j \in Task /\ TaskOK(j) /\ j.token \in Token /\ j.op \in {"send", "undo", "restore"}
      /\ j.op = "send" => j.from \in Spot /\ j.to = Bin(j.token)
      /\ j.op # "send" => j.from = Bin(j.token) /\ j.to \in Spot
      /\ j.from \in Loc /\ j.to \in Loc
      /\ \A t \in j.todo : ~Untouched(t)
  BY <1>1, Mover
<1>4. /\ k \in Task /\ k.step = "copied" /\ k.op = j.op /\ k.token = j.token
      /\ k.from = j.from /\ k.to = j.to /\ k.todo = j.todo /\ k.shown = j.shown
  BY <1>3 DEF Task
<1>5. j.op # "send" => ~Untouched(j.token)
  BY <1>3, TokenUsed
<1> HIDE DEF k
<1>6. TaskOK(k)
  BY <1>1, <1>3, <1>4 DEF TaskOK, Moving
<1>7. TaskLeft(d, k)
  BY <1>3, <1>4, <1>5, <1>6 DEF TaskLeft, Listed
<1> HIDE DEF j
<1>8. at' \in [File -> SUBSET Loc] /\ part' \subseteq Loc /\ replaced' \subseteq File
  BY <1>2, <1>3, TypesOf DEF ghosts
<1>9. ASSUME NEW t \in Token, NEW f \in File, Bin(t) \in at'[f]
      PROVE  \/ Bin(t) \in at[f]
             \/ j.op = "send" /\ j.token = t /\ Bin(t) \in part
  BY <1>1, <1>2, <1>3, <1>9, BinFacts
<1>10. TaskStep(d, k)
  BY <1>1, <1>2, <1>4, <1>9 DEF TaskStep, Become, Sends, j
<1> QED
  BY <1>2, <1>4, <1>7, <1>8, <1>10, MoveStep DEF ghosts

LEMMA RemoveSourceKeeps ==
    ASSUME IInv, NEW d \in Desktop, RemoveSource(d)
    PROVE  IInv'
<1> DEFINE j == task[d]
<1>1. j.step = "copied" /\ j.step \in Moving
  BY DEF RemoveSource, Moving
<1>2. /\ at' = Remove(j.from) /\ part' = part \ {j.from}
      /\ replaced' = replaced \cup (FilesAt(j.from) \ j.what)
      /\ Moved(d)
      /\ UNCHANGED <<info, sends, view, faults, born, purged, sent>>
  BY DEF RemoveSource
<1> HIDE DEF j
<1>4. at' \in [File -> SUBSET Loc] /\ part' \subseteq Loc /\ replaced' \subseteq File
  BY <1>2, TypesOf DEF FilesAt, Remove
<1>5. j.from \notin part' /\ \A f \in File : j.from \notin at'[f]
  BY <1>2 DEF Remove
<1>6. PICK k \in Task :
              /\ Become(d, k) /\ TaskLeft(d, k)
              /\ k.op = "send" => j.op = "send" /\ k.token = j.token
              /\ k.step \notin {"move", "copy"}
  BY <1>1, <1>2, <1>5, MovedLeft DEF j
<1>7. ASSUME NEW l
      PROVE  /\ l \in part' => l \in part
             /\ \A f \in File : l \in at'[f] => l \in at[f]
  BY <1>2 DEF Remove
<1>8. TaskStep(d, k)
  BY <1>1, <1>2, <1>6, <1>7 DEF TaskStep, Become, Sends, j
<1> QED
  BY <1>2, <1>4, <1>6, <1>8, MoveStep

-----------------------------------------------------------------------------
(* Sidecars and purges.                                                    *)
LEMMA PublishKeeps ==
    ASSUME IInv, NEW d \in Desktop, Publish(d)
    PROVE  IInv'
<1> PICK j \in Task : j = task[d]
  BY TypesOf
<1>1. /\ j.step = "publish"
      /\ info' = [info EXCEPT ![j.token] = {j.from}]
      /\ sent' = [sent EXCEPT ![j.token] = FilesAt(Bin(j.token)) \X {j.from}]
      /\ Become(d, NoTask)
      /\ UNCHANGED <<at, part, sends, view, faults, born, purged, replaced>>
  BY DEF Publish
<1>2. j.op = "send" /\ j.token \in Token /\ j.from \in Spot /\ j.token <= sends
  BY <1>1 DEF IInv, TasksOK, TaskOK
<1>3. NoTask \in Task /\ TaskLeft(d, NoTask)
  BY FreshOK
<1>4. TaskStep(d, NoTask)
  BY <1>1 DEF TaskStep, Become, NoTask
<1>5. \A e \in Desktop : Seen(e)
  BY <1>1 DEF Seen
<1>6. TypeOK'
  BY <1>1, <1>2, <1>3, TypesOf, Became DEF TypeOK, FilesAt
<1>7. \A e \in Desktop : task'[e] = IF e = d THEN NoTask ELSE task[e]
  BY <1>1, <1>3, Became
<1>8. RecordsOK'
  <2> SUFFICES ASSUME NEW t \in Token, t > sends \/ \E e \in Desktop : Sends(e, t)'
               PROVE  sent'[t] = {}
    BY <1>1 DEF RecordsOK
  <2>1. t # j.token
    <3>1. CASE t > sends
      BY <1>2, <3>1, TypesOf DEF Token
    <3>2. ASSUME NEW e \in Desktop, Sends(e, t)' PROVE t # j.token
      <4>1. e # d /\ Sends(e, t)
        BY <1>7, <3>2 DEF Sends, NoTask
      <4> QED
        BY <1>2, <4>1 DEF IInv, OneSender, Sends
    <3> QED
      BY <3>1, <3>2
  <2>2. sent[t] = {}
    BY <1>7 DEF IInv, RecordsOK, Sends, NoTask
  <2> QED
    BY <1>1, <2>1, <2>2, TypesOf
<1>9. OriginKept'
  <2> SUFFICES ASSUME NEW t \in Token, NEW s \in sent'[t], Bin(t) \in at[s[1]]
               PROVE  info'[t] = {s[2]}
    BY <1>1 DEF OriginKept
  <2>1. CASE t = j.token
    <3>1. s \in FilesAt(Bin(t)) \X {j.from}
      BY <1>1, <2>1, TypesOf
    <3> QED
      BY <1>1, <2>1, <3>1, TypesOf
  <2>2. CASE t # j.token
    BY <1>1, <2>2, TypesOf DEF IInv, OriginKept
  <2> QED
    BY <2>1, <2>2
<1> QED
  BY <1>3, <1>4, <1>5, <1>6, <1>8, <1>9, StepKeeps

LEMMA UnlinkKeeps ==
    ASSUME IInv, NEW d \in Desktop, Unlink(d)
    PROVE  IInv'
<1> PICK j \in Task : j = task[d]
  BY TypesOf
<1>1. /\ j.step = "unlink"
      /\ info' = [info EXCEPT ![j.token] = {}]
      /\ Become(d, NoTask) /\ Refreshed(d)
      /\ UNCHANGED <<at, part, sends, faults, ghosts>>
  BY DEF Unlink
<1>2. j.op = "restore" /\ j.token \in Token
  BY <1>1 DEF IInv, TasksOK, TaskOK
<1>3. NoTask \in Task /\ TaskLeft(d, NoTask)
  BY FreshOK
<1>4. TaskStep(d, NoTask)
  BY <1>1 DEF TaskStep, Become, NoTask
<1>5. view' \in [Desktop -> SUBSET Item] /\ \A e \in Desktop : Seen(e)
  BY <1>1, RefreshedType DEF Seen
<1>6. TypeOK'
  BY <1>1, <1>2, <1>3, <1>5, TypesOf, Became DEF TypeOK, ghosts
<1>7. \A e \in Desktop : task'[e] = IF e = d THEN NoTask ELSE task[e]
  BY <1>1, <1>3, Became
<1>8. RecordsOK'
  BY <1>1, <1>7 DEF IInv, RecordsOK, Sends, NoTask, ghosts
<1>9. OriginKept'
  <2> SUFFICES ASSUME NEW t \in Token, NEW s \in sent[t], Bin(t) \in at[s[1]]
               PROVE  info'[t] = {s[2]}
    BY <1>1 DEF OriginKept, ghosts
  <2>1. s[1] \in File
    BY TypesOf
  <2>2. t # j.token
    BY <1>1, <2>1 DEF IInv, UnlinkOK
  <2> QED
    BY <1>1, <2>2, TypesOf DEF IInv, OriginKept
<1> QED
  BY <1>3, <1>4, <1>5, <1>6, <1>8, <1>9, StepKeeps

LEMMA PurgeItemKeeps ==
    ASSUME IInv, NEW d \in Desktop, NEW t \in Token, PurgeItem(d, t)
    PROVE  IInv'
<1> DEFINE k == [task[d] EXCEPT !.step = "forget", !.token = t, !.todo = @ \ {t}]
<1>1. /\ task[d].step = "purge" /\ t \in task[d].todo /\ Become(d, k)
      /\ UNCHANGED <<info, sends, view, born, replaced, sent>>
  BY DEF PurgeItem
<1>2. task[d] \in Task /\ TaskOK(task[d])
  BY TypesOf DEF IInv, TasksOK
<1>3. \A u \in task[d].todo : u <= sends /\ ~Untouched(u)
  BY <1>2 DEF IInv, UntouchedOK, Task, TaskOK
<1>4. task[d].op \notin {"send", "undo", "restore"}
  BY <1>1, <1>2 DEF TaskOK, Moving
<1>5. /\ k \in Task /\ k.step = "forget" /\ k.op = task[d].op /\ k.token = t
      /\ k.todo = task[d].todo \ {t} /\ k.shown = task[d].shown
  BY <1>2 DEF Task
<1>6. k.op = "delete" => \A item \in k.shown : k.todo \subseteq {item[1]}
  BY <1>5 DEF IInv, DeleteOK
<1> HIDE DEF k
<1>7. TaskLeft(d, k)
  BY <1>1, <1>2, <1>3, <1>4, <1>5, <1>6 DEF TaskLeft, TaskOK, Listed, Moving
<1>8. /\ at' \in [File -> SUBSET Loc] /\ part' \subseteq part /\ purged' \subseteq File
      /\ \A u \in Token, f \in File : Bin(u) \in at'[f] => Bin(u) \in at[f]
  BY TypesOf DEF PurgeItem, Remove, FilesAt
<1>9. faults' \in 0..MaxFaults
  BY FaultType, TypesOf DEF PurgeItem
<1>10. TaskStep(d, k)
  BY <1>1, <1>4, <1>5, <1>8 DEF TaskStep, Become
<1>11. \A e \in Desktop : Seen(e)
  BY <1>1 DEF Seen
<1>12. TypeOK'
  BY <1>1, <1>5, <1>8, <1>9, TypesOf, Became DEF TypeOK
<1>13. RecordsOK' /\ OriginKept'
  BY <1>1, <1>5, <1>10, RecordsAfter
<1> QED
  BY <1>5, <1>7, <1>10, <1>11, <1>12, <1>13, StepKeeps

LEMMA ForgetKeeps ==
    ASSUME IInv, NEW d \in Desktop, Forget(d)
    PROVE  IInv'
<1> DEFINE k == [task[d] EXCEPT !.step = "purge"]
<1> PICK j \in Task : j = task[d]
  BY TypesOf
<1>1. /\ j.step = "forget" /\ Become(d, k)
      /\ info' = [info EXCEPT ![j.token] = {}]
      /\ sent' = [sent EXCEPT ![j.token] = {}]
      /\ UNCHANGED <<at, part, sends, view, faults, born, purged, replaced>>
  BY DEF Forget
<1>2. TaskOK(j) /\ j.token \in Token /\ \A t \in j.todo : ~Untouched(t)
  BY <1>1 DEF IInv, TasksOK, TaskOK, UntouchedOK, Task
<1>3. j.op \notin {"send", "undo", "restore"}
  BY <1>1, <1>2 DEF TaskOK, Moving
<1>4. /\ k \in Task /\ k.step = "purge" /\ k.op = j.op /\ k.token = j.token
      /\ k.todo = j.todo /\ k.shown = j.shown
  BY DEF Task
<1>5. ~Untouched(j.token)
  BY <1>2, <1>3, TokenUsed
<1>6. k.op = "delete" => \A item \in k.shown : k.todo \subseteq {item[1]}
  BY <1>4 DEF IInv, DeleteOK
<1> HIDE DEF k
<1>7. TaskLeft(d, k)
  BY <1>2, <1>3, <1>4, <1>5, <1>6 DEF TaskLeft, TaskOK, Listed, Moving
<1>8. TaskStep(d, k)
  BY <1>1, <1>3, <1>4 DEF TaskStep, Become
<1>9. \A e \in Desktop : Seen(e)
  BY <1>1 DEF Seen
<1>10. TypeOK'
  BY <1>1, <1>2, <1>4, TypesOf, Became DEF TypeOK
<1>11. \A e \in Desktop : task'[e] = IF e = d THEN k ELSE task[e]
  BY <1>1, <1>4, Became
<1>12. RecordsOK'
  <2>1. \A t \in Token : (\E e \in Desktop : Sends(e, t)') => \E e \in Desktop : Sends(e, t)
    BY <1>3, <1>4, <1>11 DEF Sends
  <2> QED
    BY <1>1, <2>1, TypesOf DEF IInv, RecordsOK
<1>13. OriginKept'
  BY <1>1, TypesOf DEF IInv, OriginKept
<1> QED
  BY <1>4, <1>7, <1>8, <1>9, <1>10, <1>12, <1>13, StepKeeps

-----------------------------------------------------------------------------
LEMMA StutterKeeps ==
    ASSUME IInv, UNCHANGED vars
    PROVE  IInv'
BY DEF IInv, TypeOK, TasksOK, TaskOK, OneSender, UntouchedOK, Untouched, CopiesOK,
       ListedOK, UnlinkOK, DeleteOK, RecordsOK, OriginKept, Sends, Listed, vars

LEMMA NextKeeps == IInv /\ [Next]_vars => IInv'
<1> SUFFICES ASSUME IInv, [Next]_vars PROVE IInv'
  OBVIOUS
<1>1. CASE UNCHANGED vars
  BY <1>1, StutterKeeps
<1>2. ASSUME NEW f \in File, NEW l \in Spot, Save(f, l) PROVE IInv'
  BY <1>2, SaveKeeps
<1>3. ASSUME NEW d \in Desktop, NEW l \in Spot, Send(d, l) PROVE IInv'
  BY <1>3, SendKeeps
<1>4. ASSUME NEW d \in Desktop, NEW item \in view[d], Restore(d, item) PROVE IInv'
  BY <1>4, RestoreKeeps
<1>5. ASSUME NEW d \in Desktop, NEW t \in Token, PurgeItem(d, t) PROVE IInv'
  BY <1>5, PurgeItemKeeps
<1>6. ASSUME NEW d \in Desktop, Refresh(d) \/ Ask(d) \/ Answer(d) PROVE IInv'
  BY <1>6, RefreshKeeps, AskKeeps, AnswerKeeps
<1>7. ASSUME NEW d \in Desktop,
             Rename(d) \/ CopyBegins(d) \/ CopyEnds(d) \/ RemoveSource(d) \/ MoveRaises(d)
      PROVE  IInv'
  BY <1>7, RenameKeeps, CopyBeginsKeeps, CopyEndsKeeps, RemoveSourceKeeps, MoveRaisesKeeps
<1>8. ASSUME NEW d \in Desktop, Publish(d) \/ PublishFails(d) \/ Unlink(d) PROVE IInv'
  BY <1>8, PublishKeeps, PublishFailsKeeps, UnlinkKeeps
<1>9. ASSUME NEW d \in Desktop, Forget(d) \/ PurgeEnds(d) \/ Crash(d) PROVE IInv'
  BY <1>9, ForgetKeeps, PurgeEndsKeeps, CrashKeeps
<1> QED
  BY <1>1, <1>2, <1>3, <1>4, <1>5, <1>6, <1>7, <1>8, <1>9 DEF Next

(* A Delete that purges something purges what its question named.          *)
LEMMA PurgeShown ==
    ASSUME IInv, [Next]_vars, NEW d \in Desktop,
           task[d].op = "delete", task[d].step = "purge", task'[d].step = "forget",
           NEW item \in task[d].shown, item[2] # {}
    PROVE  purged' \subseteq purged \cup item[2]
<1>1. item \in Listed(d) /\ item \in Item /\ item[1] \in Token
  BY ListedUsed DEF Listed
<1>2. ASSUME NEW t \in Token, PurgeItem(d, t) PROVE purged' \subseteq purged \cup item[2]
  <2>1. t = item[1]
    BY <1>2 DEF IInv, DeleteOK, PurgeItem
  <2>2. FilesAt(Bin(t)) \subseteq item[2]
    BY <1>1, <2>1 DEF IInv, ListedOK, FilesAt
  <2> QED
    BY <1>2, <2>2 DEF PurgeItem
<1>3. ASSUME NEW e \in Desktop, e # d, NEW t \in Token, PurgeItem(e, t) PROVE FALSE
  BY <1>3, TypesOf DEF PurgeItem, Become
<1>4. CASE purged' = purged
  BY <1>4
<1>5. (\E e \in Desktop, t \in Token : PurgeItem(e, t)) \/ purged' = purged
  BY DEF Next, vars, ghosts, Save, Send, Restore, Refresh, Ask, Answer, Rename, CopyBegins,
     CopyEnds, RemoveSource, MoveRaises, Publish, PublishFails, Unlink, Forget,
     PurgeEnds, Crash
<1> QED
  BY <1>2, <1>3, <1>4, <1>5

-----------------------------------------------------------------------------
(* The types of the bin, the sidecars and the tasks.                       *)
THEOREM TypeCorrect == Spec => []TypeOK
<1>1. IInv => TypeOK
  BY DEF IInv
<1> QED
  BY InitInv, NextKeeps, <1>1, PTL DEF Spec

(* Once send has returned, an item in the bin has its origin recorded,     *)
(* until a purge fails to remove it.                                       *)
THEOREM OriginsKept == Spec => []OriginKept
<1>1. IInv => OriginKept
  BY DEF IInv
<1> QED
  BY InitInv, NextKeeps, <1>1, PTL DEF Spec

(* Delete never purges another file than the one its question named.       *)
THEOREM DeletesAsShown == Spec => DeletesShown
<1>1. IInv /\ [Next]_vars =>
        [\A d \in Desktop :
           /\ task[d].op = "delete" /\ task[d].step = "purge" /\ task'[d].step = "forget"
           => \A item \in task[d].shown :
                 item[2] # {} => purged' \subseteq purged \cup item[2]]_vars
  BY PurgeShown
<1> QED
  BY InitInv, NextKeeps, <1>1, PTL DEF Spec, DeletesShown

-----------------------------------------------------------------------------
(* No file is lost.  A copy that is complete and not yet followed by the   *)
(* removal of its source has made a location more; so a file has more      *)
(* locations than there are sources of it that are still to be removed.    *)

Copied(f) == {d \in Desktop : task[d].step = "copied" /\ f \in task[d].what}

Existing == born \ (purged \cup replaced)

Spare(f) ==
    /\ IsFiniteSet(at[f]) /\ IsFiniteSet(Copied(f))
    /\ f \in Existing => Cardinality(at[f]) > Cardinality(Copied(f))

\* Where there is a part there is no file.
Whole == \A f \in File : at[f] \cap part = {}

\* What is somewhere, or being copied, has been saved.
Saved == /\ \A f \in File : at[f] # {} => f \in born
         /\ \A d \in Desktop : task[d].what \subseteq born

Kept == Whole /\ Saved /\ \A f \in File : Spare(f)

LEMMA CopiedAfter ==
    ASSUME IInv, NEW d \in Desktop, NEW k, task' = [task EXCEPT ![d] = k], NEW f
    PROVE  Copied(f)' = IF k.step = "copied" /\ f \in k.what
                        THEN Copied(f) \cup {d} ELSE Copied(f) \ {d}
<1>1. \A e \in Desktop : task'[e] = IF e = d THEN k ELSE task[e]
  BY TypesOf
<1> QED
  BY <1>1 DEF Copied

LEMMA SavedAfter ==
    ASSUME IInv, Saved, NEW d \in Desktop, NEW k, task' = [task EXCEPT ![d] = k],
           k.what \subseteq born, born \subseteq born',
           \A f \in File : at'[f] # {} => f \in born'
    PROVE  Saved'
<1>1. \A e \in Desktop : task'[e] = IF e = d THEN k ELSE task[e]
  BY TypesOf
<1> QED
  BY <1>1 DEF Saved

\* The task d ends its copy of f, or has none: it may take one location away
\* if it removes the source of what it has copied.
LEMMA SpareAfter ==
    ASSUME IInv, NEW f \in File, Spare(f),
           NEW d \in Desktop, NEW k, task' = [task EXCEPT ![d] = k],
           k.step # "copied", IsFiniteSet(at'[f]),
           f \in Existing' => f \in Existing,
           f \in Existing' =>
              \/ Cardinality(at'[f]) = Cardinality(at[f])
              \/ d \in Copied(f) /\ Cardinality(at'[f]) + 1 = Cardinality(at[f])
    PROVE  Spare(f)'
<1>1. Copied(f)' = Copied(f) \ {d}
  BY CopiedAfter
<1>2. /\ IsFiniteSet(Copied(f)')
      /\ Cardinality(Copied(f)') =
           IF d \in Copied(f) THEN Cardinality(Copied(f)) - 1 ELSE Cardinality(Copied(f))
  BY <1>1, FS_RemoveElement DEF Spare
<1>3. Cardinality(Copied(f)) \in Nat /\ Cardinality(at[f]) \in Nat
      /\ Cardinality(at'[f]) \in Nat
  BY FS_CardinalityType DEF Spare
<1>4. f \in Existing' => Cardinality(at[f]) > Cardinality(Copied(f))
  BY DEF Spare
<1>5. f \in Existing' => Cardinality(at'[f]) > Cardinality(Copied(f)')
  BY <1>2, <1>3, <1>4
<1> QED
  BY <1>2, <1>5 DEF Spare

\* A step that leaves the files alone.
LEMMA QuietLosesNothing ==
    ASSUME IInv, Kept, NEW d \in Desktop, NEW k, task' = [task EXCEPT ![d] = k],
           k.step # "copied", k.what \subseteq born,
           UNCHANGED <<at, part, born, purged, replaced>>
    PROVE  Kept'
<1>1. Whole'
  BY DEF Kept, Whole
<1>2. Saved'
  BY SavedAfter DEF Kept, Saved
<1>3. ASSUME NEW f \in File PROVE Spare(f)'
  <2>1. Spare(f) /\ (f \in Existing' => f \in Existing)
    BY DEF Kept, Existing
  <2>2. IsFiniteSet(at'[f])
    BY <2>1 DEF Spare
  <2> QED
    BY <2>1, <2>2, SpareAfter
<1> QED
  BY <1>1, <1>2, <1>3 DEF Kept

LEMMA QuietSteps ==
    ASSUME IInv, Kept, NEW d \in Desktop,
           \/ \E l \in Spot : Send(d, l)
           \/ \E item \in view[d] : Restore(d, item)
           \/ Refresh(d) \/ Ask(d) \/ Answer(d) \/ MoveRaises(d) \/ Publish(d)
           \/ PublishFails(d) \/ Unlink(d) \/ Forget(d) \/ PurgeEnds(d) \/ Crash(d)
    PROVE  Kept'
<1>1. UNCHANGED <<at, part, born, purged, replaced>>
  BY DEF Send, Restore, Refresh, Ask, Answer, MoveRaises, Publish, PublishFails,
         Unlink, Forget, PurgeEnds, Crash, ghosts
<1>2. task[d] \in Task /\ task \in [Desktop -> Task] /\ task[d].what \subseteq born
  BY TypesOf DEF Kept, Saved
<1>3. ASSUME NEW k, Become(d, k), k.step # "copied", k.what \subseteq born PROVE Kept'
  BY <1>1, <1>3, QuietLosesNothing DEF Become
<1>4. NoTask.step # "copied" /\ NoTask.what \subseteq born
  BY DEF NoTask
<1>5. CASE task' = task /\ task[d].step = "idle"
  BY <1>1, <1>2, <1>3, <1>5 DEF Become
<1>6. ASSUME NEW l \in Spot, Send(d, l) PROVE Kept'
  <2> DEFINE k == [NoTask EXCEPT !.step = "move", !.op = "send",
                     !.token = NewToken(l), !.from = l, !.to = Bin(NewToken(l))]
  <2>1. k.step # "copied" /\ k.what \subseteq born
    BY DEF NoTask
  <2> QED
    BY <1>3, <1>6, <2>1 DEF Send
<1>7. ASSUME NEW item \in view[d], Restore(d, item) PROVE Kept'
  <2>1. ASSUME NEW m, Become(d, [NoTask EXCEPT !.step = "move", !.op = "restore",
                       !.token = item[1], !.from = Bin(item[1]), !.to = m])
        PROVE  Kept'
    <3> DEFINE k == [NoTask EXCEPT !.step = "move", !.op = "restore",
                       !.token = item[1], !.from = Bin(item[1]), !.to = m]
    <3>1. k.step # "copied" /\ k.what \subseteq born
      BY DEF NoTask
    <3> QED
      BY <1>3, <2>1, <3>1
  <2> QED
    BY <1>5, <1>7, <2>1 DEF Restore
<1>8. CASE Ask(d)
  <2>1. ASSUME NEW item, Become(d, [NoTask EXCEPT !.step = "confirm", !.op = "delete",
                          !.todo = {item[1]}, !.shown = {item}])
        PROVE  Kept'
    <3> DEFINE k == [NoTask EXCEPT !.step = "confirm", !.op = "delete",
                       !.todo = {item[1]}, !.shown = {item}]
    <3>1. k.step # "copied" /\ k.what \subseteq born
      BY DEF NoTask
    <3> QED
      BY <1>3, <2>1, <3>1
  <2>2. CASE Become(d, [NoTask EXCEPT !.step = "confirm", !.op = "empty"])
    <3> DEFINE k == [NoTask EXCEPT !.step = "confirm", !.op = "empty"]
    <3>1. k.step # "copied" /\ k.what \subseteq born
      BY DEF NoTask
    <3> QED
      BY <1>3, <2>2, <3>1
  <2> QED
    BY <1>8, <2>1, <2>2 DEF Ask
<1>9. CASE Answer(d)
  <2>1. ASSUME NEW T, Become(d, [task[d] EXCEPT !.step = "purge", !.todo = T])
        PROVE  Kept'
    <3> DEFINE k == [task[d] EXCEPT !.step = "purge", !.todo = T]
    <3>1. k.step # "copied" /\ k.what \subseteq born
      BY <1>2 DEF Task
    <3> QED
      BY <1>3, <2>1, <3>1
  <2> QED
    BY <1>3, <1>4, <1>9, <2>1 DEF Answer
<1>10. CASE PublishFails(d)
  <2> DEFINE k == [task[d] EXCEPT !.step = "move", !.op = "undo",
                     !.from = task[d].to, !.to = task[d].from]
  <2>1. k.step # "copied" /\ k.what \subseteq born
    BY <1>2 DEF Task
  <2> QED
    BY <1>3, <1>10, <2>1 DEF PublishFails
<1>11. CASE Forget(d)
  <2> DEFINE k == [task[d] EXCEPT !.step = "purge"]
  <2>1. k.step # "copied" /\ k.what \subseteq born
    BY <1>2 DEF Task
  <2> QED
    BY <1>3, <1>11, <2>1 DEF Forget
<1>12. CASE MoveRaises(d) \/ Publish(d) \/ Unlink(d) \/ PurgeEnds(d) \/ Crash(d)
  <2>1. Become(d, NoTask)
    BY <1>12 DEF MoveRaises, Publish, Unlink, PurgeEnds, Crash
  <2> QED
    BY <1>3, <1>4, <2>1
<1>13. CASE Refresh(d)
  BY <1>5, <1>13 DEF Refresh
<1> QED
  BY <1>6, <1>7, <1>8, <1>9, <1>10, <1>11, <1>12, <1>13

\* A task that has moved something has no copy any more.
LEMMA MovedOn ==
    ASSUME IInv, NEW d \in Desktop, Moved(d)
    PROVE  \E k : task' = [task EXCEPT ![d] = k] /\ k.step # "copied" /\ k.what = {}
<1> DEFINE k == [NoTask EXCEPT !.step = IF task[d].op = "send" THEN "publish" ELSE "unlink",
                              !.op = task[d].op, !.token = task[d].token,
                              !.from = task[d].from, !.to = task[d].to]
<1>1. k.step # "copied" /\ k.what = {} /\ NoTask.step # "copied" /\ NoTask.what = {}
  BY DEF NoTask
<1>2. Become(d, k) \/ Become(d, NoTask)
  BY DEF Moved
<1> HIDE DEF k
<1> QED
  BY <1>1, <1>2 DEF Become

LEMMA SaveLosesNothing ==
    ASSUME IInv, Kept, NEW f \in File, NEW l \in Spot, Save(f, l)
    PROVE  Kept'
<1>1. /\ f \notin born /\ ~Occupied(l) /\ at' = [at EXCEPT ![f] = {l}]
      /\ born' = born \cup {f} /\ UNCHANGED <<part, task, purged, replaced>>
  BY DEF Save
<1>2. at'[f] = {l} /\ \A g \in File \ {f} : at'[g] = at[g]
  BY <1>1, TypesOf
<1>3. Whole'
  BY <1>1, <1>2 DEF Kept, Whole, Occupied
<1>4. Saved'
  BY <1>1, <1>2 DEF Kept, Saved
<1>5. \A g : Copied(g)' = Copied(g)
  BY <1>1 DEF Copied
<1>6. Spare(f)'
  <2>1. Copied(f) = {}
    BY <1>1 DEF Copied, Kept, Saved
  <2>2. Copied(f)' = {}
    BY <1>5, <2>1
  <2>3. /\ IsFiniteSet(at'[f]) /\ Cardinality(at'[f]) = 1
        /\ IsFiniteSet(Copied(f)') /\ Cardinality(Copied(f)') = 0
    BY <1>2, <2>2, FS_EmptySet, FS_Singleton
  <2> QED
    BY <2>3 DEF Spare
<1>7. ASSUME NEW g \in File \ {f} PROVE Spare(g)'
  <2>1. g \in Existing' => g \in Existing
    BY <1>1 DEF Existing
  <2> QED
    BY <1>2, <1>5, <2>1 DEF Kept, Spare
<1> QED
  BY <1>3, <1>4, <1>6, <1>7 DEF Kept

LEMMA RenameLosesNothing ==
    ASSUME IInv, Kept, NEW d \in Desktop, Rename(d)
    PROVE  Kept'
<1> PICK from, to : from = task[d].from /\ to = task[d].to
  OBVIOUS
<1>1. /\ at' = [f \in File |-> IF from \in at[f] THEN (at[f] \ {from}) \cup {to}
                               ELSE at[f] \ {to}]
      /\ part' = IF from \in part THEN (part \ {from}) \cup {to} ELSE part \ {to}
      /\ replaced' = replaced \cup FilesAt(to)
      /\ Moved(d) /\ UNCHANGED <<born, purged>>
  BY DEF Rename
<1>2. from # to
  BY Mover, BinFacts DEF Rename, Moving
<1>3. PICK k : task' = [task EXCEPT ![d] = k] /\ k.step # "copied" /\ k.what = {}
  BY <1>1, MovedOn
<1>4. Whole'
  BY <1>1, <1>2 DEF Kept, Whole
<1>5. Saved'
  BY <1>1, <1>3, SavedAfter DEF Kept, Saved
<1>6. ASSUME NEW f \in File PROVE Spare(f)'
  <2>1. Spare(f) /\ (f \in Existing' => f \in Existing /\ to \notin at[f])
    BY <1>1 DEF Kept, Existing, FilesAt
  <2>2. IsFiniteSet(at[f]) /\ Cardinality(at[f]) \in Nat
    BY <2>1, FS_CardinalityType DEF Spare
  <2>3. CASE from \in at[f]
    <3>1. at'[f] = (at[f] \ {from}) \cup {to}
      BY <1>1, <2>3
    <3>2. IsFiniteSet(at[f] \ {from})
          /\ Cardinality(at[f] \ {from}) = Cardinality(at[f]) - 1
      BY <2>2, <2>3, FS_RemoveElement
    <3>3. IsFiniteSet(at'[f])
          /\ (to \notin at[f] => Cardinality(at'[f]) = Cardinality(at[f]))
      BY <2>2, <3>1, <3>2, FS_AddElement
    <3> QED
      BY <1>3, <2>1, <3>3, SpareAfter
  <2>4. CASE from \notin at[f]
    <3>1. at'[f] = at[f] \ {to}
      BY <1>1, <2>4
    <3>2. IsFiniteSet(at'[f])
          /\ (to \notin at[f] => Cardinality(at'[f]) = Cardinality(at[f]))
      BY <2>2, <3>1, FS_RemoveElement
    <3> QED
      BY <1>3, <2>1, <3>2, SpareAfter
  <2> QED
    BY <2>3, <2>4
<1> QED
  BY <1>4, <1>5, <1>6 DEF Kept

\* What CopyBegins and PurgeItem share: the files at l are no more, and are
\* known to be replaced or purged.
LEMMA RemovedFromPlace ==
    ASSUME IInv, Kept, NEW d \in Desktop, NEW k, task' = [task EXCEPT ![d] = k],
           k.step # "copied", k.what \subseteq born,
           NEW l, at' = Remove(l), part' \subseteq part \cup {l}, born' = born,
           Existing' \subseteq Existing \ FilesAt(l)
    PROVE  Kept'
<1>1. \A f \in File : at'[f] = at[f] \ {l}
  BY DEF Remove
<1>2. Whole'
  BY <1>1 DEF Kept, Whole
<1>3. Saved'
  BY <1>1, SavedAfter DEF Kept, Saved
<1>4. ASSUME NEW f \in File PROVE Spare(f)'
  <2>1. Spare(f) /\ (f \in Existing' => f \in Existing /\ l \notin at[f])
    BY DEF Kept, FilesAt
  <2>2. IsFiniteSet(at'[f])
        /\ (l \notin at[f] => Cardinality(at'[f]) = Cardinality(at[f]))
    BY <1>1, <2>1, FS_RemoveElement DEF Spare
  <2> QED
    BY <2>1, <2>2, SpareAfter
<1> QED
  BY <1>2, <1>3, <1>4 DEF Kept

LEMMA CopyBeginsLosesNothing ==
    ASSUME IInv, Kept, NEW d \in Desktop, CopyBegins(d)
    PROVE  Kept'
<1> DEFINE k == [task[d] EXCEPT !.step = "copy", !.what = FilesAt(task[d].from)]
<1>1. k.step = "copy" /\ k.what = FilesAt(task[d].from)
  BY TypesOf DEF Task
<1>2. k.what \subseteq born
  BY <1>1 DEF Kept, Saved, FilesAt
<1>3. task' = [task EXCEPT ![d] = k]
  BY DEF CopyBegins, Become
<1> HIDE DEF k
<1>4. /\ at' = Remove(task[d].to) /\ part' = part \cup {task[d].to}
      /\ replaced' = replaced \cup FilesAt(task[d].to) /\ UNCHANGED <<born, purged>>
  BY DEF CopyBegins
<1>5. Existing' \subseteq Existing \ FilesAt(task[d].to)
  BY <1>4 DEF Existing
<1> QED
  BY <1>1, <1>2, <1>3, <1>4, <1>5, RemovedFromPlace

LEMMA PurgeItemLosesNothing ==
    ASSUME IInv, Kept, NEW d \in Desktop, NEW t \in Token, PurgeItem(d, t)
    PROVE  Kept'
<1> DEFINE k == [task[d] EXCEPT !.step = "forget", !.token = t, !.todo = @ \ {t}]
<1>1. k.step = "forget" /\ k.what = task[d].what
  BY TypesOf DEF Task
<1>2. task' = [task EXCEPT ![d] = k] /\ UNCHANGED <<born, replaced>>
  BY DEF PurgeItem, Become
<1> HIDE DEF k
<1>3. k.what \subseteq born
  BY <1>1 DEF Kept, Saved
<1>4. CASE /\ at' = Remove(Bin(t)) /\ part' = part \ {Bin(t)}
           /\ purged' = purged \cup FilesAt(Bin(t))
  <2>1. Existing' \subseteq Existing \ FilesAt(Bin(t))
    BY <1>2, <1>4 DEF Existing
  <2> QED
    BY <1>1, <1>2, <1>3, <1>4, <2>1, RemovedFromPlace
<1>5. CASE UNCHANGED <<at, part, purged>>
  BY <1>1, <1>2, <1>3, <1>5, QuietLosesNothing
<1> QED
  BY <1>4, <1>5 DEF PurgeItem

LEMMA CopyEndsLosesNothing ==
    ASSUME IInv, Kept, NEW d \in Desktop, CopyEnds(d)
    PROVE  Kept'
<1> PICK what, to : what = task[d].what /\ to = task[d].to
  OBVIOUS
<1> DEFINE k == [task[d] EXCEPT !.step = "copied"]
<1>1. k.step = "copied" /\ k.what = what
  BY TypesOf DEF Task
<1>2. /\ task[d].step = "copy" /\ to \in part /\ task' = [task EXCEPT ![d] = k]
      /\ at' = [f \in File |-> IF f \in what THEN at[f] \cup {to} ELSE at[f]]
      /\ part' = IF what = {} THEN part ELSE part \ {to}
      /\ UNCHANGED <<born, purged, replaced>>
  BY DEF CopyEnds, Become, ghosts
<1> HIDE DEF k
<1>3. what \subseteq born
  BY DEF Kept, Saved
<1>4. Whole'
  BY <1>2 DEF Kept, Whole
<1>5. Saved'
  BY <1>1, <1>2, <1>3, SavedAfter DEF Kept, Saved
<1>6. ASSUME NEW f \in File
      PROVE  Copied(f)' = IF f \in what THEN Copied(f) \cup {d} ELSE Copied(f) \ {d}
  <2>1. \A e \in Desktop : task'[e] = IF e = d THEN k ELSE task[e]
    BY <1>2, TypesOf
  <2> QED
    BY <1>1, <2>1 DEF Copied
<1>7. ASSUME NEW f \in File PROVE Spare(f)'
  <2>1. /\ Spare(f) /\ (f \in Existing' => f \in Existing) /\ d \notin Copied(f)
        /\ to \notin at[f]
    BY <1>2 DEF Kept, Whole, Existing, Copied
  <2>2. CASE f \in what
    <3>0. Copied(f)' = Copied(f) \cup {d}
      BY <1>6, <2>2
    <3>1. Copied(f)' = Copied(f) \cup {d} /\ at'[f] = at[f] \cup {to}
      BY <1>2, <2>2, <3>0
    <3>2. /\ IsFiniteSet(Copied(f)') /\ IsFiniteSet(at'[f])
          /\ Cardinality(Copied(f)') = Cardinality(Copied(f)) + 1
          /\ Cardinality(at'[f]) = Cardinality(at[f]) + 1
          /\ Cardinality(Copied(f)) \in Nat /\ Cardinality(at[f]) \in Nat
      BY <2>1, <3>1, FS_AddElement, FS_CardinalityType DEF Spare
    <3> QED
      BY <2>1, <3>2 DEF Spare
  <2>3. CASE f \notin what
    <3>0. Copied(f)' = Copied(f) \ {d}
      BY <1>6, <2>3
    <3>1. Copied(f)' = Copied(f) \ {d} /\ at'[f] = at[f]
      BY <1>2, <2>3, <3>0
    <3>2. Copied(f)' = Copied(f)
      BY <2>1, <3>1
    <3> QED
      BY <2>1, <3>1, <3>2 DEF Spare
  <2> QED
    BY <2>2, <2>3
<1> QED
  BY <1>4, <1>5, <1>7 DEF Kept

LEMMA RemoveSourceLosesNothing ==
    ASSUME IInv, Kept, NEW d \in Desktop, RemoveSource(d)
    PROVE  Kept'
<1> PICK from, what : from = task[d].from /\ what = task[d].what
  OBVIOUS
<1>1. /\ task[d].step = "copied" /\ at' = Remove(from) /\ part' = part \ {from}
      /\ replaced' = replaced \cup (FilesAt(from) \ what)
      /\ Moved(d) /\ UNCHANGED <<born, purged>>
  BY DEF RemoveSource
<1>2. PICK k : task' = [task EXCEPT ![d] = k] /\ k.step # "copied" /\ k.what = {}
  BY <1>1, MovedOn
<1>3. \A f \in File : at'[f] = at[f] \ {from}
  BY <1>1 DEF Remove
<1>4. Whole'
  BY <1>1, <1>3 DEF Kept, Whole
<1>5. Saved'
  BY <1>1, <1>2, <1>3, SavedAfter DEF Kept, Saved
<1>6. ASSUME NEW f \in File PROVE Spare(f)'
  <2>1. /\ Spare(f)
        /\ f \in Existing' => f \in Existing /\ (from \in at[f] => d \in Copied(f))
    BY <1>1 DEF Kept, Existing, FilesAt, Copied
  <2>2. /\ IsFiniteSet(at'[f])
        /\ Cardinality(at'[f]) = IF from \in at[f] THEN Cardinality(at[f]) - 1
                                 ELSE Cardinality(at[f])
    BY <1>3, <2>1, FS_RemoveElement DEF Spare
  <2>3. Cardinality(at[f]) \in Nat
    BY <2>1, FS_CardinalityType DEF Spare
  <2>4. f \in Existing' =>
           \/ Cardinality(at'[f]) = Cardinality(at[f])
           \/ d \in Copied(f) /\ Cardinality(at'[f]) + 1 = Cardinality(at[f])
    BY <2>1, <2>2, <2>3
  <2>5. (f \in Existing' => f \in Existing) /\ Spare(f) /\ IsFiniteSet(at'[f])
    BY <2>1, <2>2
  <2> QED
    BY <1>2, <2>4, <2>5, SpareAfter
<1> QED
  BY <1>4, <1>5, <1>6 DEF Kept

LEMMA InitKept == Init => Kept
<1> SUFFICES ASSUME Init PROVE Kept
  OBVIOUS
<1>1. \A f \in File : at[f] = {} /\ Copied(f) = {} /\ f \notin Existing
  BY DEF Init, Copied, NoTask, Existing
<1>2. Whole /\ Saved
  BY <1>1 DEF Init, Whole, Saved, NoTask
<1>3. \A f \in File : Spare(f)
  BY <1>1, FS_EmptySet DEF Spare
<1> QED
  BY <1>2, <1>3 DEF Kept

LEMMA NextLosesNothing == IInv /\ Kept /\ [Next]_vars => Kept'
<1> SUFFICES ASSUME IInv, Kept, [Next]_vars PROVE Kept'
  OBVIOUS
<1>1. CASE UNCHANGED vars
  BY <1>1 DEF vars, Kept, Whole, Saved, Spare, Existing, Copied
<1>2. ASSUME NEW f \in File, NEW l \in Spot, Save(f, l) PROVE Kept'
  BY <1>2, SaveLosesNothing
<1>3. ASSUME NEW d \in Desktop, NEW t \in Token, PurgeItem(d, t) PROVE Kept'
  BY <1>3, PurgeItemLosesNothing
<1>4. ASSUME NEW d \in Desktop,
             Rename(d) \/ CopyBegins(d) \/ CopyEnds(d) \/ RemoveSource(d)
      PROVE  Kept'
  BY <1>4, RenameLosesNothing, CopyBeginsLosesNothing, CopyEndsLosesNothing,
     RemoveSourceLosesNothing
<1> QED
  BY <1>1, <1>2, <1>3, <1>4, QuietSteps DEF Next

(* No file is lost: it exists, complete, until a purge removes it or a     *)
(* move replaces it, however the steps of several desktops interleave and  *)
(* whatever fails or dies in between (recycle.send, restore and purge).    *)
THEOREM NoFileLost == Spec => []NothingLost
<1>1. ASSUME Kept, NEW f \in Existing, f \in File PROVE at[f] # {}
  <2>1. /\ Spare(f) /\ Cardinality(Copied(f)) \in Nat
        /\ Cardinality(at[f]) > Cardinality(Copied(f))
    BY <1>1, FS_CardinalityType DEF Kept, Spare
  <2> QED
    BY <2>1, FS_EmptySet
<1>2. IInv /\ Kept => NothingLost
  BY <1>1, TypesOf DEF NothingLost, Existing
<1>3. Init => IInv /\ Kept
  BY InitInv, InitKept
<1>4. IInv /\ Kept /\ [Next]_vars => (IInv /\ Kept)'
  BY NextKeeps, NextLosesNothing
<1> QED
  BY <1>2, <1>3, <1>4, PTL DEF Spec

-----------------------------------------------------------------------------
(* The folder views.  The proofs about DirectoryMonitor follow a listing:  *)
(* what is being read was not older than the last new generation of its    *)
(* path when the reading began, or is marked as superseded; the mark goes  *)
(* with the listing into the results and to the desktop thread, which      *)
(* leaves a marked one out.                                                *)

\* A listing that is not superseded shows what was announced last.
Within(l, d) ==
    l # None => /\ l.seen <= content[d]
                /\ l.current => noticed[d] <= l.seen

Announced ==
    /\ \A d \in Dir : noticed[d] <= content[d]
    /\ \A d \in Dir : Within(results[d], d) /\ Within(ready[d], d)
    /\ \A w \in Worker : scan[w] # None =>
          /\ scan[w].from <= content[scan[w].dir]
          /\ scan[w].current => noticed[scan[w].dir] <= scan[w].from

\* The types, by who writes the variables.
DiskOK ==
    /\ content \in [Dir -> 0..MaxChanges] /\ noticed \in [Dir -> 0..MaxChanges]
ViewsOK ==
    /\ shown \in [View -> Dir \cup {None}] /\ rows \in [View -> 0..MaxChanges]
    /\ held \in BOOLEAN /\ closed \in BOOLEAN /\ settled \in BOOLEAN
    /\ moves \in 0..MaxMoves
ResultsOK ==
    /\ ready \in [Dir -> Listing \cup {None}]
    /\ results \in [Dir -> Listing \cup {None}]
    /\ targets \subseteq Dir
    /\ \A d \in Dir : results[d] # None => d \in targets /\ results[d].current
WaitingOK ==
    /\ waiting \in [Dir -> Wait \cup {None}]
    /\ \A d \in Dir : waiting[d] # None => d \in targets /\ waiting[d].due <= waiting[d].cap
ThreadsOK ==
    /\ thread \in [Worker -> {"awake", "asleep", "scanning", "ended"}]
    /\ scan \in [Worker -> Scan \cup {None}]
    /\ \A w \in Worker : scan[w] # None <=> thread[w] = "scanning"
WatchOK ==
    /\ local \subseteq Dir /\ known \in (SUBSET Dir) \cup {None}
    /\ step \in {"top", "build", "rescan", "poll", "select", "ended"}
    /\ armed \subseteq Dir /\ complete \in BOOLEAN /\ elapsed \in BOOLEAN
    /\ queue \in [Dir -> {"none", "changed", "replaced"}]

MonitorInv == MonitorTypeOK /\ Announced

LEMMA MonitorTypes ==
    MonitorTypeOK <=> /\ DiskOK /\ ViewsOK /\ ResultsOK /\ WaitingOK
                      /\ ThreadsOK /\ WatchOK
BY DEF MonitorTypeOK, DiskOK, ViewsOK, ResultsOK, WaitingOK, ThreadsOK, WatchOK

LEMMA MonitorFacts ==
    ASSUME MonitorInv
    PROVE  /\ DiskOK /\ ViewsOK /\ ResultsOK /\ WaitingOK /\ ThreadsOK /\ WatchOK
           /\ Announced
BY MonitorTypes DEF MonitorInv

LEMMA MonitorParts ==
    ASSUME DiskOK', ViewsOK', ResultsOK', WaitingOK', ThreadsOK', WatchOK', Announced'
    PROVE  MonitorInv'
<1>1. MonitorTypeOK'
  BY MonitorTypes, PTL
<1> QED
  BY <1>1 DEF MonitorInv

LEMMA MinPair ==
    ASSUME NEW a \in Nat, NEW b \in Nat
    PROVE  Min({a, b}) = IF a <= b THEN a ELSE b
<1> DEFINE P(x) == \A y \in {a, b} : x <= y
<1>1. \E x \in {a, b} : P(x)
  OBVIOUS
<1>2. P(CHOOSE x \in {a, b} : P(x)) /\ (CHOOSE x \in {a, b} : P(x)) \in {a, b}
  BY <1>1
<1>3. Min({a, b}) \in {a, b} /\ \A y \in {a, b} : Min({a, b}) <= y
  BY <1>2 DEF Min
<1> QED
  BY <1>3

LEMMA MaxPair ==
    ASSUME NEW a \in Int, NEW b \in Int
    PROVE  Max({a, b}) = IF a >= b THEN a ELSE b
<1> DEFINE P(x) == \A y \in {a, b} : x >= y
<1>1. \E x \in {a, b} : P(x)
  OBVIOUS
<1>2. P(CHOOSE x \in {a, b} : P(x)) /\ (CHOOSE x \in {a, b} : P(x)) \in {a, b}
  BY <1>1
<1>3. Max({a, b}) \in {a, b} /\ \A y \in {a, b} : Max({a, b}) >= y
  BY <1>2 DEF Max
<1> QED
  BY <1>3

-----------------------------------------------------------------------------
(* What a new generation does to the listings.                             *)

LEMMA ViewPathsType ==
    ASSUME ViewsOK PROVE ViewPaths \subseteq Dir
BY DEF ViewsOK, ViewPaths

\* What is marked is not compared any more, what is not keeps its path.
LEMMA SupersedeStep ==
    ASSUME MonitorInv, NEW paths \in SUBSET Dir, Supersede(paths),
           UNCHANGED content
    PROVE  /\ DiskOK'
           /\ scan' \in [Worker -> Scan \cup {None}]
           /\ \A w \in Worker : scan'[w] = None <=> scan[w] = None
           /\ \A w \in Worker : scan'[w] # None =>
                 /\ scan'[w].from <= content'[scan'[w].dir]
                 /\ scan'[w].current => noticed'[scan'[w].dir] <= scan'[w].from
           /\ \A d \in Dir : noticed'[d] <= content'[d]
           /\ \A d \in Dir \ paths : noticed'[d] = noticed[d]
<1>0. /\ DiskOK /\ ThreadsOK /\ Announced
  BY MonitorFacts
<1>1. /\ scan' = [w \in Worker |-> IF scan[w] # None /\ scan[w].dir \in paths
                                   THEN [scan[w] EXCEPT !.current = FALSE] ELSE scan[w]]
      /\ noticed' = [d \in Dir |-> IF d \in paths THEN content[d] ELSE noticed[d]]
  BY DEF Supersede, Scanning
<1>2. DiskOK' /\ \A d \in Dir : noticed'[d] <= content'[d]
  BY <1>0, <1>1 DEF DiskOK, Announced
<1>3. \A d \in Dir \ paths : noticed'[d] = noticed[d]
  BY <1>1
<1>4. ASSUME NEW w \in Worker
      PROVE  /\ scan'[w] \in Scan \cup {None}
             /\ scan'[w] = None <=> scan[w] = None
             /\ scan'[w] # None =>
                   /\ scan'[w].from <= content'[scan'[w].dir]
                   /\ scan'[w].current => noticed'[scan'[w].dir] <= scan'[w].from
  <2>1. CASE scan[w] # None /\ scan[w].dir \in paths
    <3> DEFINE c == [scan[w] EXCEPT !.current = FALSE]
    <3>1. scan[w] \in Scan
      BY <1>0, <2>1 DEF ThreadsOK
    <3>2. /\ c \in Scan /\ c.current = FALSE /\ c.from = scan[w].from
          /\ c.dir = scan[w].dir
      BY <3>1 DEF Scan
    <3>3. scan'[w] = c
      BY <1>1, <2>1
    <3>4. c # None
      BY <3>2, NoneAssumption
    <3>5. scan[w].from <= content[scan[w].dir]
      BY <1>0, <2>1 DEF Announced
    <3> HIDE DEF c
    <3> QED
      BY <2>1, <3>2, <3>3, <3>4, <3>5
  <2>2. CASE ~(scan[w] # None /\ scan[w].dir \in paths)
    <3>1. scan'[w] = scan[w]
      BY <1>1, <2>2
    <3>2. scan[w] \in Scan \cup {None}
      BY <1>0 DEF ThreadsOK
    <3>3. scan[w] # None => noticed'[scan[w].dir] = noticed[scan[w].dir]
      BY <1>1, <2>2, <3>2 DEF Scan
    <3> QED
      BY <1>0, <3>1, <3>2, <3>3 DEF Announced
  <2> QED
    BY <2>1, <2>2
<1>5. scan' \in [Worker -> Scan \cup {None}]
  <2>1. scan' = [w \in Worker |-> scan'[w]]
    BY <1>1
  <2> QED
    BY <1>4, <2>1
<1> QED
  BY <1>2, <1>3, <1>4, <1>5

\* The threads, after scans were marked and sleepers woken.
LEMMA WokenStep ==
    ASSUME MonitorInv, scan' \in [Worker -> Scan \cup {None}],
           \A w \in Worker : scan'[w] = None <=> scan[w] = None,
           thread' \in {thread, Woken}
    PROVE  ThreadsOK'
<1>0. ThreadsOK
  BY MonitorFacts
<1>1. /\ thread' \in [Worker -> {"awake", "asleep", "scanning", "ended"}]
      /\ \A w \in Worker : thread'[w] = "scanning" <=> thread[w] = "scanning"
  BY <1>0 DEF ThreadsOK, Woken
<1> QED
  BY <1>0, <1>1 DEF ThreadsOK

LEMMA DeadlineType ==
    ASSUME MonitorInv, NEW d \in Dir
    PROVE  Deadline(d) \in Wait /\ Deadline(d).due <= Deadline(d).cap
<1> DEFINE cap == IF waiting[d] = None THEN Cap ELSE waiting[d].cap
<1>1. cap \in 0..Cap
  BY MonitorFacts, TimeAssumption DEF WaitingOK, Wait
<1>2. Min({Quiet, cap}) = IF Quiet <= cap THEN Quiet ELSE cap
  BY <1>1, MinPair, TimeAssumption
<1>3. Min({Quiet, cap}) \in 0..Quiet /\ Min({Quiet, cap}) <= cap
  BY <1>1, <1>2, TimeAssumption
<1>4. Deadline(d) = [due |-> Min({Quiet, cap}), cap |-> cap]
  BY DEF Deadline
<1> HIDE DEF cap
<1> QED
  BY <1>1, <1>3, <1>4 DEF Wait

\* A path that gets a new generation has no result, and its scans are marked.
LEMMA DirtyStep ==
    ASSUME MonitorInv, NEW paths \in SUBSET Dir, NEW periodic \in BOOLEAN,
           Dirty(paths, periodic), UNCHANGED <<content, settled>>
    PROVE  DiskOK' /\ ViewsOK' /\ ResultsOK' /\ WaitingOK' /\ ThreadsOK' /\ Announced'
<1> DEFINE due == IF closed THEN {}
                  ELSE {d \in paths \cap targets : ~(periodic /\ Skipped(d))}
<1>0. /\ DiskOK /\ ViewsOK /\ ResultsOK /\ WaitingOK /\ ThreadsOK /\ Announced
  BY MonitorFacts
<1>1. due \in SUBSET Dir /\ due \subseteq targets
  OBVIOUS
<1>2. /\ Supersede(due)
      /\ ready'   = [d \in Dir |-> IF d \in due /\ ready[d] # None
                                   THEN [ready[d] EXCEPT !.current = FALSE] ELSE ready[d]]
      /\ waiting' = [d \in Dir |-> IF d \in due THEN Deadline(d) ELSE waiting[d]]
      /\ results' = [d \in Dir |-> IF d \in due THEN None ELSE results[d]]
      /\ thread' \in {thread, Woken}
      /\ UNCHANGED <<shown, rows, held, moves, targets, closed>>
  BY DEF Dirty
<1> HIDE DEF due
<1>3. /\ DiskOK'
      /\ scan' \in [Worker -> Scan \cup {None}]
      /\ \A w \in Worker : scan'[w] = None <=> scan[w] = None
      /\ \A w \in Worker : scan'[w] # None =>
            /\ scan'[w].from <= content'[scan'[w].dir]
            /\ scan'[w].current => noticed'[scan'[w].dir] <= scan'[w].from
      /\ \A d \in Dir : noticed'[d] <= content'[d]
      /\ \A d \in Dir \ due : noticed'[d] = noticed[d]
  BY <1>1, <1>2, SupersedeStep
<1>4. ThreadsOK'
  BY <1>2, <1>3, WokenStep
<1>5. ViewsOK'
  BY <1>0, <1>2 DEF ViewsOK
<1>6. WaitingOK'
  <2>1. \A d \in Dir : Deadline(d) \in Wait /\ Deadline(d).due <= Deadline(d).cap
    BY DeadlineType
  <2>2. waiting' \in [Dir -> Wait \cup {None}]
    BY <1>0, <1>2, <2>1 DEF WaitingOK
  <2>3. ASSUME NEW d \in Dir, waiting'[d] # None
        PROVE  d \in targets' /\ waiting'[d].due <= waiting'[d].cap
    BY <1>0, <1>1, <1>2, <2>1, <2>3 DEF WaitingOK
  <2> QED
    BY <2>2, <2>3 DEF WaitingOK
<1>7. ASSUME NEW d \in Dir
      PROVE  /\ ready'[d] \in Listing \cup {None}
             /\ Within(ready[d], d)'
  <2>1. CASE d \in due /\ ready[d] # None
    <3> DEFINE c == [ready[d] EXCEPT !.current = FALSE]
    <3>1. ready[d] \in Listing
      BY <1>0, <2>1 DEF ResultsOK
    <3>2. c \in Listing /\ c.current = FALSE /\ c.seen = ready[d].seen
      BY <3>1 DEF Listing
    <3>3. ready'[d] = c /\ content' = content
      BY <1>2, <2>1
    <3> HIDE DEF c
    <3>4. ready[d].seen <= content[d]
      BY <1>0, <2>1 DEF Announced, Within
    <3> QED
      BY <3>2, <3>3, <3>4 DEF Within
  <2>2. CASE ~(d \in due /\ ready[d] # None)
    <3>1. ready'[d] = ready[d] /\ content' = content
      BY <1>2, <2>2
    <3>2. ready[d] # None => noticed'[d] = noticed[d]
      BY <1>3, <2>2
    <3> QED
      BY <1>0, <3>1, <3>2 DEF Within, Announced, ResultsOK
  <2> QED
    BY <2>1, <2>2
<1>8. ASSUME NEW d \in Dir
      PROVE  /\ results'[d] \in Listing \cup {None}
             /\ results'[d] # None => d \in targets' /\ results'[d].current
             /\ Within(results[d], d)'
  <2>1. CASE d \in due
    BY <1>2, <2>1 DEF Within
  <2>2. CASE d \notin due
    <3>1. results'[d] = results[d] /\ noticed'[d] = noticed[d]
      BY <1>2, <1>3, <2>2
    <3> QED
      BY <1>0, <1>2, <3>1 DEF Within, Announced, ResultsOK
  <2> QED
    BY <2>1, <2>2
<1>9. ResultsOK'
  <2>1. targets' \subseteq Dir
    BY <1>0, <1>2 DEF ResultsOK
  <2>2. ready' \in [Dir -> Listing \cup {None}] /\ results' \in [Dir -> Listing \cup {None}]
    <3>1. ready' = [d \in Dir |-> ready'[d]] /\ results' = [d \in Dir |-> results'[d]]
      BY <1>2
    <3> QED
      BY <1>7, <1>8, <3>1
  <2> QED
    BY <1>8, <2>1, <2>2 DEF ResultsOK
<1>10. Announced'
  BY <1>3, <1>7, <1>8 DEF Announced
<1> QED
  BY <1>3, <1>4, <1>5, <1>6, <1>9, <1>10

-----------------------------------------------------------------------------
(* Steps that leave the listings alone.                                    *)

\* The disk may go on, no listing and no generation changes.
LEMMA AnnouncedKept ==
    ASSUME MonitorInv, UNCHANGED <<ready, results, scan, noticed>>,
           DiskOK', \A d \in Dir : content[d] <= content'[d]
    PROVE  Announced'
<1>0. DiskOK /\ ResultsOK /\ ThreadsOK /\ Announced
  BY MonitorFacts
<1>1. /\ \A d \in Dir : content[d] \in Nat /\ content'[d] \in Nat /\ noticed[d] \in Nat
      /\ \A d \in Dir : (results[d] # None => results[d].seen \in Nat)
                        /\ (ready[d] # None => ready[d].seen \in Nat)
      /\ \A w \in Worker : scan[w] # None => scan[w].dir \in Dir /\ scan[w].from \in Nat
  BY <1>0, BoundsAssumption DEF DiskOK, ResultsOK, ThreadsOK, Listing, Scan
<1>2. ASSUME NEW d \in Dir
      PROVE  /\ noticed'[d] <= content'[d]
             /\ Within(results[d], d)' /\ Within(ready[d], d)'
  BY <1>0, <1>1 DEF Announced, Within
<1>3. ASSUME NEW w \in Worker, scan'[w] # None
      PROVE  /\ scan'[w].from <= content'[scan'[w].dir]
             /\ scan'[w].current => noticed'[scan'[w].dir] <= scan'[w].from
  BY <1>0, <1>1, <1>3 DEF Announced
<1> QED
  BY <1>2, <1>3 DEF Announced

\* Neither the disk nor a listing changes, nor what is waiting.
LEMMA WatchQuietStep ==
    ASSUME MonitorInv, UNCHANGED <<content, noticed, ready, results, targets, scan>>,
           ViewsOK', WaitingOK', ThreadsOK', WatchOK'
    PROVE  MonitorInv'
<1>0. DiskOK /\ ResultsOK /\ ThreadsOK
  BY MonitorFacts
<1>1. DiskOK' /\ ResultsOK'
  BY <1>0 DEF DiskOK, ResultsOK
<1>2. \A d \in Dir : content[d] <= content'[d]
  BY <1>0, BoundsAssumption DEF DiskOK
<1>3. Announced'
  BY <1>1, <1>2, AnnouncedKept
<1> QED
  BY <1>1, <1>3, MonitorParts

\* Only the inotify thread's own variables change.
LEMMA WatchStep ==
    ASSUME MonitorInv, UNCHANGED <<content, ui, shared, workers, noticed, settled>>,
           WatchOK'
    PROVE  MonitorInv'
<1>0. ViewsOK /\ WaitingOK /\ ThreadsOK
  BY MonitorFacts
<1>1. ViewsOK' /\ WaitingOK' /\ ThreadsOK'
  BY <1>0 DEF ui, shared, workers, ViewsOK, WaitingOK, ThreadsOK
<1> QED
  BY <1>1, WatchQuietStep DEF ui, shared, workers

-----------------------------------------------------------------------------
(* The inotify thread.                                                     *)

LEMMA EventsStep ==
    ASSUME MonitorInv, Events PROVE MonitorInv'
<1>0. WatchOK /\ ResultsOK /\ Remote \subseteq Dir
  BY MonitorFacts, WatchAssumption
<1>1. CASE ReadTargets
  <2>1. WatchOK'
    BY <1>0, <1>1 DEF ReadTargets, WatchOK, ResultsOK
  <2> QED
    BY <1>1, <2>1, WatchStep DEF ReadTargets
<1>2. CASE Build
  <2>1. WatchOK'
    BY <1>0, <1>2 DEF Build, WatchOK, Quieted
  <2> QED
    BY <1>2, <2>1, WatchStep DEF Build
<1>3. CASE RescanTargets
  <2>1. WatchOK'
    BY <1>0, <1>3 DEF RescanTargets, WatchOK
  <2>2. local \in SUBSET Dir /\ (local = known) \in BOOLEAN
    BY <1>0 DEF WatchOK
  <2>3. DiskOK' /\ ViewsOK' /\ ResultsOK' /\ WaitingOK' /\ ThreadsOK' /\ Announced'
    BY <1>3, <2>2, DirtyStep DEF RescanTargets
  <2> QED
    BY <2>1, <2>3, MonitorParts
<1>4. CASE PollRemote
  <2>1. WatchOK'
    BY <1>0, <1>4 DEF PollRemote, WatchOK
  <2>2. Remote \cap local \in SUBSET Dir
    BY <1>0 DEF WatchOK
  <2>3. DiskOK' /\ ViewsOK' /\ ResultsOK' /\ WaitingOK' /\ ThreadsOK' /\ Announced'
    BY <1>4, <2>2, DirtyStep DEF PollRemote
  <2> QED
    BY <2>1, <2>3, MonitorParts
<1>5. CASE HandleEvents
  <2>1. WatchOK'
    BY <1>0, <1>5 DEF HandleEvents, WatchOK, Quieted
  <2>2. {d \in local : queue[d] # "none"} \in SUBSET Dir
    BY <1>0 DEF WatchOK
  <2>3. DiskOK' /\ ViewsOK' /\ ResultsOK' /\ WaitingOK' /\ ThreadsOK' /\ Announced'
    BY <1>5, <2>2, DirtyStep DEF HandleEvents
  <2> QED
    BY <2>1, <2>3, MonitorParts
<1>6. CASE Wake
  <2>1. WatchOK'
    BY <1>0, <1>6 DEF Wake, WatchOK
  <2> QED
    BY <1>6, <2>1, WatchStep DEF Wake
<1> QED
  BY <1>1, <1>2, <1>3, <1>4, <1>5, <1>6 DEF Events

-----------------------------------------------------------------------------
(* The scanner threads.                                                    *)

\* A scan begins with what the directory is, which nothing announced exceeds.
LEMMA StartScanStep ==
    ASSUME MonitorInv, NEW w \in Worker, NEW d \in Dir, StartScan(w, d)
    PROVE  MonitorInv'
<1> DEFINE c == [dir |-> d, from |-> content[d], current |-> TRUE]
<1>0. DiskOK /\ ViewsOK /\ ResultsOK /\ WaitingOK /\ ThreadsOK /\ WatchOK /\ Announced
  BY MonitorFacts
<1>1. content[d] \in Nat
  BY <1>0, BoundsAssumption DEF DiskOK
<1>2. /\ c \in Scan /\ c.dir = d /\ c.from = content[d] /\ c.current
  BY <1>1 DEF Scan
<1>3. /\ scan' = [scan EXCEPT ![w] = c]
      /\ thread' = [thread EXCEPT ![w] = "scanning"]
      /\ waiting' = [waiting EXCEPT ![d] = None]
      /\ UNCHANGED <<content, ui, targets, results, closed, watch, noticed, settled>>
  BY DEF StartScan
<1> HIDE DEF c
<1>4. ThreadsOK'
  BY <1>0, <1>2, <1>3, NoneAssumption DEF ThreadsOK
<1>5. WaitingOK'
  BY <1>0, <1>3 DEF WaitingOK
<1>6. DiskOK' /\ ViewsOK' /\ ResultsOK' /\ WatchOK'
  BY <1>0, <1>3 DEF DiskOK, ViewsOK, ResultsOK, WatchOK, ui, watch
<1>7. noticed[d] <= content[d]
  BY <1>0 DEF Announced
<1>8. ASSUME NEW x \in Worker, scan'[x] # None
      PROVE  /\ scan'[x].from <= content'[scan'[x].dir]
             /\ scan'[x].current => noticed'[scan'[x].dir] <= scan'[x].from
  <2>1. CASE x = w
    <3>1. scan'[x] = c /\ content' = content /\ noticed' = noticed
      BY <1>0, <1>3, <2>1 DEF ThreadsOK
    <3> QED
      BY <1>1, <1>2, <1>7, <3>1
  <2>2. CASE x # w
    <3>1. scan'[x] = scan[x] /\ content' = content /\ noticed' = noticed
      BY <1>0, <1>3, <2>2 DEF ThreadsOK
    <3> QED
      BY <1>0, <1>8, <3>1 DEF Announced
  <2> QED
    BY <2>1, <2>2
<1>9. \A x \in Dir : /\ noticed'[x] <= content'[x]
                     /\ Within(results[x], x)' /\ Within(ready[x], x)'
  BY <1>0, <1>3 DEF Announced, Within, ui
<1>10. Announced'
  BY <1>8, <1>9 DEF Announced
<1> QED
  BY <1>4, <1>5, <1>6, <1>10, MonitorParts

LEMMA SleepStep ==
    ASSUME MonitorInv, NEW w \in Worker, Sleep(w) \/ EndWorker(w)
    PROVE  MonitorInv'
<1>0. ViewsOK /\ WaitingOK /\ ThreadsOK /\ WatchOK
  BY MonitorFacts
<1>1. /\ UNCHANGED <<content, ui, shared, scan, watch, noticed, settled>>
      /\ \E a \in {"asleep", "ended"} : thread' = [thread EXCEPT ![w] = a]
      /\ thread[w] = "awake"
  BY DEF Sleep, EndWorker
<1>2. ThreadsOK'
  BY <1>0, <1>1 DEF ThreadsOK
<1>3. ViewsOK' /\ WaitingOK' /\ WatchOK'
  BY <1>0, <1>1 DEF ViewsOK, WaitingOK, WatchOK, ui, shared, watch
<1> QED
  BY <1>1, <1>2, <1>3, WatchQuietStep DEF ui, shared

\* What was read lies between the beginning of the scan and now.
LEMMA FinishScanStep ==
    ASSUME MonitorInv, NEW w \in Worker, FinishScan(w)
    PROVE  MonitorInv'
<1>0. DiskOK /\ ViewsOK /\ ResultsOK /\ WaitingOK /\ ThreadsOK /\ WatchOK /\ Announced
  BY MonitorFacts
<1>1. PICK seen \in scan[w].from .. content[scan[w].dir] :
         results' = IF ~closed /\ scan[w].dir \in targets /\ scan[w].current
                    THEN [results EXCEPT ![scan[w].dir] =
                            [seen |-> seen, current |-> scan[w].current]]
                    ELSE results
  BY DEF FinishScan
<1>2. /\ thread[w] = "scanning"
      /\ scan' = [scan EXCEPT ![w] = None]
      /\ thread' = [Woken EXCEPT ![w] = "awake"]
      /\ UNCHANGED <<content, ui, targets, waiting, closed, watch, noticed, settled>>
  BY DEF FinishScan
<1>3. /\ scan[w] \in Scan /\ scan[w].dir \in Dir /\ scan[w].from \in Nat
      /\ scan[w] # None
  BY <1>0, <1>2 DEF ThreadsOK, Scan
<1>4. content[scan[w].dir] \in Nat /\ noticed[scan[w].dir] \in Nat
  BY <1>0, <1>3, BoundsAssumption DEF DiskOK
<1>5. /\ seen \in Nat /\ seen <= content[scan[w].dir] /\ scan[w].from <= seen
      /\ scan[w].current => noticed[scan[w].dir] <= scan[w].from
  BY <1>0, <1>3, <1>4 DEF Announced
<1> DEFINE l == [seen |-> seen, current |-> TRUE]
<1>6. l \in Listing /\ l.seen = seen /\ l.current
  BY <1>5 DEF Listing
<1>7. \/ results' = results
      \/ /\ results' = [results EXCEPT ![scan[w].dir] = l]
         /\ scan[w].dir \in targets /\ scan[w].current
  <2>1. scan[w].current \in BOOLEAN
    BY <1>3 DEF Scan
  <2>2. scan[w].current => [seen |-> seen, current |-> scan[w].current] = l
    BY <2>1
  <2> QED
    BY <1>1, <2>2
<1> HIDE DEF l
<1>8. ASSUME NEW d \in Dir
      PROVE  /\ results'[d] \in Listing \cup {None}
             /\ results'[d] # None => d \in targets /\ results'[d].current
             /\ Within(results[d], d)'
  <2>1. CASE results'[d] = results[d]
    BY <1>0, <1>2, <2>1 DEF ResultsOK, Announced, Within
  <2>2. CASE /\ results'[d] = l /\ d = scan[w].dir
             /\ d \in targets /\ scan[w].current
    <3>1. noticed[d] <= seen /\ seen <= content[d]
      BY <1>3, <1>4, <1>5, <2>2
    <3> QED
      BY <1>2, <1>6, <2>2, <3>1 DEF Within
  <2> QED
    BY <1>0, <1>3, <1>7, <2>1, <2>2 DEF ResultsOK
<1>9. ThreadsOK'
  BY <1>0, <1>2 DEF ThreadsOK, Woken
<1>10. ResultsOK'
  <2>1. results' \in [Dir -> Listing \cup {None}]
    <3>1. results' = [d \in Dir |-> results'[d]]
      BY <1>0, <1>7 DEF ResultsOK
    <3> QED
      BY <1>8, <3>1
  <2> QED
    BY <1>0, <1>2, <1>8, <2>1 DEF ResultsOK, ui
<1>11. DiskOK' /\ ViewsOK' /\ WaitingOK' /\ WatchOK'
  BY <1>0, <1>2 DEF DiskOK, ViewsOK, WaitingOK, WatchOK, ui, watch
<1>12. ASSUME NEW x \in Worker, scan'[x] # None
       PROVE  /\ scan'[x].from <= content'[scan'[x].dir]
              /\ scan'[x].current => noticed'[scan'[x].dir] <= scan'[x].from
  <2>1. scan'[x] = scan[x]
    BY <1>0, <1>2, <1>12 DEF ThreadsOK
  <2> QED
    BY <1>0, <1>2, <1>12, <2>1 DEF Announced
<1>13. \A x \in Dir : noticed'[x] <= content'[x] /\ Within(ready[x], x)'
  BY <1>0, <1>2 DEF Announced, Within, ui
<1>14. Announced'
  BY <1>8, <1>12, <1>13 DEF Announced
<1> QED
  BY <1>9, <1>10, <1>11, <1>14, MonitorParts

LEMMA WorkStep ==
    ASSUME MonitorInv, NEW w \in Worker, Work(w) PROVE MonitorInv'
BY StartScanStep, SleepStep, FinishScanStep DEF Work

-----------------------------------------------------------------------------
(* The desktop thread.                                                     *)

\* A path that becomes a target has no result yet, one that ceases loses it.
LEMMA TickStep ==
    ASSUME MonitorInv, Tick PROVE MonitorInv'
<1> DEFINE moved == (ViewPaths \ targets) \cup (targets \ ViewPaths)
           left  == targets \ ViewPaths
           kept  == [d \in Dir |-> IF d \in left THEN None ELSE results[d]]
<1>0. DiskOK /\ ViewsOK /\ ResultsOK /\ WaitingOK /\ ThreadsOK /\ WatchOK /\ Announced
  BY MonitorFacts
<1>1. /\ \A d \in Dir : ready[d] = None
      /\ targets' = ViewPaths
      /\ Supersede(moved)
      /\ waiting' = [d \in Dir |-> IF d \in left THEN None ELSE waiting[d]]
      /\ ready'   = IF held THEN ready ELSE kept
      /\ results' = IF held THEN kept ELSE [d \in Dir |-> None]
      /\ UNCHANGED <<content, shown, rows, held, moves, closed, thread, watch, settled>>
  BY DEF Tick, Idle
<1>2. ViewPaths \subseteq Dir /\ moved \in SUBSET Dir
  BY <1>0, ViewPathsType DEF ResultsOK
<1>3. ASSUME NEW d \in Dir
      PROVE  /\ kept[d] \in Listing \cup {None}
             /\ kept[d] # None => /\ kept[d] = results[d]
                                  /\ d \in targets /\ d \in ViewPaths /\ d \notin moved
  BY <1>0 DEF ResultsOK
<1>4. kept \in [Dir -> Listing \cup {None}]
  BY <1>3
<1> HIDE DEF moved, kept
<1>5. /\ DiskOK'
      /\ scan' \in [Worker -> Scan \cup {None}]
      /\ \A w \in Worker : scan'[w] = None <=> scan[w] = None
      /\ \A w \in Worker : scan'[w] # None =>
            /\ scan'[w].from <= content'[scan'[w].dir]
            /\ scan'[w].current => noticed'[scan'[w].dir] <= scan'[w].from
      /\ \A d \in Dir : noticed'[d] <= content'[d]
      /\ \A d \in Dir \ moved : noticed'[d] = noticed[d]
  BY <1>1, <1>2, SupersedeStep
<1>6. ThreadsOK'
  BY <1>1, <1>5, WokenStep
<1>7. ViewsOK' /\ WatchOK'
  BY <1>0, <1>1 DEF ViewsOK, WatchOK, watch
<1>8. WaitingOK'
  BY <1>0, <1>1 DEF WaitingOK
<1>9. ResultsOK'
  <2>1. ready' \in [Dir -> Listing \cup {None}] /\ results' \in [Dir -> Listing \cup {None}]
    BY <1>0, <1>1, <1>4 DEF ResultsOK
  <2>2. ASSUME NEW d \in Dir, results'[d] # None
        PROVE  d \in targets' /\ results'[d].current
    <3>1. results'[d] = kept[d]
      BY <1>1, <2>2
    <3> QED
      BY <1>0, <1>1, <1>3, <2>2, <3>1 DEF ResultsOK
  <2> QED
    BY <1>1, <1>2, <2>1, <2>2 DEF ResultsOK
<1>10. ASSUME NEW d \in Dir PROVE Within(results[d], d)' /\ Within(ready[d], d)'
  <2>1. results'[d] \in {kept[d], None} /\ ready'[d] \in {kept[d], None}
    BY <1>1
  <2>2. kept[d] # None => /\ kept[d].seen <= content'[d]
                          /\ kept[d].current => noticed'[d] <= kept[d].seen
    BY <1>0, <1>1, <1>3, <1>5 DEF Announced, Within
  <2> QED
    BY <2>1, <2>2 DEF Within
<1>11. Announced'
  BY <1>5, <1>10 DEF Announced
<1> QED
  BY <1>5, <1>6, <1>7, <1>8, <1>9, <1>11, MonitorParts

LEMMA CommitStep ==
    ASSUME MonitorInv, NEW d \in Dir, Commit(d) PROVE MonitorInv'
<1>0. DiskOK /\ ViewsOK /\ ResultsOK /\ WaitingOK /\ ThreadsOK /\ WatchOK /\ Announced
  BY MonitorFacts
<1>1. /\ ready[d] # None
      /\ ready' = [ready EXCEPT ![d] = None]
      /\ UNCHANGED <<content, shown, held, moves, shared, workers, watch, noticed, settled>>
      /\ rows' = [v \in View |-> IF shown[v] = d /\ d \in targets /\ ready[d].current
                                 THEN ready[d].seen ELSE rows[v]]
  BY DEF Commit
<1>2. ready[d].seen \in 0..MaxChanges
  <2>1. ready[d].seen \in Nat /\ content[d] \in 0..MaxChanges
    BY <1>0, <1>1 DEF ResultsOK, Listing, DiskOK
  <2>2. ready[d].seen <= content[d]
    BY <1>0, <1>1 DEF Announced, Within
  <2> QED
    BY <2>1, <2>2, BoundsAssumption
<1>3. rows' \in [View -> 0..MaxChanges]
  BY <1>0, <1>1, <1>2 DEF ViewsOK
<1>4. ViewsOK'
  BY <1>0, <1>1, <1>3 DEF ViewsOK, shared
<1>5. ResultsOK'
  BY <1>0, <1>1 DEF ResultsOK, shared
<1>6. DiskOK' /\ WaitingOK' /\ ThreadsOK' /\ WatchOK'
  BY <1>0, <1>1 DEF DiskOK, WaitingOK, ThreadsOK, WatchOK, shared, workers, watch
<1>7. ASSUME NEW x \in Dir
      PROVE  noticed'[x] <= content'[x] /\ Within(results[x], x)' /\ Within(ready[x], x)'
  BY <1>0, <1>1 DEF Announced, Within, shared, ResultsOK
<1>8. \A w \in Worker : scan'[w] # None =>
         /\ scan'[w].from <= content'[scan'[w].dir]
         /\ scan'[w].current => noticed'[scan'[w].dir] <= scan'[w].from
  BY <1>0, <1>1 DEF Announced, workers
<1>9. Announced'
  BY <1>7, <1>8 DEF Announced
<1> QED
  BY <1>4, <1>5, <1>6, <1>9, MonitorParts

\* What else the user does: views move, menus open, the monitor is closed.
LEMMA UserStep ==
    ASSUME MonitorInv,
           \/ Hold \/ Release \/ Close \/ Settle
           \/ \E v \in View : (\E d \in Dir : Navigate(v, d)) \/ DirChanged(v) \/ Dismiss(v)
    PROVE  MonitorInv'
<1>0. DiskOK /\ ViewsOK /\ ResultsOK /\ WaitingOK /\ ThreadsOK /\ WatchOK
      /\ MaxMoves \in Nat /\ MaxChanges \in Nat
  BY MonitorFacts, BoundsAssumption
<1>1. CASE Hold \/ Release \/ Settle
  <2>1. ViewsOK' /\ WaitingOK' /\ ThreadsOK' /\ WatchOK'
    BY <1>0, <1>1 DEF Hold, Release, Settle, ui, shared, workers, watch,
       ViewsOK, WaitingOK, ThreadsOK, WatchOK
  <2>2. UNCHANGED <<content, noticed, ready, results, targets, scan>>
    BY <1>1 DEF Hold, Release, Settle, ui, shared, workers
  <2> QED
    BY <2>1, <2>2, WatchQuietStep
<1>2. CASE Close
  <2>1. ViewsOK' /\ WaitingOK' /\ WatchOK'
    BY <1>0, <1>2 DEF Close, ui, watch, ViewsOK, WaitingOK, WatchOK
  <2>2. ThreadsOK'
    BY <1>0, <1>2, WokenStep DEF Close, ThreadsOK
  <2>3. UNCHANGED <<content, noticed, ready, results, targets, scan>>
    BY <1>2 DEF Close, ui
  <2> QED
    BY <2>1, <2>2, <2>3, WatchQuietStep
<1>3. ASSUME NEW v \in View,
             (\E d \in Dir : Navigate(v, d)) \/ DirChanged(v) \/ Dismiss(v)
      PROVE  MonitorInv'
  <2>1. WaitingOK' /\ ThreadsOK' /\ WatchOK'
        /\ UNCHANGED <<content, noticed, ready, results, targets, scan>>
    BY <1>0, <1>3 DEF Navigate, DirChanged, Dismiss, shared, workers, watch,
       WaitingOK, ThreadsOK, WatchOK
  <2>2. CASE \E d \in Dir : Navigate(v, d)
    <3>1. PICK d \in Dir : Navigate(v, d)
      BY <2>2
    <3>2. content[d] \in 0..MaxChanges
      BY <1>0 DEF DiskOK
    <3>3. moves' \in 0..MaxMoves
      BY <1>0, <3>1 DEF Navigate, ViewsOK
    <3>4. ViewsOK'
      BY <1>0, <3>1, <3>2, <3>3 DEF Navigate, ViewsOK, shared
    <3> QED
      BY <2>1, <3>4, WatchQuietStep
  <2>3. CASE DirChanged(v)
    <3>1. shown[v] \in Dir
      BY <1>0, <2>3 DEF DirChanged, ViewsOK
    <3>2. content[shown[v]] \in 0..MaxChanges
      BY <1>0, <3>1 DEF DiskOK
    <3>3. ViewsOK'
      BY <1>0, <2>3, <3>2 DEF DirChanged, ViewsOK, shared
    <3> QED
      BY <2>1, <3>3, WatchQuietStep
  <2>4. CASE Dismiss(v)
    <3>1. moves' \in 0..MaxMoves
      BY <1>0, <2>4 DEF Dismiss, ViewsOK
    <3>2. ViewsOK'
      BY <1>0, <2>4, <3>1 DEF Dismiss, ViewsOK, shared
    <3> QED
      BY <2>1, <3>2, WatchQuietStep
  <2> QED
    BY <1>3, <2>2, <2>3, <2>4
<1> QED
  BY <1>1, <1>2, <1>3

-----------------------------------------------------------------------------
(* The file system and the clock.                                          *)

LEMMA ChangeStep ==
    ASSUME MonitorInv, NEW d \in Dir, Change(d) \/ Replace(d) PROVE MonitorInv'
<1>0. DiskOK /\ ViewsOK /\ ResultsOK /\ WaitingOK /\ ThreadsOK /\ WatchOK
      /\ MaxChanges \in Nat
  BY MonitorFacts, BoundsAssumption
<1>1. content[d] \in 0..MaxChanges
  BY <1>0 DEF DiskOK
<1>2. \/ content' = content
      \/ /\ content' = [content EXCEPT ![d] = content[d] + 1]
         /\ content[d] < MaxChanges
  BY <1>0 DEF Change, Replace, DiskOK
<1>3. UNCHANGED <<ui, shared, workers, noticed, settled>>
  BY DEF Change, Replace
<1>4. /\ content' \in [Dir -> 0..MaxChanges]
      /\ \A x \in Dir : content[x] <= content'[x]
  BY <1>0, <1>1, <1>2 DEF DiskOK
<1>5. DiskOK' /\ ViewsOK' /\ ResultsOK' /\ WaitingOK' /\ ThreadsOK'
  BY <1>0, <1>3, <1>4 DEF DiskOK, ViewsOK, ResultsOK, WaitingOK, ThreadsOK,
     ui, shared, workers
<1>6. WatchOK'
  <2>1. \A k \in {"changed", "replaced"} :
           Queued(d, k) \in [Dir -> {"none", "changed", "replaced"}]
    BY <1>0 DEF Queued, WatchOK
  <2> QED
    BY <1>0, <2>1 DEF Change, Replace, WatchOK
<1>7. Announced'
  BY <1>3, <1>4, <1>5, AnnouncedKept DEF ui, shared, workers
<1> QED
  BY <1>5, <1>6, <1>7, MonitorParts

LEMMA OverflowStep ==
    ASSUME MonitorInv, Overflow \/ Elapse PROVE MonitorInv'
<1>0. WatchOK
  BY MonitorFacts
<1>1. WatchOK'
  BY <1>0 DEF Overflow, Elapse, WatchOK
<1> QED
  BY <1>1, WatchStep DEF Overflow, Elapse

LEMMA ClockStep ==
    ASSUME MonitorInv, Clock PROVE MonitorInv'
<1>0. ViewsOK /\ WaitingOK /\ ThreadsOK /\ WatchOK
  BY MonitorFacts
<1>1. /\ waiting' = [d \in Dir |-> IF waiting[d] = None THEN None
                                   ELSE [due |-> Max({waiting[d].due - 1, 0}),
                                         cap |-> Max({waiting[d].cap - 1, 0})]]
      /\ UNCHANGED <<content, ui, targets, results, closed, workers, watch, noticed, settled>>
  BY DEF Clock
<1>2. ASSUME NEW d \in Dir, waiting[d] # None
      PROVE  LET c == [due |-> Max({waiting[d].due - 1, 0}),
                       cap |-> Max({waiting[d].cap - 1, 0})]
             IN  c \in Wait /\ c.due <= c.cap
  <2>1. /\ waiting[d].due \in 0..Quiet /\ waiting[d].cap \in 0..Cap
        /\ waiting[d].due <= waiting[d].cap
    BY <1>0, <1>2 DEF WaitingOK, Wait
  <2>2. /\ Max({waiting[d].due - 1, 0})
           = IF waiting[d].due - 1 >= 0 THEN waiting[d].due - 1 ELSE 0
        /\ Max({waiting[d].cap - 1, 0})
           = IF waiting[d].cap - 1 >= 0 THEN waiting[d].cap - 1 ELSE 0
    BY <2>1, MaxPair, TimeAssumption
  <2>3. /\ Max({waiting[d].due - 1, 0}) \in 0..Quiet
        /\ Max({waiting[d].cap - 1, 0}) \in 0..Cap
        /\ Max({waiting[d].due - 1, 0}) <= Max({waiting[d].cap - 1, 0})
    BY <2>1, <2>2, TimeAssumption
  <2> QED
    BY <2>3 DEF Wait
<1>3. waiting' \in [Dir -> Wait \cup {None}]
  BY <1>1, <1>2
<1>4. \A d \in Dir : waiting'[d] # None =>
         d \in targets' /\ waiting'[d].due <= waiting'[d].cap
  BY <1>0, <1>1, <1>2 DEF WaitingOK
<1>5. WaitingOK'
  BY <1>3, <1>4 DEF WaitingOK
<1>6. ViewsOK' /\ ThreadsOK' /\ WatchOK'
  BY <1>0, <1>1 DEF ViewsOK, ThreadsOK, WatchOK, ui, workers, watch
<1> QED
  BY <1>1, <1>5, <1>6, WatchQuietStep DEF ui, workers

-----------------------------------------------------------------------------
(* The theorems about the folder views.                                    *)

LEMMA MonitorInitInv == MonitorInit => MonitorInv
<1> SUFFICES ASSUME MonitorInit PROVE MonitorInv
  OBVIOUS
<1>0. /\ MaxChanges \in Nat /\ MaxMoves \in Nat /\ Start \in Dir
  BY BoundsAssumption, ViewsAssumption
<1>1. DiskOK /\ ViewsOK
  <2>1. 0 \in 0..MaxChanges /\ 0 \in 0..MaxMoves
    BY <1>0
  <2>2. DiskOK
    BY <2>1 DEF MonitorInit, DiskOK
  <2>3. shown \in [View -> Dir \cup {None}]
    BY <1>0 DEF MonitorInit
  <2>4. rows \in [View -> 0..MaxChanges]
    BY <2>1 DEF MonitorInit
  <2> QED
    BY <2>1, <2>2, <2>3, <2>4 DEF MonitorInit, ViewsOK
<1>2. ResultsOK
  BY <1>1, ViewPathsType DEF MonitorInit, ResultsOK
<1>3. WaitingOK /\ ThreadsOK /\ WatchOK
  BY DEF MonitorInit, WaitingOK, ThreadsOK, WatchOK, Quieted
<1>4. Announced
  BY <1>0 DEF MonitorInit, Announced, Within
<1> QED
  BY <1>1, <1>2, <1>3, <1>4, MonitorTypes DEF MonitorInv

LEMMA MonitorNextInv ==
    MonitorInv /\ [MonitorNext]_monitorVars => MonitorInv'
<1> SUFFICES ASSUME MonitorInv, [MonitorNext]_monitorVars PROVE MonitorInv'
  OBVIOUS
<1>1. CASE MonitorNext
  <2>1. ASSUME NEW d \in Dir, Commit(d) \/ Change(d) \/ Replace(d) PROVE MonitorInv'
    BY <2>1, CommitStep, ChangeStep
  <2>2. ASSUME NEW w \in Worker, Work(w) PROVE MonitorInv'
    BY <2>2, WorkStep
  <2>3. CASE \/ Hold \/ Release \/ Close \/ Settle
             \/ \E v \in View :
                   (\E d \in Dir : Navigate(v, d)) \/ DirChanged(v) \/ Dismiss(v)
    BY <2>3, UserStep
  <2>4. CASE Events \/ Tick
    BY <2>4, EventsStep, TickStep
  <2>5. CASE Overflow \/ Clock \/ Elapse
    BY <2>5, OverflowStep, ClockStep
  <2> QED
    BY <1>1, <2>1, <2>2, <2>3, <2>4, <2>5 DEF MonitorNext
<1>2. CASE UNCHANGED monitorVars
  <2>1. ViewsOK /\ WaitingOK /\ ThreadsOK /\ WatchOK
    BY MonitorFacts
  <2>2. ViewsOK' /\ WaitingOK' /\ ThreadsOK' /\ WatchOK'
    BY <1>2, <2>1 DEF monitorVars, ui, shared, workers, watch,
       ViewsOK, WaitingOK, ThreadsOK, WatchOK
  <2> QED
    BY <1>2, <2>2, WatchQuietStep DEF monitorVars, ui, shared, workers
<1> QED
  BY <1>1, <1>2

\* The types of the monitor, and what ties its maps together, for any views,
\* directories, threads, debounce times and sets of watches.
THEOREM MonitorTypeCorrect == MonitorSpec => []MonitorTypeOK
<1>1. MonitorInv => MonitorTypeOK
  BY DEF MonitorInv
<1> QED
  BY <1>1, MonitorInitInv, MonitorNextInv, PTL DEF MonitorSpec

\* Rows change to nothing that was superseded.
RowsStep ==
    \A v \in View : shown'[v] # None /\ rows'[v] # rows[v]
                    => rows'[v] >= noticed[shown'[v]]

LEMMA RowsChange ==
    ASSUME MonitorInv, [MonitorNext]_monitorVars PROVE RowsStep
<1>0. DiskOK /\ ViewsOK /\ ResultsOK /\ Announced /\ MaxChanges \in Nat
  BY MonitorFacts, BoundsAssumption
<1>1. \A d \in Dir : content[d] \in Nat /\ noticed[d] \in Nat /\ content[d] >= noticed[d]
  BY <1>0 DEF DiskOK, Announced
<1>2. ASSUME NEW d \in Dir, Commit(d) PROVE RowsStep
  <2> SUFFICES ASSUME NEW v \in View, shown'[v] # None, rows'[v] # rows[v]
               PROVE  rows'[v] >= noticed[shown'[v]]
    BY DEF RowsStep
  <2>1. /\ rows'[v] = ready[d].seen /\ shown'[v] = d
        /\ ready[d].current /\ ready[d] # None
    BY <1>2 DEF Commit
  <2>2. noticed[d] <= ready[d].seen /\ ready[d].seen \in Nat
    BY <1>0, <2>1 DEF Announced, Within, ResultsOK, Listing
  <2> QED
    BY <1>1, <2>1, <2>2
<1>3. ASSUME NEW v \in View, NEW d \in Dir, Navigate(v, d) PROVE RowsStep
  <2>1. \A x \in View : rows'[x] # rows[x] => x = v
    BY <1>0, <1>3 DEF Navigate, ViewsOK
  <2>2. rows'[v] = content[d] /\ shown'[v] = d
    BY <1>0, <1>3 DEF Navigate, ViewsOK
  <2> QED
    BY <1>1, <2>1, <2>2 DEF RowsStep
<1>4. ASSUME NEW v \in View, DirChanged(v) PROVE RowsStep
  <2>1. \A x \in View : rows'[x] # rows[x] => x = v
    BY <1>0, <1>4 DEF DirChanged, ViewsOK
  <2>2. rows'[v] = content[shown[v]] /\ shown' = shown /\ shown[v] \in Dir
    BY <1>0, <1>4 DEF DirChanged, ViewsOK
  <2> QED
    BY <1>1, <2>1, <2>2 DEF RowsStep
<1>5. ASSUME NEW v \in View, Dismiss(v) PROVE RowsStep
  <2>1. \A x \in View : rows'[x] # rows[x] => x = v
    BY <1>0, <1>5 DEF Dismiss, ViewsOK
  <2>2. shown'[v] = None
    BY <1>0, <1>5 DEF Dismiss, ViewsOK
  <2> QED
    BY <2>1, <2>2 DEF RowsStep
<1>6. CASE UNCHANGED rows
  BY <1>6 DEF RowsStep
<1>7. Events => UNCHANGED rows
  BY DEF Events, ReadTargets, Build, RescanTargets, PollRemote, HandleEvents,
     Wake, Dirty, ui
<1>8. \A w \in Worker : Work(w) => UNCHANGED rows
  BY DEF Work, StartScan, Sleep, FinishScan, EndWorker, ui
<1>9. Tick \/ Hold \/ Release \/ Close \/ Overflow \/ Clock \/ Elapse \/ Settle
      => UNCHANGED rows
  BY DEF Tick, Hold, Release, Close, Overflow, Clock, Elapse, Settle, ui
<1>10. \A d \in Dir : Change(d) \/ Replace(d) => UNCHANGED rows
  BY DEF Change, Replace, ui
<1>11. UNCHANGED monitorVars => UNCHANGED rows
  BY DEF monitorVars, ui
<1> QED
  BY <1>2, <1>3, <1>4, <1>5, <1>6, <1>7, <1>8, <1>9, <1>10, <1>11 DEF MonitorNext

\* For any number of views, directories and scanners and any interleaving of
\* the three kinds of threads, rows never change to a version older than the
\* one that the last new generation of their directory announced.
THEOREM RowsNeverSuperseded == MonitorSpec => NoSupersededRows
<1>1. MonitorInv /\ [MonitorNext]_monitorVars => RowsStep
  BY RowsChange
<1> QED
  BY <1>1, MonitorInitInv, MonitorNextInv, PTL DEF MonitorSpec, NoSupersededRows, RowsStep

-----------------------------------------------------------------------------
(* Who waits without a timeout.                                            *)

LEMMA WokenAwake ==
    ASSUME ThreadsOK PROVE \A w \in Worker : Woken[w] # "asleep"
BY DEF ThreadsOK, Woken

LEMMA AllAwake ==
    ASSUME \A w \in Worker : thread'[w] # "asleep" PROVE NoLostWakeup'
BY DEF NoLostWakeup

\* A step that wakes nobody gives no path a deadline and frees none.
LEMMA SleepersStay ==
    ASSUME NoLostWakeup, UNCHANGED closed, Busy \subseteq Busy',
           \A d \in Dir : waiting'[d] # None => waiting[d] # None,
           \A w \in Worker : thread'[w] = "asleep" => thread[w] = "asleep"
    PROVE  NoLostWakeup'
<1>1. Eligible' \subseteq Eligible
  BY DEF Eligible
<1> QED
  BY <1>1 DEF NoLostWakeup

LEMMA SupersedeBusy ==
    ASSUME ThreadsOK, NEW paths, Supersede(paths) PROVE Busy' = Busy
<1>1. ASSUME NEW w \in Worker
      PROVE  /\ scan'[w] # None <=> scan[w] # None
             /\ scan[w] # None => scan'[w].dir = scan[w].dir
  <2>1. CASE w \in Scanning /\ scan[w].dir \in paths
    <3>1. scan[w] \in Scan /\ scan[w] # None
      BY <2>1 DEF ThreadsOK, Scanning
    <3>2. scan'[w] = [scan[w] EXCEPT !.current = FALSE]
      BY <2>1 DEF Supersede
    <3>3. scan'[w] \in Scan /\ scan'[w].dir = scan[w].dir
      BY <3>1, <3>2 DEF Scan
    <3> QED
      BY <3>1, <3>3, NoneAssumption
  <2>2. CASE ~(w \in Scanning /\ scan[w].dir \in paths)
    BY <2>2 DEF Supersede
  <2> QED
    BY <2>1, <2>2
<1>2. Scanning' = Scanning
  BY <1>1 DEF Scanning
<1> QED
  BY <1>1, <1>2 DEF Busy, Scanning

LEMMA DirtyWakes ==
    ASSUME ThreadsOK, NoLostWakeup, NEW paths, NEW periodic, Dirty(paths, periodic)
    PROVE  NoLostWakeup'
<1>1. thread' = IF closed THEN thread ELSE Woken
  BY DEF Dirty
<1>2. \A w \in Worker : thread'[w] # "asleep"
  BY <1>1, WokenAwake DEF NoLostWakeup
<1> QED
  BY <1>2, AllAwake

LEMMA StartWakes ==
    ASSUME ThreadsOK, WaitingOK, NoLostWakeup, NEW w \in Worker, NEW d \in Dir, StartScan(w, d)
    PROVE  NoLostWakeup'
<1>1. /\ thread[w] = "awake" /\ closed' = closed
      /\ waiting' = [waiting EXCEPT ![d] = None]
      /\ thread' = [thread EXCEPT ![w] = "scanning"]
      /\ \A x \in Worker \ {w} : scan'[x] = scan[x]
  BY DEF StartScan, ThreadsOK
<1>2. scan[w] = None
  BY <1>1 DEF ThreadsOK
<1>3. Busy \subseteq Busy'
  BY <1>1, <1>2 DEF Busy, Scanning
<1>4. \A x \in Dir : waiting'[x] # None => waiting[x] # None
  BY <1>1 DEF WaitingOK
<1>5. \A x \in Worker : thread'[x] = "asleep" => thread[x] = "asleep"
  BY <1>1 DEF ThreadsOK
<1> QED
  BY <1>1, <1>3, <1>4, <1>5, SleepersStay

LEMMA WorkWakes ==
    ASSUME ThreadsOK, WaitingOK, NoLostWakeup, NEW w \in Worker, Work(w)
    PROVE  NoLostWakeup'
<1>1. ASSUME NEW d \in Dir, StartScan(w, d) PROVE NoLostWakeup'
  BY <1>1, StartWakes
<1>2. CASE Sleep(w)
  <2>1. /\ ~closed /\ Eligible = {} /\ closed' = closed
        /\ waiting' = waiting /\ scan' = scan
    BY <1>2 DEF Sleep, shared
  <2>2. Eligible' = Eligible
    BY <2>1 DEF Eligible, Busy, Scanning
  <2> QED
    BY <2>1, <2>2 DEF NoLostWakeup
<1>3. CASE FinishScan(w)
  <2>1. thread' = [Woken EXCEPT ![w] = "awake"]
    BY <1>3 DEF FinishScan
  <2>2. \A x \in Worker : thread'[x] # "asleep"
    BY <2>1, WokenAwake DEF Woken
  <2> QED
    BY <2>2, AllAwake
<1>4. CASE EndWorker(w)
  <2>1. closed /\ thread' = [thread EXCEPT ![w] = "ended"]
    BY <1>4 DEF EndWorker
  <2>2. \A x \in Worker : thread'[x] # "asleep"
    BY <2>1 DEF NoLostWakeup, ThreadsOK
  <2> QED
    BY <2>2, AllAwake
<1> QED
  BY <1>1, <1>2, <1>3, <1>4 DEF Work

LEMMA TickWakes ==
    ASSUME ThreadsOK, NoLostWakeup, Tick PROVE NoLostWakeup'
<1> DEFINE moved == (ViewPaths \ targets) \cup (targets \ ViewPaths)
<1>1. /\ Supersede(moved) /\ closed' = closed /\ thread' = thread
      /\ \A d \in Dir : waiting'[d] # None => waiting[d] # None
  BY DEF Tick
<1>2. Busy' = Busy
  BY <1>1, SupersedeBusy
<1> QED
  BY <1>1, <1>2, SleepersStay

LEMMA WakeupStep ==
    ASSUME MonitorInv, NoLostWakeup, [MonitorNext]_monitorVars PROVE NoLostWakeup'
<1>0. ThreadsOK /\ WaitingOK
  BY MonitorFacts
<1>1. CASE UNCHANGED <<waiting, closed, scan, thread>>
  <2>1. Busy' = Busy
    BY <1>1 DEF Busy, Scanning
  <2> QED
    BY <1>1, <2>1, SleepersStay
<1>2. CASE Events
  <2>1. ReadTargets \/ Build \/ Wake => UNCHANGED <<waiting, closed, scan, thread>>
    BY DEF ReadTargets, Build, Wake, shared, workers
  <2>2. CASE RescanTargets
    BY <1>0, <2>2, DirtyWakes DEF RescanTargets
  <2>3. CASE PollRemote
    BY <1>0, <2>3, DirtyWakes DEF PollRemote
  <2>4. CASE HandleEvents
    BY <1>0, <2>4, DirtyWakes DEF HandleEvents
  <2> QED
    BY <1>1, <1>2, <2>1, <2>2, <2>3, <2>4 DEF Events
<1>3. ASSUME NEW w \in Worker, Work(w) PROVE NoLostWakeup'
  BY <1>0, <1>3, WorkWakes
<1>4. CASE Tick
  BY <1>0, <1>4, TickWakes
<1>5. CASE Close
  <2>1. thread' = Woken
    BY <1>5 DEF Close
  <2> QED
    BY <1>0, <2>1, WokenAwake, AllAwake
<1>6. CASE Clock
  <2>1. /\ UNCHANGED <<closed, scan, thread>>
        /\ \A d \in Dir : waiting'[d] # None => waiting[d] # None
    BY <1>6 DEF Clock, workers
  <2>2. Busy' = Busy
    BY <2>1 DEF Busy, Scanning
  <2> QED
    BY <2>1, <2>2, SleepersStay
<1>7. Hold \/ Release \/ Overflow \/ Elapse \/ Settle
      => UNCHANGED <<waiting, closed, scan, thread>>
  BY DEF Hold, Release, Overflow, Elapse, Settle, shared, workers
<1>8. \A v \in View : (\E d \in Dir : Navigate(v, d)) \/ DirChanged(v) \/ Dismiss(v)
      => UNCHANGED <<waiting, closed, scan, thread>>
  BY DEF Navigate, DirChanged, Dismiss, shared, workers
<1>9. \A d \in Dir : Commit(d) \/ Change(d) \/ Replace(d)
      => UNCHANGED <<waiting, closed, scan, thread>>
  BY DEF Commit, Change, Replace, shared, workers
<1>10. UNCHANGED monitorVars => UNCHANGED <<waiting, closed, scan, thread>>
  BY DEF monitorVars, shared, workers
<1> QED
  BY <1>1, <1>2, <1>3, <1>4, <1>5, <1>6, <1>7, <1>8, <1>9, <1>10 DEF MonitorNext

\* For any number of scanners, one that waits without a timeout has nothing to
\* do: no path has a deadline and nobody who lists it, and the monitor is open.
THEOREM SleepersHaveNothing == MonitorSpec => []NoLostWakeup
<1>1. MonitorInit => NoLostWakeup
  BY DEF MonitorInit, NoLostWakeup
<1>2. MonitorInv /\ NoLostWakeup /\ [MonitorNext]_monitorVars => NoLostWakeup'
  BY WakeupStep
<1> QED
  BY <1>1, <1>2, MonitorInitInv, MonitorNextInv, PTL DEF MonitorSpec

================================================================================
