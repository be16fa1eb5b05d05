------------------------- MODULE LaunchPacer_proofs -------------------------
(* The slot is exclusive and keeps the gap, and a picker keeps account of   *)
(* what it has started, for any number of launchers.                       *)
EXTENDS LaunchPacer, TLAPS

\* Where the session of a launch is at each step of its launcher.
Stage(l) ==
    /\ task[l].step \in {"lock", "wait"} => launch[task[l].id].at = "chosen"
    /\ task[l].step = "ask" => launch[task[l].id].at = "asked"
    /\ task[l].step \in {"stamp", "await"} => launch[task[l].id].at \in {"up", "gone"}

Holds(l) == /\ task[l].step \in {"wait", "ask", "stamp"}
            /\ launch[task[l].id].locked

\* Whoever has the slot for itself is the holder of the lock.
Exclusive == \A l \in Launcher : Holds(l) => holder = {l}

Stages == \A l \in Launcher : Stage(l)

AskedBySomeone ==
    \A i \in Slot : launch[i].at = "asked"
                    => \E l \in Launcher : task[l].step = "ask" /\ task[l].id = i

\* The record is at most as old as the last session that was given the slot.
GapInv ==
    /\ ~excused => elapsed <= gap
    /\ \A l \in Launcher : /\ task[l].step = "ask"
                           /\ launch[task[l].id].locked /\ ~excused
                           => gap = Interval

IInv == TypeOK /\ Stages /\ Exclusive /\ AskedBySomeone /\ GapInv

\* Two launchers never make the same launch.
Mine(l, i) == /\ task[l].step \notin {"idle", "choose"}
              /\ task[l].id = i
Others(l, i) == \A m \in Launcher \ {l} : ~Mine(m, i)

LEMMA OwnSlot ==
    ASSUME TypeOK, NEW l \in Launcher, task[l].step \notin {"idle", "choose"}
    PROVE  /\ task[l].id \in Slot
           /\ launch[task[l].id] \in Launch
           /\ launch[task[l].id].by = l
           /\ Others(l, task[l].id)
<1>1. task[l].id \in Slot /\ launch[task[l].id].at # "no" /\ launch[task[l].id].by = l
  BY DEF TypeOK, OwnLaunch
<1>2. launch[task[l].id] \in Launch
  BY <1>1 DEF TypeOK, NoLaunch
<1>3. \A m \in Launcher \ {l} : ~Mine(m, task[l].id)
  BY <1>1 DEF TypeOK, OwnLaunch, Mine
<1> QED BY <1>1, <1>2, <1>3 DEF Others

\* A step of l that changes the task of l and at most the launch i, which no
\* other launcher is making.
LEMMA TaskStep ==
    ASSUME IInv, NEW l \in Launcher, NEW u \in Task, NEW i, Others(l, i),
           task' = [task EXCEPT ![l] = u],
           launch' \in [Slot -> Launch \cup {NoLaunch}],
           \A j \in Slot \ {i} : launch'[j] = launch[j],
           OwnLaunch(l)', Stage(l)',
           holder' \in {holder, holder \ {l}} \/ (holder = {} /\ holder' = {l}),
           Holds(l)' => holder' = {l},
           i \in Slot => (launch'[i].at = "asked" => u.step = "ask" /\ u.id = i),
           task[l].step # "ask" \/ task[l].id = i
    PROVE  /\ task' \in [Launcher -> Task]
           /\ holder' \subseteq Launcher
           /\ \A m \in Launcher : OwnLaunch(m)'
           /\ Stages' /\ Exclusive' /\ AskedBySomeone'
<1>1. task' \in [Launcher -> Task] BY DEF IInv, TypeOK
<1>2. holder' \subseteq Launcher BY DEF IInv, TypeOK
<1>3. task'[l] = u /\ \A m \in Launcher \ {l} : task'[m] = task[m]
  BY DEF IInv, TypeOK
<1>4. ASSUME NEW m \in Launcher \ {l}
      PROVE  OwnLaunch(m)' /\ Stage(m)' /\ (Holds(m)' => Holds(m))
  <2>1. task'[m] = task[m] BY <1>3
  <2>2. CASE task[m].step \in {"idle", "choose"}
    BY <2>1, <2>2 DEF IInv, TypeOK, OwnLaunch, Stage, Holds
  <2>3. CASE task[m].step \notin {"idle", "choose"}
    <3>1. task[m].id \in Slot \ {i}
      BY <2>3, OwnSlot DEF IInv, Others, Mine
    <3>2. launch'[task[m].id] = launch[task[m].id] BY <3>1
    <3> QED BY <2>1, <2>3, <3>1, <3>2 DEF IInv, TypeOK, Stages, OwnLaunch, Stage, Holds
  <2> QED BY <2>2, <2>3
<1>5. \A m \in Launcher : OwnLaunch(m)' BY <1>4
<1>6. Stages' BY <1>4 DEF Stages
<1>7. ASSUME NEW m \in Launcher, Holds(m)' PROVE holder' = {m}
  <2>1. CASE m = l BY <1>7, <2>1
  <2>2. CASE m # l
    <3>1. holder = {m} BY <1>4, <1>7, <2>2 DEF IInv, Exclusive
    <3> QED BY <3>1, <2>2
  <2> QED BY <2>1, <2>2
<1>8. Exclusive' BY <1>7 DEF Exclusive
<1>9. ASSUME NEW j \in Slot, launch'[j].at = "asked"
      PROVE  \E m \in Launcher : task'[m].step = "ask" /\ task'[m].id = j
  <2>1. CASE j = i BY <1>3, <1>9, <2>1
  <2>2. CASE j # i
    <3>1. launch[j].at = "asked" BY <1>9, <2>2
    <3>2. PICK m \in Launcher : task[m].step = "ask" /\ task[m].id = j
      BY <3>1 DEF IInv, AskedBySomeone
    <3>3. m # l BY <3>2, <2>2
    <3> QED BY <3>2, <3>3, <1>3
  <2> QED BY <2>1, <2>2
<1>10. AskedBySomeone' BY <1>9 DEF AskedBySomeone
<1> QED BY <1>1, <1>2, <1>5, <1>6, <1>8, <1>10

LEMMA ListsTyped == ASSUME TypeOK PROVE TmuxSessions \subseteq Nat /\ Live \subseteq Conversation
<1>1. \A i \in Up : launch[i] \in Launch BY DEF TypeOK, Up, NoLaunch
<1> QED BY <1>1 DEF TmuxSessions, Live, Launch

LEMMA FreshTyped == Fresh \in Task
BY DEF Fresh, Task, None

\* What the steps that leave the clocks alone have to show.
LEMMA GapStep ==
    ASSUME IInv, NEW l \in Launcher, task' \in [Launcher -> Task],
           UNCHANGED <<elapsed, gap, excused>>,
           \A m \in Launcher \ {l} : task'[m] = task[m],
           \A m \in Launcher \ {l} :
              task[m].step = "ask" => launch'[task[m].id] = launch[task[m].id],
           task'[l].step # "ask"
    PROVE  GapInv'
<1>1. ~excused' => elapsed' <= gap' BY DEF IInv, GapInv
<1>2. ASSUME NEW m \in Launcher, task'[m].step = "ask",
             launch'[task'[m].id].locked, ~excused'
      PROVE  gap' = Interval
  <2>1. m # l BY <1>2
  <2> QED BY <1>2, <2>1 DEF IInv, GapInv
<1> QED BY <1>1, <1>2 DEF GapInv

LEMMA BeginStep ==
    ASSUME IInv, NEW l \in Launcher, Begin(l) PROVE IInv'
<1>1. PICK seen \in {task[l].seen, Live} :
      \E marked \in {(task[l].marked \cap seen) \cup C :
                        C \in SUBSET (Conversation \ seen)} \ {{}} :
         LET t == [Fresh EXCEPT !.step = "choose", !.seen = seen,
                                !.marked = marked, !.todo = marked]
         IN  \/ /\ Become(l, [t EXCEPT !.taken = TmuxSessions])
                /\ UNCHANGED faults
             \/ /\ Fault
                /\ Become(l, [t EXCEPT !.listed = FALSE])
  BY DEF Begin
<1>2. PICK marked \in {(task[l].marked \cap seen) \cup C :
                        C \in SUBSET (Conversation \ seen)} :
         LET t == [Fresh EXCEPT !.step = "choose", !.seen = seen,
                                !.marked = marked, !.todo = marked]
         IN  \/ /\ Become(l, [t EXCEPT !.taken = TmuxSessions])
                /\ UNCHANGED faults
             \/ /\ Fault
                /\ Become(l, [t EXCEPT !.listed = FALSE])
  BY <1>1
<1>3. seen \subseteq Conversation /\ marked \subseteq Conversation
  <2>1. task[l] \in Task BY DEF IInv, TypeOK
  <2> QED BY <2>1, ListsTyped DEF Task, IInv
<1>4. PICK u \in Task : u.step = "choose" /\ u.id = None /\ task' = [task EXCEPT ![l] = u]
  <2> DEFINE t == [Fresh EXCEPT !.step = "choose", !.seen = seen,
                                !.marked = marked, !.todo = marked]
  <2>1. t \in Task /\ t.step = "choose" /\ t.id = None
    BY <1>3 DEF Fresh, Task, None
  <2>2. [t EXCEPT !.taken = TmuxSessions] \in Task
    BY <2>1, ListsTyped DEF Task, IInv
  <2>3. [t EXCEPT !.listed = FALSE] \in Task
    BY <2>1 DEF Task
  <2>4. [t EXCEPT !.taken = TmuxSessions].step = "choose" /\ [t EXCEPT !.taken = TmuxSessions].id = None
    BY <2>1 DEF Task
  <2>5. [t EXCEPT !.listed = FALSE].step = "choose" /\ [t EXCEPT !.listed = FALSE].id = None
    BY <2>1 DEF Task
  <2> HIDE DEF t
  <2>6. Become(l, [t EXCEPT !.taken = TmuxSessions]) \/ Become(l, [t EXCEPT !.listed = FALSE])
    BY <1>2 DEF t
  <2> QED BY <2>2, <2>3, <2>4, <2>5, <2>6 DEF Become
<1>5. task[l].step = "idle" /\ batches' = batches + 1
      /\ UNCHANGED <<holder, elapsed, launch, gap, excused>>
  BY DEF Begin
<1>6. task'[l] = u /\ \A m \in Launcher \ {l} : task'[m] = task[m]
  BY <1>4 DEF IInv, TypeOK
<1>7. OwnLaunch(l)' /\ Stage(l)' /\ ~Holds(l)'
  BY <1>4, <1>6 DEF OwnLaunch, Stage, Holds, None
<1>8. /\ task' \in [Launcher -> Task] /\ holder' \subseteq Launcher
      /\ \A m \in Launcher : OwnLaunch(m)'
      /\ Stages' /\ Exclusive' /\ AskedBySomeone'
  <2>1. Others(l, 0) BY DEF Others, Mine, IInv, TypeOK, OwnLaunch, Slot
  <2>2. 0 \notin Slot BY DEF Slot
  <2>3. launch' \in [Slot -> Launch \cup {NoLaunch}] BY <1>5 DEF IInv, TypeOK
  <2> QED BY <1>4, <1>5, <1>7, <2>1, <2>2, <2>3, TaskStep
<1>9. GapInv' BY <1>4, <1>5, <1>6, <1>8, GapStep
<1>10. batches' \in Nat /\ faults' \in Nat
  BY <1>2, <1>5 DEF Fault, IInv, TypeOK
<1> QED BY <1>5, <1>8, <1>9, <1>10 DEF IInv, TypeOK

\* A step of l that leaves the clocks and the session of every other launcher
\* alone, and does not end a wait.
LEMMA QuietStep ==
    ASSUME IInv, NEW l \in Launcher, NEW u \in Task, NEW i, Others(l, i),
           task' = [task EXCEPT ![l] = u],
           launch' \in [Slot -> Launch \cup {NoLaunch}],
           \A j \in Slot \ {i} : launch'[j] = launch[j],
           u.step # "ask", u.step \notin {"idle", "choose"} => u.id = i /\ i \in Slot,
           u.step \in {"idle", "choose"} => u.id = None,
           i \in Slot => launch'[i].at # "asked",
           u.step \notin {"idle", "choose"}
             => /\ launch'[i].at # "no" /\ launch'[i].by = l
                /\ u.step \in {"lock", "wait"} => launch'[i].at = "chosen"
                /\ u.step \in {"stamp", "await"} => launch'[i].at \in {"up", "gone"},
           holder' \in {holder, holder \ {l}} \/ (holder = {} /\ holder' = {l}),
           u.step \in {"wait", "stamp"} /\ launch'[i].locked => holder' = {l},
           task[l].step # "ask" \/ task[l].id = i,
           UNCHANGED <<elapsed, gap, excused>>,
           batches' \in Nat, faults' \in Nat
    PROVE  IInv'
<1>1. task'[l] = u /\ \A m \in Launcher \ {l} : task'[m] = task[m]
  BY DEF IInv, TypeOK
<1>2. OwnLaunch(l)' BY <1>1 DEF OwnLaunch
<1>3. Stage(l)' BY <1>1 DEF Stage
<1>4. Holds(l)' => holder' = {l} BY <1>1 DEF Holds
<1>5. /\ task' \in [Launcher -> Task] /\ holder' \subseteq Launcher
      /\ \A m \in Launcher : OwnLaunch(m)'
      /\ Stages' /\ Exclusive' /\ AskedBySomeone'
  BY <1>2, <1>3, <1>4, TaskStep
<1>6. ASSUME NEW m \in Launcher \ {l}, task[m].step = "ask"
      PROVE  launch'[task[m].id] = launch[task[m].id]
  <2>1. task[m].id \in Slot BY <1>6 DEF IInv, TypeOK, OwnLaunch
  <2>2. task[m].id # i BY <1>6 DEF Others, Mine
  <2> QED BY <2>1, <2>2
<1>7. GapInv' BY <1>1, <1>5, <1>6, GapStep
<1> QED BY <1>5, <1>7 DEF IInv, TypeOK

LEMMA NoOther == ASSUME IInv PROVE \A l \in Launcher : Others(l, None)
BY DEF Others, Mine, IInv, TypeOK, OwnLaunch, Slot, None

LEMMA NotSlot == None \notin Slot
BY DEF None, Slot

LEMMA SlotNat == ASSUME NEW i \in Slot PROVE i \in Nat
<1> DEFINE n == MaxBatches * Cardinality(Conversation)
<1>1. i \in 1..n BY DEF Slot
<1> HIDE DEF n
<1> QED BY <1>1

LEMMA EndBatchStep ==
    ASSUME IInv, NEW l \in Launcher, EndBatch(l) PROVE IInv'
<1> DEFINE u == [Fresh EXCEPT !.marked = task[l].marked, !.seen = Live]
<1>1. u \in Task /\ u.step = "idle" /\ u.id = None
  <2>1. task[l].marked \subseteq Conversation BY DEF IInv, TypeOK, Task
  <2> QED BY <2>1, ListsTyped DEF Fresh, Task, None, IInv
<1>2. task' = [task EXCEPT ![l] = u] /\ task[l].step = "choose"
      /\ UNCHANGED <<holder, elapsed, launch, batches, faults, gap, excused>>
  BY DEF EndBatch, Become
<1> HIDE DEF u
<1>3. batches \in Nat /\ faults \in Nat /\ launch \in [Slot -> Launch \cup {NoLaunch}]
  BY DEF IInv, TypeOK
<1> QED BY <1>1, <1>2, <1>3, NoOther, NotSlot, QuietStep

LEMMA CancelStep ==
    ASSUME IInv, NEW l \in Launcher, Cancel(l) PROVE IInv'
<1> DEFINE u == [Fresh EXCEPT !.marked = task[l].marked, !.seen = Live]
<1>1. u \in Task /\ u.step = "idle" /\ u.id = None
  <2>1. task[l].marked \subseteq Conversation BY DEF IInv, TypeOK, Task
  <2> QED BY <2>1, ListsTyped DEF Fresh, Task, None, IInv
<1>2. /\ task' = [task EXCEPT ![l] = u] /\ task[l].step = "wait"
      /\ holder' = holder \ {l}
      /\ launch' = [launch EXCEPT ![task[l].id] = NoLaunch]
      /\ UNCHANGED <<elapsed, batches, faults, gap, excused>>
  BY DEF Cancel, Become, Release
<1> HIDE DEF u
<1>3. batches \in Nat /\ faults \in Nat /\ launch \in [Slot -> Launch \cup {NoLaunch}]
  BY DEF IInv, TypeOK
<1>4. task[l].id \in Slot /\ Others(l, task[l].id)
  BY <1>2, OwnSlot DEF IInv
<1>5. /\ launch' \in [Slot -> Launch \cup {NoLaunch}]
      /\ \A j \in Slot \ {task[l].id} : launch'[j] = launch[j]
      /\ launch'[task[l].id].at = "no"
  BY <1>2, <1>3, <1>4 DEF NoLaunch
<1> QED BY <1>1, <1>2, <1>3, <1>4, <1>5, QuietStep

LEMMA RefusedStep ==
    ASSUME IInv, NEW l \in Launcher, Refused(l) PROVE IInv'
<1> DEFINE u == [task[l] EXCEPT !.step = "choose", !.id = None]
<1>1. u \in Task /\ u.step = "choose" /\ u.id = None
  BY DEF IInv, TypeOK, Task, None
<1>2. /\ task' = [task EXCEPT ![l] = u] /\ task[l].step = "ask"
      /\ holder' = holder \ {l}
      /\ launch' = [launch EXCEPT ![task[l].id] = NoLaunch]
      /\ UNCHANGED <<elapsed, batches, faults, gap, excused>>
  BY DEF Refused, Become, Release
<1> HIDE DEF u
<1>3. batches \in Nat /\ faults \in Nat /\ launch \in [Slot -> Launch \cup {NoLaunch}]
  BY DEF IInv, TypeOK
<1>4. task[l].id \in Slot /\ Others(l, task[l].id)
  BY <1>2, OwnSlot DEF IInv
<1>5. /\ launch' \in [Slot -> Launch \cup {NoLaunch}]
      /\ \A j \in Slot \ {task[l].id} : launch'[j] = launch[j]
      /\ launch'[task[l].id].at = "no"
  BY <1>2, <1>3, <1>4 DEF NoLaunch
<1> QED BY <1>1, <1>2, <1>3, <1>4, <1>5, QuietStep

LEMMA AskTimesOutStep ==
    ASSUME IInv, NEW l \in Launcher, AskTimesOut(l) PROVE IInv'
<1> DEFINE u == [task[l] EXCEPT !.step = "choose", !.id = None]
           v == [launch[task[l].id] EXCEPT !.at = "late", !.late = TRUE]
<1>1. u \in Task /\ u.step = "choose" /\ u.id = None
  BY DEF IInv, TypeOK, Task, None
<1>2. /\ task' = [task EXCEPT ![l] = u] /\ task[l].step = "ask"
      /\ holder' = holder \ {l} /\ faults' = faults + 1
      /\ UNCHANGED <<elapsed, batches, gap, excused>>
  BY DEF AskTimesOut, Become, Release, Fault
<1>3. batches \in Nat /\ faults' \in Nat /\ launch \in [Slot -> Launch \cup {NoLaunch}]
  BY <1>2 DEF IInv, TypeOK
<1>4. task[l].id \in Slot /\ Others(l, task[l].id) /\ launch[task[l].id] \in Launch
  BY <1>2, OwnSlot DEF IInv
<1>5. v \in Launch /\ v.at = "late" BY <1>4 DEF Launch
<1>6. launch' = [launch EXCEPT ![task[l].id] = v]
  BY <1>3, <1>4 DEF AskTimesOut
<1> HIDE DEF u, v
<1>7. /\ launch' \in [Slot -> Launch \cup {NoLaunch}]
      /\ \A j \in Slot \ {task[l].id} : launch'[j] = launch[j]
      /\ launch'[task[l].id].at = "late"
  BY <1>3, <1>4, <1>5, <1>6
<1> QED BY <1>1, <1>2, <1>3, <1>4, <1>7, QuietStep

LEMMA AcquireStep ==
    ASSUME IInv, NEW l \in Launcher, Acquire(l) PROVE IInv'
<1> DEFINE u == [task[l] EXCEPT !.step = "wait"]
           v == [launch[task[l].id] EXCEPT !.locked = FALSE]
<1>1. u \in Task /\ u.step = "wait" /\ u.id = task[l].id
  BY DEF IInv, TypeOK, Task
<1>2. /\ task' = [task EXCEPT ![l] = u] /\ task[l].step = "lock"
      /\ UNCHANGED <<elapsed, batches, gap, excused>>
  BY DEF Acquire, Become
<1>3. batches \in Nat /\ faults \in Nat /\ launch \in [Slot -> Launch \cup {NoLaunch}]
  BY DEF IInv, TypeOK
<1>4. /\ task[l].id \in Slot /\ Others(l, task[l].id)
      /\ launch[task[l].id] \in Launch /\ launch[task[l].id].by = l
  BY <1>2, OwnSlot DEF IInv
<1>5. launch[task[l].id].at = "chosen" BY <1>2 DEF IInv, Stages, Stage
<1>6. CASE holder = {} /\ holder' = {l} /\ UNCHANGED <<launch, faults>>
  <2> HIDE DEF u, v
  <2> QED BY <1>1, <1>2, <1>3, <1>4, <1>5, <1>6, QuietStep
<1>7. CASE /\ Fault /\ UNCHANGED holder
           /\ launch' = [launch EXCEPT ![task[l].id].locked = FALSE]
  <2>1. v \in Launch /\ v.at = "chosen" /\ v.by = l /\ ~v.locked
    BY <1>4, <1>5 DEF Launch
  <2>2. launch' = [launch EXCEPT ![task[l].id] = v]
    BY <1>3, <1>4, <1>7
  <2> HIDE DEF u, v
  <2>3. /\ launch' \in [Slot -> Launch \cup {NoLaunch}]
        /\ \A j \in Slot \ {task[l].id} : launch'[j] = launch[j]
        /\ launch'[task[l].id] = v
    BY <1>3, <1>4, <2>1, <2>2
  <2>4. faults' \in Nat BY <1>3, <1>7 DEF Fault
  <2>5. /\ launch'[task[l].id].at = "chosen" /\ launch'[task[l].id].by = l
        /\ ~launch'[task[l].id].locked
    BY <2>1, <2>3
  <2>6. holder' = holder BY <1>7
  <2>7. /\ u.step # "ask" /\ u.step \notin {"idle", "choose"}
        /\ u.step \notin {"stamp", "await"}
    BY <1>1
  <2> QED
    BY <1>1, <1>2, <1>3, <1>4, <2>3, <2>4, <2>5, <2>6, <2>7, QuietStep
<1> QED BY <1>6, <1>7 DEF Acquire

LEMMA StampStep ==
    ASSUME IInv, NEW l \in Launcher, Stamp(l) PROVE IInv'
<1> DEFINE u == [task[l] EXCEPT !.step = "await"]
<1>1. u \in Task /\ u.step = "await" /\ u.id = task[l].id
  BY DEF IInv, TypeOK, Task
<1>2. /\ task' = [task EXCEPT ![l] = u] /\ task[l].step = "stamp"
      /\ holder' = holder \ {l} /\ elapsed' = 0
      /\ excused' = (excused /\ ~launch[task[l].id].locked)
      /\ UNCHANGED <<launch, batches, faults, gap>>
  BY DEF Stamp, Become, Release
<1>3. batches \in Nat /\ faults \in Nat /\ launch \in [Slot -> Launch \cup {NoLaunch}]
  BY DEF IInv, TypeOK
<1>4. /\ task[l].id \in Slot /\ Others(l, task[l].id)
      /\ launch[task[l].id] \in Launch /\ launch[task[l].id].by = l
  BY <1>2, OwnSlot DEF IInv
<1>5. launch[task[l].id].at \in {"up", "gone"} BY <1>2 DEF IInv, Stages, Stage
<1> HIDE DEF u
<1>6. task'[l] = u /\ \A m \in Launcher \ {l} : task'[m] = task[m]
  BY <1>1, <1>2 DEF IInv, TypeOK
<1>7. OwnLaunch(l)' /\ Stage(l)' /\ ~Holds(l)'
  BY <1>1, <1>2, <1>4, <1>5, <1>6 DEF OwnLaunch, Stage, Holds
<1>8. /\ task' \in [Launcher -> Task] /\ holder' \subseteq Launcher
      /\ \A m \in Launcher : OwnLaunch(m)'
      /\ Stages' /\ Exclusive' /\ AskedBySomeone'
  BY <1>1, <1>2, <1>3, <1>4, <1>5, <1>7, TaskStep
<1>9. excused' \in BOOLEAN BY <1>2, <1>4 DEF IInv, TypeOK, Launch
<1>10. ASSUME NEW m \in Launcher, task'[m].step = "ask",
              launch'[task'[m].id].locked, ~excused'
       PROVE  gap' = Interval
  <2>1. m # l BY <1>1, <1>6, <1>10
  <2>2. Holds(m) BY <1>2, <1>6, <1>10, <2>1 DEF Holds
  <2>3. ~launch[task[l].id].locked
    BY <1>2, <2>1, <2>2 DEF Holds, IInv, Exclusive
  <2>4. ~excused BY <1>2, <1>10, <2>3
  <2> QED BY <1>2, <1>6, <1>10, <2>1, <2>4 DEF IInv, GapInv
<1>11. elapsed' <= gap' BY <1>2 DEF IInv, TypeOK
<1>12. GapInv' BY <1>10, <1>11 DEF GapInv
<1>13. elapsed' \in Int /\ elapsed' <= Interval
  BY <1>2, ConstantsOK
<1> QED BY <1>2, <1>3, <1>8, <1>9, <1>12, <1>13 DEF IInv, TypeOK

LEMMA WaitOverStep ==
    ASSUME IInv, NEW l \in Launcher, WaitOver(l) PROVE IInv'
<1> DEFINE u == [task[l] EXCEPT !.step = "ask"]
           v == [launch[task[l].id] EXCEPT !.at = "asked"]
<1>1. u \in Task /\ u.step = "ask" /\ u.id = task[l].id
  BY DEF IInv, TypeOK, Task
<1>2. /\ task' = [task EXCEPT ![l] = u] /\ task[l].step = "wait"
      /\ Remaining <= 0
      /\ UNCHANGED <<holder, elapsed, batches, faults, gap, excused>>
  BY DEF WaitOver, Become
<1>3. launch \in [Slot -> Launch \cup {NoLaunch}]
  BY DEF IInv, TypeOK
<1>4. /\ task[l].id \in Slot /\ Others(l, task[l].id)
      /\ launch[task[l].id] \in Launch /\ launch[task[l].id].by = l
  BY <1>2, OwnSlot DEF IInv
<1>5. v \in Launch /\ v.at = "asked" /\ v.by = l /\ v.locked = launch[task[l].id].locked
  BY <1>4 DEF Launch
<1>6. launch' = [launch EXCEPT ![task[l].id] = v]
  BY <1>3, <1>4 DEF WaitOver
<1> HIDE DEF u, v
<1>7. /\ launch' \in [Slot -> Launch \cup {NoLaunch}]
      /\ \A j \in Slot \ {task[l].id} : launch'[j] = launch[j]
      /\ launch'[task[l].id] = v
  BY <1>3, <1>4, <1>5, <1>6
<1>8. task'[l] = u /\ \A m \in Launcher \ {l} : task'[m] = task[m]
  BY <1>1, <1>2 DEF IInv, TypeOK
<1>9. OwnLaunch(l)' /\ Stage(l)'
  BY <1>1, <1>4, <1>5, <1>7, <1>8 DEF OwnLaunch, Stage
<1>10. Holds(l)' => Holds(l)
  BY <1>1, <1>2, <1>5, <1>7, <1>8 DEF Holds
<1>11. Holds(l)' => holder' = {l} BY <1>2, <1>10 DEF IInv, Exclusive
<1>12. /\ task' \in [Launcher -> Task] /\ holder' \subseteq Launcher
       /\ \A m \in Launcher : OwnLaunch(m)'
       /\ Stages' /\ Exclusive' /\ AskedBySomeone'
  BY <1>1, <1>2, <1>4, <1>7, <1>9, <1>11, TaskStep
<1>13. ~excused => gap = Interval
  <2>1. elapsed >= Interval BY <1>2, ConstantsOK DEF Remaining, IInv, TypeOK
  <2> QED BY <2>1, ConstantsOK DEF IInv, GapInv, TypeOK
<1>14. GapInv' BY <1>2, <1>13 DEF IInv, GapInv
<1> QED BY <1>2, <1>7, <1>12, <1>14 DEF IInv, TypeOK

LEMMA CreateStep ==
    ASSUME IInv, NEW l \in Launcher, Create(l) PROVE IInv'
<1> DEFINE u == [task[l] EXCEPT !.step = "stamp"]
           v == [launch[task[l].id] EXCEPT !.at = "up"]
<1>1. u \in Task /\ u.step = "stamp" /\ u.id = task[l].id
  BY DEF IInv, TypeOK, Task
<1>2. /\ task' = [task EXCEPT ![l] = u] /\ task[l].step = "ask"
      /\ gap' = IF launch[task[l].id].locked THEN 0 ELSE gap
      /\ excused' = (excused \/ launch[task[l].id].locked)
      /\ UNCHANGED <<holder, elapsed, batches, faults>>
  BY DEF Create, ComesUp, Become
<1>3. launch \in [Slot -> Launch \cup {NoLaunch}]
  BY DEF IInv, TypeOK
<1>4. /\ task[l].id \in Slot /\ Others(l, task[l].id)
      /\ launch[task[l].id] \in Launch /\ launch[task[l].id].by = l
  BY <1>2, OwnSlot DEF IInv
<1>5. v \in Launch /\ v.at = "up" /\ v.by = l /\ v.locked = launch[task[l].id].locked
  BY <1>4 DEF Launch
<1>6. launch' = [launch EXCEPT ![task[l].id] = v]
  BY <1>3, <1>4 DEF Create, ComesUp
<1> HIDE DEF u, v
<1>7. /\ launch' \in [Slot -> Launch \cup {NoLaunch}]
      /\ \A j \in Slot \ {task[l].id} : launch'[j] = launch[j]
      /\ launch'[task[l].id] = v
  BY <1>3, <1>4, <1>5, <1>6
<1>8. task'[l] = u /\ \A m \in Launcher \ {l} : task'[m] = task[m]
  BY <1>1, <1>2 DEF IInv, TypeOK
<1>9. OwnLaunch(l)' /\ Stage(l)'
  BY <1>1, <1>4, <1>5, <1>7, <1>8 DEF OwnLaunch, Stage
<1>10. Holds(l)' => Holds(l)
  BY <1>1, <1>2, <1>5, <1>7, <1>8 DEF Holds
<1>11. Holds(l)' => holder' = {l} BY <1>2, <1>10 DEF IInv, Exclusive
<1>12. /\ task' \in [Launcher -> Task] /\ holder' \subseteq Launcher
       /\ \A m \in Launcher : OwnLaunch(m)'
       /\ Stages' /\ Exclusive' /\ AskedBySomeone'
  BY <1>1, <1>2, <1>4, <1>5, <1>7, <1>9, <1>11, TaskStep
<1>13. launch[task[l].id].locked \in BOOLEAN BY <1>4 DEF Launch
<1>14. gap' \in 0..Interval /\ excused' \in BOOLEAN
  BY <1>2, <1>13, ConstantsOK DEF IInv, TypeOK
<1>15. ~excused' => elapsed' <= gap' BY <1>2 DEF IInv, GapInv
<1>16. ASSUME NEW m \in Launcher, task'[m].step = "ask",
              launch'[task'[m].id].locked, ~excused'
       PROVE  gap' = Interval
  <2>1. m # l BY <1>1, <1>8, <1>16
  <2>2. task'[m] = task[m] BY <1>8, <2>1
  <2>3. task[m].id \in Slot /\ task[m].id # task[l].id
    BY <1>4, <1>16, <2>1, <2>2 DEF Others, Mine, IInv, TypeOK, OwnLaunch
  <2>4. launch'[task[m].id] = launch[task[m].id] BY <1>7, <2>3
  <2>5. ~excused /\ gap' = gap BY <1>2, <1>16
  <2> QED BY <1>16, <2>2, <2>4, <2>5 DEF IInv, GapInv
<1>17. GapInv' BY <1>15, <1>16 DEF GapInv
<1> QED BY <1>2, <1>7, <1>12, <1>14, <1>17 DEF IInv, TypeOK

LEMMA ChooseStep ==
    ASSUME IInv, NEW l \in Launcher, NEW c \in Conversation, Choose(l, c)
    PROVE  IInv'
<1> DEFINE t == [task[l] EXCEPT !.todo = @ \ {c}]
<1>0. task[l].step = "choose" /\ task[l].id = None /\ task[l] \in Task
  BY DEF Choose, IInv, TypeOK, OwnLaunch
<1>1. /\ t \in Task /\ t.step = "choose" /\ t.id = None
      /\ task[l].step = "choose"
  BY <1>0 DEF Task
<1>2. UNCHANGED <<holder, elapsed, batches, faults, gap, excused>>
  BY DEF Choose
<1>3. batches \in Nat /\ faults \in Nat /\ launch \in [Slot -> Launch \cup {NoLaunch}]
  BY DEF IInv, TypeOK
<1>4. \/ Become(l, t) /\ UNCHANGED launch
      \/ \E i \in Slot, n \in 1..(Cardinality(t.taken) + 1) :
           /\ Free(i)
           /\ launch' = [launch EXCEPT ![i] =
                [by |-> l, conversation |-> c, name |-> n, locked |-> TRUE,
                 at |-> "chosen", late |-> FALSE,
                 receipt |-> "none", ok |-> FALSE]]
           /\ Become(l, [t EXCEPT !.step = "lock", !.id = i])
  BY DEF Choose
<1> HIDE DEF t
<1>5. CASE Become(l, t) /\ UNCHANGED launch
  BY <1>1, <1>2, <1>3, <1>5, NoOther, NotSlot, QuietStep DEF Become
<1>6. ASSUME NEW i \in Slot, NEW n \in 1..(Cardinality(t.taken) + 1), Free(i),
             launch' = [launch EXCEPT ![i] =
                [by |-> l, conversation |-> c, name |-> n, locked |-> TRUE,
                 at |-> "chosen", late |-> FALSE,
                 receipt |-> "none", ok |-> FALSE]],
             Become(l, [t EXCEPT !.step = "lock", !.id = i])
      PROVE  IInv'
  <2> DEFINE u == [t EXCEPT !.step = "lock", !.id = i]
             v == [by |-> l, conversation |-> c, name |-> n, locked |-> TRUE,
                   at |-> "chosen", late |-> FALSE,
                   receipt |-> "none", ok |-> FALSE]
  <2>1. u \in Task /\ u.step = "lock" /\ u.id = i
    BY <1>1, SlotNat DEF Task
  <2>2. n \in Nat OBVIOUS
  <2>3. v \in Launch /\ v.at = "chosen" /\ v.by = l
    BY <2>2 DEF Launch
  <2>4. task' = [task EXCEPT ![l] = u] BY <1>6 DEF Become
  <2>5. launch' = [launch EXCEPT ![i] = v] BY <1>6
  <2> HIDE DEF u, v
  <2>6. /\ launch' \in [Slot -> Launch \cup {NoLaunch}]
        /\ \A j \in Slot \ {i} : launch'[j] = launch[j]
        /\ launch'[i].at = "chosen" /\ launch'[i].by = l
    BY <1>3, <2>3, <2>5
  <2>7. Others(l, i)
    BY <1>6 DEF Others, Mine, Free, NoLaunch, IInv, TypeOK, OwnLaunch
  <2> QED BY <1>1, <1>2, <1>3, <2>1, <2>4, <2>6, <2>7, QuietStep
<1> QED BY <1>4, <1>5, <1>6

LEMMA AwaitStep ==
    ASSUME IInv, NEW l \in Launcher, Await(l) PROVE IInv'
<1> DEFINE i == task[l].id
           r == launch[i].receipt \in {"started", "exited"}
           u == [task[l] EXCEPT !.step = "choose", !.id = None,
                        !.taken = @ \cup {launch[i].name},
                        !.marked = IF r THEN @ \ {launch[i].conversation} ELSE @]
           v == IF launch[i].at = "gone" THEN NoLaunch ELSE [launch[i] EXCEPT !.ok = r]
<1>1. task[l].step = "await" /\ UNCHANGED <<holder, elapsed, batches, faults, gap, excused>>
  BY DEF Await
<1>2. batches \in Nat /\ faults \in Nat /\ launch \in [Slot -> Launch \cup {NoLaunch}]
  BY DEF IInv, TypeOK
<1>3. /\ i \in Slot /\ Others(l, i)
      /\ launch[i] \in Launch /\ launch[i].by = l
  BY <1>1, OwnSlot DEF IInv
<1>4. launch[i].at \in {"up", "gone"} BY <1>1 DEF IInv, Stages, Stage
<1>5. task' = [task EXCEPT ![l] = u] BY DEF Await, Reported, Become
<1>6. launch' = [launch EXCEPT ![i] = v] BY <1>2, <1>3 DEF Await, Reported
<1>7. v \in Launch \cup {NoLaunch} /\ v.at \in {"no", "up"}
  <2>1. r \in BOOLEAN OBVIOUS
  <2> HIDE DEF r
  <2> QED BY <1>3, <1>4, <2>1 DEF Launch, NoLaunch
<1>8. u \in Task /\ u.step = "choose" /\ u.id = None
  <2>1. task[l] \in Task BY DEF IInv, TypeOK
  <2>2. launch[i].name \in Nat BY <1>3 DEF Launch
  <2>3. task[l].taken \cup {launch[i].name} \subseteq Nat BY <2>1, <2>2 DEF Task
  <2> DEFINE marked == IF r THEN task[l].marked \ {launch[i].conversation}
                       ELSE task[l].marked
  <2>4. marked \subseteq Conversation BY <2>1 DEF Task
  <2>5. u = [task[l] EXCEPT !.step = "choose", !.id = None,
                     !.taken = task[l].taken \cup {launch[i].name},
                     !.marked = marked]
    BY <2>1 DEF Task
  <2> HIDE DEF marked, u
  <2> QED BY <2>1, <2>3, <2>4, <2>5 DEF Task, None
<1> HIDE DEF u, v
<1>9. /\ launch' \in [Slot -> Launch \cup {NoLaunch}]
      /\ \A j \in Slot \ {i} : launch'[j] = launch[j]
      /\ launch'[i].at \in {"no", "up"}
  BY <1>2, <1>3, <1>6, <1>7
<1> HIDE DEF i, r
<1>10. u.step # "ask" /\ u.step \in {"idle", "choose"} /\ u.step \notin {"wait", "stamp"}
  BY <1>8
<1>11. task[l].step # "ask" BY <1>1
<1> QED BY <1>1, <1>2, <1>3, <1>5, <1>8, <1>9, <1>10, <1>11, QuietStep

LEMMA CrashStep ==
    ASSUME IInv, NEW l \in Launcher, Crash(l) PROVE IInv'
<1> DEFINE u == [Fresh EXCEPT !.seen = Live]
           i == task[l].id
           v == [launch[i] EXCEPT !.at = "late", !.late = TRUE]
<1>1. u \in Task /\ u.step = "idle" /\ u.id = None
  BY ListsTyped DEF Fresh, Task, None, IInv
<1>2. /\ task' = [task EXCEPT ![l] = u]
      /\ holder' = holder \ {l} /\ faults' = faults + 1
      /\ UNCHANGED <<elapsed, batches, gap, excused>>
  BY DEF Crash, Become, Release, Fault
<1>3. batches \in Nat /\ faults' \in Nat /\ launch \in [Slot -> Launch \cup {NoLaunch}]
  BY <1>2 DEF IInv, TypeOK
<1>4. CASE task[l].step = "choose"
  <2>1. i = None BY <1>4 DEF IInv, TypeOK, OwnLaunch
  <2>2. launch' = launch
    BY <1>3, <2>1, NotSlot DEF Crash
  <2> HIDE DEF u, i
  <2> QED BY <1>1, <1>2, <1>3, <1>4, <2>1, <2>2, NoOther, NotSlot, QuietStep
<1>5. CASE task[l].step \notin {"idle", "choose"}
  <2>1. i \in Slot /\ Others(l, i) /\ launch[i] \in Launch
    BY <1>5, OwnSlot DEF IInv
  <2>2. v \in Launch /\ v.at = "late" BY <2>1 DEF Launch
  <2>3. launch' = [j \in Slot |-> IF j # i \/ launch[j].at = "up" THEN launch[j]
                                  ELSE IF task[l].step = "ask" THEN v ELSE NoLaunch]
    BY DEF Crash
  <2> HIDE DEF v
  <2>4. /\ launch' \in [Slot -> Launch \cup {NoLaunch}]
        /\ \A j \in Slot \ {i} : launch'[j] = launch[j]
    BY <1>3, <2>2, <2>3
  <2>5. launch'[i].at # "asked"
    BY <2>1, <2>2, <2>3 DEF NoLaunch
  <2> HIDE DEF u
  <2> QED BY <1>1, <1>2, <1>3, <2>1, <2>4, <2>5, QuietStep
<1> QED BY <1>4, <1>5 DEF Crash, IInv, TypeOK, Task

-----------------------------------------------------------------------------
(* Steps of tmux, of the monitors and of the clock.                        *)

\* The launch i changes without its launcher.
LEMMA LaunchStep ==
    ASSUME IInv, NEW i \in Slot, launch[i].at # "no",
           UNCHANGED <<task, holder>>, NEW v \in Launch \cup {NoLaunch},
           launch' = [launch EXCEPT ![i] = v], v.at # "asked",
           launch[i].at \in {"late", "up"},
           \/ v.at = "no" /\ \A l \in Launcher : ~Mine(l, i)
           \/ launch[i].at = "late" /\ v.at = "up" /\ v.by = launch[i].by
           \/ /\ launch[i].at = "up" /\ v.at \in {"up", "gone"}
              /\ v.by = launch[i].by /\ v.locked = launch[i].locked
    PROVE  /\ \A l \in Launcher : OwnLaunch(l)'
           /\ launch' \in [Slot -> Launch \cup {NoLaunch}]
           /\ Stages' /\ Exclusive' /\ AskedBySomeone'
           /\ \A l \in Launcher : task[l].step = "ask" => launch'[task[l].id] = launch[task[l].id]
<1>1. /\ launch' \in [Slot -> Launch \cup {NoLaunch}]
      /\ \A j \in Slot \ {i} : launch'[j] = launch[j]
      /\ launch'[i] = v
  BY DEF IInv, TypeOK
<1>2. ASSUME NEW l \in Launcher
      PROVE  /\ OwnLaunch(l)' /\ Stage(l)' /\ (Holds(l)' => Holds(l))
             /\ task[l].step = "ask" => launch'[task[l].id] = launch[task[l].id]
  <2>1. CASE task[l].step \in {"idle", "choose"}
    BY <2>1 DEF IInv, TypeOK, OwnLaunch, Stage, Holds
  <2>2. CASE Mine(l, i)
    <3>1. /\ task[l].step \notin {"idle", "choose"} /\ task[l].id = i
          /\ launch[i].by = l
      BY <2>2 DEF Mine, IInv, TypeOK, OwnLaunch
    <3>2. launch[i].at = "up" /\ task[l].step \in {"stamp", "await"}
      BY <3>1 DEF IInv, TypeOK, Stages, Stage, Task
    <3>3. v.at \in {"up", "gone"} /\ v.by = l /\ v.locked = launch[i].locked
      BY <2>2, <3>1, <3>2
    <3> QED BY <1>1, <3>1, <3>2, <3>3 DEF OwnLaunch, Stage, Holds
  <2>3. CASE task[l].step \notin {"idle", "choose"} /\ ~Mine(l, i)
    <3>1. task[l].id \in Slot \ {i}
      BY <2>3 DEF Mine, IInv, TypeOK, OwnLaunch
    <3>2. launch'[task[l].id] = launch[task[l].id] BY <1>1, <3>1
    <3> QED BY <2>3, <3>1, <3>2 DEF IInv, TypeOK, Stages, OwnLaunch, Stage, Holds
  <2> QED BY <2>1, <2>2, <2>3
<1>3. Stages' BY <1>2 DEF Stages
<1>4. Exclusive' BY <1>2 DEF Exclusive, IInv
<1>5. AskedBySomeone' BY <1>1 DEF AskedBySomeone, IInv
<1> QED BY <1>1, <1>2, <1>3, <1>4, <1>5

LEMMA ServeStep ==
    ASSUME IInv, NEW i \in Slot, Serve(i) PROVE IInv'
<1>1. launch[i].at = "late" /\ UNCHANGED <<holder, elapsed, task, batches, faults>>
  BY DEF Serve
<1>2. launch[i] \in Launch BY <1>1 DEF IInv, TypeOK, NoLaunch
<1>3. \A l \in Launcher : ~Mine(l, i)
  BY <1>1 DEF Mine, IInv, TypeOK, Stages, Stage, Task
<1>4. CASE ComesUp(i)
  <2> DEFINE v == [launch[i] EXCEPT !.at = "up"]
  <2>1. v \in Launch /\ v.at = "up" /\ v.by = launch[i].by
    BY <1>2 DEF Launch
  <2>2. launch' = [launch EXCEPT ![i] = v] BY <1>4 DEF ComesUp, IInv, TypeOK
  <2> HIDE DEF v
  <2>3. /\ \A l \in Launcher : OwnLaunch(l)'
        /\ launch' \in [Slot -> Launch \cup {NoLaunch}]
        /\ Stages' /\ Exclusive' /\ AskedBySomeone'
        /\ \A l \in Launcher : task[l].step = "ask" => launch'[task[l].id] = launch[task[l].id]
    BY <1>1, <2>1, <2>2, LaunchStep
  <2>4. /\ gap' = IF launch[i].locked THEN 0 ELSE gap
        /\ excused' = (excused \/ launch[i].locked)
    BY <1>4 DEF ComesUp
  <2>5. gap' \in 0..Interval /\ excused' \in BOOLEAN
    BY <1>2, <2>4, ConstantsOK DEF IInv, TypeOK, Launch
  <2>6. GapInv'
    <3>1. ~excused' => ~excused /\ gap' = gap BY <2>4
    <3> QED BY <1>1, <2>3, <3>1 DEF IInv, GapInv
  <2> QED BY <1>1, <2>3, <2>5, <2>6 DEF IInv, TypeOK
<1>5. CASE /\ launch' = [launch EXCEPT ![i] = NoLaunch]
           /\ UNCHANGED <<gap, excused>>
  <2>1. NoLaunch.at = "no" BY DEF NoLaunch
  <2>2. /\ \A l \in Launcher : OwnLaunch(l)'
        /\ launch' \in [Slot -> Launch \cup {NoLaunch}]
        /\ Stages' /\ Exclusive' /\ AskedBySomeone'
        /\ \A l \in Launcher : task[l].step = "ask" => launch'[task[l].id] = launch[task[l].id]
    BY <1>1, <1>3, <1>5, <2>1, LaunchStep
  <2>3. GapInv' BY <1>1, <1>5, <2>2 DEF IInv, GapInv
  <2> QED BY <1>1, <1>5, <2>2, <2>3 DEF IInv, TypeOK
<1> QED BY <1>4, <1>5 DEF Serve

LEMMA MonitorStep ==
    ASSUME IInv, NEW i \in Slot, Monitor(i) PROVE IInv'
<1>1. launch[i].at = "up"
      /\ UNCHANGED <<holder, elapsed, task, batches, faults, gap, excused>>
  BY DEF Monitor
<1>2. launch[i] \in Launch BY <1>1 DEF IInv, TypeOK, NoLaunch
<1>3. PICK v \in Launch \cup {NoLaunch} :
        /\ launch' = [launch EXCEPT ![i] = v]
        /\ \/ v.at = "no" /\ \A l \in Launcher : ~Mine(l, i)
           \/ /\ v.at \in {"up", "gone"}
              /\ v.by = launch[i].by /\ v.locked = launch[i].locked
  <2>1. CASE launch' = [launch EXCEPT ![i].receipt = "started"]
    <3> DEFINE v == [launch[i] EXCEPT !.receipt = "started"]
    <3>1. v \in Launch /\ v.at = "up" /\ v.by = launch[i].by /\ v.locked = launch[i].locked
      BY <1>1, <1>2 DEF Launch
    <3>2. launch' = [launch EXCEPT ![i] = v] BY <2>1 DEF IInv, TypeOK
    <3> QED BY <3>1, <3>2
  <2>2. CASE /\ \A l \in Launcher : task[l].id # i
             /\ launch' = [launch EXCEPT ![i] = NoLaunch]
    <3>1. NoLaunch.at = "no" BY DEF NoLaunch
    <3>2. \A l \in Launcher : ~Mine(l, i) BY <2>2 DEF Mine
    <3> QED BY <2>2, <3>1, <3>2
  <2>3. ASSUME NEW last \in {launch[i].receipt, "failed", "exited", "broke"},
               launch' = [launch EXCEPT ![i].receipt = last, ![i].at = "gone"]
        PROVE  \E v \in Launch \cup {NoLaunch} :
                 /\ launch' = [launch EXCEPT ![i] = v]
                 /\ v.at = "gone" /\ v.by = launch[i].by /\ v.locked = launch[i].locked
    <3> DEFINE v == [launch[i] EXCEPT !.receipt = last, !.at = "gone"]
    <3>1. last \in {"none", "started", "failed", "exited", "broke"}
      BY <1>2 DEF Launch
    <3>2. v \in Launch /\ v.at = "gone" /\ v.by = launch[i].by /\ v.locked = launch[i].locked
      BY <1>2, <3>1 DEF Launch
    <3>3. launch' = [launch EXCEPT ![i] = v] BY <2>3 DEF IInv, TypeOK
    <3> QED BY <3>2, <3>3
  <2> QED BY <2>1, <2>2, <2>3 DEF Monitor
<1>4. v.at # "asked" /\ launch[i].at # "no" BY <1>1, <1>3
<1>5. /\ \A l \in Launcher : OwnLaunch(l)'
      /\ launch' \in [Slot -> Launch \cup {NoLaunch}]
      /\ Stages' /\ Exclusive' /\ AskedBySomeone'
      /\ \A l \in Launcher : task[l].step = "ask" => launch'[task[l].id] = launch[task[l].id]
  BY <1>1, <1>3, <1>4, LaunchStep
<1>6. GapInv' BY <1>1, <1>5 DEF IInv, GapInv
<1> QED BY <1>1, <1>5, <1>6 DEF IInv, TypeOK

LEMMA ClockStep ==
    ASSUME IInv, Tick \/ SetClock PROVE IInv'
<1>1. UNCHANGED <<holder, task, launch, batches>>
  BY DEF Tick, SetClock
<1>2. /\ \A l \in Launcher : OwnLaunch(l)'
      /\ Stages' /\ Exclusive' /\ AskedBySomeone'
  BY <1>1 DEF IInv, TypeOK, OwnLaunch, Stages, Stage, Exclusive, Holds, AskedBySomeone
<1>3. /\ elapsed' \in Int /\ elapsed' <= Interval
      /\ gap' \in 0..Interval /\ excused' \in BOOLEAN /\ faults' \in Nat
  <2>1. CASE Tick
    <3>1. /\ elapsed' = (IF elapsed + 1 < Interval THEN elapsed + 1 ELSE Interval)
          /\ gap' = (IF gap + 1 < Interval THEN gap + 1 ELSE Interval)
          /\ excused' = excused /\ faults' = faults
      BY <2>1 DEF Tick, Least
    <3>2. elapsed \in Int /\ gap \in 0..Interval /\ Interval \in Nat
          /\ excused \in BOOLEAN /\ faults \in Nat
      BY ConstantsOK DEF IInv, TypeOK
    <3>3. elapsed' \in Int /\ elapsed' <= Interval /\ gap' \in 0..Interval
      BY <3>1, <3>2
    <3> QED BY <3>1, <3>2, <3>3
  <2>2. CASE SetClock
    <3>1. /\ elapsed \in Int /\ elapsed <= Interval /\ gap \in 0..Interval
          /\ Interval \in Nat /\ excused \in BOOLEAN /\ faults \in Nat
      BY ConstantsOK DEF IInv, TypeOK
    <3>2. gap' = gap /\ faults' = faults + 1
      BY <2>2 DEF SetClock, Fault
    <3>3. CASE elapsed' \in {elapsed - k : k \in 1..MaxSkew} /\ UNCHANGED excused
      <4>1. elapsed' \in Int /\ elapsed' <= Interval
        BY <3>1, <3>3, ConstantsOK
      <4>2. excused' = excused BY <3>3
      <4> QED BY <3>1, <3>2, <4>1, <4>2
    <3>4. CASE elapsed' = Interval /\ excused' = TRUE
      BY <3>1, <3>2, <3>4
    <3> QED BY <2>2, <3>3, <3>4 DEF SetClock
  <2> QED BY <2>1, <2>2
<1>4. GapInv'
  <2>1. CASE Tick
    <3>1. /\ elapsed' = (IF elapsed + 1 < Interval THEN elapsed + 1 ELSE Interval)
          /\ gap' = (IF gap + 1 < Interval THEN gap + 1 ELSE Interval)
          /\ excused' = excused
      BY <2>1 DEF Tick, Least
    <3>2. /\ elapsed \in Int /\ gap \in Int /\ Interval \in Int
          /\ elapsed <= Interval /\ gap <= Interval
          /\ ~excused => elapsed <= gap
      BY ConstantsOK DEF IInv, TypeOK, GapInv
    <3>3. ~excused' => elapsed' <= gap' BY <3>1, <3>2
    <3>4. gap = Interval => gap' = Interval BY <3>1, <3>2
    <3> QED BY <1>1, <3>1, <3>3, <3>4 DEF IInv, GapInv
  <2>2. CASE SetClock
    <3>1. \/ excused' = TRUE
          \/ elapsed' \in Int /\ elapsed' <= elapsed /\ excused' = excused
      BY <2>2, ConstantsOK DEF SetClock, IInv, TypeOK
    <3>2. gap' = gap BY <2>2 DEF SetClock
    <3>3. gap \in Int /\ elapsed \in Int BY ConstantsOK DEF IInv, TypeOK
    <3> QED BY <1>1, <3>1, <3>2, <3>3 DEF IInv, GapInv
  <2> QED BY <2>1, <2>2
<1> QED BY <1>1, <1>2, <1>3, <1>4 DEF IInv, TypeOK

-----------------------------------------------------------------------------
LEMMA Initial == Init => IInv
<1> SUFFICES ASSUME Init PROVE IInv OBVIOUS
<1>1. \A l \in Launcher : task[l] = Fresh BY DEF Init
<1>2. \A i \in Slot : launch[i] = NoLaunch BY DEF Init
<1>3. TypeOK
  <2>1. task \in [Launcher -> Task] BY FreshTyped DEF Init
  <2>2. launch \in [Slot -> Launch \cup {NoLaunch}] BY DEF Init
  <2>3. \A l \in Launcher : OwnLaunch(l) BY <1>1 DEF OwnLaunch, Fresh
  <2>4. /\ elapsed \in Int /\ elapsed <= Interval /\ gap \in 0..Interval
        /\ batches \in Nat /\ faults \in Nat
    BY ConstantsOK DEF Init
  <2>5. excused \in BOOLEAN BY DEF Init
  <2>6. holder \subseteq Launcher BY DEF Init
  <2> QED BY <2>1, <2>2, <2>3, <2>4, <2>5, <2>6 DEF TypeOK
<1>4. Stages /\ Exclusive BY <1>1 DEF Stages, Stage, Exclusive, Holds, Fresh
<1>5. AskedBySomeone BY <1>2 DEF AskedBySomeone, NoLaunch
<1>6. GapInv BY <1>1, ConstantsOK DEF GapInv, Init, Fresh
<1> QED BY <1>3, <1>4, <1>5, <1>6 DEF IInv

LEMMA Preserved == IInv /\ [Next]_vars => IInv'
<1> SUFFICES ASSUME IInv, [Next]_vars PROVE IInv' OBVIOUS
<1>1. ASSUME NEW l \in Launcher, Begin(l) \/ Work(l) \/ Cancel(l) \/ AskTimesOut(l) \/ Crash(l)
      PROVE  IInv'
  <2>1. CASE Work(l)
    BY <2>1, ChooseStep, EndBatchStep, AcquireStep, WaitOverStep, CreateStep,
       RefusedStep, StampStep, AwaitStep DEF Work, Answer
  <2> QED BY <1>1, <2>1, BeginStep, CancelStep, AskTimesOutStep, CrashStep
<1>2. ASSUME NEW i \in Slot, Serve(i) \/ Monitor(i) PROVE IInv'
  BY <1>2, ServeStep, MonitorStep
<1>3. CASE UNCHANGED vars
  BY <1>3 DEF vars, IInv, TypeOK, OwnLaunch, Stages, Stage, Exclusive, Holds,
              AskedBySomeone, GapInv
<1> QED BY <1>1, <1>2, <1>3, ClockStep DEF Next

(* The types, and that every launch is made by the launcher that owns it:  *)
(* pacing.py and launch.py with any number of launchers and conversations. *)
THEOREM TypeCorrect == Spec => []TypeOK
<1>1. IInv => TypeOK BY DEF IInv
<1> QED BY Initial, Preserved, <1>1, PTL DEF Spec

(* The slot is exclusive: no two launchers that have it for themselves are *)
(* between the end of their wait and their stamp.                          *)
THEOREM SlotExclusive ==
    Spec => [](\A l, m \in Launcher : Holds(l) /\ Holds(m) => l = m)
<1>1. IInv => \A l, m \in Launcher : Holds(l) /\ Holds(m) => l = m
  BY DEF IInv, Exclusive
<1> QED BY Initial, Preserved, <1>1, PTL DEF Spec

(* The gap is kept in real time between sessions with the slot             *)
(* (LaunchPacer.slot), for any interval and any number of launchers.       *)
THEOREM PacerKeepsGap == Spec => GapKept
<1> DEFINE Kept == \A i \in Slot :
                     /\ launch[i].at = "asked" /\ launch'[i].at = "up"
                     /\ launch[i].locked
                     => gap = Interval \/ excused
<1>1. ASSUME IInv, NEW i \in Slot, launch[i].at = "asked", launch[i].locked
      PROVE  gap = Interval \/ excused
  <2>1. PICK l \in Launcher : task[l].step = "ask" /\ task[l].id = i
    BY <1>1 DEF IInv, AskedBySomeone
  <2> QED BY <1>1, <2>1 DEF IInv, GapInv
<1>2. IInv => Kept BY <1>1
<1>3. IInv /\ [Next]_vars => [Kept]_vars BY <1>2
<1>4. [][Kept]_vars => GapKept
  BY PTL DEF GapKept
<1> QED BY Initial, Preserved, <1>3, <1>4, PTL DEF Spec

-----------------------------------------------------------------------------
(* What a launcher knows of its own launches.  Its knowledge has three     *)
(* parts: the conversations it saw running (seen), the ones it still has   *)
(* to start (todo), and the names it takes for used (taken).               *)

\* A launch has a receipt only when it has a session, and a launcher that
\* reported it as started read that receipt.
Receipt(v) ==
    /\ v.at \in {"chosen", "asked", "late"} => v.receipt = "none" /\ ~v.ok
    /\ v.at = "up" => /\ v.receipt \in {"none", "started"}
                      /\ v.ok => v.receipt = "started"
    /\ v.at = "late" => v.late

\* A launch that waits for its slot is one that its launcher is making.
Chosen(i) ==
    launch[i].at = "chosen"
    => /\ task[launch[i].by].step \in {"lock", "wait"}
       /\ task[launch[i].by].id = i

\* What l reported and still runs, l has seen running, or has done with in the
\* batch that it is in.
Known(l) ==
    \A i \in Up : launch[i].ok /\ launch[i].by = l
      => \/ launch[i].conversation \in task[l].seen
         \/ task[l].step # "idle" /\ launch[i].conversation \notin task[l].todo

\* What l is starting is not to be started again, and does not run yet.
Making(l) ==
    /\ task[l].step \notin {"idle", "choose"}
       => launch[task[l].id].conversation \notin task[l].todo
    /\ task[l].step \in {"lock", "wait"}
       => \A i \in Up : launch[i].ok /\ launch[i].by = l
                        => launch[i].conversation # launch[task[l].id].conversation

\* When tmux listed its sessions, l takes for used every name of its own that
\* it was not late with, and asks for another.
Names(l) ==
    task[l].step # "idle" /\ task[l].listed
    => /\ \A i \in Up : launch[i].by = l /\ ~launch[i].late /\ ~Mine(l, i)
                        => launch[i].name \in task[l].taken
       /\ task[l].step \in {"lock", "wait", "ask"}
          => launch[task[l].id].name \notin task[l].taken

Book == /\ \A i \in Slot : Receipt(launch[i]) /\ Chosen(i)
        /\ \A l \in Launcher : Known(l) /\ Making(l) /\ Names(l)

LEMMA ReportedLive ==
    ASSUME Book, NEW i \in Up, launch[i].ok PROVE launch[i].conversation \in Live
BY DEF Book, Receipt, Up, Live

\* A step of l that changes the task of l and at most the launch i, which is
\* its own if it is anyone's.
LEMMA BookStep ==
    ASSUME IInv, Book, NEW l \in Launcher, NEW u, NEW i, Others(l, i),
           task[l].step \in {"lock", "wait"} => task[l].id = i,
           task' = [task EXCEPT ![l] = u],
           \A j \in Slot \ {i} : launch'[j] = launch[j],
           i \in Slot => /\ Receipt(launch'[i])
                         /\ launch'[i].at = "chosen" => u.step \in {"lock", "wait"} /\ u.id = i
                         /\ launch'[i].at \in {"chosen", "up"} => launch'[i].by = l,
           Known(l)', Making(l)', Names(l)'
    PROVE  Book'
<1>1. task'[l] = u /\ \A m \in Launcher \ {l} : task'[m] = task[m]
  BY DEF IInv, TypeOK
<1>2. ASSUME NEW j \in Slot PROVE Receipt(launch'[j]) /\ Chosen(j)'
  <2>1. CASE j = i BY <1>1, <2>1 DEF Chosen
  <2>2. CASE j # i
    <3>1. launch'[j] = launch[j] BY <2>2
    <3>2. Receipt(launch'[j]) BY <3>1 DEF Book
    <3>3. ASSUME launch[j].at = "chosen" PROVE Chosen(j)'
      <4>1. /\ task[launch[j].by].step \in {"lock", "wait"}
            /\ task[launch[j].by].id = j
        BY <3>3 DEF Book, Chosen
      <4>2. launch[j].by \in Launcher BY <3>3 DEF IInv, TypeOK, Launch, NoLaunch
      <4>3. launch[j].by # l BY <2>2, <4>1
      <4> QED BY <1>1, <3>1, <4>1, <4>2, <4>3 DEF Chosen
    <3> QED BY <3>1, <3>2, <3>3 DEF Chosen
  <2> QED BY <2>1, <2>2
<1>3. ASSUME NEW m \in Launcher \ {l} PROVE Known(m)' /\ Making(m)' /\ Names(m)'
  <2>1. task'[m] = task[m] BY <1>1
  <2>2. \A j \in Up' : launch'[j].by = m => j \in Up /\ launch'[j] = launch[j]
    BY DEF Up
  <2>3. task[m].step \notin {"idle", "choose"}
        => launch'[task[m].id] = launch[task[m].id]
    BY DEF IInv, TypeOK, OwnLaunch, Others, Mine
  <2>4. Known(m) /\ Making(m) /\ Names(m) BY DEF Book
  <2>5. Known(m)' BY <2>1, <2>2, <2>4 DEF Known
  <2>6. Making(m)' BY <2>1, <2>2, <2>3, <2>4 DEF Making
  <2>7. Names(m)' BY <2>1, <2>2, <2>3, <2>4 DEF Names, Mine
  <2> QED BY <2>5, <2>6, <2>7
<1> QED BY <1>2, <1>3 DEF Book

\* l stops, and looks at what runs.
LEMMA BookIdle ==
    ASSUME IInv, Book, NEW l \in Launcher, NEW u, NEW i, Others(l, i),
           task[l].step \in {"lock", "wait"} => task[l].id = i,
           task' = [task EXCEPT ![l] = u], u.step = "idle", u.seen = Live,
           \A j \in Slot \ {i} : launch'[j] = launch[j],
           i \in Slot => \/ /\ launch[i].at = "up" /\ launch'[i] = launch[i]
                            /\ launch[i].by = l
                         \/ launch'[i].at = "no"
                         \/ launch'[i].at = "late" /\ Receipt(launch'[i])
    PROVE  Book'
<1>1. task'[l] = u BY DEF IInv, TypeOK
<1>2. \A j \in Up' : j \in Up /\ launch'[j] = launch[j]
  BY DEF Up
<1>3. Known(l)' BY <1>1, <1>2, ReportedLive DEF Known
<1>4. Making(l)' /\ Names(l)' BY <1>1 DEF Making, Names
<1>5. i \in Slot => /\ Receipt(launch'[i]) /\ launch'[i].at # "chosen"
                    /\ launch'[i].at \in {"chosen", "up"} => launch'[i].by = l
  BY DEF Book, Receipt
<1> QED BY <1>3, <1>4, <1>5, BookStep

LEMMA EndBatchBook ==
    ASSUME IInv, Book, NEW l \in Launcher, EndBatch(l) PROVE Book'
<1> DEFINE u == [Fresh EXCEPT !.marked = task[l].marked, !.seen = Live]
<1>1. u.step = "idle" /\ u.seen = Live BY DEF Fresh
<1>2. task' = [task EXCEPT ![l] = u] /\ task[l].step = "choose" /\ launch' = launch
  BY DEF EndBatch, Become
<1> HIDE DEF u
<1> QED BY <1>1, <1>2, NoOther, NotSlot, BookIdle

LEMMA CancelBook ==
    ASSUME IInv, Book, NEW l \in Launcher, Cancel(l) PROVE Book'
<1> DEFINE u == [Fresh EXCEPT !.marked = task[l].marked, !.seen = Live]
<1>1. u.step = "idle" /\ u.seen = Live BY DEF Fresh
<1>2. /\ task' = [task EXCEPT ![l] = u] /\ task[l].step = "wait"
      /\ launch' = [launch EXCEPT ![task[l].id] = NoLaunch]
  BY DEF Cancel, Become
<1> HIDE DEF u
<1>3. task[l].id \in Slot /\ Others(l, task[l].id)
  BY <1>2, OwnSlot DEF IInv
<1>4. /\ \A j \in Slot \ {task[l].id} : launch'[j] = launch[j]
      /\ launch'[task[l].id].at = "no"
  BY <1>2, <1>3 DEF NoLaunch, IInv, TypeOK
<1> QED BY <1>1, <1>2, <1>3, <1>4, BookIdle

LEMMA CrashBook ==
    ASSUME IInv, Book, NEW l \in Launcher, Crash(l) PROVE Book'
<1> DEFINE u == [Fresh EXCEPT !.seen = Live]
<1>1. u.step = "idle" /\ u.seen = Live BY DEF Fresh
<1>2. task' = [task EXCEPT ![l] = u] /\ task[l].step # "idle"
  BY DEF Crash, Become, Release, Fault
<1>3. CASE task[l].step = "choose"
  <2>1. task[l].id = None BY <1>3 DEF IInv, TypeOK, OwnLaunch
  <2>2. launch' = launch
    BY <2>1, NotSlot DEF Crash, IInv, TypeOK
  <2> HIDE DEF u
  <2> QED BY <1>1, <1>2, <1>3, <2>2, NoOther, NotSlot, BookIdle
<1>4. CASE task[l].step \notin {"idle", "choose"}
  <2> DEFINE i == task[l].id
             v == [launch[i] EXCEPT !.at = "late", !.late = TRUE]
  <2>1. i \in Slot /\ Others(l, i) /\ launch[i] \in Launch /\ launch[i].by = l
    BY <1>4, OwnSlot DEF IInv
  <2>2. /\ v.at = "late" /\ v.late /\ v.receipt = launch[i].receipt
        /\ v.ok = launch[i].ok
    BY <2>1 DEF Launch
  <2>3. launch' = [j \in Slot |-> IF j # i \/ launch[j].at = "up" THEN launch[j]
                                  ELSE IF task[l].step = "ask" THEN v ELSE NoLaunch]
    BY DEF Crash
  <2> HIDE DEF v
  <2>4. task[l].step = "ask" => launch[i].at = "asked"
    BY DEF IInv, Stages, Stage
  <2>5. Receipt(launch[i]) BY <2>1 DEF Book
  <2>6. \/ launch[i].at = "up" /\ launch'[i] = launch[i]
        \/ launch'[i].at = "no"
        \/ launch'[i].at = "late" /\ Receipt(launch'[i])
    BY <2>1, <2>2, <2>3, <2>4, <2>5 DEF NoLaunch, Receipt
  <2>7. \A j \in Slot \ {i} : launch'[j] = launch[j] BY <2>3
  <2> HIDE DEF u
  <2> QED BY <1>1, <1>2, <2>1, <2>6, <2>7, BookIdle
<1> QED BY <1>2, <1>3, <1>4

\* l goes on with the launch that it is making, or gives it up; it learns
\* nothing.
LEMMA BookWork ==
    ASSUME IInv, Book, NEW l \in Launcher, NEW u, NEW i,
           task[l].step \notin {"idle", "choose"}, i = task[l].id,
           task' = [task EXCEPT ![l] = u],
           u.seen = task[l].seen, u.todo = task[l].todo,
           u.taken = task[l].taken, u.listed = task[l].listed,
           u.step \in {"lock", "wait"} => task[l].step \in {"lock", "wait"},
           u.step = "ask" => task[l].step \in {"lock", "wait", "ask"},
           u.step # "idle",
           \A j \in Slot \ {i} : launch'[j] = launch[j],
           Receipt(launch'[i]),
           launch'[i].at = "chosen" => u.step \in {"lock", "wait"} /\ u.id = i,
           \/ u.step = "choose" /\ launch'[i].at \notin {"chosen", "up"}
           \/ /\ u.step # "choose" /\ u.id = i
              /\ launch'[i].by = launch[i].by
              /\ launch'[i].conversation = launch[i].conversation
              /\ launch'[i].name = launch[i].name
              /\ launch'[i].at = "up" /\ launch'[i].ok => launch[i].at = "up" /\ launch[i].ok
    PROVE  Book'
<1>1. task'[l] = u BY DEF IInv, TypeOK
<1>2. i \in Slot /\ Others(l, i) /\ launch[i].by = l
  BY OwnSlot DEF IInv
<1>3. Known(l) /\ Making(l) /\ Names(l) BY DEF Book
<1>4. \A j \in Up' : j \in Slot /\ (j # i => j \in Up /\ launch'[j] = launch[j])
  BY DEF Up
<1>5. \A j \in Up' : launch'[j].ok /\ launch'[j].by = l
        => /\ j \in Up /\ launch[j].ok /\ launch[j].by = l
           /\ launch'[j].conversation = launch[j].conversation
  <2> SUFFICES ASSUME NEW j \in Up', launch'[j].ok, launch'[j].by = l
               PROVE  /\ j \in Up /\ launch[j].ok /\ launch[j].by = l
                      /\ launch'[j].conversation = launch[j].conversation
    OBVIOUS
  <2>1. CASE j # i BY <1>4, <2>1
  <2>2. CASE j = i BY <1>2, <2>2 DEF Up
  <2> QED BY <2>1, <2>2
<1>6. Known(l)' BY <1>1, <1>3, <1>5 DEF Known
<1>7. Making(l)' BY <1>1, <1>3, <1>5 DEF Making
<1>8. Names(l)'
  <2>1. ASSUME u.listed, NEW j \in Up', launch'[j].by = l, ~launch'[j].late, ~Mine(l, j)'
        PROVE  launch'[j].name \in u.taken
    <3>1. j # i BY <1>1, <2>1 DEF Up, Mine
    <3>2. ~Mine(l, j) BY <3>1 DEF Mine
    <3> QED BY <1>3, <1>4, <2>1, <3>1, <3>2 DEF Names
  <2>2. ASSUME u.listed, u.step \in {"lock", "wait", "ask"}
        PROVE  launch'[u.id].name \notin u.taken
    BY <1>3, <2>2 DEF Names
  <2> QED BY <1>1, <2>1, <2>2 DEF Names
<1> QED BY <1>2, <1>6, <1>7, <1>8, BookStep

LEMMA AcquireBook ==
    ASSUME IInv, Book, NEW l \in Launcher, Acquire(l) PROVE Book'
<1> DEFINE u == [task[l] EXCEPT !.step = "wait"]
           v == [launch[task[l].id] EXCEPT !.locked = FALSE]
<1>1. task[l] \in Task BY DEF IInv, TypeOK
<1>2. /\ u.step = "wait" /\ u.id = task[l].id /\ u.seen = task[l].seen
      /\ u.todo = task[l].todo /\ u.taken = task[l].taken /\ u.listed = task[l].listed
  BY <1>1 DEF Task
<1>3. task' = [task EXCEPT ![l] = u] /\ task[l].step = "lock"
  BY DEF Acquire, Become
<1>4. task[l].id \in Slot /\ launch[task[l].id] \in Launch
  BY <1>3, OwnSlot DEF IInv
<1>5. /\ v.at = launch[task[l].id].at /\ v.by = launch[task[l].id].by
      /\ v.conversation = launch[task[l].id].conversation
      /\ v.name = launch[task[l].id].name /\ v.receipt = launch[task[l].id].receipt
      /\ v.ok = launch[task[l].id].ok /\ v.late = launch[task[l].id].late
  BY <1>4 DEF Launch
<1>6. launch' = launch \/ launch' = [launch EXCEPT ![task[l].id] = v]
  BY <1>4 DEF Acquire, IInv, TypeOK
<1>7. Receipt(launch[task[l].id]) BY <1>4 DEF Book
<1> HIDE DEF u, v
<1>8. \A j \in Slot \ {task[l].id} : launch'[j] = launch[j]
  BY <1>6 DEF IInv, TypeOK
<1>9. launch'[task[l].id] \in {v, launch[task[l].id]}
  BY <1>4, <1>6 DEF IInv, TypeOK
<1>10. Receipt(v) BY <1>5, <1>7 DEF Receipt
<1>11. CASE launch'[task[l].id] = v
  BY <1>2, <1>3, <1>5, <1>8, <1>10, <1>11, BookWork
<1>12. CASE launch'[task[l].id] = launch[task[l].id]
  BY <1>2, <1>3, <1>7, <1>8, <1>12, BookWork
<1> QED BY <1>9, <1>11, <1>12

LEMMA WaitOverBook ==
    ASSUME IInv, Book, NEW l \in Launcher, WaitOver(l) PROVE Book'
<1> DEFINE u == [task[l] EXCEPT !.step = "ask"]
           v == [launch[task[l].id] EXCEPT !.at = "asked"]
<1>1. task[l] \in Task BY DEF IInv, TypeOK
<1>2. /\ u.step = "ask" /\ u.id = task[l].id /\ u.seen = task[l].seen
      /\ u.todo = task[l].todo /\ u.taken = task[l].taken /\ u.listed = task[l].listed
  BY <1>1 DEF Task
<1>3. task' = [task EXCEPT ![l] = u] /\ task[l].step = "wait"
  BY DEF WaitOver, Become
<1>4. task[l].id \in Slot /\ launch[task[l].id] \in Launch
  BY <1>3, OwnSlot DEF IInv
<1>5. /\ v.at = "asked" /\ v.by = launch[task[l].id].by
      /\ v.conversation = launch[task[l].id].conversation
      /\ v.name = launch[task[l].id].name /\ v.receipt = launch[task[l].id].receipt
      /\ v.ok = launch[task[l].id].ok
  BY <1>4 DEF Launch
<1>6. launch' = [launch EXCEPT ![task[l].id] = v]
  BY <1>4 DEF WaitOver, IInv, TypeOK
<1>7. launch[task[l].id].at = "chosen" BY <1>3 DEF IInv, Stages, Stage
<1>8. Receipt(launch[task[l].id]) BY <1>4 DEF Book
<1> HIDE DEF u, v
<1>9. /\ \A j \in Slot \ {task[l].id} : launch'[j] = launch[j]
      /\ launch'[task[l].id] = v
  BY <1>4, <1>6 DEF IInv, TypeOK
<1>10. Receipt(v) BY <1>5, <1>7, <1>8 DEF Receipt
<1> QED BY <1>2, <1>3, <1>5, <1>9, <1>10, BookWork

LEMMA CreateBook ==
    ASSUME IInv, Book, NEW l \in Launcher, Create(l) PROVE Book'
<1> DEFINE u == [task[l] EXCEPT !.step = "stamp"]
           v == [launch[task[l].id] EXCEPT !.at = "up"]
<1>1. task[l] \in Task BY DEF IInv, TypeOK
<1>2. /\ u.step = "stamp" /\ u.id = task[l].id /\ u.seen = task[l].seen
      /\ u.todo = task[l].todo /\ u.taken = task[l].taken /\ u.listed = task[l].listed
  BY <1>1 DEF Task
<1>3. task' = [task EXCEPT ![l] = u] /\ task[l].step = "ask"
  BY DEF Create, Become
<1>4. task[l].id \in Slot /\ launch[task[l].id] \in Launch
  BY <1>3, OwnSlot DEF IInv
<1>5. /\ v.at = "up" /\ v.by = launch[task[l].id].by
      /\ v.conversation = launch[task[l].id].conversation
      /\ v.name = launch[task[l].id].name /\ v.receipt = launch[task[l].id].receipt
      /\ v.ok = launch[task[l].id].ok
  BY <1>4 DEF Launch
<1>6. launch' = [launch EXCEPT ![task[l].id] = v]
  BY <1>4 DEF Create, ComesUp, IInv, TypeOK
<1>7. launch[task[l].id].at = "asked" BY <1>3 DEF IInv, Stages, Stage
<1>8. launch[task[l].id].receipt = "none" /\ ~launch[task[l].id].ok
  BY <1>4, <1>7 DEF Book, Receipt
<1> HIDE DEF u, v
<1>9. /\ \A j \in Slot \ {task[l].id} : launch'[j] = launch[j]
      /\ launch'[task[l].id] = v
  BY <1>4, <1>6 DEF IInv, TypeOK
<1>10. Receipt(v) BY <1>5, <1>8 DEF Receipt
<1> QED BY <1>2, <1>3, <1>5, <1>8, <1>9, <1>10, BookWork

LEMMA RefusedBook ==
    ASSUME IInv, Book, NEW l \in Launcher, Refused(l) PROVE Book'
<1> DEFINE u == [task[l] EXCEPT !.step = "choose", !.id = None]
<1>1. task[l] \in Task BY DEF IInv, TypeOK
<1>2. /\ u.step = "choose" /\ u.seen = task[l].seen
      /\ u.todo = task[l].todo /\ u.taken = task[l].taken /\ u.listed = task[l].listed
  BY <1>1 DEF Task
<1>3. /\ task' = [task EXCEPT ![l] = u] /\ task[l].step = "ask"
      /\ launch' = [launch EXCEPT ![task[l].id] = NoLaunch]
  BY DEF Refused, Become
<1>4. task[l].id \in Slot BY <1>3, OwnSlot DEF IInv
<1> HIDE DEF u
<1>5. /\ \A j \in Slot \ {task[l].id} : launch'[j] = launch[j]
      /\ launch'[task[l].id].at = "no"
  BY <1>3, <1>4 DEF NoLaunch, IInv, TypeOK
<1>6. Receipt(launch'[task[l].id]) BY <1>5 DEF Receipt
<1> QED BY <1>2, <1>3, <1>5, <1>6, BookWork

LEMMA AskTimesOutBook ==
    ASSUME IInv, Book, NEW l \in Launcher, AskTimesOut(l) PROVE Book'
<1> DEFINE u == [task[l] EXCEPT !.step = "choose", !.id = None]
           v == [launch[task[l].id] EXCEPT !.at = "late", !.late = TRUE]
<1>1. task[l] \in Task BY DEF IInv, TypeOK
<1>2. /\ u.step = "choose" /\ u.seen = task[l].seen
      /\ u.todo = task[l].todo /\ u.taken = task[l].taken /\ u.listed = task[l].listed
  BY <1>1 DEF Task
<1>3. task' = [task EXCEPT ![l] = u] /\ task[l].step = "ask"
  BY DEF AskTimesOut, Become
<1>4. task[l].id \in Slot /\ launch[task[l].id] \in Launch
  BY <1>3, OwnSlot DEF IInv
<1>5. /\ v.at = "late" /\ v.late /\ v.receipt = launch[task[l].id].receipt
      /\ v.ok = launch[task[l].id].ok
  BY <1>4 DEF Launch
<1>6. launch' = [launch EXCEPT ![task[l].id] = v]
  BY <1>4 DEF AskTimesOut, IInv, TypeOK
<1>7. launch[task[l].id].at = "asked" BY <1>3 DEF IInv, Stages, Stage
<1>8. launch[task[l].id].receipt = "none" /\ ~launch[task[l].id].ok
  BY <1>4, <1>7 DEF Book, Receipt
<1> HIDE DEF u, v
<1>9. /\ \A j \in Slot \ {task[l].id} : launch'[j] = launch[j]
      /\ launch'[task[l].id] = v
  BY <1>4, <1>6 DEF IInv, TypeOK
<1>10. Receipt(v) BY <1>5, <1>8 DEF Receipt
<1> QED BY <1>2, <1>3, <1>5, <1>9, <1>10, BookWork

LEMMA StampBook ==
    ASSUME IInv, Book, NEW l \in Launcher, Stamp(l) PROVE Book'
<1> DEFINE u == [task[l] EXCEPT !.step = "await"]
<1>1. task[l] \in Task BY DEF IInv, TypeOK
<1>2. /\ u.step = "await" /\ u.id = task[l].id /\ u.seen = task[l].seen
      /\ u.todo = task[l].todo /\ u.taken = task[l].taken /\ u.listed = task[l].listed
  BY <1>1 DEF Task
<1>3. task' = [task EXCEPT ![l] = u] /\ task[l].step = "stamp" /\ launch' = launch
  BY DEF Stamp, Become
<1>4. task[l].id \in Slot BY <1>3, OwnSlot DEF IInv
<1>5. launch[task[l].id].at \in {"up", "gone"} BY <1>3 DEF IInv, Stages, Stage
<1>6. Receipt(launch[task[l].id]) BY <1>4 DEF Book
<1> HIDE DEF u
<1> QED BY <1>2, <1>3, <1>5, <1>6, BookWork

LEMMA BeginBook ==
    ASSUME IInv, Book, NEW l \in Launcher, Begin(l) PROVE Book'
<1> DEFINE begun(seen, marked) == [Fresh EXCEPT !.step = "choose", !.seen = seen,
                                            !.marked = marked, !.todo = marked]
<1>1. PICK seen \in {task[l].seen, Live} : \E u :
        /\ task' = [task EXCEPT ![l] = u]
        /\ u.step = "choose" /\ u.seen = seen
        /\ u.listed => u.taken = TmuxSessions
  <2>1. PICK seen \in {task[l].seen, Live} :
          \E marked \in {(task[l].marked \cap seen) \cup C :
                            C \in SUBSET (Conversation \ seen)} \ {{}} :
            LET t == [Fresh EXCEPT !.step = "choose", !.seen = seen,
                                   !.marked = marked, !.todo = marked]
            IN  \/ Become(l, [t EXCEPT !.taken = TmuxSessions])
                \/ Become(l, [t EXCEPT !.listed = FALSE])
    BY DEF Begin
  <2>2. PICK marked \in {(task[l].marked \cap seen) \cup C :
                            C \in SUBSET (Conversation \ seen)} :
            LET t == [Fresh EXCEPT !.step = "choose", !.seen = seen,
                                   !.marked = marked, !.todo = marked]
            IN  \/ Become(l, [t EXCEPT !.taken = TmuxSessions])
                \/ Become(l, [t EXCEPT !.listed = FALSE])
    BY <2>1
  <2>3. \/ task' = [task EXCEPT ![l] = [begun(seen, marked) EXCEPT !.taken = TmuxSessions]]
        \/ task' = [task EXCEPT ![l] = [begun(seen, marked) EXCEPT !.listed = FALSE]]
    BY <2>2 DEF Become
  <2>4. /\ [begun(seen, marked) EXCEPT !.taken = TmuxSessions].step = "choose"
        /\ [begun(seen, marked) EXCEPT !.taken = TmuxSessions].seen = seen
        /\ [begun(seen, marked) EXCEPT !.taken = TmuxSessions].taken = TmuxSessions
    BY DEF Fresh
  <2>5. /\ [begun(seen, marked) EXCEPT !.listed = FALSE].step = "choose"
        /\ [begun(seen, marked) EXCEPT !.listed = FALSE].seen = seen
        /\ [begun(seen, marked) EXCEPT !.listed = FALSE].listed = FALSE
    BY DEF Fresh
  <2> HIDE DEF begun
  <2> QED BY <2>3, <2>4, <2>5
<1>2. PICK u : /\ task' = [task EXCEPT ![l] = u]
               /\ u.step = "choose" /\ u.seen = seen
               /\ u.listed => u.taken = TmuxSessions
  BY <1>1
<1>3. task[l].step = "idle" /\ launch' = launch BY DEF Begin
<1>4. task'[l] = u BY <1>2 DEF IInv, TypeOK
<1>5. Up' = Up BY <1>3 DEF Up
<1>6. Known(l) BY DEF Book
<1>7. \A i \in Up : launch[i].ok /\ launch[i].by = l => launch[i].conversation \in seen
  BY <1>1, <1>3, <1>6, ReportedLive DEF Known
<1>8. Known(l)' BY <1>2, <1>3, <1>4, <1>5, <1>7 DEF Known
<1>9. Making(l)' BY <1>2, <1>4 DEF Making
<1>10. Names(l)'
  <2>1. \A i \in Up : launch[i].name \in TmuxSessions BY DEF TmuxSessions
  <2> QED BY <1>2, <1>3, <1>4, <1>5, <2>1 DEF Names
<1> QED BY <1>2, <1>3, <1>8, <1>9, <1>10, NoOther, NotSlot, BookStep

LEMMA ChooseBook ==
    ASSUME IInv, Book, NEW l \in Launcher, NEW c \in Conversation, Choose(l, c)
    PROVE  Book'
<1> DEFINE t == [task[l] EXCEPT !.todo = @ \ {c}]
<1>1. task[l].step = "choose" /\ c \in task[l].todo /\ task[l] \in Task
  BY DEF Choose, IInv, TypeOK
<1>2. /\ t.step = "choose" /\ t.seen = task[l].seen
      /\ t.todo = task[l].todo \ {c} /\ t.taken = task[l].taken
      /\ t.listed = task[l].listed /\ t \in Task
  BY <1>1 DEF Task
<1>3. Known(l) /\ Names(l) BY DEF Book
<1>4. \/ Become(l, t) /\ UNCHANGED launch
      \/ c \notin t.seen /\ \E i \in Slot, n \in 1..(Cardinality(t.taken) + 1) :
           /\ Free(i) /\ TmuxName(t.taken, n)
           /\ launch' = [launch EXCEPT ![i] =
                [by |-> l, conversation |-> c, name |-> n, locked |-> TRUE,
                 at |-> "chosen", late |-> FALSE,
                 receipt |-> "none", ok |-> FALSE]]
           /\ Become(l, [t EXCEPT !.step = "lock", !.id = i])
  BY DEF Choose
<1> HIDE DEF t
<1>5. CASE Become(l, t) /\ UNCHANGED launch
  <2>1. task' = [task EXCEPT ![l] = t] /\ launch' = launch BY <1>5 DEF Become
  <2>2. task'[l] = t BY <2>1 DEF IInv, TypeOK
  <2>3. Up' = Up BY <2>1 DEF Up
  <2>4. Known(l)' BY <1>1, <1>2, <1>3, <2>1, <2>2, <2>3 DEF Known
  <2>5. Making(l)' BY <1>2, <2>2 DEF Making
  <2>6. Names(l)' BY <1>1, <1>2, <1>3, <2>1, <2>2, <2>3 DEF Names, Mine
  <2> QED BY <1>1, <2>1, <2>4, <2>5, <2>6, NoOther, NotSlot, BookStep
<1>6. ASSUME c \notin t.seen, NEW i \in Slot, NEW n, Free(i), TmuxName(t.taken, n),
             launch' = [launch EXCEPT ![i] =
                [by |-> l, conversation |-> c, name |-> n, locked |-> TRUE,
                 at |-> "chosen", late |-> FALSE,
                 receipt |-> "none", ok |-> FALSE]],
             Become(l, [t EXCEPT !.step = "lock", !.id = i])
      PROVE  Book'
  <2> DEFINE u == [t EXCEPT !.step = "lock", !.id = i]
             v == [by |-> l, conversation |-> c, name |-> n, locked |-> TRUE,
                   at |-> "chosen", late |-> FALSE,
                   receipt |-> "none", ok |-> FALSE]
  <2>1. /\ u.step = "lock" /\ u.id = i /\ u.seen = t.seen /\ u.todo = t.todo
        /\ u.taken = t.taken /\ u.listed = t.listed
    BY <1>2 DEF Task
  <2>2. /\ v.at = "chosen" /\ v.by = l /\ v.conversation = c /\ v.name = n
        /\ v.receipt = "none" /\ v.ok = FALSE
    OBVIOUS
  <2>3. task' = [task EXCEPT ![l] = u] BY <1>6 DEF Become
  <2>4. launch' = [launch EXCEPT ![i] = v] BY <1>6
  <2> HIDE DEF u, v
  <2>5. launch'[i] = v /\ \A j \in Slot \ {i} : launch'[j] = launch[j]
    BY <2>4 DEF IInv, TypeOK
  <2>6. task'[l] = u BY <2>3 DEF IInv, TypeOK
  <2>7. \A j \in Up' : j \in Up /\ j # i /\ launch'[j] = launch[j]
    BY <2>2, <2>5 DEF Up
  <2>8. Known(l)' BY <1>1, <1>2, <1>3, <2>1, <2>6, <2>7 DEF Known
  <2>9. Making(l)'
    <3>1. c \notin u.todo BY <1>2, <2>1
    <3>2. \A j \in Up : launch[j].ok /\ launch[j].by = l => launch[j].conversation # c
      BY <1>1, <1>2, <1>3, <1>6 DEF Known
    <3> QED BY <2>1, <2>2, <2>5, <2>6, <2>7, <3>1, <3>2 DEF Making
  <2>10. Names(l)'
    <3>1. n \notin u.taken BY <1>6, <2>1 DEF TmuxName
    <3>2. \A j \in Slot : ~Mine(l, j) BY <1>1 DEF Mine
    <3> QED BY <1>1, <1>2, <1>3, <2>1, <2>2, <2>5, <2>6, <2>7, <3>1, <3>2 DEF Names, Up
  <2>11. Others(l, i)
    BY <1>6 DEF Others, Mine, Free, NoLaunch, IInv, TypeOK, OwnLaunch
  <2>12. Receipt(v) BY <2>2 DEF Receipt
  <2> QED BY <1>1, <2>1, <2>2, <2>3, <2>5, <2>8, <2>9, <2>10, <2>11, <2>12, BookStep
<1> QED BY <1>4, <1>5, <1>6

LEMMA AwaitBook ==
    ASSUME IInv, Book, NEW l \in Launcher, Await(l) PROVE Book'
<1>1. PICK i \in Slot : i = task[l].id /\ Others(l, i) /\ launch[i] \in Launch
                        /\ launch[i].by = l
  BY OwnSlot DEF Await, IInv
<1> DEFINE r == launch[i].receipt \in {"started", "exited"}
           u == [task[l] EXCEPT !.step = "choose", !.id = None,
                        !.taken = @ \cup {launch[i].name},
                        !.marked = IF r THEN @ \ {launch[i].conversation} ELSE @]
           v == IF launch[i].at = "gone" THEN NoLaunch ELSE [launch[i] EXCEPT !.ok = r]
<1>2. task[l].step = "await" /\ task[l] \in Task BY DEF Await, IInv, TypeOK
<1>3. launch[i].at \in {"up", "gone"} BY <1>1, <1>2 DEF IInv, Stages, Stage
<1>4. task' = [task EXCEPT ![l] = u] BY <1>1 DEF Await, Reported, Become
<1>5. launch' = [launch EXCEPT ![i] = v] BY <1>1 DEF Await, Reported, IInv, TypeOK
<1>6. \/ v.at = "no" /\ Receipt(v)
      \/ /\ launch[i].at = "up" /\ v.at = "up" /\ v.by = l /\ Receipt(v)
         /\ v.conversation = launch[i].conversation
         /\ v.name = launch[i].name
  <2>1. CASE launch[i].at = "gone" BY <2>1 DEF NoLaunch, Receipt
  <2>2. CASE launch[i].at = "up"
    <3>1. launch[i].receipt \in {"none", "started"}
      BY <2>2 DEF Book, Receipt
    <3>2. /\ v.at = "up" /\ v.by = l /\ v.receipt = launch[i].receipt /\ v.ok = r
          /\ v.conversation = launch[i].conversation
          /\ v.name = launch[i].name
      BY <1>1, <2>2 DEF Launch
    <3>3. v.ok => v.receipt = "started" BY <3>1, <3>2
    <3> QED BY <2>2, <3>1, <3>2, <3>3 DEF Receipt
  <2> QED BY <1>3, <2>1, <2>2
<1>7. /\ u.step = "choose" /\ u.seen = task[l].seen /\ u.todo = task[l].todo
      /\ u.taken = task[l].taken \cup {launch[i].name} /\ u.listed = task[l].listed
  BY <1>2 DEF Task
<1> HIDE DEF u, v, r
<1>8. launch'[i] = v /\ \A j \in Slot \ {i} : launch'[j] = launch[j]
  BY <1>5 DEF IInv, TypeOK
<1>9. task'[l] = u BY <1>4 DEF IInv, TypeOK
<1>10. \A j \in Up' : j # i => j \in Up /\ launch'[j] = launch[j]
  BY <1>8 DEF Up
<1>11. Known(l) /\ Making(l) /\ Names(l) BY DEF Book
<1>12. Known(l)'
  <2> SUFFICES ASSUME NEW j \in Up', launch'[j].ok, launch'[j].by = l
               PROVE  \/ launch'[j].conversation \in u.seen
                      \/ launch'[j].conversation \notin u.todo
    BY <1>7, <1>9 DEF Known
  <2>1. CASE j = i
    <3>1. launch'[i].conversation = launch[i].conversation
      BY <1>6, <1>8, <2>1 DEF Up
    <3>2. launch[i].conversation \notin task[l].todo
      BY <1>1, <1>2, <1>11 DEF Making
    <3> QED BY <1>7, <2>1, <3>1, <3>2
  <2>2. CASE j # i BY <1>2, <1>7, <1>10, <1>11, <2>2 DEF Known
  <2> QED BY <2>1, <2>2
<1>13. Making(l)' BY <1>7, <1>9 DEF Making
<1>14. Names(l)'
  <2> SUFFICES ASSUME u.listed, NEW j \in Up', launch'[j].by = l, ~launch'[j].late
               PROVE  launch'[j].name \in u.taken
    BY <1>7, <1>9 DEF Names
  <2>1. CASE j = i BY <1>6, <1>7, <1>8, <2>1 DEF Up
  <2>2. CASE j # i
    <3>1. ~Mine(l, j) BY <1>1, <2>2 DEF Mine
    <3> QED BY <1>2, <1>7, <1>10, <1>11, <2>2, <3>1 DEF Names
  <2> QED BY <2>1, <2>2
<1> QED BY <1>1, <1>2, <1>4, <1>6, <1>8, <1>12, <1>13, <1>14, BookStep

\* The launch i changes without its launcher: it comes up late, or its session
\* ends or is heard of.
LEMMA BookLaunch ==
    ASSUME IInv, Book, NEW i \in Slot, NEW v, task' = task,
           launch' = [launch EXCEPT ![i] = v], Receipt(v), v.at # "chosen",
           \/ /\ launch[i].at = "late" \/ \A l \in Launcher : ~Mine(l, i)
              /\ v.at = "no"
           \/ /\ v.by = launch[i].by /\ v.conversation = launch[i].conversation
              /\ v.name = launch[i].name /\ v.ok = launch[i].ok
              /\ v.late = launch[i].late
              /\ \/ launch[i].at = "late" /\ v.at = "up"
                 \/ launch[i].at = "up" /\ v.at \in {"up", "gone"}
    PROVE  Book'
<1>1. launch'[i] = v /\ \A j \in Slot \ {i} : launch'[j] = launch[j]
  BY DEF IInv, TypeOK
<1>2. ASSUME NEW j \in Slot PROVE Receipt(launch'[j]) /\ Chosen(j)'
  <2>1. CASE j = i BY <1>1, <2>1 DEF Chosen
  <2>2. CASE j # i BY <1>1, <2>2 DEF Book, Chosen
  <2> QED BY <2>1, <2>2
<1>3. ASSUME NEW l \in Launcher PROVE Known(l)' /\ Making(l)' /\ Names(l)'
  <2>1. Known(l) /\ Making(l) /\ Names(l) BY DEF Book
  <2>2. launch[i].at = "late" => ~Mine(l, i) /\ ~launch[i].ok /\ launch[i].late
    BY DEF Mine, IInv, TypeOK, Stages, Stage, Task, Book, Receipt
  <2>3. \A j \in Up' : launch'[j].ok
           => /\ j \in Up /\ launch[j].ok /\ launch'[j].by = launch[j].by
              /\ launch'[j].conversation = launch[j].conversation
    <3> SUFFICES ASSUME NEW j \in Up', launch'[j].ok
                 PROVE  /\ j \in Up /\ launch[j].ok /\ launch'[j].by = launch[j].by
                        /\ launch'[j].conversation = launch[j].conversation
      OBVIOUS
    <3>1. CASE j = i BY <1>1, <2>2, <3>1 DEF Up
    <3>2. CASE j # i BY <1>1, <3>2 DEF Up
    <3> QED BY <3>1, <3>2
  <2>4. \A j \in Up' : ~launch'[j].late
           => /\ j \in Up /\ ~launch[j].late /\ launch'[j].by = launch[j].by
              /\ launch'[j].name = launch[j].name
    <3> SUFFICES ASSUME NEW j \in Up', ~launch'[j].late
                 PROVE  /\ j \in Up /\ ~launch[j].late /\ launch'[j].by = launch[j].by
                        /\ launch'[j].name = launch[j].name
      OBVIOUS
    <3>1. CASE j = i BY <1>1, <2>2, <3>1 DEF Up
    <3>2. CASE j # i BY <1>1, <3>2 DEF Up
    <3> QED BY <3>1, <3>2
  <2>5. task[l].step \notin {"idle", "choose"}
        => /\ launch'[task[l].id].conversation = launch[task[l].id].conversation
           /\ launch'[task[l].id].name = launch[task[l].id].name
    <3> SUFFICES ASSUME task[l].step \notin {"idle", "choose"}
                 PROVE  /\ launch'[task[l].id].conversation = launch[task[l].id].conversation
                        /\ launch'[task[l].id].name = launch[task[l].id].name
      OBVIOUS
    <3>1. task[l].id \in Slot BY OwnSlot DEF IInv
    <3>2. CASE task[l].id # i BY <1>1, <3>1, <3>2
    <3>3. CASE task[l].id = i BY <1>1, <2>2, <3>3 DEF Mine
    <3> QED BY <3>2, <3>3
  <2>6. Known(l)' BY <2>1, <2>3 DEF Known
  <2>7. Making(l)' BY <2>1, <2>3, <2>5 DEF Making
  <2>8. Names(l)' BY <2>1, <2>4, <2>5 DEF Names, Mine
  <2> QED BY <2>6, <2>7, <2>8
<1> QED BY <1>2, <1>3 DEF Book

LEMMA ServeBook ==
    ASSUME IInv, Book, NEW i \in Slot, Serve(i) PROVE Book'
<1>1. launch[i].at = "late" /\ task' = task BY DEF Serve
<1>2. launch[i] \in Launch BY <1>1 DEF IInv, TypeOK, NoLaunch
<1>3. Receipt(launch[i]) BY DEF Book
<1>4. CASE ComesUp(i)
  <2> DEFINE v == [launch[i] EXCEPT !.at = "up"]
  <2>1. /\ v.at = "up" /\ v.by = launch[i].by /\ v.name = launch[i].name
        /\ v.conversation = launch[i].conversation /\ v.ok = launch[i].ok
        /\ v.late = launch[i].late /\ v.receipt = launch[i].receipt
    BY <1>2 DEF Launch
  <2>2. launch' = [launch EXCEPT ![i] = v] BY <1>4 DEF ComesUp, IInv, TypeOK
  <2> HIDE DEF v
  <2>3. Receipt(v) BY <1>1, <1>3, <2>1 DEF Receipt
  <2> QED BY <1>1, <2>1, <2>2, <2>3, BookLaunch
<1>5. CASE launch' = [launch EXCEPT ![i] = NoLaunch]
  <2>1. NoLaunch.at = "no" /\ Receipt(NoLaunch) BY DEF NoLaunch, Receipt
  <2> QED BY <1>1, <1>5, <2>1, BookLaunch
<1> QED BY <1>4, <1>5 DEF Serve

LEMMA MonitorBook ==
    ASSUME IInv, Book, NEW i \in Slot, Monitor(i) PROVE Book'
<1>1. launch[i].at = "up" /\ task' = task BY DEF Monitor
<1>2. launch[i] \in Launch BY <1>1 DEF IInv, TypeOK, NoLaunch
<1>3. Receipt(launch[i]) BY DEF Book
<1>4. CASE launch' = [launch EXCEPT ![i].receipt = "started"]
  <2> DEFINE v == [launch[i] EXCEPT !.receipt = "started"]
  <2>1. /\ v.at = "up" /\ v.by = launch[i].by /\ v.name = launch[i].name
        /\ v.conversation = launch[i].conversation /\ v.ok = launch[i].ok
        /\ v.late = launch[i].late /\ v.receipt = "started"
    BY <1>1, <1>2 DEF Launch
  <2>2. launch' = [launch EXCEPT ![i] = v] BY <1>4 DEF IInv, TypeOK
  <2> HIDE DEF v
  <2>3. Receipt(v) BY <2>1 DEF Receipt
  <2> QED BY <1>1, <2>1, <2>2, <2>3, BookLaunch
<1>5. CASE /\ \A l \in Launcher : task[l].id # i
           /\ launch' = [launch EXCEPT ![i] = NoLaunch]
  <2>1. NoLaunch.at = "no" /\ Receipt(NoLaunch) BY DEF NoLaunch, Receipt
  <2>2. \A l \in Launcher : ~Mine(l, i) BY <1>5 DEF Mine
  <2> QED BY <1>1, <1>5, <2>1, <2>2, BookLaunch
<1>6. ASSUME NEW last, launch' = [launch EXCEPT ![i].receipt = last, ![i].at = "gone"]
      PROVE  Book'
  <2> DEFINE v == [launch[i] EXCEPT !.receipt = last, !.at = "gone"]
  <2>1. /\ v.at = "gone" /\ v.by = launch[i].by /\ v.name = launch[i].name
        /\ v.conversation = launch[i].conversation /\ v.ok = launch[i].ok
        /\ v.late = launch[i].late
    BY <1>2 DEF Launch
  <2>2. launch' = [launch EXCEPT ![i] = v] BY <1>6 DEF IInv, TypeOK
  <2> HIDE DEF v
  <2>3. Receipt(v) BY <2>1 DEF Receipt
  <2> QED BY <1>1, <2>1, <2>2, <2>3, BookLaunch
<1> QED BY <1>4, <1>5, <1>6 DEF Monitor

LEMMA BookInitial == Init => Book
<1> SUFFICES ASSUME Init PROVE Book OBVIOUS
<1>1. \A l \in Launcher : task[l] = Fresh BY DEF Init
<1>2. \A i \in Slot : launch[i].at = "no" BY DEF Init, NoLaunch
<1>3. \A i \in Slot : Receipt(launch[i]) /\ Chosen(i) BY <1>2 DEF Receipt, Chosen
<1>4. Up = {} BY <1>2 DEF Up
<1>5. \A l \in Launcher : Known(l) /\ Making(l) /\ Names(l)
  BY <1>1, <1>4 DEF Known, Making, Names, Fresh
<1> QED BY <1>3, <1>5 DEF Book

LEMMA BookPreserved == IInv /\ Book /\ [Next]_vars => Book'
<1> SUFFICES ASSUME IInv, Book, [Next]_vars PROVE Book' OBVIOUS
<1>1. ASSUME NEW l \in Launcher, Begin(l) \/ Work(l) \/ Cancel(l) \/ AskTimesOut(l) \/ Crash(l)
      PROVE  Book'
  <2>1. CASE Work(l)
    BY <2>1, ChooseBook, EndBatchBook, AcquireBook, WaitOverBook, CreateBook,
       RefusedBook, StampBook, AwaitBook DEF Work, Answer
  <2> QED BY <1>1, <2>1, BeginBook, CancelBook, AskTimesOutBook, CrashBook
<1>2. ASSUME NEW i \in Slot, Serve(i) \/ Monitor(i) PROVE Book'
  BY <1>2, ServeBook, MonitorBook
<1>3. CASE Tick \/ SetClock \/ UNCHANGED vars
  <2>1. task' = task /\ launch' = launch BY <1>3 DEF Tick, SetClock, vars
  <2> QED BY <2>1 DEF Book, Receipt, Chosen, Known, Making, Names, Mine, Up
<1> QED BY <1>1, <1>2, <1>3 DEF Next

LEMMA Books == Spec => [](IInv /\ Book)
<1>1. Init => IInv /\ Book BY Initial, BookInitial
<1>2. IInv /\ Book /\ [Next]_vars => (IInv /\ Book)' BY Preserved, BookPreserved
<1> QED BY <1>1, <1>2, PTL DEF Spec

(* What a picker reports as started has had a child of its own             *)
(* (launch.wait_started, child_status), for any number of pickers and      *)
(* conversations.                                                          *)
THEOREM ReportedStarted == Spec => []OkStarted
<1>1. Book => OkStarted BY DEF Book, Receipt, OkStarted
<1> QED BY Books, <1>1, PTL

(* No picker starts a conversation again that it reported as started and   *)
(* that still runs, in the same batch or in a later one                    *)
(* (launch.restore_all, _check_live and the refresh of the picker).        *)
THEOREM NeverTwice == Spec => []StartedOnce
<1>1. ASSUME IInv, Book PROVE StartedOnce
  <2> SUFFICES ASSUME NEW i \in Slot, NEW j \in Slot,
                      launch[i].at = "up", launch[i].ok,
                      launch[j].at = "chosen", launch[j].by = launch[i].by
               PROVE  launch[i].conversation # launch[j].conversation
    BY DEF StartedOnce
  <2>1. /\ task[launch[j].by].step \in {"lock", "wait"}
        /\ task[launch[j].by].id = j
    BY <1>1 DEF Book, Chosen
  <2>2. launch[j].by \in Launcher BY <1>1 DEF IInv, TypeOK, Launch, NoLaunch
  <2>3. Making(launch[j].by) BY <1>1, <2>2 DEF Book
  <2> QED BY <2>1, <2>3 DEF Making, Up
<1>2. IInv /\ Book => StartedOnce BY <1>1
<1> QED BY Books, <1>2, PTL

(* A picker that could list the sessions of tmux is refused a name only    *)
(* when someone else has it, or a session of its own that it gave up on    *)
(* (launch.tmux_name and the names restore_all takes for used).            *)
THEOREM RefusedByOthers == Spec => OwnNames
<1> DEFINE Kept == \A l \in Launcher :
             /\ task[l].step = "ask" /\ task[l].listed
             /\ task'[l].step = "choose"
             => \A i \in Up : /\ launch[i].name = launch[task[l].id].name
                              /\ launch[i].by = l
                              => launch[i].late
<1>1. ASSUME IInv, Book, NEW l \in Launcher, task[l].step = "ask", task[l].listed,
             NEW i \in Up, launch[i].name = launch[task[l].id].name,
             launch[i].by = l
      PROVE  launch[i].late
  <2>1. Names(l) BY <1>1 DEF Book
  <2>2. launch[task[l].id].at = "asked" BY <1>1 DEF IInv, Stages, Stage
  <2>3. ~Mine(l, i) BY <1>1, <2>2 DEF Mine, Up
  <2> QED BY <1>1, <2>1, <2>3 DEF Names
<1>2. IInv /\ Book => Kept BY <1>1
<1>3. IInv /\ Book /\ [Next]_vars => [Kept]_vars BY <1>2
<1>4. [][Kept]_vars => OwnNames BY PTL DEF OwnNames
<1> QED BY Books, <1>3, <1>4, PTL DEF Spec
=============================================================================
