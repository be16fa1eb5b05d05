-------------------------- MODULE LaptopRuns_proofs --------------------------
(***************************************************************************)
(* Proofs about the run registry: the types of the specification and, for  *)
(* any number of desktops, profiles and process numbers, that a signal     *)
(* only ever reaches a session of the profile it is meant for, that a      *)
(* session that was opened alone stays the one the registry names, and     *)
(* that a close that succeeds has ended the sessions known to be open.     *)
(*                                                                         *)
(* The first argument (IInv) is about births.  A number may change hands   *)
(* between any two steps, but as long as a birth is alive no other process *)
(* has its number: what /proc says of the number after the handle was      *)
(* opened is about the process of the handle, or the handle is dead.  The  *)
(* second one (Reach) is about who may be at the files of a profile.       *)
(***************************************************************************)
EXTENDS LaptopRuns, TLAPS

ChildStep == {"settle", "create", "write", "rename", "cancel"}
HandleStep == {"examine", "compare", "signal"}

\* No two processes have a birth in common.
ProcsOK ==
    \A q \in Pid :
       /\ proc[q].state = "none" => proc[q] = NoProcess
       /\ proc[q].state # "none" =>
             /\ proc[q].birth \in 1..born
             /\ \A r \in Pid \ {q} : proc[r].birth # proc[q].birth

\* An identity in a file of p is that of a session of p.
IdentityOf(p, c) ==
    c \in Nat => /\ c \in 1..born
                 /\ \A q \in Pid : proc[q].birth = c => proc[q].of = p

IdentitiesOK ==
    \A p \in Profile : /\ IdentityOf(p, registry[p]["identity"].tmp)
                       /\ IdentityOf(p, registry[p]["identity"].pub)

\* The child of an open is there until the open is over.
ChildOK(s) ==
    /\ proc[task[s].pid].state # "none"
    /\ proc[task[s].pid].birth = task[s].birth
    /\ proc[task[s].pid].of = task[s].profile
    /\ proc[task[s].pid].by = s

\* The process of a handle has the number it was found by, or none.
HandleOK(s) ==
    /\ task[s].birth \in 1..born
    /\ \A q \in Pid : proc[q].birth = task[s].birth => q = task[s].pid
    /\ proc[task[s].pid].birth = task[s].birth =>
          /\ task[s].step = "compare" => task[s].actual = task[s].birth
          /\ task[s].step = "signal" => proc[task[s].pid].of = task[s].profile

TaskOK(s) ==
    /\ task[s].step # "idle" => task[s].profile \in Profile
    /\ task[s].step \in {"probe", "handle"} \cup ChildStep \cup HandleStep
          => task[s].pid \in Pid
    /\ task[s].step \in ChildStep => ChildOK(s)
    /\ task[s].step \in HandleStep => HandleOK(s)

TasksOK == \A s \in Surface : TaskOK(s)

IInv == TypeOK /\ ProcsOK /\ IdentitiesOK /\ TasksOK

-----------------------------------------------------------------------------
(* What a step does to the processes.                                      *)

\* A process ends, stays the one it is, or is the one that starts.
Became(q) ==
    \/ proc'[q] = NoProcess
    \/ /\ proc[q].state # "none" /\ proc'[q].state # "none"
       /\ proc'[q].birth = proc[q].birth
       /\ proc'[q].of = proc[q].of
    \/ /\ proc'[q].state # "none"
       /\ proc'[q].birth = born + 1 /\ born' = born + 1
       /\ \A r \in Pid \ {q} : proc'[r] = proc[r]

Evolved ==
    /\ proc' \in [Pid -> Process]
    /\ born' \in Nat /\ born <= born'
    /\ \A q \in Pid : Became(q)

\* The child of the open of s is still there.
ChildStays(s) ==
    task[s].step \in ChildStep =>
       /\ proc'[task[s].pid].state # "none"
       /\ proc'[task[s].pid].birth = proc[task[s].pid].birth
       /\ proc'[task[s].pid].of = proc[task[s].pid].of
       /\ proc'[task[s].pid].by = s

\* The task of s differs in nothing but its ghosts and its open file.
SameTask(s) ==
    /\ task'[s].step = task[s].step
    /\ task'[s].profile = task[s].profile
    /\ task'[s].pid = task[s].pid
    /\ task'[s].birth = task[s].birth
    /\ task'[s].actual = task[s].actual

\* Births stay apart.
LEMMA EvolvedProcs ==
    ASSUME IInv, Evolved PROVE ProcsOK'
<1> SUFFICES ASSUME NEW q \in Pid
             PROVE  /\ proc'[q].state = "none" => proc'[q] = NoProcess
                    /\ proc'[q].state # "none" =>
                          /\ proc'[q].birth \in 1..born'
                          /\ \A r \in Pid \ {q} : proc'[r].birth # proc'[q].birth
  BY DEF ProcsOK
<1>0. /\ proc \in [Pid -> Process] /\ born \in Nat /\ born' \in Nat
      /\ born <= born' /\ proc' \in [Pid -> Process]
  BY DEF IInv, TypeOK, Evolved
<1>1. proc'[q].state = "none" => proc'[q] = NoProcess
  BY DEF Evolved, Became
<1>2. ASSUME proc'[q].state # "none" PROVE proc'[q].birth \in 1..born'
  <2>1. CASE proc[q].state # "none" /\ proc'[q].birth = proc[q].birth
    BY <2>1, <1>0 DEF IInv, ProcsOK
  <2>2. CASE proc'[q].birth = born + 1 /\ born' = born + 1
    BY <2>2, <1>0
  <2> QED
    BY <1>2, <2>1, <2>2 DEF Evolved, Became, NoProcess
<1>3. ASSUME proc'[q].state # "none", NEW r \in Pid \ {q}
      PROVE  proc'[r].birth # proc'[q].birth
  <2>0. \A x \in Pid : proc[x].birth # born + 1
    BY <1>0 DEF IInv, ProcsOK, NoProcess
  <2>1. CASE proc'[r] = NoProcess
    <3>1. proc'[q].birth # 0
      BY <1>2, <1>3, <1>0
    <3> QED
      BY <2>1, <3>1 DEF NoProcess
  <2>2. CASE proc'[q].birth = born + 1 /\ \A x \in Pid \ {q} : proc'[x] = proc[x]
    BY <2>2, <2>0
  <2>3. CASE proc'[r].birth = born + 1 /\ \A x \in Pid \ {r} : proc'[x] = proc[x]
    <3>1. proc'[q] = proc[q]
      BY <2>3
    <3> QED
      BY <2>3, <3>1, <2>0
  <2>4. CASE /\ proc[q].state # "none" /\ proc'[q].birth = proc[q].birth
             /\ proc[r].state # "none" /\ proc'[r].birth = proc[r].birth
    BY <2>4 DEF IInv, ProcsOK
  <2> QED
    BY <1>3, <2>1, <2>2, <2>3, <2>4 DEF Evolved, Became, NoProcess
<1> QED
  BY <1>1, <1>2, <1>3

\* A birth that is known stays what it was.
LEMMA EvolvedBirth ==
    ASSUME IInv, Evolved, NEW b \in 1..born, NEW q \in Pid, proc'[q].birth = b
    PROVE  proc[q].birth = b /\ proc'[q].of = proc[q].of
BY DEF IInv, TypeOK, Evolved, Became, NoProcess

LEMMA EvolvedIdentity ==
    ASSUME IInv, Evolved, NEW p \in Profile, NEW c, IdentityOf(p, c)
    PROVE  c \in Nat => /\ c \in 1..born'
                        /\ \A q \in Pid : proc'[q].birth = c => proc'[q].of = p
<1> SUFFICES ASSUME c \in Nat
             PROVE  /\ c \in 1..born'
                    /\ \A q \in Pid : proc'[q].birth = c => proc'[q].of = p
  OBVIOUS
<1>1. c \in 1..born /\ \A q \in Pid : proc[q].birth = c => proc[q].of = p
  BY DEF IdentityOf
<1>2. c \in 1..born'
  BY <1>1 DEF IInv, TypeOK, Evolved
<1>3. ASSUME NEW q \in Pid, proc'[q].birth = c PROVE proc'[q].of = p
  BY <1>1, <1>3, EvolvedBirth
<1> QED
  BY <1>2, <1>3

\* The tasks a step does not touch.
LEMMA EvolvedTask ==
    ASSUME IInv, Evolved, NEW s \in Surface, SameTask(s), ChildStays(s)
    PROVE  TaskOK(s)'
<1>0. TaskOK(s)
  BY DEF IInv, TasksOK
<1>1. task'[s].step # "idle" => task'[s].profile \in Profile
  BY <1>0 DEF TaskOK, SameTask
<1>2. task'[s].step \in {"probe", "handle"} \cup ChildStep \cup HandleStep
         => task'[s].pid \in Pid
  BY <1>0 DEF TaskOK, SameTask
<1>3. ASSUME task'[s].step \in ChildStep PROVE ChildOK(s)'
  BY <1>0, <1>3 DEF TaskOK, SameTask, ChildStays, ChildOK
<1>4. ASSUME task'[s].step \in HandleStep PROVE HandleOK(s)'
  <2>1. HandleOK(s) /\ task[s].pid \in Pid
    BY <1>0, <1>4 DEF TaskOK, SameTask
  <2>2. task[s].birth \in 1..born'
    BY <2>1 DEF HandleOK, IInv, TypeOK, Evolved
  <2>3. \A q \in Pid : proc'[q].birth = task[s].birth
                        => proc[q].birth = task[s].birth /\ proc'[q].of = proc[q].of
    BY <2>1, EvolvedBirth DEF HandleOK
  <2> QED
    BY <2>1, <2>2, <2>3 DEF HandleOK, SameTask
<1> QED
  BY <1>1, <1>2, <1>3, <1>4 DEF TaskOK

-----------------------------------------------------------------------------
(* The shapes a step has.                                                  *)

LEMMA SameProcesses ==
    ASSUME IInv, UNCHANGED <<proc, born>>
    PROVE  Evolved /\ \A r \in Surface : ChildStays(r)
<1>1. \A q \in Pid : Became(q)
  BY DEF IInv, ProcsOK, Became
<1>2. Evolved
  BY <1>1 DEF IInv, TypeOK, Evolved
<1>3. ASSUME NEW r \in Surface PROVE ChildStays(r)
  BY DEF IInv, TasksOK, TaskOK, ChildOK, ChildStays
<1> QED
  BY <1>2, <1>3

\* Files and tasks after a step of the processes, and of one desktop.
LEMMA Around ==
    ASSUME IInv, TypeOK', Evolved, IdentitiesOK',
           NEW S \in SUBSET Surface,
           \A s \in S : TaskOK(s)',
           \A r \in Surface \ S : SameTask(r) /\ ChildStays(r)
    PROVE  IInv'
<1>1. ProcsOK'
  BY EvolvedProcs
<1>2. ASSUME NEW r \in Surface PROVE TaskOK(r)'
  <2>1. CASE r \in S
    BY <2>1
  <2>2. CASE r \notin S
    BY <2>2, EvolvedTask
  <2> QED
    BY <2>1, <2>2
<1>3. TasksOK'
  BY <1>2 DEF TasksOK
<1> QED
  BY <1>1, <1>3 DEF IInv

LEMMA SameFiles ==
    ASSUME IInv, Evolved,
           \A p \in Profile : registry'[p]["identity"] = registry[p]["identity"]
    PROVE  IdentitiesOK'
<1> SUFFICES ASSUME NEW p \in Profile
             PROVE  /\ IdentityOf(p, registry[p]["identity"].tmp)'
                    /\ IdentityOf(p, registry[p]["identity"].pub)'
  BY DEF IdentitiesOK
<1>1. /\ IdentityOf(p, registry[p]["identity"].tmp)
      /\ IdentityOf(p, registry[p]["identity"].pub)
  BY DEF IInv, IdentitiesOK
<1> QED
  BY <1>1, EvolvedIdentity DEF IdentityOf

\* A step that changes the task of one desktop and no file.
LEMMA OwnStep ==
    ASSUME IInv, NEW s \in Surface, NEW t \in Task,
           UNCHANGED <<proc, born, registry, clean, faults>>,
           signalled' \subseteq Nat,
           task' = [task EXCEPT ![s] = t],
           TaskOK(s)'
    PROVE  IInv'
<1>1. TypeOK'
  BY DEF IInv, TypeOK
<1>2. Evolved /\ \A r \in Surface : ChildStays(r)
  BY SameProcesses
<1>3. IdentitiesOK'
  BY <1>2, SameFiles
<1>4. \A r \in Surface \ {s} : SameTask(r)
  BY DEF SameTask, IInv, TypeOK
<1>5. {s} \in SUBSET Surface /\ \A r \in {s} : TaskOK(r)'
  OBVIOUS
<1> QED
  BY <1>1, <1>2, <1>3, <1>4, <1>5, Around

LEMMA IdleType ==
    /\ Idle \in Task /\ Idle.step = "idle"
    /\ \A p \in Profile : [Idle EXCEPT !.profile = p] \in Task
    /\ \A p \in Profile \cup {None}, o \in SUBSET Nat, c \in BOOLEAN :
          [Idle EXCEPT !.profile = p, !.owed = o, !.closed = c] \in Task
BY DEF Idle, Task, File

\* A desktop that is idle owes nothing.
LEMMA IdleOK ==
    ASSUME NEW s \in Surface, task'[s].step = "idle"
    PROVE  TaskOK(s)'
BY DEF TaskOK, ChildStep, HandleStep

LEMMA TaskType ==
    ASSUME IInv, NEW s \in Surface
    PROVE  /\ task \in [Surface -> Task] /\ task[s] \in Task
           /\ TaskOK(s)
           /\ proc \in [Pid -> Process] /\ born \in Nat
BY DEF IInv, TypeOK, TasksOK

\* A desktop goes back to idle and does nothing else.
LEMMA IdleStep ==
    ASSUME IInv, NEW s \in Surface, NEW t \in Task, t.step = "idle",
           UNCHANGED <<proc, born, registry, clean, faults>>,
           signalled' \subseteq Nat,
           task' = [task EXCEPT ![s] = t]
    PROVE  IInv'
<1>1. task'[s].step = "idle"
  BY TaskType
<1> QED
  BY <1>1, IdleOK, OwnStep

\* A close answers.
LEMMA AnsweredType ==
    ASSUME NEW t \in Task, NEW c \in BOOLEAN
    PROVE  /\ [Idle EXCEPT !.profile = t.profile, !.owed = t.owed,
                           !.closed = c] \in Task
           /\ [Idle EXCEPT !.profile = t.profile, !.owed = t.owed,
                           !.closed = c].step = "idle"
BY DEF Idle, Task, File

-----------------------------------------------------------------------------
(* Close.                                                                  *)

LEMMA CloseReadStep ==
    ASSUME IInv, NEW s \in Surface, NEW p \in Profile, CloseRead(s, p)
    PROVE  IInv'
<1> DEFINE t == [Idle EXCEPT !.profile = p,
                             !.owed = (clean \cap SessionsOf(p)) \ signalled]
<1>1. t \in Task
  <2>1. (clean \cap SessionsOf(p)) \ signalled \in SUBSET Nat
    BY DEF IInv, TypeOK
  <2> QED
    BY <2>1 DEF Idle, Task, File
<1>2. signalled' \subseteq Nat
  BY DEF CloseRead, IInv, TypeOK
<1>3. CASE Answered(s, t, ReadRegisteredPid(p) = "none")
  BY <1>1, <1>2, <1>3, AnsweredType, IdleStep DEF CloseRead, Answered
<1>4. CASE /\ ReadRegisteredPid(p) = "pid"
           /\ task' = [task EXCEPT ![s] = [t EXCEPT !.step = "handle",
                                             !.pid = Published(p, "pid")]]
  <2> DEFINE u == [t EXCEPT !.step = "handle", !.pid = Published(p, "pid")]
  <2>1. Published(p, "pid") \in Pid
    BY <1>4 DEF ReadRegisteredPid
  <2>2. u \in Task /\ u.step = "handle" /\ u.pid \in Pid /\ u.profile = p
    BY <1>1, <2>1 DEF Task, CloseStep, Idle
  <2>3. task'[s] = u
    BY <1>4, TaskType
  <2>4. TaskOK(s)'
    BY <2>2, <2>3 DEF TaskOK, ChildStep, HandleStep
  <2> QED
    BY <1>2, <1>4, <2>2, <2>4, OwnStep DEF CloseRead
<1> QED
  BY <1>3, <1>4 DEF CloseRead

LEMMA CloseHandleStep ==
    ASSUME IInv, NEW s \in Surface, CloseHandle(s)
    PROVE  IInv'
<1> DEFINE t == task[s]
<1>0. /\ t \in Task /\ t.step = "handle" /\ t.pid \in Pid /\ t.profile \in Profile
      /\ signalled' \subseteq Nat
  BY TaskType DEF CloseHandle, TaskOK, IInv, TypeOK
<1>1. CASE Answered(s, t, TRUE)
  BY <1>0, <1>1, AnsweredType, IdleStep DEF CloseHandle, Answered
<1>2. CASE /\ proc[t.pid].state # "none"
           /\ task' = [task EXCEPT ![s] = [t EXCEPT !.step = "examine",
                                             !.birth = proc[t.pid].birth]]
  <2> DEFINE u == [t EXCEPT !.step = "examine", !.birth = proc[t.pid].birth]
  <2>1. proc[t.pid].birth \in 1..born
        /\ \A q \in Pid : proc[q].birth = proc[t.pid].birth => q = t.pid
    BY <1>0, <1>2 DEF IInv, ProcsOK
  <2>2. /\ u \in Task /\ u.step = "examine" /\ u.pid = t.pid
        /\ u.profile = t.profile /\ u.birth = proc[t.pid].birth
    <3>1. proc[t.pid].birth \in Nat
      BY <2>1, TaskType
    <3> QED
      BY <1>0, <3>1 DEF Task, CloseStep
  <2>3. task'[s] = u /\ proc' = proc /\ born' = born
    BY <1>2, TaskType DEF CloseHandle
  <2>4. HandleOK(s)'
    BY <2>1, <2>2, <2>3 DEF HandleOK
  <2>5. TaskOK(s)'
    BY <1>0, <2>2, <2>3, <2>4 DEF TaskOK, ChildStep, HandleStep
  <2> QED
    BY <1>0, <1>2, <2>2, <2>5, OwnStep DEF CloseHandle
<1> QED
  BY <1>1, <1>2 DEF CloseHandle

LEMMA CloseExamineStep ==
    ASSUME IInv, NEW s \in Surface, CloseExamine(s)
    PROVE  IInv'
<1> DEFINE t == task[s]
<1>0. /\ t \in Task /\ t.step = "examine" /\ t.pid \in Pid /\ t.profile \in Profile
      /\ signalled' \subseteq Nat /\ HandleOK(s)
  BY TaskType DEF CloseExamine, TaskOK, HandleStep, IInv, TypeOK
<1>1. CASE Answered(s, t, FALSE)
  BY <1>0, <1>1, AnsweredType, IdleStep DEF CloseExamine, Answered
<1>2. CASE /\ ProcessIdentity(t.pid) # 0
           /\ task' = [task EXCEPT ![s] = [t EXCEPT !.step = "compare",
                                             !.actual = ProcessIdentity(t.pid)]]
  <2> DEFINE u == [t EXCEPT !.step = "compare", !.actual = ProcessIdentity(t.pid)]
  <2>1. ProcessIdentity(t.pid) = proc[t.pid].birth
    BY <1>2 DEF ProcessIdentity
  <2>2. proc[t.pid].birth \in Nat
    BY <1>0 DEF IInv, TypeOK, Process
  <2>3. /\ u \in Task /\ u.step = "compare" /\ u.pid = t.pid
        /\ u.profile = t.profile /\ u.birth = t.birth
        /\ u.actual = proc[t.pid].birth
    BY <1>0, <2>1, <2>2 DEF Task, CloseStep
  <2>4. task'[s] = u /\ proc' = proc /\ born' = born
    BY <1>2, TaskType DEF CloseExamine
  <2>5. HandleOK(s)'
    BY <1>0, <2>3, <2>4 DEF HandleOK
  <2>6. TaskOK(s)'
    BY <1>0, <2>3, <2>4, <2>5 DEF TaskOK, ChildStep, HandleStep
  <2> QED
    BY <1>0, <1>2, <2>3, <2>6, OwnStep DEF CloseExamine
<1> QED
  BY <1>1, <1>2 DEF CloseExamine

\* What matches the file of p is of p, if it is what the handle holds.
LEMMA CloseCompareStep ==
    ASSUME IInv, NEW s \in Surface, CloseCompare(s)
    PROVE  IInv'
<1> DEFINE t == task[s]
<1>0. /\ t \in Task /\ t.step = "compare" /\ t.pid \in Pid /\ t.profile \in Profile
      /\ signalled' \subseteq Nat /\ HandleOK(s)
  BY TaskType DEF CloseCompare, TaskOK, HandleStep, IInv, TypeOK
<1>1. CASE Answered(s, t, FALSE)
  BY <1>0, <1>1, AnsweredType, IdleStep DEF CloseCompare, Answered
<1>2. CASE /\ IdentityMatches(t.profile, t.actual)
           /\ task' = [task EXCEPT ![s].step = "signal"]
  <2> DEFINE u == [t EXCEPT !.step = "signal"]
  <2>1. /\ u \in Task /\ u.step = "signal" /\ u.pid = t.pid
        /\ u.profile = t.profile /\ u.birth = t.birth
    BY <1>0 DEF Task, CloseStep
  <2>2. task' = [task EXCEPT ![s] = u]
    BY <1>2
  <2>3. task'[s] = u /\ proc' = proc /\ born' = born
    BY <2>2, TaskType DEF CloseCompare
  <2>4. IdentityOf(t.profile, registry[t.profile]["identity"].pub)
    BY <1>0 DEF IInv, IdentitiesOK
  <2>5. ASSUME proc[t.pid].birth = t.birth PROVE proc[t.pid].of = t.profile
    <3>1. registry[t.profile]["identity"].pub = t.birth
      BY <1>0, <1>2, <2>5 DEF HandleOK, IdentityMatches, Published
    <3> QED
      BY <1>0, <2>4, <2>5, <3>1 DEF IdentityOf, Task
  <2>6. HandleOK(s)'
    BY <1>0, <2>1, <2>3, <2>5 DEF HandleOK
  <2>7. TaskOK(s)'
    BY <1>0, <2>1, <2>3, <2>6 DEF TaskOK, ChildStep, HandleStep
  <2> QED
    BY <1>0, <2>1, <2>2, <2>7, OwnStep DEF CloseCompare
<1> QED
  BY <1>1, <1>2 DEF CloseCompare

LEMMA CloseSignalStep ==
    ASSUME IInv, NEW s \in Surface, CloseSignal(s)
    PROVE  IInv'
<1>0. task[s] \in Task
  BY TaskType
<1>1. signalled' \subseteq Nat
  BY <1>0 DEF CloseSignal, Target, Task, IInv, TypeOK
<1> QED
  BY <1>0, <1>1, AnsweredType, IdleStep DEF CloseSignal, Answered

-----------------------------------------------------------------------------
(* Processes that come and go.                                             *)

\* A step of the processes alone.
LEMMA ProcStep ==
    ASSUME IInv, Evolved, UNCHANGED <<registry, task, signalled, faults>>,
           clean' \subseteq clean,
           \A s \in Surface : ChildStays(s)
    PROVE  IInv'
<1>1. TypeOK'
  BY DEF IInv, TypeOK, Evolved
<1>2. \A s \in Surface : SameTask(s)
  BY DEF SameTask
<1>3. IdentitiesOK'
  BY SameFiles
<1>4. {} \in SUBSET Surface
  OBVIOUS
<1> QED
  BY <1>1, <1>2, <1>3, <1>4, Around

\* A process that starts takes a number that nobody has.
LEMMA StartStep ==
    ASSUME IInv, NEW q \in Pid, NEW p \in Profile \cup {None},
           NEW by \in Surface \cup {None}, Start(q, p, by)
    PROVE  /\ Evolved
           /\ \A s \in Surface : ChildStays(s)
           /\ proc'[q] = [birth |-> born + 1, state |-> "run", of |-> p, by |-> by]
           /\ born' = born + 1
<1>0. proc \in [Pid -> Process] /\ born \in Nat
  BY DEF IInv, TypeOK
<1>1. /\ proc'[q] = [birth |-> born + 1, state |-> "run", of |-> p, by |-> by]
      /\ \A r \in Pid \ {q} : proc'[r] = proc[r]
      /\ born' = born + 1 /\ proc' \in [Pid -> Process]
  BY <1>0 DEF Start, Process
<1>2. \A r \in Pid : Became(r)
  <2>1. Became(q)
    BY <1>1 DEF Became
  <2>2. ASSUME NEW r \in Pid \ {q} PROVE Became(r)
    BY <1>1 DEF Became, IInv, ProcsOK
  <2> QED
    BY <2>1, <2>2
<1>3. Evolved
  BY <1>0, <1>1, <1>2 DEF Evolved
<1>4. ASSUME NEW s \in Surface PROVE ChildStays(s)
  <2>1. CASE task[s].step \in ChildStep
    <3>1. task[s].pid \in Pid /\ ChildOK(s)
      BY <2>1, TaskType DEF TaskOK
    <3>2. task[s].pid # q
      BY <3>1 DEF ChildOK, Start, NoProcess
    <3> QED
      BY <1>1, <3>1, <3>2 DEF ChildStays, ChildOK
  <2>2. CASE task[s].step \notin ChildStep
    BY <2>2 DEF ChildStays
  <2> QED
    BY <2>1, <2>2
<1> QED
  BY <1>1, <1>3, <1>4

LEMMA StartOtherStep ==
    ASSUME IInv, NEW q \in Pid, StartOther(q)
    PROVE  IInv'
<1>1. Start(q, None, None)
  BY DEF StartOther
<1>2. Evolved /\ \A s \in Surface : ChildStays(s)
  BY <1>1, StartStep
<1> QED
  BY <1>2, ProcStep DEF StartOther

LEMMA HostOpenStep ==
    ASSUME IInv, NEW p \in Profile, NEW q \in Pid, HostOpen(p, q)
    PROVE  IInv'
<1>1. Evolved /\ \A s \in Surface : ChildStays(s)
  BY StartStep DEF HostOpen
<1>2. registry' \in [Profile -> [File -> [tmp : Content, pub : Content]]]
  BY DEF HostOpen, IInv, TypeOK, Content, File
<1>3. TypeOK'
  BY <1>1, <1>2 DEF HostOpen, IInv, TypeOK, Evolved
<1>4. \A x \in Profile : registry'[x]["identity"] = registry[x]["identity"]
  BY DEF HostOpen, IInv, TypeOK, File
<1>5. IdentitiesOK'
  BY <1>1, <1>4, SameFiles
<1>6. \A s \in Surface : SameTask(s)
  BY DEF HostOpen, SameTask
<1>7. {} \in SUBSET Surface
  OBVIOUS
<1> QED
  BY <1>1, <1>3, <1>5, <1>6, <1>7, Around

LEMMA ExitStep ==
    ASSUME IInv, NEW q \in Pid, Exit(q)
    PROVE  IInv'
<1>0. proc \in [Pid -> Process] /\ born \in Nat
  BY DEF IInv, TypeOK
<1>1. proc'[q] = NoProcess
      \/ /\ proc'[q].state = "zombie" /\ proc'[q].birth = proc[q].birth
         /\ proc'[q].of = proc[q].of /\ proc'[q].by = proc[q].by
  BY <1>0 DEF Exit, Process
<1>2. /\ \A r \in Pid \ {q} : proc'[r] = proc[r]
      /\ proc[q].state = "run"
      /\ proc[q].by # None => proc'[q].state = "zombie"
      /\ proc' \in [Pid -> Process]
  <2>1. NoProcess \in Process /\ [proc[q] EXCEPT !.state = "zombie"] \in Process
    BY <1>0 DEF NoProcess, Process
  <2> QED
    BY <1>0, <2>1 DEF Exit, Process
<1>3. \A r \in Pid : Became(r)
  <2>1. Became(q)
    BY <1>1, <1>2 DEF Became
  <2>2. ASSUME NEW r \in Pid \ {q} PROVE Became(r)
    BY <1>2 DEF Became, IInv, ProcsOK
  <2> QED
    BY <2>1, <2>2
<1>4. Evolved
  BY <1>0, <1>2, <1>3 DEF Evolved, Exit
<1>5. ASSUME NEW s \in Surface PROVE ChildStays(s)
  <2>1. CASE task[s].step \in ChildStep
    <3>1. task[s].pid \in Pid /\ ChildOK(s) /\ s # None
      BY <2>1, TaskType, ConstantsOK DEF TaskOK
    <3>2. CASE task[s].pid = q
      BY <1>1, <1>2, <3>1, <3>2 DEF ChildStays, ChildOK, NoProcess
    <3>3. CASE task[s].pid # q
      BY <1>2, <3>1, <3>3 DEF ChildStays, ChildOK
    <3> QED
      BY <3>2, <3>3
  <2>2. CASE task[s].step \notin ChildStep
    BY <2>2 DEF ChildStays
  <2> QED
    BY <2>1, <2>2
<1> QED
  BY <1>4, <1>5, ProcStep DEF Exit

LEMMA ReapChildrenStep ==
    ASSUME IInv, NEW s \in Surface, ReapChildren(s)
    PROVE  IInv'
<1>0. proc \in [Pid -> Process] /\ born \in Nat
  BY DEF IInv, TypeOK
<1>1. \A q \in Pid : (proc'[q] = NoProcess /\ proc[q].by = s) \/ proc'[q] = proc[q]
  BY DEF ReapChildren
<1>2. proc' \in [Pid -> Process]
  <2>1. NoProcess \in Process
    BY DEF NoProcess, Process
  <2> QED
    BY <1>0, <2>1 DEF ReapChildren
<1>3. \A q \in Pid : Became(q)
  BY <1>1 DEF Became, IInv, ProcsOK
<1>4. Evolved
  BY <1>0, <1>2, <1>3 DEF Evolved, ReapChildren
<1>5. ASSUME NEW r \in Surface PROVE ChildStays(r)
  <2>1. CASE task[r].step \in ChildStep
    <3>1. task[r].pid \in Pid /\ ChildOK(r) /\ r # s
      BY <2>1, TaskType DEF TaskOK, ReapChildren, ChildStep
    <3> QED
      BY <1>1, <3>1 DEF ChildStays, ChildOK
  <2>2. CASE task[r].step \notin ChildStep
    BY <2>2 DEF ChildStays
  <2> QED
    BY <2>1, <2>2
<1> QED
  BY <1>4, <1>5, ProcStep DEF ReapChildren

LEMMA CrashStep ==
    ASSUME IInv, NEW s \in Surface, Crash(s)
    PROVE  IInv'
<1>0. proc \in [Pid -> Process] /\ born \in Nat /\ task \in [Surface -> Task]
  BY DEF IInv, TypeOK
<1>1. \A q \in Pid :
         \/ proc[q].by # s /\ proc'[q] = proc[q]
         \/ proc[q].by = s /\ proc'[q] = NoProcess
         \/ /\ proc[q].by = s /\ proc'[q] = [proc[q] EXCEPT !.by = None]
  BY DEF Crash
<1>2. proc' \in [Pid -> Process]
  <2>1. NoProcess \in Process
        /\ \A q \in Pid : [proc[q] EXCEPT !.by = None] \in Process
    BY <1>0 DEF NoProcess, Process
  <2>2. \A q \in Pid : proc'[q] \in Process
    BY <1>0, <1>1, <2>1
  <2>3. proc' = [q \in Pid |-> proc'[q]]
    BY DEF Crash
  <2> QED
    BY <2>2, <2>3
<1>3. ASSUME NEW q \in Pid PROVE Became(q)
  <2>1. CASE proc'[q] = proc[q]
    BY <2>1 DEF Became, IInv, ProcsOK
  <2>2. CASE proc'[q] = NoProcess
    BY <2>2 DEF Became
  <2>3. CASE proc'[q] = [proc[q] EXCEPT !.by = None]
    <3>1. /\ proc'[q].state = proc[q].state /\ proc'[q].birth = proc[q].birth
          /\ proc'[q].of = proc[q].of
      BY <1>0, <2>3 DEF Process
    <3>2. CASE proc[q].state = "none"
      <4>1. proc[q] = NoProcess
        BY <3>2 DEF IInv, ProcsOK
      <4>2. proc'[q] = NoProcess
        BY <2>3, <4>1 DEF NoProcess
      <4> QED
        BY <4>2 DEF Became
    <3> QED
      BY <3>1, <3>2 DEF Became
  <2> QED
    BY <1>1, <2>1, <2>2, <2>3
<1>4. Evolved
  BY <1>0, <1>2, <1>3 DEF Evolved, Crash
<1>5. ASSUME NEW r \in Surface \ {s} PROVE SameTask(r) /\ ChildStays(r)
  <2>1. SameTask(r)
    BY <1>0 DEF Crash, SameTask
  <2>2. CASE task[r].step \in ChildStep
    <3>1. task[r].pid \in Pid /\ ChildOK(r)
      BY <2>2, TaskType DEF TaskOK
    <3> QED
      BY <1>1, <2>1, <3>1 DEF ChildStays, ChildOK
  <2>3. CASE task[r].step \notin ChildStep
    BY <2>1, <2>3 DEF ChildStays
  <2> QED
    BY <2>2, <2>3
<1>6. TypeOK'
  <2>1. task' \in [Surface -> Task]
    BY <1>0, IdleType DEF Crash
  <2>2. born' = born /\ registry' = registry /\ signalled' = signalled
        /\ clean' = clean /\ faults' = faults + 1
    BY DEF Crash
  <2> QED
    BY <1>2, <2>1, <2>2 DEF IInv, TypeOK
<1>7. IdentitiesOK'
  BY <1>4, SameFiles DEF Crash
<1>8. {s} \in SUBSET Surface /\ \A x \in {s} : TaskOK(x)'
  BY <1>0, IdleOK, IdleType DEF Crash
<1> QED
  BY <1>4, <1>5, <1>6, <1>7, <1>8, Around

-----------------------------------------------------------------------------
(* Open.                                                                   *)

\* The opens that a new one meets learn nothing but that.
LEMMA EnterStep ==
    ASSUME IInv, NEW s \in Surface, NEW t \in Task, Enter(s, t)
    PROVE  /\ task' \in [Surface -> Task]
           /\ task'[s].step = t.step /\ task'[s].pid = t.pid
           /\ task'[s].profile = t.profile
           /\ \A r \in Surface \ {s} : SameTask(r)
<1>0. task \in [Surface -> Task]
  BY TaskType
<1>1. /\ [t EXCEPT !.raced = Opening(t.profile) # {}] \in Task
      /\ \A r \in Surface : [task[r] EXCEPT !.raced = TRUE] \in Task
  BY <1>0 DEF Task
<1>2. task' \in [Surface -> Task]
  BY <1>0, <1>1 DEF Enter
<1>3. /\ task'[s].step = t.step /\ task'[s].pid = t.pid
      /\ task'[s].profile = t.profile
  BY DEF Enter, Task
<1>4. ASSUME NEW r \in Surface \ {s} PROVE SameTask(r)
  BY <1>0 DEF Enter, SameTask, Task
<1> QED
  BY <1>2, <1>3, <1>4

LEMMA OpenCheckStep ==
    ASSUME IInv, NEW s \in Surface, NEW p \in Profile, OpenCheck(s, p)
    PROVE  IInv'
<1> DEFINE t == [Idle EXCEPT !.profile = p]
<1>0. t \in Task /\ t.profile = p
  BY IdleType DEF Idle
<1>1. Evolved /\ \A r \in Surface : ChildStays(r)
  BY SameProcesses DEF OpenCheck
<1>2. IdentitiesOK'
  BY <1>1, SameFiles DEF OpenCheck
<1>3. ASSUME NEW u \in Task, Enter(s, u), u.profile = p,
             \/ u.step = "spawn"
             \/ u.step = "probe" /\ u.pid \in Pid
      PROVE  IInv'
  <2>1. /\ task' \in [Surface -> Task]
        /\ task'[s].step = u.step /\ task'[s].pid = u.pid
        /\ task'[s].profile = u.profile
        /\ \A r \in Surface \ {s} : SameTask(r)
    BY <1>3, EnterStep
  <2>2. TypeOK'
    BY <2>1 DEF OpenCheck, IInv, TypeOK
  <2>3. TaskOK(s)'
    BY <1>3, <2>1 DEF TaskOK, ChildStep, HandleStep
  <2>4. {s} \in SUBSET Surface /\ \A x \in {s} : TaskOK(x)'
    BY <2>3
  <2> QED
    BY <1>1, <1>2, <2>1, <2>2, <2>4, Around
<1>4. CASE Enter(s, [t EXCEPT !.step = "spawn"])
  <2> DEFINE u == [t EXCEPT !.step = "spawn"]
  <2>1. u \in Task /\ u.step = "spawn" /\ u.profile = p
    BY <1>0 DEF Task, OpenStep
  <2> HIDE DEF u
  <2>2. Enter(s, u)
    BY <1>4 DEF u
  <2>3. u \in Task /\ u.profile = p /\ (u.step = "spawn" \/ (u.step = "probe" /\ u.pid \in Pid))
    BY <2>1
  <2> HIDE DEF t
  <2> QED
    BY <1>3, <2>2, <2>3
<1>5. CASE /\ ReadRegisteredPid(p) = "pid"
           /\ Enter(s, [t EXCEPT !.step = "probe", !.pid = Published(p, "pid")])
  <2> DEFINE u == [t EXCEPT !.step = "probe", !.pid = Published(p, "pid")]
  <2>1. Published(p, "pid") \in Pid
    BY <1>5 DEF ReadRegisteredPid
  <2>2. u \in Task /\ u.step = "probe" /\ u.profile = p /\ u.pid \in Pid
    BY <1>0, <2>1 DEF Task, OpenStep
  <2> QED
    BY <1>3, <1>5, <2>2
<1>6. CASE task' = [task EXCEPT ![s] = Idle]
  BY <1>6, IdleType, IdleStep DEF OpenCheck, IInv, TypeOK
<1> QED
  BY <1>4, <1>5, <1>6 DEF OpenCheck

LEMMA OpenProbeStep ==
    ASSUME IInv, NEW s \in Surface, OpenProbe(s)
    PROVE  IInv'
<1> DEFINE u == [task[s] EXCEPT !.step = "spawn"]
<1>0. /\ task[s] \in Task /\ task[s].profile \in Profile
      /\ signalled' \subseteq Nat
  BY TaskType DEF OpenProbe, TaskOK, IInv, TypeOK
<1>1. CASE task' = [task EXCEPT ![s] = Idle]
  BY <1>0, <1>1, IdleType, IdleStep DEF OpenProbe
<1>2. CASE task' = [task EXCEPT ![s] = u]
  <2>1. u \in Task /\ u.step = "spawn" /\ u.profile \in Profile
    BY <1>0 DEF Task, OpenStep
  <2>2. task'[s] = u
    BY <1>2, TaskType
  <2>3. TaskOK(s)'
    BY <2>1, <2>2 DEF TaskOK, ChildStep, HandleStep
  <2> QED
    BY <1>0, <1>2, <2>1, <2>3, OwnStep DEF OpenProbe
<1> QED
  BY <1>1, <1>2 DEF OpenProbe

LEMMA SpawnFailsStep ==
    ASSUME IInv, NEW s \in Surface, SpawnFails(s)
    PROVE  IInv'
BY IdleType, IdleStep DEF SpawnFails, IInv, TypeOK

LEMMA SpawnSessionStep ==
    ASSUME IInv, NEW s \in Surface, SpawnSession(s)
    PROVE  IInv'
<1>1. PICK q \in Pid :
         /\ Start(q, task[s].profile, s)
         /\ task' = [task EXCEPT ![s].step = "settle", ![s].pid = q,
                                 ![s].birth = born + 1]
  BY DEF SpawnSession
<1> DEFINE u == [task[s] EXCEPT !.step = "settle", !.pid = q, !.birth = born + 1]
<1>2. task[s] \in Task /\ task[s].profile \in Profile /\ born \in Nat
  BY TaskType DEF SpawnSession, TaskOK
<1>3. /\ u \in Task /\ u.step = "settle" /\ u.pid = q /\ u.birth = born + 1
      /\ u.profile = task[s].profile
  <2>1. u.step = "settle" /\ u.pid = q /\ u.birth = born + 1
        /\ u.profile = task[s].profile
    BY <1>2 DEF Task
  <2>2. born + 1 \in Nat /\ "settle" \in OpenStep /\ q \in Pid
    BY <1>2 DEF OpenStep
  <2>3. u \in Task
    BY <1>2, <2>2 DEF Task
  <2> QED
    BY <2>1, <2>3
<1>4. task' = [task EXCEPT ![s] = u]
  BY <1>1
<1>5. /\ Evolved /\ \A r \in Surface : ChildStays(r)
      /\ proc'[q] = [birth |-> born + 1, state |-> "run",
                     of |-> task[s].profile, by |-> s]
  BY <1>1, <1>2, StartStep
<1>6. task'[s] = u /\ \A r \in Surface \ {s} : SameTask(r)
  BY <1>4, TaskType DEF SameTask
<1>7. TaskOK(s)'
  <2>1. ChildOK(s)'
    BY <1>3, <1>5, <1>6 DEF ChildOK
  <2> QED
    BY <1>2, <1>3, <1>6, <2>1 DEF TaskOK, ChildStep, HandleStep
<1>8. TypeOK'
  <2>1. task' \in [Surface -> Task]
    BY <1>3, <1>4, TaskType
  <2>2. born' \in Nat /\ proc' \in [Pid -> Process]
    BY <1>5 DEF Evolved
  <2> QED
    BY <2>1, <2>2 DEF SpawnSession, IInv, TypeOK
<1>9. IdentitiesOK'
  BY <1>5, SameFiles DEF SpawnSession
<1>10. {s} \in SUBSET Surface /\ \A x \in {s} : TaskOK(x)'
  BY <1>7
<1> QED
  BY <1>5, <1>6, <1>8, <1>9, <1>10, Around

\* A desktop waits for its child, and is idle.
LEMMA WaitedStep ==
    ASSUME IInv, NEW s \in Surface, task[s].step \in {"settle", "cancel"},
           proc' = [proc EXCEPT ![task[s].pid] = NoProcess],
           task' = [task EXCEPT ![s] = Idle],
           UNCHANGED <<born, registry, signalled, clean, faults>>
    PROVE  IInv'
<1> DEFINE q == task[s].pid
<1>0. /\ proc \in [Pid -> Process] /\ born \in Nat /\ task \in [Surface -> Task]
      /\ q \in Pid /\ ChildOK(s)
  BY TaskType DEF TaskOK, ChildStep
<1>1. proc'[q] = NoProcess /\ \A r \in Pid \ {q} : proc'[r] = proc[r]
  BY <1>0
<1>2. proc' \in [Pid -> Process]
  <2>1. NoProcess \in Process
    BY DEF NoProcess, Process
  <2> QED
    BY <1>0, <2>1
<1>3. \A r \in Pid : Became(r)
  BY <1>1 DEF Became, IInv, ProcsOK
<1>4. Evolved
  BY <1>0, <1>2, <1>3 DEF Evolved
<1>5. ASSUME NEW r \in Surface \ {s} PROVE SameTask(r) /\ ChildStays(r)
  <2>1. SameTask(r)
    BY <1>0 DEF SameTask
  <2>2. CASE task[r].step \in ChildStep
    <3>1. task[r].pid \in Pid /\ ChildOK(r)
      BY <2>2, TaskType DEF TaskOK
    <3>2. task[r].pid # q
      BY <1>0, <3>1 DEF ChildOK
    <3> QED
      BY <1>1, <2>1, <3>1, <3>2 DEF ChildStays, ChildOK
  <2>3. CASE task[r].step \notin ChildStep
    BY <2>1, <2>3 DEF ChildStays
  <2> QED
    BY <2>2, <2>3
<1>6. TypeOK'
  <2>1. task' \in [Surface -> Task]
    BY <1>0, IdleType
  <2> QED
    BY <1>2, <2>1 DEF IInv, TypeOK
<1>7. IdentitiesOK'
  BY <1>4, SameFiles
<1>8. {s} \in SUBSET Surface /\ \A x \in {s} : TaskOK(x)'
  BY <1>0, IdleOK, IdleType
<1> QED
  BY <1>4, <1>5, <1>6, <1>7, <1>8, Around

\* An open goes on with the child it has.
LEMMA ChildKept ==
    ASSUME IInv, NEW s \in Surface, task[s].step \in ChildStep,
           UNCHANGED <<proc, born>>,
           task'[s].step \in ChildStep,
           task'[s].profile = task[s].profile,
           task'[s].pid = task[s].pid, task'[s].birth = task[s].birth
    PROVE  TaskOK(s)'
<1>1. /\ task[s].pid \in Pid /\ task[s].profile \in Profile /\ ChildOK(s)
  BY TaskType DEF TaskOK, ChildStep
<1>2. ChildOK(s)'
  BY <1>1 DEF ChildOK
<1> QED
  BY <1>1, <1>2 DEF TaskOK, ChildStep, HandleStep

LEMMA SettleStep ==
    ASSUME IInv, NEW s \in Surface, Settle(s)
    PROVE  IInv'
<1> DEFINE u == [task[s] EXCEPT !.step = "create"]
<1>0. task[s] \in Task /\ signalled' \subseteq Nat
  BY TaskType DEF Settle, IInv, TypeOK
<1>1. CASE proc' = [proc EXCEPT ![task[s].pid] = NoProcess]
           /\ task' = [task EXCEPT ![s] = Idle]
  BY <1>1, WaitedStep DEF Settle
<1>2. CASE task' = [task EXCEPT ![s] = u] /\ UNCHANGED proc
  <2>1. u \in Task /\ u.step = "create" /\ u.profile = task[s].profile
        /\ u.pid = task[s].pid /\ u.birth = task[s].birth
    BY <1>0 DEF Task, OpenStep
  <2>2. task'[s] = u
    BY <1>2, TaskType
  <2>3. TaskOK(s)'
    BY <1>2, <2>1, <2>2, ChildKept DEF Settle, ChildStep
  <2> QED
    BY <1>0, <1>2, <2>1, <2>3, OwnStep DEF Settle
<1> QED
  BY <1>1, <1>2 DEF Settle

LEMMA CancelChildStep ==
    ASSUME IInv, NEW s \in Surface, CancelChild(s)
    PROVE  IInv'
<1>0. task[s].pid \in Pid /\ proc \in [Pid -> Process]
  BY TaskType DEF CancelChild, TaskOK, ChildStep
<1>1. CASE proc' = [proc EXCEPT ![task[s].pid] = NoProcess] /\ UNCHANGED signalled
  BY <1>1, WaitedStep DEF CancelChild
<1>2. CASE signalled' = signalled \cup {proc[task[s].pid].birth} /\ UNCHANGED proc
  <2>1. signalled' \subseteq Nat
    BY <1>0, <1>2 DEF IInv, TypeOK, Process
  <2> QED
    BY <1>2, <2>1, IdleType, IdleStep DEF CancelChild
<1> QED
  BY <1>1, <1>2 DEF CancelChild

-----------------------------------------------------------------------------
(* The files of a record.                                                  *)

Files == [tmp : Content, pub : Content]

\* What a step of the record of s may leave in an identity file of p.
Contents(s, p) ==
    {registry[p]["identity"].tmp, registry[p]["identity"].pub,
     Absent, Empty, Junk}
    \cup {b \in {task[s].birth} : p = task[s].profile}

\* The identity that is written is that of the session that was spawned.
LEMMA ContentsOK ==
    ASSUME IInv, NEW s \in Surface, task[s].step \in ChildStep,
           NEW p \in Profile, NEW c \in Contents(s, p)
    PROVE  IdentityOf(p, c)
<1>1. CASE c \in {Absent, Empty, Junk}
  BY <1>1, ConstantsOK DEF IdentityOf
<1>2. CASE c \in {registry[p]["identity"].tmp, registry[p]["identity"].pub}
  BY <1>2 DEF IInv, IdentitiesOK
<1>3. CASE c = task[s].birth /\ p = task[s].profile
  <2>1. task[s].pid \in Pid /\ ChildOK(s)
    BY TaskType DEF TaskOK
  <2>2. c \in 1..born
    BY <1>3, <2>1 DEF ChildOK, IInv, ProcsOK
  <2>3. \A q \in Pid : proc[q].birth = c => q = task[s].pid
    BY <1>3, <2>1 DEF ChildOK, IInv, ProcsOK
  <2> QED
    BY <1>3, <2>1, <2>2, <2>3 DEF IdentityOf, ChildOK
<1> QED
  BY <1>1, <1>2, <1>3 DEF Contents

\* The step of a record, given what it leaves in the files of its profile.
LEMMA RecordStep ==
    ASSUME IInv, NEW s \in Surface, task[s].step \in ChildStep,
           UNCHANGED <<proc, born, signalled>>, clean' \subseteq Nat, faults' \in Nat,
           NEW f \in File, NEW new \in Files,
           f = "identity" => /\ new.tmp \in Contents(s, task[s].profile)
                             /\ new.pub \in Contents(s, task[s].profile),
           registry' = [registry EXCEPT ![task[s].profile][f] = new],
           task' \in [Surface -> Task],
           \A r \in Surface \ {s} : SameTask(r),
           TaskOK(s)'
    PROVE  IInv'
<1>0. /\ registry \in [Profile -> [File -> Files]] /\ task[s].profile \in Profile
  BY TaskType DEF IInv, TypeOK, TaskOK, Files, ChildStep
<1>1. registry' \in [Profile -> [File -> Files]]
  BY <1>0
<1>2. TypeOK'
  BY <1>1 DEF IInv, TypeOK, Files
<1>3. Evolved /\ \A r \in Surface : ChildStays(r)
  BY SameProcesses
<1>4. ASSUME NEW p \in Profile
      PROVE  /\ registry'[p]["identity"].tmp \in Contents(s, p)
             /\ registry'[p]["identity"].pub \in Contents(s, p)
  <2>1. CASE p = task[s].profile /\ f = "identity"
    <3>1. registry'[p]["identity"] = new
      BY <1>0, <2>1
    <3> QED
      BY <2>1, <3>1
  <2>2. CASE ~(p = task[s].profile /\ f = "identity")
    <3>1. registry'[p]["identity"] = registry[p]["identity"]
      BY <1>0, <2>2 DEF File
    <3> QED
      BY <3>1 DEF Contents
  <2> QED
    BY <2>1, <2>2
<1>5. IdentitiesOK'
  <2> SUFFICES ASSUME NEW p \in Profile
               PROVE  /\ IdentityOf(p, registry[p]["identity"].tmp)'
                      /\ IdentityOf(p, registry[p]["identity"].pub)'
    BY DEF IdentitiesOK
  <2>1. /\ IdentityOf(p, registry'[p]["identity"].tmp)
        /\ IdentityOf(p, registry'[p]["identity"].pub)
    BY <1>4, ContentsOK
  <2> QED
    BY <1>3, <2>1, EvolvedIdentity DEF IdentityOf
<1>6. {s} \in SUBSET Surface /\ \A x \in {s} : TaskOK(x)'
  OBVIOUS
<1> QED
  BY <1>2, <1>3, <1>5, <1>6, Around

\* What is common to the steps of a record.
LEMMA Recording ==
    ASSUME IInv, NEW s \in Surface, task[s].step \in ChildStep
    PROVE  /\ task[s] \in Task /\ task[s].file \in File
           /\ task[s].profile \in Profile /\ task[s].pid \in Pid
           /\ registry[task[s].profile][task[s].file] \in Files
           /\ Text(s) \in Content
           /\ task[s].file = "identity" => Text(s) = task[s].birth
           /\ faults \in Nat /\ signalled \subseteq Nat /\ clean \subseteq Nat
<1>1. /\ task[s] \in Task /\ task[s].profile \in Profile /\ task[s].pid \in Pid
  BY TaskType DEF TaskOK, ChildStep
<1>2. /\ task[s].file \in File /\ task[s].birth \in Nat
  BY <1>1 DEF Task
<1> QED
  BY <1>1, <1>2 DEF IInv, TypeOK, Files, Text, Content

LEMMA CreateRecordStep ==
    ASSUME IInv, NEW s \in Surface, CreateRecord(s)
    PROVE  IInv'
<1> DEFINE t == task[s]
           r == registry[t.profile][t.file]
<1>0. t.step = "create" /\ t.step \in ChildStep
  BY DEF CreateRecord, ChildStep
<1>1. /\ t \in Task /\ t.file \in File /\ r \in Files /\ t.profile \in Profile
      /\ faults \in Nat /\ signalled \subseteq Nat /\ clean \subseteq Nat
  BY <1>0, Recording
<1>2. CASE task' = [task EXCEPT ![s].step = "cancel"] /\ UNCHANGED registry
  <2> DEFINE u == [t EXCEPT !.step = "cancel"]
  <2>1. u \in Task /\ u.step = "cancel" /\ u.profile = t.profile
        /\ u.pid = t.pid /\ u.birth = t.birth
    BY <1>1 DEF Task, OpenStep
  <2>2. task' = [task EXCEPT ![s] = u] /\ task'[s] = u
    BY <1>2, TaskType
  <2>3. TaskOK(s)'
    BY <1>0, <2>1, <2>2, ChildKept DEF CreateRecord, ChildStep
  <2> QED
    BY <1>1, <1>2, <2>1, <2>2, <2>3, OwnStep DEF CreateRecord
<1>3. CASE /\ registry' = [registry EXCEPT ![t.profile][t.file].tmp = Empty]
           /\ task' = [task EXCEPT ![s].step = "write", ![s].at = "tmp"]
  <2> DEFINE u == [t EXCEPT !.step = "write", !.at = "tmp"]
             new == [r EXCEPT !.tmp = Empty]
  <2>1. u \in Task /\ u.step = "write" /\ u.profile = t.profile
        /\ u.pid = t.pid /\ u.birth = t.birth
    BY <1>1 DEF Task, OpenStep
  <2>2. task' = [task EXCEPT ![s] = u]
    BY <1>3
  <2>3. task'[s] = u /\ task' \in [Surface -> Task]
        /\ \A x \in Surface \ {s} : SameTask(x)
    BY <2>1, <2>2, TaskType DEF SameTask
  <2>4. TaskOK(s)'
    BY <1>0, <2>1, <2>3, ChildKept DEF CreateRecord, ChildStep
  <2>5. new \in Files /\ new.tmp = Empty /\ new.pub = r.pub
    BY <1>1 DEF Files, Content
  <2>6. registry' = [registry EXCEPT ![t.profile][t.file] = new]
    BY <1>3
  <2>7. t.file = "identity" => /\ new.tmp \in Contents(s, t.profile)
                               /\ new.pub \in Contents(s, t.profile)
    BY <2>5 DEF Contents
  <2> HIDE DEF new
  <2> QED
    BY <1>0, <1>1, <2>3, <2>4, <2>5, <2>6, <2>7, RecordStep DEF CreateRecord
<1> QED
  BY <1>2, <1>3 DEF CreateRecord

LEMMA WriteRecordStep ==
    ASSUME IInv, NEW s \in Surface, WriteRecord(s)
    PROVE  IInv'
<1> DEFINE t == task[s]
           r == registry[t.profile][t.file]
           u == [t EXCEPT !.step = "rename"]
<1>0. t.step = "write" /\ t.step \in ChildStep
  BY DEF WriteRecord, ChildStep
<1>1. /\ t \in Task /\ t.file \in File /\ r \in Files /\ t.profile \in Profile
      /\ Text(s) \in Content
      /\ t.file = "identity" => Text(s) = t.birth
      /\ faults \in Nat /\ signalled \subseteq Nat /\ clean \subseteq Nat
  BY <1>0, Recording
<1>2. u \in Task /\ u.step = "rename" /\ u.profile = t.profile
      /\ u.pid = t.pid /\ u.birth = t.birth
  BY <1>1 DEF Task, OpenStep
<1>3. task' = [task EXCEPT ![s] = u]
  BY DEF WriteRecord
<1>4. task'[s] = u /\ task' \in [Surface -> Task]
      /\ \A x \in Surface \ {s} : SameTask(x)
  BY <1>2, <1>3, TaskType DEF SameTask
<1>5. TaskOK(s)'
  BY <1>0, <1>2, <1>4, ChildKept DEF WriteRecord, ChildStep
<1>6. ASSUME NEW new \in Files,
             new.tmp \in {r.tmp, Text(s), Junk}, new.pub \in {r.pub, Text(s), Junk},
             registry' = [registry EXCEPT ![t.profile][t.file] = new]
      PROVE  IInv'
  <2>1. t.file = "identity" => /\ new.tmp \in Contents(s, t.profile)
                               /\ new.pub \in Contents(s, t.profile)
    BY <1>1, <1>6 DEF Contents
  <2> QED
    BY <1>0, <1>1, <1>4, <1>5, <1>6, <2>1, RecordStep DEF WriteRecord
<1>7. CASE t.at = "tmp"
  <2>1. PICK c \in Overwritten(r.tmp, Text(s)) :
           registry' = [registry EXCEPT ![t.profile][t.file].tmp = c]
    BY <1>7 DEF WriteRecord
  <2> DEFINE new == [r EXCEPT !.tmp = c]
  <2>2. c \in {Text(s), Junk} /\ c \in Content
    BY <1>1, <2>1 DEF Overwritten, Content
  <2>3. new \in Files /\ new.tmp = c /\ new.pub = r.pub
    BY <1>1, <2>2 DEF Files
  <2>4. registry' = [registry EXCEPT ![t.profile][t.file] = new]
    BY <2>1
  <2> HIDE DEF new
  <2> QED
    BY <1>6, <2>2, <2>3, <2>4
<1>8. CASE t.at = "pub"
  <2>1. PICK c \in Overwritten(r.pub, Text(s)) :
           registry' = [registry EXCEPT ![t.profile][t.file].pub = c]
    BY <1>8 DEF WriteRecord
  <2> DEFINE new == [r EXCEPT !.pub = c]
  <2>2. c \in {Text(s), Junk} /\ c \in Content
    BY <1>1, <2>1 DEF Overwritten, Content
  <2>3. new \in Files /\ new.tmp = r.tmp /\ new.pub = c
    BY <1>1, <2>2 DEF Files
  <2>4. registry' = [registry EXCEPT ![t.profile][t.file] = new]
    BY <2>1
  <2> HIDE DEF new
  <2> QED
    BY <1>6, <2>2, <2>3, <2>4
<1>9. CASE t.at = "gone"
  <2>1. registry' = registry
    BY <1>9 DEF WriteRecord
  <2> QED
    BY <1>1, <1>2, <1>3, <1>5, <2>1, OwnStep DEF WriteRecord
<1> QED
  BY <1>1, <1>7, <1>8, <1>9 DEF Task

\* A temporary file that goes takes nothing but its open files with it.
LEMMA MovedType ==
    ASSUME IInv, NEW p, NEW f, NEW to \in {"pub", "gone"}
    PROVE  /\ Moved(p, f, to) \in [Surface -> Task]
           /\ \A r \in Surface :
                 /\ Moved(p, f, to)[r].step = task[r].step
                 /\ Moved(p, f, to)[r].profile = task[r].profile
                 /\ Moved(p, f, to)[r].pid = task[r].pid
                 /\ Moved(p, f, to)[r].birth = task[r].birth
                 /\ Moved(p, f, to)[r].actual = task[r].actual
<1>1. task \in [Surface -> Task]
  BY DEF IInv, TypeOK
<1>2. ASSUME NEW r \in Surface, NEW a \in {"tmp", "pub", "gone"}
      PROVE  /\ [task[r] EXCEPT !.at = a] \in Task
             /\ [task[r] EXCEPT !.at = a].step = task[r].step
             /\ [task[r] EXCEPT !.at = a].profile = task[r].profile
             /\ [task[r] EXCEPT !.at = a].pid = task[r].pid
             /\ [task[r] EXCEPT !.at = a].birth = task[r].birth
             /\ [task[r] EXCEPT !.at = a].actual = task[r].actual
  BY <1>1 DEF Task
<1>3. ASSUME NEW r \in Surface
      PROVE  \/ Moved(p, f, to)[r] = task[r]
             \/ \E a \in {"tmp", "pub", "gone"} :
                   Moved(p, f, to)[r] = [task[r] EXCEPT !.at = a]
  <2>1. task[r].at \in {"tmp", "pub", "gone"}
    BY <1>1 DEF Task
  <2> QED
    BY <2>1 DEF Moved
<1>4. ASSUME NEW r \in Surface PROVE Moved(p, f, to)[r] \in Task
  BY <1>1, <1>2, <1>3
<1>5. Moved(p, f, to) \in [Surface -> Task]
  BY <1>4 DEF Moved
<1>6. ASSUME NEW r \in Surface
      PROVE  /\ Moved(p, f, to)[r].step = task[r].step
             /\ Moved(p, f, to)[r].profile = task[r].profile
             /\ Moved(p, f, to)[r].pid = task[r].pid
             /\ Moved(p, f, to)[r].birth = task[r].birth
             /\ Moved(p, f, to)[r].actual = task[r].actual
  <2>1. CASE Moved(p, f, to)[r] = task[r]
    BY <2>1
  <2>2. CASE \E a \in {"tmp", "pub", "gone"} :
                Moved(p, f, to)[r] = [task[r] EXCEPT !.at = a]
    <3>1. PICK a \in {"tmp", "pub", "gone"} :
                Moved(p, f, to)[r] = [task[r] EXCEPT !.at = a]
      BY <2>2
    <3> QED
      BY <1>2, <3>1
  <2> QED
    BY <1>3, <2>1, <2>2
<1> QED
  BY <1>5, <1>6

LEMMA WriteFailsStep ==
    ASSUME IInv, NEW s \in Surface, WriteFails(s)
    PROVE  IInv'
<1> DEFINE t == task[s]
           r == registry[t.profile][t.file]
           u == [t EXCEPT !.step = "cancel"]
           new == [r EXCEPT !.tmp = Absent]
           M == Moved(t.profile, t.file, "gone")
<1>0. t.step = "write" /\ t.step \in ChildStep
  BY DEF WriteFails, ChildStep
<1>1. /\ t \in Task /\ t.file \in File /\ r \in Files /\ t.profile \in Profile
      /\ faults \in Nat /\ signalled \subseteq Nat /\ clean \subseteq Nat
  BY <1>0, Recording
<1>2. u \in Task /\ u.step = "cancel" /\ u.profile = t.profile
      /\ u.pid = t.pid /\ u.birth = t.birth
  BY <1>1 DEF Task, OpenStep
<1>3. /\ M \in [Surface -> Task]
      /\ \A x \in Surface :
            /\ M[x].step = task[x].step /\ M[x].profile = task[x].profile
            /\ M[x].pid = task[x].pid /\ M[x].birth = task[x].birth
            /\ M[x].actual = task[x].actual
  BY MovedType
<1>4. task' = [M EXCEPT ![s] = u]
  BY DEF WriteFails
<1>5. new \in Files /\ new.tmp = Absent /\ new.pub = r.pub
  BY <1>1 DEF Files, Content
<1>6. registry' = [registry EXCEPT ![t.profile][t.file] = new]
  BY DEF WriteFails
<1>7. t.file = "identity" => /\ new.tmp \in Contents(s, t.profile)
                             /\ new.pub \in Contents(s, t.profile)
  BY <1>5 DEF Contents
<1> HIDE DEF M, u, new
<1>8. task'[s] = u /\ task' \in [Surface -> Task]
      /\ \A x \in Surface \ {s} : SameTask(x)
  <2>1. task'[s] = u /\ task' \in [Surface -> Task]
    BY <1>2, <1>3, <1>4
  <2>2. \A x \in Surface \ {s} : task'[x] = M[x]
    BY <1>3, <1>4
  <2> QED
    BY <1>3, <2>1, <2>2 DEF SameTask
<1>9. TaskOK(s)'
  <2>1. UNCHANGED <<proc, born>>
    BY DEF WriteFails
  <2> QED
    BY <1>0, <1>2, <1>8, <2>1, ChildKept DEF ChildStep
<1>10. UNCHANGED <<proc, born, signalled>> /\ clean' \subseteq Nat /\ faults' \in Nat
  BY <1>1 DEF WriteFails
<1> QED
  BY <1>0, <1>1, <1>5, <1>6, <1>7, <1>8, <1>9, <1>10, RecordStep

LEMMA RenameRecordStep ==
    ASSUME IInv, NEW s \in Surface, RenameRecord(s)
    PROVE  IInv'
<1> DEFINE t == task[s]
           r == registry[t.profile][t.file]
           next == IF t.file = "identity"
                   THEN [t EXCEPT !.step = "create", !.file = "pid"] ELSE Idle
<1>0. t.step = "rename" /\ t.step \in ChildStep
  BY DEF RenameRecord, ChildStep
<1>1. /\ t \in Task /\ t.file \in File /\ r \in Files /\ t.profile \in Profile
      /\ faults \in Nat /\ signalled \subseteq Nat /\ clean \subseteq Nat
  BY <1>0, Recording
<1>2. CASE /\ task' = [task EXCEPT ![s].step = "cancel"]
           /\ UNCHANGED <<registry, clean>>
  <2> DEFINE u == [t EXCEPT !.step = "cancel"]
  <2>1. u \in Task /\ u.step = "cancel" /\ u.profile = t.profile
        /\ u.pid = t.pid /\ u.birth = t.birth
    BY <1>1 DEF Task, OpenStep
  <2>2. task' = [task EXCEPT ![s] = u] /\ task'[s] = u
    BY <1>2, TaskType
  <2>3. TaskOK(s)'
    BY <1>0, <2>1, <2>2, ChildKept DEF RenameRecord, ChildStep
  <2> QED
    BY <1>1, <1>2, <2>1, <2>2, <2>3, OwnStep DEF RenameRecord
<1>3. CASE /\ registry' = [registry EXCEPT ![t.profile][t.file] =
                             [tmp |-> Absent, pub |-> r.tmp]]
           /\ task' = [Moved(t.profile, t.file, "pub") EXCEPT ![s] = next]
           /\ clean' = IF t.file = "pid" /\ ~t.raced
                       THEN clean \cup {t.birth} ELSE clean
  <2> DEFINE M == Moved(t.profile, t.file, "pub")
             new == [tmp |-> Absent, pub |-> r.tmp]
  <2>1. /\ M \in [Surface -> Task]
        /\ \A x \in Surface :
              /\ M[x].step = task[x].step /\ M[x].profile = task[x].profile
              /\ M[x].pid = task[x].pid /\ M[x].birth = task[x].birth
              /\ M[x].actual = task[x].actual
    BY MovedType
  <2>2. next \in Task
    <3>1. [t EXCEPT !.step = "create", !.file = "pid"] \in Task
      BY <1>1 DEF Task, OpenStep, File
    <3> QED
      BY <3>1, IdleType
  <2>3. \/ next.step = "idle"
        \/ /\ next.step = "create" /\ next.profile = t.profile
           /\ next.pid = t.pid /\ next.birth = t.birth
    BY <1>1, IdleType DEF Task
  <2>4. new \in Files /\ new.tmp = Absent /\ new.pub = r.tmp
    BY <1>1 DEF Files, Content
  <2>5. t.file = "identity" => /\ new.tmp \in Contents(s, t.profile)
                               /\ new.pub \in Contents(s, t.profile)
    BY <2>4 DEF Contents
  <2>6. clean' \subseteq Nat
    BY <1>1, <1>3 DEF Task
  <2>7. registry' = [registry EXCEPT ![t.profile][t.file] = new]
        /\ task' = [M EXCEPT ![s] = next]
    BY <1>3
  <2> HIDE DEF M, next, new
  <2>8. task'[s] = next /\ task' \in [Surface -> Task]
        /\ \A x \in Surface \ {s} : SameTask(x)
    <3>1. task'[s] = next /\ task' \in [Surface -> Task]
      BY <2>1, <2>2, <2>7
    <3>2. \A x \in Surface \ {s} : task'[x] = M[x]
      BY <2>1, <2>7
    <3> QED
      BY <2>1, <3>1, <3>2 DEF SameTask
  <2>9. TaskOK(s)'
    <3>1. CASE next.step = "idle"
      BY <2>8, <3>1, IdleOK
    <3>2. CASE /\ next.step = "create" /\ next.profile = t.profile
               /\ next.pid = t.pid /\ next.birth = t.birth
      BY <1>0, <2>8, <3>2, ChildKept DEF RenameRecord, ChildStep
    <3> QED
      BY <2>3, <3>1, <3>2
  <2> QED
    BY <1>0, <1>1, <2>4, <2>5, <2>6, <2>7, <2>8, <2>9, RecordStep DEF RenameRecord
<1> QED
  BY <1>2, <1>3 DEF RenameRecord

-----------------------------------------------------------------------------
(* Signals.                                                                *)

LEMMA InitIInv == Init => IInv
<1> SUFFICES ASSUME Init PROVE IInv
  OBVIOUS
<1>1. TypeOK
  <2>1. NoProcess \in Process
    BY DEF NoProcess, Process
  <2> QED
    BY <2>1, IdleType DEF Init, TypeOK, Content
<1>2. ProcsOK
  BY DEF Init, ProcsOK, NoProcess
<1>3. IdentitiesOK
  BY ConstantsOK DEF Init, IdentitiesOK, IdentityOf, File
<1>4. TasksOK
  BY IdleType DEF Init, TasksOK, TaskOK, ChildStep, HandleStep
<1> QED
  BY <1>1, <1>2, <1>3, <1>4 DEF IInv

LEMMA NextIInv == IInv /\ [Next]_vars => IInv'
<1> SUFFICES ASSUME IInv, [Next]_vars PROVE IInv'
  OBVIOUS
<1>1. ASSUME NEW s \in Surface, DesktopStep(s) PROVE IInv'
  <2>1. ASSUME NEW p \in Profile, OpenCheck(s, p) \/ CloseRead(s, p)
        PROVE  IInv'
    BY <2>1, OpenCheckStep, CloseReadStep
  <2>2. CASE \/ OpenProbe(s) \/ SpawnSession(s) \/ SpawnFails(s) \/ Settle(s)
             \/ CancelChild(s)
    BY <2>2, OpenProbeStep, SpawnSessionStep, SpawnFailsStep, SettleStep,
       CancelChildStep
  <2>3. CASE \/ CreateRecord(s) \/ WriteRecord(s) \/ WriteFails(s)
             \/ RenameRecord(s)
    BY <2>3, CreateRecordStep, WriteRecordStep, WriteFailsStep, RenameRecordStep
  <2>4. CASE CloseHandle(s) \/ CloseExamine(s) \/ CloseCompare(s) \/ CloseSignal(s)
    BY <2>4, CloseHandleStep, CloseExamineStep, CloseCompareStep, CloseSignalStep
  <2>5. CASE ReapChildren(s) \/ Crash(s)
    BY <2>5, ReapChildrenStep, CrashStep
  <2> QED
    BY <1>1, <2>1, <2>2, <2>3, <2>4, <2>5 DEF DesktopStep
<1>2. ASSUME NEW q \in Pid,
             Exit(q) \/ StartOther(q) \/ \E p \in Profile : HostOpen(p, q)
      PROVE  IInv'
  BY <1>2, ExitStep, StartOtherStep, HostOpenStep
<1>3. CASE UNCHANGED vars
  <2>1. Evolved /\ \A s \in Surface : ChildStays(s)
    BY <1>3, SameProcesses DEF vars
  <2> QED
    BY <1>3, <2>1, ProcStep DEF vars
<1> QED
  BY <1>1, <1>2, <1>3 DEF Next, SystemStep

\* The registry, the processes and the tasks have their types for any number
\* of desktops, profiles and process numbers.
THEOREM TypeCorrect == Spec => []TypeOK
<1>1. Init => IInv
  BY InitIInv
<1>2. IInv => TypeOK
  BY DEF IInv
<1> QED
  BY <1>1, <1>2, NextIInv, PTL DEF Spec

\* What a step signals.
SignalOK ==
    \A b \in signalled' \ signalled :
       \E s \in Surface, q \in Pid :
          /\ task[s].step \in {"signal", "cancel"}
          /\ proc[q].birth = b
          /\ proc[q].of = task[s].profile

LEMMA SignalStep ==
    ASSUME IInv, [Next]_vars
    PROVE  SignalOK
<1>1. ASSUME NEW s \in Surface, CloseSignal(s) PROVE SignalOK
  <2>1. task[s].step = "signal" /\ HandleOK(s)
    BY <1>1, TaskType DEF CloseSignal, TaskOK, HandleStep
  <2>2. \A b \in signalled' \ signalled : b = task[s].birth /\ Running(b)
    BY <1>1 DEF CloseSignal, Target
  <2>3. ASSUME NEW q \in Pid, proc[q].birth = task[s].birth
        PROVE  proc[q].of = task[s].profile
    BY <2>1, <2>3 DEF HandleOK
  <2> QED
    BY <2>1, <2>2, <2>3 DEF SignalOK, Running
<1>2. ASSUME NEW s \in Surface, CancelChild(s) PROVE SignalOK
  <2>1. task[s].step = "cancel" /\ ChildOK(s) /\ task[s].pid \in Pid
    BY <1>2, TaskType DEF CancelChild, TaskOK, ChildStep
  <2>2. \A b \in signalled' \ signalled : b = proc[task[s].pid].birth
    BY <1>2 DEF CancelChild
  <2> QED
    BY <2>1, <2>2 DEF SignalOK, ChildOK
<1>3. CASE UNCHANGED signalled
  BY <1>3 DEF SignalOK
<1>4. ASSUME NEW s \in Surface, DesktopStep(s)
      PROVE  CloseSignal(s) \/ CancelChild(s) \/ UNCHANGED signalled
  BY <1>4 DEF DesktopStep, OpenCheck, CloseRead, OpenProbe, SpawnSession,
     SpawnFails, Settle, CreateRecord, WriteRecord, WriteFails, RenameRecord,
     CloseHandle, CloseExamine, CloseCompare, ReapChildren, Crash
<1>5. SystemStep \/ UNCHANGED vars => UNCHANGED signalled
  BY DEF SystemStep, Exit, StartOther, HostOpen, vars
<1> QED
  BY <1>1, <1>2, <1>3, <1>4, <1>5 DEF Next

\* A signal only ever reaches a session of the profile that the signalling
\* desktop was asked to open or to close, whatever numbers the kernel reuses.
THEOREM SignalsReachSessions == Spec => SignalsOnlySessions
<1>1. Init => IInv
  BY InitIInv
<1>2. IInv /\ [Next]_vars => SignalOK
  BY SignalStep
<1> QED
  BY <1>1, <1>2, NextIInv, PTL DEF Spec, SignalsOnlySessions, SignalOK

-----------------------------------------------------------------------------
(* What the registry says of a session, and what a close has ended.        *)
(*                                                                         *)
(* A session that was opened alone is named by both files while it runs:   *)
(* whoever opens the profile after it reads its number, finds it alive and *)
(* gives up, so nobody else gets to the files.  An open that has met no    *)
(* other one is alone with the temporary files and publishes what it has   *)
(* written.  A close that reads the registry therefore reads the number of *)
(* the one session that it owes an end, and holds its process or nothing.  *)

\* s is opening p.
Opens(s, p) == task[s].step \in OpenStep /\ task[s].profile = p

CleanAt(p, q) ==
    /\ proc[q].state = "run" /\ proc[q].of = p
    /\ proc[q].birth \in clean

\* Both files name q, and whoever opens p is about to find it alive.
HeldBy(p, q) ==
    /\ Published(p, "pid") = q
    /\ Published(p, "identity") = proc[q].birth
    /\ \A s \in Surface : Opens(s, p) => task[s].step = "probe" /\ task[s].pid = q

Held(p) == \A q \in Pid : CleanAt(p, q) => HeldBy(p, q)

\* An open that has met no other one is the only one of its profile.
Alone(s) ==
    task[s].step \in OpenStep /\ ~task[s].raced
    => \A r \in Surface \ {s} : ~Opens(r, task[s].profile)

\* Its temporary file holds its own text, and its identity goes first.
Recorded(s) ==
    /\ task[s].step \in {"probe", "spawn", "settle"} => task[s].file = "identity"
    /\ task[s].step = "write" /\ ~task[s].raced
          => /\ task[s].at = "tmp"
             /\ registry[task[s].profile][task[s].file].tmp = Empty
    /\ task[s].step = "rename" /\ ~task[s].raced
          => registry[task[s].profile][task[s].file].tmp = Text(s)
    /\ task[s].step \in {"create", "write", "rename"} /\ ~task[s].raced
       /\ task[s].file = "pid"
          => registry[task[s].profile]["identity"].pub = task[s].birth

\* The session that a close owes an end has the number that was read, is the
\* one that the handle holds, and has been dealt with when the close succeeds.
Owing(s) ==
    \A b \in task[s].owed :
       /\ b \in 1..born
       /\ task[s].step = "handle" =>
             \A q \in Pid : proc[q].birth = b => q = task[s].pid
       /\ task[s].step \in HandleStep =>
             \A q \in Pid : proc[q].birth = b => task[s].birth = b
       /\ task[s].step = "idle" /\ task[s].closed => b \in signalled \/ ~Running(b)

Reach ==
    /\ clean \subseteq 1..born
    /\ \A p \in Profile : Held(p)
    /\ \A s \in Surface : Alone(s) /\ Recorded(s) /\ Owing(s)

\* A birth that is known is never given again, and never runs again.
Stirred ==
    /\ born' \in Nat /\ born <= born'
    /\ \A q \in Pid : proc'[q].birth \in 1..born =>
          /\ proc[q].birth = proc'[q].birth
          /\ proc[q].of = proc'[q].of
          /\ proc'[q].state = "run" => proc[q].state = "run"

LEMMA StillStirred ==
    ASSUME IInv, UNCHANGED <<proc, born>> PROVE Stirred
BY DEF IInv, TypeOK, Stirred

LEMMA FewerStirred ==
    ASSUME IInv, UNCHANGED born,
           \A q \in Pid : \/ proc'[q] = NoProcess \/ proc'[q] = proc[q]
                          \/ /\ proc'[q].birth = proc[q].birth
                             /\ proc'[q].of = proc[q].of
                             /\ proc'[q].state = "run" => proc[q].state = "run"
    PROVE  Stirred
<1>1. born \in Nat /\ 0 \notin 1..born
  BY TaskType DEF IInv, TypeOK
<1> QED
  BY <1>1 DEF Stirred, NoProcess

LEMMA StartStirred ==
    ASSUME IInv, NEW q \in Pid, NEW p, NEW by, Start(q, p, by)
    PROVE  Stirred
<1>1. born \in Nat /\ proc \in [Pid -> Process]
  BY DEF IInv, TypeOK
<1>2. /\ proc'[q].birth = born + 1 /\ born' = born + 1
      /\ \A r \in Pid \ {q} : proc'[r] = proc[r]
  BY <1>1 DEF Start
<1> QED
  BY <1>1, <1>2 DEF Stirred

LEMMA NextStirred ==
    ASSUME IInv, [Next]_vars PROVE Stirred
<1>0. born \in Nat /\ proc \in [Pid -> Process]
  BY DEF IInv, TypeOK
<1>1. ASSUME NEW s \in Surface, DesktopStep(s) PROVE Stirred
  <2>1. CASE SpawnSession(s)
    BY <2>1, StartStirred DEF SpawnSession
  <2>2. CASE Settle(s)
    <3>1. \A q \in Pid : proc'[q] = NoProcess \/ proc'[q] = proc[q]
      BY <1>0, <2>2 DEF Settle
    <3> QED
      BY <2>2, <3>1, FewerStirred DEF Settle
  <2>3. CASE CancelChild(s)
    <3>1. \A q \in Pid : proc'[q] = NoProcess \/ proc'[q] = proc[q]
      BY <1>0, <2>3 DEF CancelChild
    <3> QED
      BY <2>3, <3>1, FewerStirred DEF CancelChild
  <2>4. CASE ReapChildren(s)
    <3>1. \A q \in Pid : proc'[q] = NoProcess \/ proc'[q] = proc[q]
      BY <1>0, <2>4 DEF ReapChildren
    <3> QED
      BY <2>4, <3>1, FewerStirred DEF ReapChildren
  <2>5. CASE Crash(s)
    <3>1. ASSUME NEW q \in Pid
          PROVE  \/ proc'[q] = NoProcess \/ proc'[q] = proc[q]
                 \/ proc'[q] = [proc[q] EXCEPT !.by = None]
      BY <2>5 DEF Crash
    <3>2. \A q \in Pid : LET x == [proc[q] EXCEPT !.by = None] IN
             /\ x.birth = proc[q].birth /\ x.of = proc[q].of
             /\ x.state = proc[q].state
      BY <1>0 DEF Process
    <3>3. \A q \in Pid : \/ proc'[q] = NoProcess \/ proc'[q] = proc[q]
                         \/ /\ proc'[q].birth = proc[q].birth
                            /\ proc'[q].of = proc[q].of
                            /\ proc'[q].state = "run" => proc[q].state = "run"
      BY <3>1, <3>2
    <3> QED
      BY <2>5, <3>3, FewerStirred DEF Crash
  <2>6. CASE UNCHANGED <<proc, born>>
    BY <2>6, StillStirred
  <2> QED
    BY <1>1, <2>1, <2>2, <2>3, <2>4, <2>5, <2>6 DEF DesktopStep, OpenCheck,
       CloseRead, OpenProbe, SpawnFails, CreateRecord, WriteRecord, WriteFails,
       RenameRecord, CloseHandle, CloseExamine, CloseCompare, CloseSignal
<1>2. ASSUME NEW q \in Pid, Exit(q) PROVE Stirred
  <2>1. /\ \/ proc'[q] = NoProcess
           \/ /\ proc'[q].birth = proc[q].birth /\ proc'[q].of = proc[q].of
              /\ proc[q].state = "run"
        /\ \A r \in Pid \ {q} : proc'[r] = proc[r]
    BY <1>0, <1>2 DEF Exit, Process
  <2>2. \A r \in Pid : \/ proc'[r] = NoProcess \/ proc'[r] = proc[r]
                       \/ /\ proc'[r].birth = proc[r].birth
                          /\ proc'[r].of = proc[r].of
                          /\ proc'[r].state = "run" => proc[r].state = "run"
    BY <2>1
  <2> QED
    BY <1>2, <2>2, FewerStirred DEF Exit
<1>3. ASSUME NEW q \in Pid, StartOther(q) \/ \E p \in Profile : HostOpen(p, q)
      PROVE  Stirred
  BY <1>3, StartStirred DEF StartOther, HostOpen
<1>4. CASE UNCHANGED vars
  BY <1>4, StillStirred DEF vars
<1> QED
  BY <1>1, <1>2, <1>3, <1>4 DEF Next, SystemStep

-----------------------------------------------------------------------------
(* What a step leaves as it was.                                           *)

LEMMA OwingKept ==
    ASSUME IInv, Stirred, signalled \subseteq signalled', NEW r \in Surface, Owing(r),
           task'[r].step = task[r].step, task'[r].pid = task[r].pid,
           task'[r].birth = task[r].birth, task'[r].owed = task[r].owed,
           task'[r].closed = task[r].closed
    PROVE  Owing(r)'
<1> SUFFICES ASSUME NEW b \in task'[r].owed
             PROVE  /\ b \in 1..born'
                    /\ task'[r].step = "handle" =>
                          \A q \in Pid : proc'[q].birth = b => q = task'[r].pid
                    /\ task'[r].step \in HandleStep =>
                          \A q \in Pid : proc'[q].birth = b => task'[r].birth = b
                    /\ task'[r].step = "idle" /\ task'[r].closed
                          => b \in signalled' \/ ~Running(b)'
  BY DEF Owing
<1>1. b \in 1..born /\ b \in task[r].owed
  BY DEF Owing
<1>2. \A q \in Pid : proc'[q].birth = b
         => proc[q].birth = b /\ (proc'[q].state = "run" => proc[q].state = "run")
  BY <1>1 DEF Stirred
<1>3. b \in 1..born'
  BY <1>1 DEF Stirred, IInv, TypeOK
<1>4. task'[r].step = "handle" =>
         \A q \in Pid : proc'[q].birth = b => q = task'[r].pid
  BY <1>1, <1>2 DEF Owing
<1>5. task'[r].step \in HandleStep =>
         \A q \in Pid : proc'[q].birth = b => task'[r].birth = b
  BY <1>1, <1>2 DEF Owing
<1>6. task'[r].step = "idle" /\ task'[r].closed => b \in signalled' \/ ~Running(b)'
  BY <1>1, <1>2 DEF Owing, Running
<1> QED
  BY <1>3, <1>4, <1>5, <1>6

\* A desktop that opens, and one that owes nothing.
LEMMA OwingOpen ==
    ASSUME IInv, Stirred, NEW r \in Surface, Owing(r),
           \/ task'[r].owed = {}
           \/ task'[r].owed = task[r].owed /\ task'[r].step \in OpenStep
    PROVE  Owing(r)'
<1>1. \A b \in task'[r].owed : b \in 1..born'
  BY DEF Owing, Stirred, IInv, TypeOK
<1>2. task'[r].step \in OpenStep
         => task'[r].step # "handle" /\ task'[r].step \notin HandleStep
            /\ task'[r].step # "idle"
  BY DEF OpenStep, HandleStep
<1> QED
  BY <1>1, <1>2 DEF Owing

LEMMA CleanBefore ==
    ASSUME Reach, Stirred, NEW p \in Profile, NEW q \in Pid, clean' \subseteq clean,
           CleanAt(p, q)'
    PROVE  CleanAt(p, q) /\ proc'[q].birth = proc[q].birth
BY DEF Reach, Stirred, CleanAt

LEMMA HeldKept ==
    ASSUME Reach, Stirred, NEW p \in Profile, clean' \subseteq clean,
           registry'[p]["pid"].pub = registry[p]["pid"].pub,
           registry'[p]["identity"].pub = registry[p]["identity"].pub,
           \A r \in Surface : Opens(r, p)' =>
              \/ /\ Opens(r, p)
                 /\ task'[r].step = task[r].step /\ task'[r].pid = task[r].pid
              \/ /\ task'[r].step = "probe"
                 /\ task'[r].pid = registry[p]["pid"].pub
    PROVE  Held(p)'
<1> SUFFICES ASSUME NEW q \in Pid, CleanAt(p, q)' PROVE HeldBy(p, q)'
  BY DEF Held
<1>1. CleanAt(p, q) /\ proc'[q].birth = proc[q].birth
  BY CleanBefore
<1>2. HeldBy(p, q)
  BY <1>1 DEF Reach, Held
<1>3. /\ registry'[p]["pid"].pub = q
      /\ registry'[p]["identity"].pub = proc'[q].birth
  BY <1>1, <1>2 DEF HeldBy, Published
<1>4. ASSUME NEW r \in Surface, Opens(r, p)'
      PROVE  task'[r].step = "probe" /\ task'[r].pid = q
  BY <1>2, <1>4 DEF HeldBy, Published
<1> QED
  BY <1>3, <1>4 DEF HeldBy, Published

\* An open that has come past its probe has no session beside it.
LEMMA NobodyClean ==
    ASSUME Reach, NEW p \in Profile, NEW s \in Surface, Opens(s, p),
           task[s].step # "probe"
    PROVE  \A q \in Pid : ~CleanAt(p, q)
BY DEF Reach, Held, HeldBy

LEMMA HeldNobody ==
    ASSUME Reach, Stirred, NEW p \in Profile, clean' \subseteq clean,
           \A q \in Pid : ~CleanAt(p, q)
    PROVE  Held(p)'
BY CleanBefore DEF Held

LEMMA AloneKept ==
    ASSUME NEW r \in Surface, Alone(r),
           task'[r].step \in OpenStep /\ ~task'[r].raced =>
              /\ task[r].step \in OpenStep /\ ~task[r].raced
              /\ task'[r].profile = task[r].profile
              /\ \A x \in Surface \ {r} :
                    Opens(x, task[r].profile)' => Opens(x, task[r].profile)
    PROVE  Alone(r)'
<1> SUFFICES ASSUME task'[r].step \in OpenStep, ~task'[r].raced,
                    NEW x \in Surface \ {r}, Opens(x, task[r].profile)',
                    task'[r].profile = task[r].profile
             PROVE  FALSE
  BY DEF Alone, Opens
<1> QED
  BY DEF Alone

LEMMA RecordedKept ==
    ASSUME NEW r \in Surface, Recorded(r), task'[r] = task[r],
           task[r].step \in OpenStep /\ ~task[r].raced =>
              /\ \A f \in File : registry'[task[r].profile][f].tmp
                                 = registry[task[r].profile][f].tmp
              /\ registry'[task[r].profile]["identity"].pub
                 = registry[task[r].profile]["identity"].pub,
           task[r].file \in File
    PROVE  Recorded(r)'
<1>1. Text(r)' = Text(r)
  BY DEF Text
<1>2. {"write", "rename", "create"} \subseteq OpenStep
  BY DEF OpenStep
<1> QED
  BY <1>1, <1>2 DEF Recorded

\* A step of one desktop that touches no file, and opens nothing.
LEMMA OwnReach ==
    ASSUME IInv, Reach, Stirred, NEW s \in Surface, NEW t \in Task,
           task' = [task EXCEPT ![s] = t],
           UNCHANGED <<registry, clean>>, signalled \subseteq signalled',
           t.step \in OpenStep =>
              /\ task[s].step \in OpenStep
              /\ t.profile = task[s].profile /\ t.raced = task[s].raced
              /\ \A q \in Pid : ~CleanAt(t.profile, q),
           Recorded(s)', Owing(s)'
    PROVE  Reach'
<1>0. /\ task' \in [Surface -> Task] /\ task'[s] = t
      /\ \A r \in Surface \ {s} : task'[r] = task[r]
  BY DEF IInv, TypeOK
<1>1. clean' \subseteq 1..born'
  BY DEF Reach, Stirred, IInv, TypeOK
<1>2. \A x \in Surface, p \in Profile : Opens(x, p)' => Opens(x, p)
  BY <1>0 DEF Opens
<1>3. ASSUME NEW p \in Profile PROVE Held(p)'
  <2>1. CASE t.step \in OpenStep /\ t.profile = p
    BY <2>1, HeldNobody
  <2>2. CASE ~(t.step \in OpenStep /\ t.profile = p)
    <3>1. ASSUME NEW r \in Surface, Opens(r, p)'
          PROVE  /\ Opens(r, p)
                 /\ task'[r].step = task[r].step /\ task'[r].pid = task[r].pid
      <4>1. r # s
        BY <1>0, <2>2, <3>1 DEF Opens
      <4> QED
        BY <1>0, <3>1, <4>1 DEF Opens
    <3> QED
      BY <3>1, HeldKept
  <2> QED
    BY <2>1, <2>2
<1>4. ASSUME NEW r \in Surface PROVE Alone(r)'
  <2>1. Alone(r)
    BY DEF Reach
  <2>2. task'[r].step \in OpenStep => /\ task[r].step \in OpenStep
                                      /\ task'[r].raced = task[r].raced
                                      /\ task'[r].profile = task[r].profile
    BY <1>0
  <2>3. task[r].step \in OpenStep => task[r].profile \in Profile
    BY TaskType DEF TaskOK, OpenStep
  <2> QED
    BY <1>2, <2>1, <2>2, <2>3, AloneKept
<1>5. ASSUME NEW r \in Surface \ {s} PROVE Recorded(r)' /\ Owing(r)'
  <2>1. Recorded(r) /\ Owing(r) /\ task'[r] = task[r] /\ task[r].file \in File
    BY <1>0, TaskType DEF Reach, Task
  <2>2. Recorded(r)'
    BY <2>1, RecordedKept
  <2> QED
    BY <2>1, <2>2, OwingKept
<1> QED
  BY <1>1, <1>3, <1>4, <1>5 DEF Reach

\* A step of the system: the tasks and what they write stay.
LEMMA SystemReach ==
    ASSUME IInv, Reach, Stirred, UNCHANGED <<task, signalled>>,
           clean' \subseteq clean,
           \A p \in Profile :
              /\ \A f \in File : registry'[p][f].tmp = registry[p][f].tmp
              /\ registry'[p]["identity"].pub = registry[p]["identity"].pub,
           \A p \in Profile : Held(p)'
    PROVE  Reach'
<1>1. clean' \subseteq 1..born'
  BY DEF Reach, Stirred, IInv, TypeOK
<1>2. ASSUME NEW r \in Surface PROVE Alone(r)' /\ Recorded(r)' /\ Owing(r)'
  <2>1. Alone(r) /\ Recorded(r) /\ Owing(r) /\ task'[r] = task[r]
        /\ task[r].file \in File
    BY TaskType DEF Reach, Task
  <2>2. Alone(r)'
    BY <2>1, AloneKept DEF Opens
  <2>3. task[r].step \in OpenStep => task[r].profile \in Profile
    BY TaskType DEF TaskOK, OpenStep
  <2>4. Recorded(r)'
    BY <2>1, <2>3, RecordedKept
  <2> QED
    BY <2>1, <2>2, <2>4, OwingKept
<1> QED
  BY <1>1, <1>2 DEF Reach

LEMMA ProcessReach ==
    ASSUME IInv, Reach, Stirred, UNCHANGED <<task, signalled, registry, clean>>
    PROVE  Reach'
<1>1. ASSUME NEW p \in Profile PROVE Held(p)'
  BY HeldKept DEF Opens
<1> QED
  BY <1>1, SystemReach

\* An older host takes the pid file, and the sessions that it hides are no
\* longer counted as known.
LEMMA HostReach ==
    ASSUME IInv, Reach, Stirred, NEW x \in Profile, NEW q \in Pid, HostOpen(x, q)
    PROVE  Reach'
<1>0. /\ registry \in [Profile -> [File -> [tmp : Content, pub : Content]]]
      /\ UNCHANGED <<task, signalled>>
      /\ clean' = clean \ SessionsOf(x)
  BY DEF HostOpen, IInv, TypeOK
<1>1. \A p \in Profile :
         /\ \A f \in File : registry'[p][f].tmp = registry[p][f].tmp
         /\ registry'[p]["identity"].pub = registry[p]["identity"].pub
  BY <1>0 DEF HostOpen, File
<1>2. ASSUME NEW p \in Profile PROVE Held(p)'
  <2>1. CASE p = x
    <3>1. ASSUME NEW r \in Pid, CleanAt(p, r)' PROVE FALSE
      <4>1. CleanAt(p, r) /\ proc'[r].birth = proc[r].birth
        BY <1>0, <3>1, CleanBefore
      <4>2. proc[r].birth \in SessionsOf(x)
        BY <2>1, <4>1 DEF CleanAt, SessionsOf
      <4> QED
        BY <1>0, <3>1, <4>1, <4>2 DEF CleanAt
    <3> QED
      BY <3>1 DEF Held
  <2>2. CASE p # x
    <3>1. registry'[p] = registry[p]
      BY <1>0, <2>2 DEF HostOpen
    <3> QED
      BY <1>0, <3>1, HeldKept DEF Opens
  <2> QED
    BY <2>1, <2>2
<1> QED
  BY <1>0, <1>1, <1>2, SystemReach

\* A desktop is idle again and owes nothing.
LEMMA IdleReach ==
    ASSUME IInv, Reach, Stirred, NEW s \in Surface,
           task' = [task EXCEPT ![s] = Idle], UNCHANGED <<registry, clean>>,
           signalled \subseteq signalled'
    PROVE  Reach'
<1>1. task'[s] = Idle
  BY DEF IInv, TypeOK
<1>2. Recorded(s)' /\ Owing(s)'
  BY <1>1 DEF Recorded, Owing, Idle
<1>3. Idle \in Task /\ Idle.step \notin OpenStep
  BY IdleType DEF OpenStep
<1> QED
  BY <1>2, <1>3, OwnReach

\* An open whose probe finds nobody alive has no session beside it.
LEMMA OpenProbeReach ==
    ASSUME IInv, Reach, Stirred, NEW s \in Surface, OpenProbe(s)
    PROVE  Reach'
<1> DEFINE u == [task[s] EXCEPT !.step = "spawn"]
<1>1. CASE task' = [task EXCEPT ![s] = Idle]
  BY <1>1, IdleReach DEF OpenProbe
<1>2. CASE ~PidAlive(task[s].pid) /\ task' = [task EXCEPT ![s] = u]
  <2>1. task[s] \in Task /\ task[s].profile \in Profile /\ task[s].step = "probe"
        /\ Recorded(s) /\ Owing(s)
    BY TaskType DEF OpenProbe, TaskOK, Reach
  <2>2. /\ u \in Task /\ u.step = "spawn" /\ u.profile = task[s].profile
        /\ u.raced = task[s].raced /\ u.file = task[s].file
        /\ u.owed = task[s].owed
    BY <2>1 DEF Task, OpenStep
  <2>3. task'[s] = u
    BY <1>2, TaskType
  <2>4. Opens(s, task[s].profile)
    BY <2>1 DEF Opens, OpenStep
  <2>5. \A q \in Pid : ~CleanAt(task[s].profile, q)
    BY <1>2, <2>1, <2>4 DEF Reach, Held, HeldBy, CleanAt, PidAlive
  <2>6. Recorded(s)'
    BY <2>1, <2>2, <2>3 DEF Recorded
  <2>7. Owing(s)'
    BY <2>1, <2>2, <2>3, OwingOpen DEF OpenStep
  <2>8. task[s].step \in OpenStep
    BY <2>1 DEF OpenStep
  <2> HIDE DEF u
  <2> QED
    BY <1>2, <2>2, <2>5, <2>6, <2>7, <2>8, OwnReach DEF OpenProbe
<1> QED
  BY <1>1, <1>2 DEF OpenProbe

\* An open that goes on past its probe and has not yet its file open.
LEMMA GoesOn ==
    ASSUME IInv, Reach, Stirred, NEW s \in Surface,
           task[s].step \in OpenStep \ {"probe"},
           NEW t \in Task, task' = [task EXCEPT ![s] = t],
           UNCHANGED <<registry, clean, signalled>>,
           t.step \in OpenStep, t.profile = task[s].profile,
           t.raced = task[s].raced, t.owed = task[s].owed,
           Recorded(s)'
    PROVE  Reach'
<1>1. task'[s] = t /\ Owing(s)
  BY TaskType DEF Reach
<1>2. task[s].profile \in Profile
  BY TaskType DEF TaskOK, OpenStep
<1>3. \A q \in Pid : ~CleanAt(t.profile, q)
  BY <1>2, NobodyClean DEF Opens
<1>4. Owing(s)'
  BY <1>1, OwingOpen
<1> QED
  BY <1>3, <1>4, OwnReach

LEMMA SpawnReach ==
    ASSUME IInv, Reach, Stirred, NEW s \in Surface, SpawnSession(s)
    PROVE  Reach'
<1>1. PICK q \in Pid :
         task' = [task EXCEPT ![s].step = "settle", ![s].pid = q,
                              ![s].birth = born + 1]
  BY DEF SpawnSession
<1> DEFINE u == [task[s] EXCEPT !.step = "settle", !.pid = q, !.birth = born + 1]
<1>2. task[s] \in Task /\ born \in Nat /\ task[s].step = "spawn" /\ Recorded(s)
  BY TaskType DEF SpawnSession, Reach
<1>3. /\ u.step = "settle" /\ u.pid = q /\ u.birth = born + 1
      /\ u.profile = task[s].profile /\ u.raced = task[s].raced
      /\ u.owed = task[s].owed /\ u.file = task[s].file
  BY <1>2 DEF Task
<1>4. u \in Task
  <2>1. born + 1 \in Nat /\ "settle" \in OpenStep /\ q \in Pid
    BY <1>2 DEF OpenStep
  <2> QED
    BY <1>2, <2>1 DEF Task
<1>5. task' = [task EXCEPT ![s] = u] /\ task'[s] = u
  BY <1>1, TaskType
<1>6. Recorded(s)'
  BY <1>2, <1>3, <1>5 DEF Recorded
<1>7. task[s].step \in OpenStep \ {"probe"} /\ u.step \in OpenStep
  BY <1>2, <1>3 DEF OpenStep
<1> HIDE DEF u
<1> QED
  BY <1>3, <1>4, <1>5, <1>6, <1>7, GoesOn DEF SpawnSession

LEMMA SettleReach ==
    ASSUME IInv, Reach, Stirred, NEW s \in Surface, Settle(s)
    PROVE  Reach'
<1> DEFINE u == [task[s] EXCEPT !.step = "create"]
<1>1. CASE task' = [task EXCEPT ![s] = Idle]
  BY <1>1, IdleReach DEF Settle
<1>2. CASE task' = [task EXCEPT ![s] = u]
  <2>1. task[s] \in Task /\ task[s].step = "settle" /\ Recorded(s)
    BY TaskType DEF Settle, Reach
  <2>2. /\ u \in Task /\ u.step = "create" /\ u.profile = task[s].profile
        /\ u.raced = task[s].raced /\ u.file = task[s].file
        /\ u.owed = task[s].owed
    BY <2>1 DEF Task, OpenStep
  <2>3. task'[s] = u
    BY <1>2, TaskType
  <2>4. Recorded(s)'
    BY <2>1, <2>2, <2>3 DEF Recorded
  <2>5. task[s].step \in OpenStep \ {"probe"} /\ u.step \in OpenStep
    BY <2>1, <2>2 DEF OpenStep
  <2> HIDE DEF u
  <2> QED
    BY <1>2, <2>2, <2>4, <2>5, GoesOn DEF Settle
<1> QED
  BY <1>1, <1>2 DEF Settle

LEMMA CancelReach ==
    ASSUME IInv, Reach, Stirred, NEW s \in Surface, CancelChild(s)
    PROVE  Reach'
BY IdleReach DEF CancelChild

\* An open that enters: those it meets have met it, and it has met them.
LEMMA EnterReach ==
    ASSUME IInv, Reach, Stirred, NEW s \in Surface, NEW p \in Profile,
           NEW u \in Task, Enter(s, u), task[s].step = "idle",
           UNCHANGED <<proc, born, registry, signalled, clean, faults>>,
           u.step \in {"spawn", "probe"}, u.profile = p, u.file = "identity",
           u.owed = {},
           \/ \A q \in Pid : ~CleanAt(p, q)
           \/ u.step = "probe" /\ u.pid = registry[p]["pid"].pub
    PROVE  Reach'
<1>0. /\ task \in [Surface -> Task] /\ u.step \in OpenStep
      /\ "idle" \notin OpenStep
  BY TaskType DEF OpenStep
<1>1. /\ task'[s].step = u.step /\ task'[s].profile = p
      /\ task'[s].file = "identity" /\ task'[s].owed = {}
      /\ task'[s].pid = u.pid
      /\ task'[s].raced = (Opening(p) # {})
  BY DEF Enter, Task
<1>2. ASSUME NEW r \in Surface \ {s}
      PROVE  /\ task'[r].step = task[r].step /\ task'[r].profile = task[r].profile
             /\ task'[r].pid = task[r].pid /\ task'[r].birth = task[r].birth
             /\ task'[r].owed = task[r].owed /\ task'[r].closed = task[r].closed
             /\ task'[r].file = task[r].file
  BY <1>0 DEF Enter, Task
<1>3. ASSUME NEW r \in Surface \ {s}, Opens(r, p)
      PROVE  task'[r].raced
  <2>1. r \in Opening(u.profile)
    BY <1>3 DEF Opening, Opens
  <2> QED
    BY <1>0, <2>1 DEF Enter, Task
<1>4. ASSUME NEW r \in Surface \ {s}, ~Opens(r, p)
      PROVE  task'[r] = task[r]
  <2>1. r \notin Opening(u.profile)
    BY <1>4 DEF Opening, Opens
  <2> QED
    BY <2>1 DEF Enter
<1>5. clean' \subseteq 1..born'
  BY DEF Reach
<1>6. ASSUME NEW x \in Profile PROVE Held(x)'
  <2>1. CASE x = p /\ \A q \in Pid : ~CleanAt(p, q)
    BY <2>1, HeldNobody
  <2>2. CASE x # p \/ (u.step = "probe" /\ u.pid = registry[p]["pid"].pub)
    <3>1. ASSUME NEW r \in Surface, Opens(r, x)'
          PROVE  \/ /\ Opens(r, x)
                    /\ task'[r].step = task[r].step /\ task'[r].pid = task[r].pid
                 \/ /\ task'[r].step = "probe"
                    /\ task'[r].pid = registry[x]["pid"].pub
      <4>1. CASE r = s
        BY <1>1, <2>2, <3>1, <4>1 DEF Opens
      <4>2. CASE r # s
        BY <1>2, <3>1, <4>2 DEF Opens
      <4> QED
        BY <4>1, <4>2
    <3> QED
      BY <3>1, HeldKept
  <2> QED
    BY <2>1, <2>2
<1>7. Alone(s)'
  <2> SUFFICES ASSUME ~task'[s].raced, NEW r \in Surface \ {s}, Opens(r, p)'
               PROVE  FALSE
    BY <1>1 DEF Alone, Opens
  <2>1. Opening(p) = {}
    BY <1>1
  <2>2. Opens(r, p)
    BY <1>2 DEF Opens
  <2> QED
    BY <2>1, <2>2 DEF Opening, Opens
<1>8. ASSUME NEW r \in Surface \ {s} PROVE Alone(r)'
  <2>1. Alone(r)
    BY DEF Reach
  <2>2. CASE Opens(r, p)
    BY <1>3, <2>2 DEF Alone
  <2>3. CASE ~Opens(r, p)
    <3>1. task'[r] = task[r]
      BY <1>4, <2>3
    <3>2. ASSUME task[r].step \in OpenStep, NEW x \in Surface \ {r},
                 Opens(x, task[r].profile)'
          PROVE  Opens(x, task[r].profile)
      <4>1. task[r].profile # p
        BY <2>3, <3>2 DEF Opens
      <4>2. x # s
        BY <1>1, <3>1, <3>2, <4>1 DEF Opens
      <4> QED
        BY <1>2, <3>1, <3>2, <4>2 DEF Opens
    <3> QED
      BY <2>1, <3>1, <3>2, AloneKept
  <2> QED
    BY <2>2, <2>3
<1>9. Recorded(s)'
  BY <1>1 DEF Recorded
<1>10. ASSUME NEW r \in Surface \ {s} PROVE Recorded(r)'
  <2>1. Recorded(r) /\ task[r].file \in File
    BY <1>0 DEF Reach, Task
  <2>2. CASE Opens(r, p)
    <3>1. task'[r].raced
      BY <1>3, <2>2
    <3> QED
      BY <1>2, <2>1, <3>1 DEF Recorded
  <2>3. CASE ~Opens(r, p)
    <3>1. task'[r] = task[r]
      BY <1>4, <2>3
    <3> QED
      BY <2>1, <3>1, RecordedKept
  <2> QED
    BY <2>2, <2>3
<1>11. ASSUME NEW r \in Surface PROVE Owing(r)'
  <2>1. Owing(r)
    BY DEF Reach
  <2>2. CASE r = s
    BY <1>1, <2>1, <2>2, OwingOpen
  <2>3. CASE r # s
    BY <1>2, <2>1, <2>3, OwingKept
  <2> QED
    BY <2>2, <2>3
<1> QED
  BY <1>5, <1>6, <1>7, <1>8, <1>9, <1>10, <1>11 DEF Reach

LEMMA OpenCheckReach ==
    ASSUME IInv, Reach, Stirred, NEW s \in Surface, NEW p \in Profile,
           OpenCheck(s, p)
    PROVE  Reach'
<1> DEFINE t == [Idle EXCEPT !.profile = p]
<1>0. /\ t \in Task /\ t.profile = p /\ t.file = "identity" /\ t.owed = {}
      /\ task[s].step = "idle"
      /\ UNCHANGED <<proc, born, registry, signalled, clean, faults>>
  BY IdleType DEF Idle, OpenCheck
<1>1. CASE ReadRegisteredPid(p) = "none" /\ Enter(s, [t EXCEPT !.step = "spawn"])
  <2> DEFINE u == [t EXCEPT !.step = "spawn"]
  <2>1. u \in Task /\ u.step = "spawn" /\ u.profile = p /\ u.file = "identity"
        /\ u.owed = {}
    BY <1>0 DEF Task, OpenStep
  <2>2. registry[p]["pid"].pub \notin Pid
    BY <1>1, ConstantsOK DEF ReadRegisteredPid, Published
  <2>3. \A q \in Pid : ~CleanAt(p, q)
    BY <2>2 DEF Reach, Held, HeldBy, Published
  <2>4. Enter(s, u)
    BY <1>1
  <2> HIDE DEF u, t
  <2> QED
    BY <1>0, <2>1, <2>3, <2>4, EnterReach
<1>2. CASE /\ ReadRegisteredPid(p) = "pid"
           /\ Enter(s, [t EXCEPT !.step = "probe", !.pid = Published(p, "pid")])
  <2> DEFINE u == [t EXCEPT !.step = "probe", !.pid = Published(p, "pid")]
  <2>1. Published(p, "pid") \in Pid
    BY <1>2 DEF ReadRegisteredPid
  <2>2. u \in Task /\ u.step = "probe" /\ u.profile = p /\ u.file = "identity"
        /\ u.owed = {} /\ u.pid = registry[p]["pid"].pub
    BY <1>0, <2>1 DEF Task, OpenStep, Published
  <2>3. Enter(s, u)
    BY <1>2
  <2> HIDE DEF u, t
  <2> QED
    BY <1>0, <2>2, <2>3, EnterReach
<1>3. CASE task' = [task EXCEPT ![s] = Idle]
  BY <1>0, <1>3, IdleReach
<1> QED
  BY <1>1, <1>2, <1>3 DEF OpenCheck

LEMMA CrashReach ==
    ASSUME IInv, Reach, Stirred, NEW s \in Surface, Crash(s)
    PROVE  Reach'
BY IdleReach DEF Crash

-----------------------------------------------------------------------------
(* A close.                                                                *)

\* A close goes on, or answers.
LEMMA CloseGoesOn ==
    ASSUME IInv, Reach, Stirred, NEW s \in Surface, NEW t \in Task,
           task' = [task EXCEPT ![s] = t],
           UNCHANGED <<registry, clean>>, signalled \subseteq signalled',
           t.step \in {"idle"} \cup CloseStep, Owing(s)'
    PROVE  Reach'
<1>1. task'[s] = t
  BY TaskType
<1>2. t.step \notin OpenStep
  BY DEF OpenStep, CloseStep
<1>3. Recorded(s)'
  BY <1>1 DEF Recorded, CloseStep
<1> QED
  BY <1>2, <1>3, OwnReach

\* What an answer of a close that began with t leaves.
LEMMA AnsweredReach ==
    ASSUME IInv, Reach, Stirred, NEW s \in Surface, NEW t \in Task,
           NEW c \in BOOLEAN, Answered(s, t, c),
           UNCHANGED <<registry, clean, born>>, signalled \subseteq signalled',
           \A b \in t.owed : b \in 1..born,
           c => \A b \in t.owed : b \in signalled' \/ ~Running(b)'
    PROVE  Reach'
<1> DEFINE u == [Idle EXCEPT !.profile = t.profile, !.owed = t.owed, !.closed = c]
<1>1. u \in Task /\ u.step = "idle" /\ u.owed = t.owed /\ u.closed = c
  BY AnsweredType DEF Idle
<1>2. task' = [task EXCEPT ![s] = u] /\ task'[s] = u
  BY TaskType DEF Answered
<1>3. Owing(s)'
  BY <1>1, <1>2 DEF Owing, HandleStep
<1> HIDE DEF u
<1> QED
  BY <1>1, <1>2, <1>3, CloseGoesOn

\* The number that a close reads is that of the session it owes an end.
LEMMA CloseReadReach ==
    ASSUME IInv, Reach, Stirred, NEW s \in Surface, NEW p \in Profile,
           CloseRead(s, p)
    PROVE  Reach'
<1> DEFINE o == (clean \cap SessionsOf(p)) \ signalled
           t == [Idle EXCEPT !.profile = p, !.owed = o]
<1>1. \A b \in o : /\ b \in 1..born
                   /\ \E q \in Pid : proc[q].birth = b /\ CleanAt(p, q)
  BY DEF Reach, SessionsOf, CleanAt
<1>2. o \in SUBSET Nat
  BY DEF IInv, TypeOK
<1>3. t \in Task /\ t.owed = o /\ t.profile = p
  BY <1>2 DEF Idle, Task, File
<1>4. UNCHANGED <<proc, born, registry, signalled, clean>>
  BY DEF CloseRead
<1>5. \A b \in o, q \in Pid : proc[q].birth = b => q = registry[p]["pid"].pub
  <2> SUFFICES ASSUME NEW b \in o, NEW q \in Pid, proc[q].birth = b
               PROVE  q = registry[p]["pid"].pub
    OBVIOUS
  <2>1. PICK r \in Pid : proc[r].birth = b /\ CleanAt(p, r)
    BY <1>1
  <2>2. r = registry[p]["pid"].pub
    BY <2>1 DEF Reach, Held, HeldBy, Published
  <2>3. proc[r].state # "none"
    BY <2>1 DEF CleanAt
  <2> QED
    BY <2>1, <2>2, <2>3 DEF IInv, ProcsOK
<1>6. CASE /\ ReadRegisteredPid(p) # "pid"
           /\ Answered(s, t, ReadRegisteredPid(p) = "none")
  <2>1. registry[p]["pid"].pub \notin Pid
    BY <1>6, ConstantsOK DEF ReadRegisteredPid, Published
  <2>2. o = {}
    BY <1>1, <1>5, <2>1
  <2> HIDE DEF o, t
  <2> QED
    BY <1>3, <1>4, <1>6, <2>2, AnsweredReach
<1>7. CASE /\ ReadRegisteredPid(p) = "pid"
           /\ task' = [task EXCEPT ![s] = [t EXCEPT !.step = "handle",
                                             !.pid = Published(p, "pid")]]
  <2> DEFINE u == [t EXCEPT !.step = "handle", !.pid = Published(p, "pid")]
  <2>1. Published(p, "pid") \in Pid
    BY <1>7 DEF ReadRegisteredPid
  <2>2. u \in Task /\ u.step = "handle" /\ u.pid = registry[p]["pid"].pub
        /\ u.owed = o
    BY <1>3, <2>1 DEF Task, CloseStep, Published
  <2>3. task' = [task EXCEPT ![s] = u] /\ task'[s] = u
    BY <1>7, TaskType
  <2>4. Owing(s)'
    <3>1. \A b \in o : b \in 1..born'
      BY <1>1, <1>4
    <3>2. \A b \in o, q \in Pid : proc'[q].birth = b => q = task'[s].pid
      BY <1>4, <1>5, <2>2, <2>3
    <3>3. task'[s].owed = o /\ task'[s].step = "handle"
      BY <2>2, <2>3
    <3> HIDE DEF o, u
    <3> QED
      BY <3>1, <3>2, <3>3 DEF Owing, HandleStep
  <2> HIDE DEF u
  <2> QED
    BY <1>4, <2>2, <2>3, <2>4, CloseGoesOn DEF CloseStep
<1> QED
  BY <1>6, <1>7 DEF CloseRead

LEMMA CloseHandleReach ==
    ASSUME IInv, Reach, Stirred, NEW s \in Surface, CloseHandle(s)
    PROVE  Reach'
<1> DEFINE t == task[s]
<1>0. /\ t \in Task /\ t.step = "handle" /\ t.pid \in Pid /\ Owing(s)
      /\ UNCHANGED <<proc, born, registry, signalled, clean>>
  BY TaskType DEF CloseHandle, TaskOK, Reach
<1>1. \A b \in t.owed : /\ b \in 1..born
                        /\ \A q \in Pid : proc[q].birth = b => q = t.pid
  BY <1>0 DEF Owing
<1>2. CASE proc[t.pid].state = "none" /\ Answered(s, t, TRUE)
  <2>1. \A b \in t.owed : ~Running(b)'
    BY <1>0, <1>1, <1>2 DEF Running
  <2> QED
    BY <1>0, <1>1, <1>2, <2>1, AnsweredReach
<1>3. CASE task' = [task EXCEPT ![s] = [t EXCEPT !.step = "examine",
                                          !.birth = proc[t.pid].birth]]
  <2> DEFINE u == [t EXCEPT !.step = "examine", !.birth = proc[t.pid].birth]
  <2>0. proc[t.pid].birth \in Nat
    BY <1>0 DEF IInv, TypeOK, Process
  <2>1. u \in Task /\ u.step = "examine" /\ u.owed = t.owed
        /\ u.birth = proc[t.pid].birth
    BY <1>0, <2>0 DEF Task, CloseStep
  <2>2. task' = [task EXCEPT ![s] = u] /\ task'[s] = u
    BY <1>3, TaskType
  <2>3. \A b \in t.owed : /\ b \in 1..born'
                          /\ \A q \in Pid : proc'[q].birth = b => u.birth = b
    BY <1>0, <1>1, <2>1
  <2>4. Owing(s)'
    BY <2>1, <2>2, <2>3 DEF Owing
  <2> HIDE DEF u
  <2> QED
    BY <1>0, <2>1, <2>2, <2>4, CloseGoesOn DEF CloseStep
<1> QED
  BY <1>2, <1>3 DEF CloseHandle

\* A handle that is kept still holds what it held.
LEMMA HandleKept ==
    ASSUME IInv, Reach, Stirred, NEW s \in Surface, task[s].step \in HandleStep,
           UNCHANGED <<proc, born>>,
           task'[s].step \in HandleStep, task'[s].birth = task[s].birth,
           task'[s].owed = task[s].owed
    PROVE  Owing(s)'
<1>1. Owing(s)
  BY DEF Reach
<1> QED
  BY <1>1 DEF Owing, HandleStep

LEMMA CloseExamineReach ==
    ASSUME IInv, Reach, Stirred, NEW s \in Surface, CloseExamine(s)
    PROVE  Reach'
<1> DEFINE t == task[s]
<1>0. /\ t \in Task /\ t.step = "examine" /\ t.pid \in Pid /\ Owing(s)
      /\ UNCHANGED <<proc, born, registry, signalled, clean>>
  BY TaskType DEF CloseExamine, TaskOK, HandleStep, Reach
<1>1. \A b \in t.owed : b \in 1..born
  BY <1>0 DEF Owing
<1>2. CASE Answered(s, t, FALSE)
  BY <1>0, <1>1, <1>2, AnsweredReach
<1>3. CASE task' = [task EXCEPT ![s] = [t EXCEPT !.step = "compare",
                                          !.actual = ProcessIdentity(t.pid)]]
  <2> DEFINE u == [t EXCEPT !.step = "compare", !.actual = ProcessIdentity(t.pid)]
  <2>0. ProcessIdentity(t.pid) \in Nat
    BY <1>0 DEF IInv, TypeOK, Process, ProcessIdentity
  <2>1. u \in Task /\ u.step = "compare" /\ u.owed = t.owed /\ u.birth = t.birth
    BY <1>0, <2>0 DEF Task, CloseStep
  <2>2. task' = [task EXCEPT ![s] = u] /\ task'[s] = u
    BY <1>3, TaskType
  <2>3. Owing(s)'
    BY <1>0, <2>1, <2>2, HandleKept DEF HandleStep
  <2> HIDE DEF u
  <2> QED
    BY <1>0, <2>1, <2>2, <2>3, CloseGoesOn DEF CloseStep
<1> QED
  BY <1>2, <1>3 DEF CloseExamine

LEMMA CloseCompareReach ==
    ASSUME IInv, Reach, Stirred, NEW s \in Surface, CloseCompare(s)
    PROVE  Reach'
<1> DEFINE t == task[s]
<1>0. /\ t \in Task /\ t.step = "compare" /\ Owing(s)
      /\ UNCHANGED <<proc, born, registry, signalled, clean>>
  BY TaskType DEF CloseCompare, Reach
<1>1. \A b \in t.owed : b \in 1..born
  BY <1>0 DEF Owing
<1>2. CASE Answered(s, t, FALSE)
  BY <1>0, <1>1, <1>2, AnsweredReach
<1>3. CASE task' = [task EXCEPT ![s].step = "signal"]
  <2> DEFINE u == [t EXCEPT !.step = "signal"]
  <2>1. u \in Task /\ u.step = "signal" /\ u.owed = t.owed /\ u.birth = t.birth
    BY <1>0 DEF Task, CloseStep
  <2>2. task' = [task EXCEPT ![s] = u] /\ task'[s] = u
    BY <1>3, TaskType
  <2>3. Owing(s)'
    BY <1>0, <2>1, <2>2, HandleKept DEF HandleStep
  <2> HIDE DEF u
  <2> QED
    BY <1>0, <2>1, <2>2, <2>3, CloseGoesOn DEF CloseStep
<1> QED
  BY <1>2, <1>3 DEF CloseCompare

\* The session that is owed an end is the one that the handle holds.
LEMMA CloseSignalReach ==
    ASSUME IInv, Reach, Stirred, NEW s \in Surface, CloseSignal(s)
    PROVE  Reach'
<1> DEFINE t == task[s]
<1>0. /\ t \in Task /\ t.step = "signal" /\ Owing(s)
      /\ UNCHANGED <<proc, born, registry, clean>>
      /\ signalled' = IF Running(t.birth) THEN signalled \cup {t.birth} ELSE signalled
      /\ Answered(s, t, TRUE)
  BY TaskType DEF CloseSignal, Target, Reach
<1>1. \A b \in t.owed : /\ b \in 1..born
                        /\ \A q \in Pid : proc[q].birth = b => t.birth = b
  BY <1>0 DEF Owing, HandleStep
<1>2. ASSUME NEW b \in t.owed PROVE b \in signalled' \/ ~Running(b)'
  <2>1. CASE Running(b)
    <3>1. t.birth = b
      BY <1>1, <2>1 DEF Running
    <3> QED
      BY <1>0, <2>1, <3>1
  <2>2. CASE ~Running(b)
    BY <1>0, <2>2 DEF Running
  <2> QED
    BY <2>1, <2>2
<1>3. signalled \subseteq signalled'
  BY <1>0
<1> QED
  BY <1>0, <1>1, <1>2, <1>3, AnsweredReach

-----------------------------------------------------------------------------
(* The files of an open.                                                   *)

\* The task of r differs in nothing but where its file is.
FileMoved(r) ==
    /\ task'[r].step = task[r].step /\ task'[r].profile = task[r].profile
    /\ task'[r].pid = task[r].pid /\ task'[r].birth = task[r].birth
    /\ task'[r].owed = task[r].owed /\ task'[r].closed = task[r].closed
    /\ task'[r].file = task[r].file /\ task'[r].raced = task[r].raced

\* Whoever else opens the profile of s has met s.
LEMMA MetOther ==
    ASSUME Reach, NEW s \in Surface, NEW r \in Surface \ {s}, NEW p \in Profile,
           Opens(s, p), Opens(r, p)
    PROVE  task[r].raced
BY DEF Reach, Alone, Opens

LEMMA FileReach ==
    ASSUME IInv, Reach, Stirred, NEW s \in Surface, NEW p \in Profile,
           task[s].step \in {"create", "write", "rename"}, task[s].profile = p,
           UNCHANGED <<proc, born, signalled>>,
           clean' \subseteq clean \cup {task[s].birth},
           \A x \in Profile \ {p} : registry'[x] = registry[x],
           \A r \in Surface \ {s} :
              task'[r] = task[r] \/ (Opens(r, p) /\ FileMoved(r)),
           \/ task'[s].owed = {}
           \/ task'[s].owed = task[s].owed /\ task'[s].step \in OpenStep,
           task'[s].step \in OpenStep =>
              task'[s].profile = p /\ task'[s].raced = task[s].raced,
           Recorded(s)', Held(p)'
    PROVE  Reach'
<1>0. /\ Opens(s, p) /\ task[s].step \in OpenStep /\ task[s].step \in ChildStep
      /\ task[s].pid \in Pid /\ ChildOK(s)
  BY TaskType DEF Opens, OpenStep, ChildStep, TaskOK
<1>1. task[s].birth \in 1..born
      /\ \A q \in Pid : proc[q].birth = task[s].birth => proc[q].of = p
  BY <1>0 DEF ChildOK, IInv, ProcsOK
<1>2. clean' \subseteq 1..born'
  BY <1>1 DEF Reach
<1>3. \A r \in Surface, x \in Profile : Opens(r, x)' => Opens(r, x)
  BY <1>0 DEF Opens, FileMoved
<1>4. ASSUME NEW x \in Profile \ {p} PROVE Held(x)'
  <2> SUFFICES ASSUME NEW q \in Pid, CleanAt(x, q)' PROVE HeldBy(x, q)'
    BY DEF Held
  <2>1. CleanAt(x, q)
    BY <1>1 DEF CleanAt
  <2>2. HeldBy(x, q) /\ registry'[x] = registry[x]
    BY <2>1 DEF Reach, Held
  <2>3. ASSUME NEW r \in Surface, Opens(r, x)'
        PROVE  task'[r].step = "probe" /\ task'[r].pid = q
    <3>1. r # s
      BY <2>3 DEF Opens
    <3>2. Opens(r, x)
      BY <1>3, <2>3
    <3>3. task[r].step = "probe" /\ task[r].pid = q
      BY <2>2, <3>2 DEF HeldBy
    <3> QED
      BY <3>1, <3>3 DEF FileMoved
  <2> QED
    BY <2>2, <2>3 DEF HeldBy, Published
<1>5. ASSUME NEW r \in Surface PROVE Alone(r)'
  <2>1. Alone(r)
    BY DEF Reach
  <2>2. task'[r].step \in OpenStep => /\ task[r].step \in OpenStep
                                      /\ task'[r].raced = task[r].raced
                                      /\ task'[r].profile = task[r].profile
    BY <1>0 DEF FileMoved
  <2>3. task[r].step \in OpenStep => task[r].profile \in Profile
    BY TaskType DEF TaskOK, OpenStep
  <2>4. task'[r].step \in OpenStep =>
           \A x \in Surface : Opens(x, task[r].profile)' => Opens(x, task[r].profile)
    <3> SUFFICES ASSUME task'[r].step \in OpenStep, NEW x \in Surface,
                        Opens(x, task[r].profile)'
                 PROVE  Opens(x, task[r].profile)
      OBVIOUS
    <3>1. task'[x].step \in OpenStep /\ task'[x].profile = task[r].profile
      BY <2>2 DEF Opens
    <3>2. task[x].step \in OpenStep /\ task'[x].profile = task[x].profile
      BY <1>0, <3>1 DEF FileMoved
    <3> QED
      BY <3>1, <3>2 DEF Opens
  <2> QED
    BY <2>1, <2>2, <2>4, AloneKept
<1>6. ASSUME NEW r \in Surface \ {s} PROVE Recorded(r)'
  <2>1. Recorded(r) /\ task[r].file \in File
    BY TaskType DEF Reach, Task
  <2>2. CASE Opens(r, p)
    <3>1. task[r].raced
      BY <1>0, <2>2, MetOther
    <3> QED
      BY <2>1, <3>1 DEF Recorded, FileMoved
  <2>3. CASE ~Opens(r, p)
    <3>1. task'[r] = task[r]
      BY <2>3
    <3>2. task[r].step \in OpenStep => task[r].profile \in Profile \ {p}
      BY <2>3, TaskType DEF TaskOK, OpenStep, Opens
    <3> QED
      BY <2>1, <3>1, <3>2, RecordedKept
  <2> QED
    BY <2>2, <2>3
<1>7. ASSUME NEW r \in Surface PROVE Owing(r)'
  <2>1. Owing(r)
    BY DEF Reach
  <2>2. CASE r = s
    BY <2>1, <2>2, OwingOpen
  <2>3. CASE r # s
    BY <2>1, <2>3, OwingKept DEF FileMoved
  <2> QED
    BY <2>2, <2>3
<1>8. \A x \in Profile : Held(x)'
  BY <1>4
<1>9. \A r \in Surface : Alone(r)' /\ Recorded(r)' /\ Owing(r)'
  BY <1>5, <1>6, <1>7
<1> QED
  BY <1>2, <1>8, <1>9 DEF Reach

\* A step of an open that leaves the ghost alone.
LEMMA QuietFile ==
    ASSUME IInv, Reach, Stirred, NEW s \in Surface, NEW p \in Profile,
           task[s].step \in {"create", "write", "rename"}, task[s].profile = p,
           UNCHANGED <<proc, born, signalled, clean>>,
           \A x \in Profile \ {p} : registry'[x] = registry[x],
           \A r \in Surface \ {s} :
              task'[r] = task[r] \/ (Opens(r, p) /\ FileMoved(r)),
           task'[s].owed = task[s].owed, task'[s].step \in OpenStep,
           task'[s].profile = p, task'[s].raced = task[s].raced,
           Recorded(s)'
    PROVE  Reach'
<1>1. Opens(s, p) /\ task[s].step # "probe"
  BY DEF Opens, OpenStep
<1>2. Held(p)'
  BY <1>1, NobodyClean, HeldNobody
<1> QED
  BY <1>2, FileReach

\* The files of the other profiles, and the tasks.
LEMMA OpenFacts ==
    ASSUME IInv, Reach, NEW s \in Surface,
           task[s].step \in {"create", "write", "rename"}
    PROVE  /\ task \in [Surface -> Task] /\ task[s] \in Task
           /\ task[s].profile \in Profile /\ task[s].file \in File
           /\ task[s].pid \in Pid /\ task[s].birth \in Nat
           /\ registry \in [Profile -> [File -> Files]]
           /\ Recorded(s) /\ Text(s) \in Nat \cup Pid
<1>1. task[s].step \in ChildStep
  BY DEF ChildStep
<1>2. task[s] \in Task /\ task[s].file \in File /\ task[s].profile \in Profile
      /\ task[s].pid \in Pid
  BY <1>1, Recording
<1>3. task[s].birth \in Nat
  BY <1>2 DEF Task
<1> QED
  BY <1>2, <1>3 DEF IInv, TypeOK, Files, Reach, Text

LEMMA CreateReach ==
    ASSUME IInv, Reach, Stirred, NEW s \in Surface, CreateRecord(s)
    PROVE  Reach'
<1> DEFINE t == task[s]
<1>0. /\ t.step = "create" /\ t \in Task /\ t.profile \in Profile
      /\ t.file \in File /\ registry \in [Profile -> [File -> Files]]
      /\ task \in [Surface -> Task] /\ Recorded(s)
      /\ UNCHANGED <<proc, born, signalled, clean>>
  BY OpenFacts DEF CreateRecord
<1>1. CASE task' = [task EXCEPT ![s].step = "cancel"] /\ UNCHANGED registry
  <2> DEFINE u == [t EXCEPT !.step = "cancel"]
  <2>1. /\ u.step = "cancel" /\ u.profile = t.profile /\ u.owed = t.owed
        /\ u.raced = t.raced
    BY <1>0 DEF Task
  <2>2. task'[s] = u /\ \A r \in Surface \ {s} : task'[r] = task[r]
    BY <1>0, <1>1
  <2>3. Recorded(s)'
    BY <2>1, <2>2 DEF Recorded
  <2>4. u.step \in OpenStep
    BY <2>1 DEF OpenStep
  <2> HIDE DEF u
  <2> QED
    BY <1>0, <1>1, <2>1, <2>2, <2>3, <2>4, QuietFile
<1>2. CASE /\ registry' = [registry EXCEPT ![t.profile][t.file].tmp = Empty]
           /\ task' = [task EXCEPT ![s].step = "write", ![s].at = "tmp"]
  <2> DEFINE u == [t EXCEPT !.step = "write", !.at = "tmp"]
  <2>1. /\ u.step = "write" /\ u.profile = t.profile /\ u.owed = t.owed
        /\ u.raced = t.raced /\ u.at = "tmp" /\ u.file = t.file
        /\ u.birth = t.birth
    BY <1>0 DEF Task
  <2>2. task'[s] = u /\ \A r \in Surface \ {s} : task'[r] = task[r]
    BY <1>0, <1>2
  <2>3. /\ registry'[t.profile][t.file].tmp = Empty
        /\ registry'[t.profile]["identity"].pub = registry[t.profile]["identity"].pub
        /\ \A x \in Profile \ {t.profile} : registry'[x] = registry[x]
    BY <1>0, <1>2 DEF File, Files
  <2>4. Recorded(s)'
    BY <1>0, <2>1, <2>2, <2>3 DEF Recorded
  <2>5. u.step \in OpenStep
    BY <2>1 DEF OpenStep
  <2> HIDE DEF u
  <2> QED
    BY <1>0, <2>1, <2>2, <2>3, <2>4, <2>5, QuietFile
<1> QED
  BY <1>1, <1>2 DEF CreateRecord

\* Alone, the open writes into its own empty file.
LEMMA WriteReach ==
    ASSUME IInv, Reach, Stirred, NEW s \in Surface, WriteRecord(s)
    PROVE  Reach'
<1> DEFINE t == task[s]
           u == [t EXCEPT !.step = "rename"]
           r == registry[t.profile][t.file]
<1>0. /\ t.step = "write" /\ t \in Task /\ t.profile \in Profile
      /\ t.file \in File /\ registry \in [Profile -> [File -> Files]]
      /\ task \in [Surface -> Task] /\ Recorded(s)
      /\ UNCHANGED <<proc, born, signalled, clean>>
  BY OpenFacts DEF WriteRecord
<1>1. /\ u.step = "rename" /\ u.profile = t.profile /\ u.owed = t.owed
      /\ u.raced = t.raced /\ u.file = t.file
      /\ u.birth = t.birth /\ u.pid = t.pid
  BY <1>0 DEF Task
<1>2. task'[s] = u /\ \A x \in Surface \ {s} : task'[x] = task[x]
  BY <1>0 DEF WriteRecord
<1>3. \A x \in Profile \ {t.profile} : registry'[x] = registry[x]
  <2>1. \/ \E c : registry' = [registry EXCEPT ![t.profile][t.file].tmp = c]
        \/ \E c : registry' = [registry EXCEPT ![t.profile][t.file].pub = c]
        \/ registry' = registry
    BY <1>0 DEF WriteRecord, Task
  <2> QED
    BY <1>0, <2>1
<1>4. Text(s)' = Text(s)
  BY <1>1, <1>2 DEF Text
<1>5. Recorded(s)'
  <2>1. CASE t.raced
    BY <1>1, <1>2, <2>1 DEF Recorded
  <2>2. CASE ~t.raced
    <3>1. t.at = "tmp" /\ r.tmp = Empty
      BY <1>0, <2>2 DEF Recorded
    <3>2. registry' = [registry EXCEPT ![t.profile][t.file].tmp = Text(s)]
      BY <3>1 DEF WriteRecord, Overwritten
    <3>3. /\ registry'[t.profile][t.file].tmp = Text(s)
          /\ registry'[t.profile]["identity"].pub
             = registry[t.profile]["identity"].pub
      BY <1>0, <3>2 DEF File, Files
    <3>4. t.file = "pid" => registry[t.profile]["identity"].pub = t.birth
      BY <1>0, <2>2 DEF Recorded
    <3> QED
      BY <1>1, <1>2, <1>4, <3>3, <3>4 DEF Recorded
  <2> QED
    BY <2>1, <2>2
<1>6. u.step \in OpenStep
  BY <1>1 DEF OpenStep
<1> HIDE DEF u
<1> QED
  BY <1>0, <1>1, <1>2, <1>3, <1>5, <1>6, QuietFile

\* Only the opens of the profile have files that move.
LEMMA MovedOpens ==
    ASSUME IInv, NEW p \in Profile, NEW f, NEW to \in {"pub", "gone"},
           NEW s \in Surface, NEW u, task' = [Moved(p, f, to) EXCEPT ![s] = u]
    PROVE  /\ task'[s] = u
           /\ \A r \in Surface \ {s} :
                 task'[r] = task[r] \/ (Opens(r, p) /\ FileMoved(r))
<1>0. task \in [Surface -> Task]
  BY TaskType
<1>1. Moved(p, f, to) \in [Surface -> Task]
  BY MovedType
<1>2. task'[s] = u /\ \A r \in Surface \ {s} : task'[r] = Moved(p, f, to)[r]
  BY <1>1
<1>3. ASSUME NEW r \in Surface \ {s}
      PROVE  task'[r] = task[r] \/ (Opens(r, p) /\ FileMoved(r))
  <2>1. CASE task[r].step = "write" /\ task[r].profile = p /\ task[r].file = f
    <3>1. Opens(r, p)
      BY <2>1 DEF Opens, OpenStep
    <3>2. PICK a : Moved(p, f, to)[r] = [task[r] EXCEPT !.at = a]
      BY <2>1 DEF Moved
    <3>3. FileMoved(r)
      BY <1>0, <1>2, <3>2 DEF FileMoved, Task
    <3> QED
      BY <3>1, <3>3
  <2>2. CASE ~(task[r].step = "write" /\ task[r].profile = p /\ task[r].file = f)
    BY <1>2, <2>2 DEF Moved
  <2> QED
    BY <2>1, <2>2
<1> QED
  BY <1>2, <1>3

LEMMA WriteFailsReach ==
    ASSUME IInv, Reach, Stirred, NEW s \in Surface, WriteFails(s)
    PROVE  Reach'
<1> DEFINE t == task[s]
           u == [t EXCEPT !.step = "cancel"]
<1>0. /\ t.step = "write" /\ t \in Task /\ t.profile \in Profile
      /\ registry \in [Profile -> [File -> Files]]
      /\ UNCHANGED <<proc, born, signalled, clean>>
  BY OpenFacts DEF WriteFails
<1>1. /\ u.step = "cancel" /\ u.profile = t.profile /\ u.owed = t.owed
      /\ u.raced = t.raced
  BY <1>0 DEF Task
<1>2. task' = [Moved(t.profile, t.file, "gone") EXCEPT ![s] = u]
  BY DEF WriteFails
<1> HIDE DEF u
<1>3. /\ task'[s] = u
      /\ \A r \in Surface \ {s} :
            task'[r] = task[r] \/ (Opens(r, t.profile) /\ FileMoved(r))
  BY <1>0, <1>2, MovedOpens
<1>4. \A x \in Profile \ {t.profile} : registry'[x] = registry[x]
  BY <1>0 DEF WriteFails
<1>5. Recorded(s)' /\ u.step \in OpenStep
  BY <1>1, <1>3 DEF Recorded, OpenStep
<1> QED
  BY <1>0, <1>1, <1>3, <1>4, <1>5, QuietFile

\* The second rename of an open that was alone makes both files name its
\* session, and there is no other session that they had to name.
LEMMA RenameReach ==
    ASSUME IInv, Reach, Stirred, NEW s \in Surface, RenameRecord(s)
    PROVE  Reach'
<1> DEFINE t == task[s]
           r == registry[t.profile][t.file]
           n == [t EXCEPT !.step = "create", !.file = "pid"]
<1>0. /\ t.step = "rename" /\ t \in Task /\ t.profile \in Profile
      /\ t.file \in File /\ registry \in [Profile -> [File -> Files]]
      /\ task \in [Surface -> Task] /\ Recorded(s)
      /\ t.pid \in Pid /\ t.birth \in Nat /\ Text(s) \in Nat \cup Pid
      /\ UNCHANGED <<proc, born, signalled>>
  BY OpenFacts DEF RenameRecord
<1>1. CASE task' = [task EXCEPT ![s].step = "cancel"] /\ UNCHANGED <<registry, clean>>
  <2> DEFINE u == [t EXCEPT !.step = "cancel"]
  <2>1. /\ u.step = "cancel" /\ u.profile = t.profile /\ u.owed = t.owed
        /\ u.raced = t.raced
    BY <1>0 DEF Task
  <2>2. task'[s] = u /\ \A x \in Surface \ {s} : task'[x] = task[x]
    BY <1>0, <1>1
  <2>3. Recorded(s)' /\ u.step \in OpenStep
    BY <2>1, <2>2 DEF Recorded, OpenStep
  <2> HIDE DEF u
  <2> QED
    BY <1>0, <1>1, <2>1, <2>2, <2>3, QuietFile
<1>2. CASE /\ registry' = [registry EXCEPT ![t.profile][t.file] =
                             [tmp |-> Absent, pub |-> r.tmp]]
           /\ task' = [Moved(t.profile, t.file, "pub") EXCEPT ![s] =
                         IF t.file = "identity" THEN n ELSE Idle]
           /\ clean' = IF t.file = "pid" /\ ~t.raced
                       THEN clean \cup {t.birth} ELSE clean
  <2>1. /\ n.step = "create" /\ n.profile = t.profile /\ n.owed = t.owed
        /\ n.raced = t.raced /\ n.file = "pid" /\ n.birth = t.birth
    BY <1>0 DEF Task
  <2>2. /\ registry'[t.profile][t.file].pub = r.tmp
        /\ \A f \in File \ {t.file} :
              registry'[t.profile][f] = registry[t.profile][f]
        /\ \A x \in Profile \ {t.profile} : registry'[x] = registry[x]
    BY <1>0, <1>2
  <2>3. ~t.raced => r.tmp = Text(s)
    BY <1>0 DEF Recorded
  <2> HIDE DEF n
  <2>4. CASE t.file = "identity"
    <3>1. task' = [Moved(t.profile, t.file, "pub") EXCEPT ![s] = n] /\ clean' = clean
      BY <1>2, <2>4
    <3>2. /\ task'[s] = n
          /\ \A x \in Surface \ {s} :
                task'[x] = task[x] \/ (Opens(x, t.profile) /\ FileMoved(x))
      BY <1>0, <3>1, MovedOpens
    <3>3. ~t.raced => registry'[t.profile]["identity"].pub = t.birth
      BY <2>2, <2>3, <2>4 DEF Text
    <3>4. Recorded(s)' /\ n.step \in OpenStep
      BY <2>1, <3>2, <3>3 DEF Recorded, OpenStep
    <3> QED
      BY <1>0, <2>1, <2>2, <3>1, <3>2, <3>4, QuietFile
  <2>5. CASE t.file = "pid"
    <3>1. task' = [Moved(t.profile, t.file, "pub") EXCEPT ![s] = Idle]
      BY <1>2, <2>5
    <3>2. /\ task'[s] = Idle
          /\ \A x \in Surface \ {s} :
                task'[x] = task[x] \/ (Opens(x, t.profile) /\ FileMoved(x))
      BY <1>0, <3>1, MovedOpens
    <3>3. /\ Recorded(s)' /\ Idle.step \notin OpenStep /\ Idle.owed = {}
      BY <3>2 DEF Recorded, Idle, OpenStep
    <3>4. Opens(s, t.profile) /\ t.step # "probe"
      BY <1>0 DEF Opens, OpenStep
    <3>5. \A q \in Pid : ~CleanAt(t.profile, q)
      BY <1>0, <3>4, NobodyClean
    <3>6. clean' \subseteq clean \cup {t.birth}
      BY <1>2
    <3>7. ASSUME NEW p \in Profile, p = t.profile PROVE Held(p)'
      <4> SUFFICES ASSUME NEW q \in Pid, CleanAt(p, q)' PROVE HeldBy(p, q)'
        BY DEF Held
      <4>1. ~t.raced /\ proc[q].birth = t.birth
        BY <1>0, <1>2, <3>5, <3>7 DEF CleanAt
      <4>2. q = t.pid
        BY <1>0, <4>1, TaskType DEF TaskOK, ChildStep, ChildOK, IInv, ProcsOK
      <4>3. registry'[p]["pid"].pub = q
        BY <2>2, <2>3, <2>5, <3>7, <4>1, <4>2 DEF Text
      <4>4. registry'[p]["identity"].pub = t.birth
        BY <1>0, <2>2, <2>5, <3>7, <4>1 DEF Recorded, File
      <4>5. ASSUME NEW x \in Surface, Opens(x, p)' PROVE FALSE
        <5>1. x # s
          BY <3>2, <3>3, <4>5 DEF Opens
        <5>2. Opens(x, p)
          BY <3>2, <4>5, <5>1 DEF Opens, FileMoved
        <5> QED
          BY <3>4, <3>7, <4>1, <5>1, <5>2 DEF Reach, Alone, Opens
      <4> QED
        BY <1>0, <4>1, <4>3, <4>4, <4>5 DEF HeldBy, Published
    <3>8. task'[s].owed = {} /\ task'[s].step \notin OpenStep
      BY <3>2, <3>3
    <3> QED
      BY <1>0, <2>2, <3>2, <3>3, <3>6, <3>7, <3>8, FileReach
  <2> QED
    BY <1>0, <2>4, <2>5 DEF File
<1> QED
  BY <1>1, <1>2 DEF RenameRecord

-----------------------------------------------------------------------------
(* What the registry says, and what a close does.                          *)

LEMMA InitReach == Init => Reach
<1> SUFFICES ASSUME Init PROVE Reach
  OBVIOUS
<1>1. \A s \in Surface : task[s] = Idle
  BY DEF Init
<1>2. clean \subseteq 1..born
  BY DEF Init
<1>3. \A p \in Profile : Held(p)
  BY DEF Init, Held, CleanAt
<1>4. \A s \in Surface : Alone(s) /\ Recorded(s) /\ Owing(s)
  BY <1>1 DEF Alone, Recorded, Owing, Idle, OpenStep
<1> QED
  BY <1>2, <1>3, <1>4 DEF Reach

LEMMA NextReach == IInv /\ Reach /\ [Next]_vars => Reach'
<1> SUFFICES ASSUME IInv, Reach, [Next]_vars PROVE Reach'
  OBVIOUS
<1>0. Stirred
  BY NextStirred
<1>1. ASSUME NEW s \in Surface, DesktopStep(s) PROVE Reach'
  <2>1. ASSUME NEW p \in Profile, OpenCheck(s, p) \/ CloseRead(s, p)
        PROVE  Reach'
    BY <1>0, <2>1, OpenCheckReach, CloseReadReach
  <2>2. CASE OpenProbe(s) \/ SpawnSession(s) \/ Settle(s) \/ CancelChild(s)
    BY <1>0, <2>2, OpenProbeReach, SpawnReach, SettleReach, CancelReach
  <2>3. CASE SpawnFails(s)
    BY <1>0, <2>3, IdleReach DEF SpawnFails
  <2>4. CASE \/ CreateRecord(s) \/ WriteRecord(s) \/ WriteFails(s)
             \/ RenameRecord(s)
    BY <1>0, <2>4, CreateReach, WriteReach, WriteFailsReach, RenameReach
  <2>5. CASE CloseHandle(s) \/ CloseExamine(s) \/ CloseCompare(s) \/ CloseSignal(s)
    BY <1>0, <2>5, CloseHandleReach, CloseExamineReach, CloseCompareReach,
       CloseSignalReach
  <2>6. CASE ReapChildren(s)
    BY <1>0, <2>6, ProcessReach DEF ReapChildren
  <2>7. CASE Crash(s)
    BY <1>0, <2>7, CrashReach
  <2> QED
    BY <1>1, <2>1, <2>2, <2>3, <2>4, <2>5, <2>6, <2>7 DEF DesktopStep
<1>2. ASSUME NEW q \in Pid, Exit(q) \/ StartOther(q) PROVE Reach'
  BY <1>0, <1>2, ProcessReach DEF Exit, StartOther
<1>3. ASSUME NEW q \in Pid, NEW p \in Profile, HostOpen(p, q) PROVE Reach'
  BY <1>0, <1>3, HostReach
<1>4. CASE UNCHANGED vars
  BY <1>0, <1>4, ProcessReach DEF vars
<1> QED
  BY <1>1, <1>2, <1>3, <1>4 DEF Next, SystemStep

\* A session that was reported open, and whose open met no other one, is what
\* both files of the registry name for as long as it runs, for any number of
\* desktops and whatever numbers the kernel reuses.
THEOREM SessionsStayKnown == Spec => []SessionKnown
<1>1. Init => IInv /\ Reach
  BY InitIInv, InitReach
<1>2. IInv /\ Reach /\ [Next]_vars => IInv' /\ Reach'
  BY NextIInv, NextReach
<1>3. Reach => SessionKnown
  BY DEF Reach, Held, HeldBy, CleanAt, SessionKnown
<1> QED
  BY <1>1, <1>2, <1>3, PTL DEF Spec

\* A close that reports success has ended the sessions that were known to be
\* open when it began: each was signalled or is gone.
THEOREM ClosesEnd == Spec => []CloseEffective
<1>1. Init => IInv /\ Reach
  BY InitIInv, InitReach
<1>2. IInv /\ Reach /\ [Next]_vars => IInv' /\ Reach'
  BY NextIInv, NextReach
<1>3. Reach => CloseEffective
  BY DEF Reach, Owing, CloseEffective
<1> QED
  BY <1>1, <1>2, <1>3, PTL DEF Spec
=============================================================================
