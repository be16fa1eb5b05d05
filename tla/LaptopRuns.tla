----------------------------- MODULE LaptopRuns -----------------------------
(***************************************************************************)
(* The run registry of the laptop profiles, run/<id>.pid and its .identity *)
(* sidecar, as Kilix Cap (laptop_run.c) and Kilix Land (laptop.c,          *)
(* launcher.c) share it.  A session is opened by checking the registry,    *)
(* spawning a window and recording its pid; it is closed by a signal to    *)
(* the process that the registry names, once its identity is verified.     *)
(*                                                                         *)
(* The kernel gives the pid of a process that has been reaped to another   *)
(* one.  A process is therefore named by its birth, a number no other      *)
(* process has; the birth stands for the identity text of process_identity *)
(* (pid, start tick and boot).                                             *)
(***************************************************************************)
EXTENDS Naturals, FiniteSets

CONSTANTS
    Surface,        \* running desktops that share the registry
    Profile,        \* laptop profiles
    Pid,            \* process numbers the kernel hands out
    None,
    Absent, Empty, Junk,    \* contents of a file that hold no number
    MaxBirths,      \* bound: processes that are ever started
    MaxFaults       \* bound: desktops that die and writes that fail

ASSUME ConstantsOK ==
    /\ None \notin Surface \cup Profile \cup Pid
    /\ {Absent, Empty, Junk} \cap (Nat \cup Pid) = {}
    /\ Pid \cap Nat = {}
    /\ MaxBirths \in Nat /\ MaxFaults \in Nat

VARIABLES
    proc,       \* what each process number stands for
    born,       \* number of processes started so far
    registry,   \* the two files of each profile, with their temporary files
    task,       \* what each desktop is doing
    signalled,  \* births that were sent a signal
    clean,      \* ghost: sessions reported open, whose open met no other one
    faults

vars == <<proc, born, registry, task, signalled, clean, faults>>

File == {"identity", "pid"}
Content == Nat \cup Pid \cup {Absent, Empty, Junk}

OpenStep == {"probe", "spawn", "settle", "create", "write", "rename", "cancel"}
CloseStep == {"handle", "examine", "compare", "signal"}

NoProcess == [birth |-> 0, state |-> "none", of |-> None, by |-> None]

\* birth: of the child that is being opened, or of the process that the pidfd
\* holds.  actual: the identity read from /proc.  raced and owed are ghosts:
\* the call overlapped an open of the same profile; the sessions that a close
\* has to end.
Idle == [step |-> "idle", profile |-> None, pid |-> None, birth |-> 0,
         file |-> "identity", at |-> "gone", actual |-> 0,
         raced |-> FALSE, owed |-> {}, closed |-> FALSE]

Task == [step : {"idle"} \cup OpenStep \cup CloseStep,
         profile : Profile \cup {None}, pid : Pid \cup {None}, birth : Nat,
         file : File, at : {"tmp", "pub", "gone"}, actual : Nat,
         raced : BOOLEAN, owed : SUBSET Nat, closed : BOOLEAN]

Process == [birth : Nat, state : {"none", "run", "zombie"},
            of : Profile \cup {None}, by : Surface \cup {None}]

TypeOK ==
    /\ proc \in [Pid -> Process]
    /\ born \in Nat
    /\ registry \in [Profile -> [File -> [tmp : Content, pub : Content]]]
    /\ task \in [Surface -> Task]
    /\ signalled \subseteq Nat /\ clean \subseteq Nat
    /\ faults \in Nat

Init ==
    /\ proc = [q \in Pid |-> NoProcess]
    /\ born = 0
    /\ registry = [p \in Profile |->
                     [f \in File |-> [tmp |-> Absent, pub |-> Absent]]]
    /\ task = [s \in Surface |-> Idle]
    /\ signalled = {} /\ clean = {}
    /\ faults = 0

-----------------------------------------------------------------------------
(* Processes.                                                              *)

Running(b) == \E q \in Pid : proc[q].birth = b /\ proc[q].state = "run"
SessionsOf(p) == {proc[q].birth : q \in {r \in Pid : /\ proc[r].state = "run"
                                                     /\ proc[r].of = p}}

Start(q, p, by) ==
    /\ proc[q] = NoProcess
    /\ born < MaxBirths
    /\ born' = born + 1
    /\ proc' = [proc EXCEPT ![q] = [birth |-> born + 1, state |-> "run",
                                    of |-> p, by |-> by]]

\* A process ends.  Its number stays taken until the desktop that spawned it
\* has waited for it.
Exit(q) ==
    /\ proc[q].state = "run"
    /\ proc' = [proc EXCEPT ![q] = IF @.by = None THEN NoProcess
                                   ELSE [@ EXCEPT !.state = "zombie"]]
    /\ UNCHANGED <<born, registry, task, signalled, clean, faults>>

\* Any other program is given a free number.
StartOther(q) ==
    /\ Start(q, None, None)
    /\ UNCHANGED <<registry, task, signalled, clean, faults>>

\* `kilix laptop open` of an older host: it publishes the pid of its session
\* and knows nothing of identities.
HostOpen(p, q) ==
    /\ Start(q, p, None)
    /\ registry' = [registry EXCEPT ![p]["pid"].pub = q]
    /\ clean' = clean \ SessionsOf(p)
    /\ UNCHANGED <<task, signalled, faults>>

\* A desktop waits for its children that have ended.
ReapChildren(s) ==
    /\ task[s].step = "idle"
    /\ \E q \in Pid : proc[q].state = "zombie" /\ proc[q].by = s
    /\ proc' = [q \in Pid |-> IF proc[q].state = "zombie" /\ proc[q].by = s
                              THEN NoProcess ELSE proc[q]]
    /\ UNCHANGED <<born, registry, task, signalled, clean, faults>>

\* A desktop dies; another one starts in its place.  init adopts its children
\* and waits for those that have ended; its files stay as they are.
Crash(s) ==
    /\ faults < MaxFaults
    /\ faults' = faults + 1
    /\ proc' = [q \in Pid |->
                  IF proc[q].by # s THEN proc[q]
                  ELSE IF proc[q].state = "zombie" THEN NoProcess
                  ELSE [proc[q] EXCEPT !.by = None]]
    /\ task' = [task EXCEPT ![s] = Idle]
    /\ UNCHANGED <<born, registry, signalled, clean>>

-----------------------------------------------------------------------------
(* Reading the registry.                                                   *)

Published(p, f) == registry[p][f].pub

\* 0: no record, 1: a number, -1: a record that cannot be read.
ReadRegisteredPid(p) ==
    CASE Published(p, "pid") = Absent -> "none"
      [] Published(p, "pid") \in Pid -> "pid"
      [] OTHER -> "unverifiable"

\* A zombie does not count: its window is gone.
PidAlive(q) == proc[q].state = "run"

\* What process_identity finds in /proc: 0 for nothing, and for a zombie.
ProcessIdentity(q) == IF PidAlive(q) THEN proc[q].birth ELSE 0

IdentityMatches(p, actual) == Published(p, "identity") = actual

-----------------------------------------------------------------------------
(* Open.                                                                   *)

Opening(p) == {s \in Surface : task[s].step \in OpenStep /\ task[s].profile = p}

\* The task of s moves on to t; every open of the same profile has now met it.
Enter(s, t) ==
    task' = [r \in Surface |->
               IF r = s THEN [t EXCEPT !.raced = Opening(t.profile) # {}]
               ELSE IF r \in Opening(t.profile)
                    THEN [task[r] EXCEPT !.raced = TRUE] ELSE task[r]]

\* laptop_run_status, first half.  A record that names a process is probed; one
\* that cannot be read refuses the open.
OpenCheck(s, p) ==
    /\ task[s].step = "idle"
    /\ LET t == [Idle EXCEPT !.profile = p]
       IN  \/ /\ ReadRegisteredPid(p) = "none"
              /\ Enter(s, [t EXCEPT !.step = "spawn"])
           \/ /\ ReadRegisteredPid(p) = "pid"
              /\ Enter(s, [t EXCEPT !.step = "probe",
                                    !.pid = Published(p, "pid")])
           \/ /\ ReadRegisteredPid(p) = "unverifiable"
              /\ task' = [task EXCEPT ![s] = Idle]
    /\ UNCHANGED <<proc, born, registry, signalled, clean, faults>>

\* Mutant: only a child of this desktop refuses the open.
OpenProbeOwn(s) ==
    /\ task[s].step = "probe"
    /\ task' = [task EXCEPT ![s] =
                  IF PidAlive(@.pid) /\ proc[@.pid].by = s THEN Idle
                  ELSE [@ EXCEPT !.step = "spawn"]]
    /\ UNCHANGED <<proc, born, registry, signalled, clean, faults>>

\* A live process refuses the open, whether or not the record is verified.
OpenProbe(s) ==
    /\ task[s].step = "probe"
    /\ task' = [task EXCEPT ![s] = IF PidAlive(@.pid) THEN Idle
                                   ELSE [@ EXCEPT !.step = "spawn"]]
    /\ UNCHANGED <<proc, born, registry, signalled, clean, faults>>

SpawnSession(s) ==
    /\ task[s].step = "spawn"
    /\ \E q \in Pid :
         /\ Start(q, task[s].profile, s)
         /\ task' = [task EXCEPT ![s].step = "settle", ![s].pid = q,
                                 ![s].birth = born + 1]
    /\ UNCHANGED <<registry, signalled, clean, faults>>

SpawnFails(s) ==
    /\ task[s].step = "spawn"
    /\ task' = [task EXCEPT ![s] = Idle]
    /\ UNCHANGED <<proc, born, registry, signalled, clean, faults>>

\* A window that ends at once is waited for and the open fails.
Settle(s) ==
    LET q == task[s].pid
    IN  /\ task[s].step = "settle"
        /\ \/ /\ proc[q].state = "zombie"
              /\ proc' = [proc EXCEPT ![q] = NoProcess]
              /\ task' = [task EXCEPT ![s] = Idle]
           \/ /\ proc[q].state = "run"
              /\ task' = [task EXCEPT ![s].step = "create"]
              /\ UNCHANGED proc
        /\ UNCHANGED <<born, registry, signalled, clean, faults>>

-----------------------------------------------------------------------------
(* Recording: the identity first, then the pid, each through <path>.tmp.   *)
(* The name of the temporary file is the same for every desktop: a second  *)
(* writer truncates the file of the first one, and what the first one has  *)
(* renamed is still what the second one writes to.                         *)

\* Where the open files of a profile are after its temporary file has been
\* renamed or removed: `to` is where the temporary file went.
Moved(p, f, to) ==
    [r \in Surface |->
       IF task[r].step = "write" /\ task[r].profile = p /\ task[r].file = f
       THEN [task[r] EXCEPT !.at = IF @ = "tmp" THEN to
                                   ELSE IF to = "pub" THEN "gone" ELSE @]
       ELSE task[r]]

Text(s) == IF task[s].file = "identity" THEN task[s].birth ELSE task[s].pid

\* The child must still have an identity when its record begins.
CreateRecord(s) ==
    LET t == task[s]
    IN  /\ t.step = "create"
        /\ \/ /\ t.file = "identity" /\ ~PidAlive(t.pid)
              /\ task' = [task EXCEPT ![s].step = "cancel"]
              /\ UNCHANGED registry
           \/ /\ t.file = "identity" => PidAlive(t.pid)
              /\ registry' = [registry EXCEPT ![t.profile][t.file].tmp = Empty]
              /\ task' = [task EXCEPT ![s].step = "write", ![s].at = "tmp"]
        /\ UNCHANGED <<proc, born, signalled, clean, faults>>

\* Over the text of another writer, of another length, the text is not
\* canonical.
Overwritten(old, new) == IF old = Empty THEN {new} ELSE {new, Junk}

WriteRecord(s) ==
    LET t == task[s]
        r == registry[t.profile][t.file]
    IN  /\ t.step = "write"
        /\ CASE t.at = "tmp" ->
                  \E c \in Overwritten(r.tmp, Text(s)) :
                    registry' = [registry EXCEPT ![t.profile][t.file].tmp = c]
             [] t.at = "pub" ->
                  \E c \in Overwritten(r.pub, Text(s)) :
                    registry' = [registry EXCEPT ![t.profile][t.file].pub = c]
             [] OTHER -> UNCHANGED registry
        /\ task' = [task EXCEPT ![s].step = "rename"]
        /\ UNCHANGED <<proc, born, signalled, clean, faults>>

\* A write that fails removes the temporary file, whoever wrote it.
WriteFails(s) ==
    LET t == task[s]
    IN  /\ t.step = "write"
        /\ faults < MaxFaults
        /\ faults' = faults + 1
        /\ registry' = [registry EXCEPT ![t.profile][t.file].tmp = Absent]
        /\ task' = [Moved(t.profile, t.file, "gone") EXCEPT ![s] =
                      [t EXCEPT !.step = "cancel"]]
        /\ UNCHANGED <<proc, born, signalled, clean>>

\* The temporary file replaces the published one.  It may be gone, renamed by
\* another desktop: the record fails.  The second rename ends the open.
RenameRecord(s) ==
    LET t == task[s]
        r == registry[t.profile][t.file]
        next == IF t.file = "identity"
                THEN [t EXCEPT !.step = "create", !.file = "pid"]
                ELSE Idle
    IN  /\ t.step = "rename"
        /\ \/ /\ r.tmp = Absent
              /\ task' = [task EXCEPT ![s].step = "cancel"]
              /\ UNCHANGED <<registry, clean>>
           \/ /\ r.tmp # Absent
              /\ registry' = [registry EXCEPT ![t.profile][t.file] =
                                [tmp |-> Absent, pub |-> r.tmp]]
              /\ task' = [Moved(t.profile, t.file, "pub") EXCEPT ![s] = next]
              /\ clean' = IF t.file = "pid" /\ ~t.raced
                          THEN clean \cup {t.birth} ELSE clean
        /\ UNCHANGED <<proc, born, signalled, faults>>

\* cancel_run_child: a child that has ended is waited for, any other one is
\* signalled by its number, which is its own as long as nobody waits for it.
CancelChild(s) ==
    LET q == task[s].pid
    IN  /\ task[s].step = "cancel"
        /\ \/ /\ proc[q].state = "zombie" /\ proc[q].by = s
              /\ proc' = [proc EXCEPT ![q] = NoProcess]
              /\ UNCHANGED signalled
           \/ /\ proc[q].state = "run"
              /\ signalled' = signalled \cup {proc[q].birth}
              /\ UNCHANGED proc
        /\ task' = [task EXCEPT ![s] = Idle]
        /\ UNCHANGED <<born, registry, clean, faults>>

-----------------------------------------------------------------------------
(* Close.                                                                  *)

\* The answer of a close that began with the task t.
Answered(s, t, closed) ==
    task' = [task EXCEPT ![s] = [Idle EXCEPT !.profile = t.profile,
                                   !.owed = t.owed, !.closed = closed]]

\* No record counts as closed, one that cannot be read does not.
CloseRead(s, p) ==
    LET t == [Idle EXCEPT !.profile = p,
                          !.owed = (clean \cap SessionsOf(p)) \ signalled]
    IN  /\ task[s].step = "idle"
        /\ \/ /\ ReadRegisteredPid(p) # "pid"
              /\ Answered(s, t, ReadRegisteredPid(p) = "none")
           \/ /\ ReadRegisteredPid(p) = "pid"
              /\ task' = [task EXCEPT ![s] = [t EXCEPT !.step = "handle",
                                                !.pid = Published(p, "pid")]]
        /\ UNCHANGED <<proc, born, registry, signalled, clean, faults>>

\* Mutant: the process is looked for among the children of this desktop.
CloseHandleOwn(s) ==
    LET t == task[s]
    IN  /\ t.step = "handle"
        /\ \/ /\ proc[t.pid].by # s
              /\ Answered(s, t, TRUE)
           \/ /\ proc[t.pid].by = s
              /\ task' = [task EXCEPT ![s] = [t EXCEPT !.step = "examine",
                                                !.birth = proc[t.pid].birth]]
        /\ UNCHANGED <<proc, born, registry, signalled, clean, faults>>

\* pidfd_open, before the identity is compared: ESRCH counts as closed.
CloseHandle(s) ==
    LET t == task[s]
    IN  /\ t.step = "handle"
        /\ \/ /\ proc[t.pid].state = "none"
              /\ Answered(s, t, TRUE)
           \/ /\ proc[t.pid].state # "none"
              /\ task' = [task EXCEPT ![s] = [t EXCEPT !.step = "examine",
                                                !.birth = proc[t.pid].birth]]
        /\ UNCHANGED <<proc, born, registry, signalled, clean, faults>>

\* The identity of whatever has the number now.
CloseExamine(s) ==
    LET t == task[s]
    IN  /\ t.step = "examine"
        /\ \/ /\ ProcessIdentity(t.pid) = 0
              /\ Answered(s, t, FALSE)
           \/ /\ ProcessIdentity(t.pid) # 0
              /\ task' = [task EXCEPT ![s] = [t EXCEPT !.step = "compare",
                                              !.actual = ProcessIdentity(t.pid)]]
        /\ UNCHANGED <<proc, born, registry, signalled, clean, faults>>

CloseCompare(s) ==
    LET t == task[s]
    IN  /\ t.step = "compare"
        /\ \/ /\ ~IdentityMatches(t.profile, t.actual)
              /\ Answered(s, t, FALSE)
           \/ /\ IdentityMatches(t.profile, t.actual)
              /\ task' = [task EXCEPT ![s].step = "signal"]
        /\ UNCHANGED <<proc, born, registry, signalled, clean, faults>>

\* Mutant: the number is signalled, whoever has it now.
TargetByNumber(s) == proc[task[s].pid].birth

\* The process that the handle holds is signalled, if it still exists.
Target(s) == task[s].birth

CloseSignal(s) ==
    LET t == task[s]
    IN  /\ t.step = "signal"
        /\ signalled' = IF Running(Target(s)) THEN signalled \cup {Target(s)}
                        ELSE signalled
        /\ Answered(s, t, TRUE)
        /\ UNCHANGED <<proc, born, registry, clean, faults>>

-----------------------------------------------------------------------------
DesktopStep(s) ==
    \/ \E p \in Profile : OpenCheck(s, p) \/ CloseRead(s, p)
    \/ OpenProbe(s) \/ SpawnSession(s) \/ SpawnFails(s) \/ Settle(s)
    \/ CreateRecord(s) \/ WriteRecord(s) \/ WriteFails(s) \/ RenameRecord(s)
    \/ CancelChild(s)
    \/ CloseHandle(s) \/ CloseExamine(s) \/ CloseCompare(s) \/ CloseSignal(s)
    \/ ReapChildren(s) \/ Crash(s)

SystemStep ==
    \E q \in Pid : Exit(q) \/ StartOther(q) \/ \E p \in Profile : HostOpen(p, q)

Next == SystemStep \/ \E s \in Surface : DesktopStep(s)

Spec == Init /\ [][Next]_vars

-----------------------------------------------------------------------------
(* Whoever is signalled at a step is, at that step, a session of the       *)
(* profile that the signalling desktop was asked to open or to close: a    *)
(* pid that the kernel has given to another program never leads to it.     *)
SignalsOnlySessions ==
    [][\A b \in signalled' \ signalled :
         \E s \in Surface, q \in Pid :
            /\ task[s].step \in {"signal", "cancel"}
            /\ proc[q].birth = b
            /\ proc[q].of = task[s].profile]_vars

(* A session that was reported open, and whose open met no other open of   *)
(* its profile, is what both files of the registry name for as long as it  *)
(* runs: no later open, failed write, crash or stale file of a desktop     *)
(* takes it out of the reach of the others.                                *)
SessionKnown ==
    \A p \in Profile : \A q \in Pid :
       /\ proc[q].state = "run" /\ proc[q].of = p
       /\ proc[q].birth \in clean
       => /\ Published(p, "pid") = q
          /\ Published(p, "identity") = proc[q].birth

(* A close that reports success has ended the sessions that were known to  *)
(* be open when it began: each of them has been signalled or is gone.      *)
CloseEffective ==
    \A s \in Surface :
       task[s].step = "idle" /\ task[s].closed
       => \A b \in task[s].owed : b \in signalled \/ ~Running(b)
=============================================================================
