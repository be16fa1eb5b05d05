---------------------------- MODULE LaunchPacer -----------------------------
(***************************************************************************)
(* The restoration of agent conversations in detached tmux sessions        *)
(* (launch.restore_all, launch.start_detached), paced between processes by *)
(* a lock and a launch record (pacing.LaunchPacer), with the receipts that *)
(* a monitor writes for each child (child_status).                         *)
(*                                                                         *)
(* All conversations are of one project, so that tmux names, the project   *)
(* with a number, are numbers.  Of the wall clock only the time since the  *)
(* launch record counts; times beyond Interval are not told apart.         *)
(***************************************************************************)
EXTENDS Integers, FiniteSets

CONSTANTS
    Launcher,       \* pickers and commands that restore conversations
    Conversation,
    Interval,       \* the gap to keep between two launches
    MaxSkew,        \* bound: how far the wall clock is set back
    MaxBatches,     \* bound: batches that are begun
    MaxFaults       \* bound: deaths, timeouts, denied locks, clock steps

ASSUME ConstantsOK ==
    /\ Interval \in Nat \ {0} /\ MaxSkew \in Nat
    /\ MaxBatches \in Nat /\ MaxFaults \in Nat

VARIABLES
    holder,     \* who holds the lock: a set of at most one launcher
    elapsed,    \* wall clock time since the launch record
    task,       \* what each launcher is doing
    launch,     \* the launches that something still depends on, by number
    batches, faults,
    gap,        \* ghost: real time since the last session with a slot came up
    excused     \* ghost: that session is not covered by the launch record

vars == <<holder, elapsed, task, launch, batches, faults, gap, excused>>

None == 0     \* no launch
Slot == 1..(MaxBatches * Cardinality(Conversation))

\* seen: the conversations that the last refresh found running.  listed: tmux
\* answered when the batch began.  id: the launch that is being made.
Task == [step : {"idle", "choose", "lock", "wait", "ask", "stamp", "await"},
         marked : SUBSET Conversation, seen : SUBSET Conversation,
         todo : SUBSET Conversation, taken : SUBSET Nat, listed : BOOLEAN,
         id : Nat]

Fresh == [step |-> "idle", marked |-> {}, seen |-> {}, todo |-> {},
          taken |-> {}, listed |-> TRUE, id |-> None]

\* locked: it has the slot for itself.  at: where the tmux session is.
\* receipt: what its monitor has written.
Launch == [by : Launcher, conversation : Conversation, name : Nat,
           locked : BOOLEAN,
           at : {"chosen", "asked", "late", "up", "gone"}, late : BOOLEAN,
           receipt : {"none", "started", "failed", "exited", "broke"},
           ok : BOOLEAN]

NoLaunch == [at |-> "no"]

\* The launch that a launcher is making is its own.
OwnLaunch(l) ==
    IF task[l].step \in {"idle", "choose"} THEN task[l].id = None
    ELSE task[l].id \in Slot /\ launch[task[l].id].at # "no"
         /\ launch[task[l].id].by = l

TypeOK ==
    /\ holder \subseteq Launcher
    /\ elapsed \in Int /\ elapsed <= Interval
    /\ task \in [Launcher -> Task]
    /\ \A l \in Launcher : OwnLaunch(l)
    /\ launch \in [Slot -> Launch \cup {NoLaunch}]
    /\ batches \in Nat /\ faults \in Nat
    /\ gap \in 0..Interval
    /\ excused \in BOOLEAN

\* No launch record is as good as an old one.
Init ==
    /\ holder = {}
    /\ elapsed = Interval
    /\ task = [l \in Launcher |-> Fresh]
    /\ launch = [i \in Slot |-> NoLaunch]
    /\ batches = 0 /\ faults = 0
    /\ gap = Interval
    /\ excused = FALSE

-----------------------------------------------------------------------------
\* mkdtemp: a receipt that no other launch has.
Free(i) == launch[i] = NoLaunch

Up == {i \in Slot : launch[i].at = "up"}

\* tmux_sessions: the names that tmux lists.
TmuxSessions == {launch[i].name : i \in Up}

\* The conversations that discovery finds owned by a running process.
Live == {launch[i].conversation :
           i \in {j \in Up : launch[j].receipt = "started"}}

\* tmux_name: n is the first number that is not taken.
TmuxName(taken, n) == n \notin taken /\ 1..(n - 1) \subseteq taken

\* A record in the future asks for the whole interval.
Remaining == IF elapsed < 0 THEN Interval ELSE Interval - elapsed

Fault == faults < MaxFaults /\ faults' = faults + 1

Become(l, t) == task' = [task EXCEPT ![l] = t]

\* Mutant: an exception in the slot leaves it locked.
ReleaseNormally(l) == holder' = IF task[l].step = "ask" THEN holder ELSE holder \ {l}

\* The lock goes with the descriptor, however its holder lets go.
Release(l) == holder' = holder \ {l}

-----------------------------------------------------------------------------
(* The picker.                                                             *)

\* The picker is refreshed or not, conversations that it does not see running
\* are marked or unmarked, and restore_all begins with the names that tmux
\* lists; a listing that fails is taken for no session at all.
Begin(l) ==
    /\ task[l].step = "idle"
    /\ batches < MaxBatches
    /\ batches' = batches + 1
    /\ \E seen \in {task[l].seen, Live} :
       \E marked \in {(task[l].marked \cap seen) \cup C :
                        C \in SUBSET (Conversation \ seen)} \ {{}} :
         LET t == [Fresh EXCEPT !.step = "choose", !.seen = seen,
                                !.marked = marked, !.todo = marked]
         IN  \/ /\ Become(l, [t EXCEPT !.taken = TmuxSessions])
                /\ UNCHANGED faults
             \/ /\ Fault
                /\ Become(l, [t EXCEPT !.listed = FALSE])
    /\ UNCHANGED <<holder, elapsed, launch, gap, excused>>

\* _check_live on what the last refresh found; the name and the receipt are
\* chosen before the slot is waited for.
Choose(l, c) ==
    LET t == [task[l] EXCEPT !.todo = @ \ {c}]
    IN  /\ task[l].step = "choose" /\ c \in task[l].todo
        /\ \/ /\ c \in t.seen
              /\ Become(l, t)
              /\ UNCHANGED launch
           \/ /\ c \notin t.seen
              /\ \E i \in Slot, n \in 1..(Cardinality(t.taken) + 1) :
                   /\ Free(i) /\ \A j \in 1..(i - 1) : ~Free(j)
                   /\ TmuxName(t.taken, n)
                   /\ launch' = [launch EXCEPT ![i] =
                        [by |-> l, conversation |-> c, name |-> n, locked |-> TRUE,
                         at |-> "chosen", late |-> FALSE,
                         receipt |-> "none", ok |-> FALSE]]
                   /\ Become(l, [t EXCEPT !.step = "lock", !.id = i])
        /\ UNCHANGED <<holder, elapsed, batches, faults, gap, excused>>

\* Mutant: the picker goes on with what it knew before the batch.
EndBatchKnowing(l) ==
    LET t == task[l]
    IN  /\ t.step = "choose" /\ t.todo = {}
        /\ Become(l, [Fresh EXCEPT !.marked = t.marked, !.seen = t.seen])
        /\ UNCHANGED <<holder, elapsed, launch, batches, faults, gap, excused>>

\* state.refresh after the batch.
EndBatch(l) ==
    LET t == task[l]
    IN  /\ t.step = "choose" /\ t.todo = {}
        /\ Become(l, [Fresh EXCEPT !.marked = t.marked, !.seen = Live])
        /\ UNCHANGED <<holder, elapsed, launch, batches, faults, gap, excused>>

-----------------------------------------------------------------------------
(* The slot.                                                               *)

\* Without the permission to write the lock file a launch goes on unlocked.
Acquire(l) ==
    LET t == task[l]
    IN  /\ t.step = "lock"
        /\ \/ /\ holder = {}
              /\ holder' = {l}
              /\ UNCHANGED <<launch, faults>>
           \/ /\ Fault
              /\ launch' = [launch EXCEPT ![t.id].locked = FALSE]
              /\ UNCHANGED holder
        /\ Become(l, [t EXCEPT !.step = "wait"])
        /\ UNCHANGED <<elapsed, batches, gap, excused>>

\* The user stops the countdown: what was not reported stays marked.
Cancel(l) ==
    LET t == task[l]
    IN  /\ t.step = "wait" /\ Remaining > 0
        /\ Release(l)
        /\ Become(l, [Fresh EXCEPT !.marked = t.marked, !.seen = Live])
        /\ launch' = [launch EXCEPT ![t.id] = NoLaunch]
        /\ UNCHANGED <<elapsed, batches, faults, gap, excused>>

WaitOver(l) ==
    LET t == task[l]
    IN  /\ t.step = "wait" /\ Remaining <= 0
        /\ launch' = [launch EXCEPT ![t.id].at = "asked"]
        /\ Become(l, [t EXCEPT !.step = "ask"])
        /\ UNCHANGED <<holder, elapsed, batches, faults, gap, excused>>

\* tmux creates the session of launch i.
ComesUp(i) ==
    /\ launch[i].name \notin TmuxSessions
    /\ launch' = [launch EXCEPT ![i].at = "up"]
    /\ gap' = IF launch[i].locked THEN 0 ELSE gap
    /\ excused' = (excused \/ launch[i].locked)

Create(l) ==
    LET t == task[l]
    IN  /\ t.step = "ask"
        /\ ComesUp(t.id)
        /\ Become(l, [t EXCEPT !.step = "stamp"])
        /\ UNCHANGED <<holder, elapsed, batches, faults>>

\* A name that is in use is refused: the slot is left without a stamp.
Refused(l) ==
    LET t == task[l]
    IN  /\ t.step = "ask"
        /\ launch[t.id].name \in TmuxSessions
        /\ launch' = [launch EXCEPT ![t.id] = NoLaunch]
        /\ Release(l)
        /\ Become(l, [t EXCEPT !.step = "choose", !.id = None])
        /\ UNCHANGED <<elapsed, batches, faults, gap, excused>>

\* Thirty seconds without an answer: reported as failed, and tmux still has
\* the request.
AskTimesOut(l) ==
    LET t == task[l]
    IN  /\ t.step = "ask"
        /\ Fault
        /\ launch' = [launch EXCEPT ![t.id].at = "late", ![t.id].late = TRUE]
        /\ Release(l)
        /\ Become(l, [t EXCEPT !.step = "choose", !.id = None])
        /\ UNCHANGED <<elapsed, batches, gap, excused>>

\* Mutant: the record is written when nobody holds the slot any more.
StampReleased(l) ==
    LET t == task[l]
    IN  /\ t.step = "stamp"
        /\ Release(l)
        /\ Become(l, [t EXCEPT !.step = "await"])
        /\ excused' = (excused /\ ~launch[t.id].locked)
        /\ UNCHANGED <<elapsed, launch, batches, faults, gap>>

Stamp(l) ==
    LET t == task[l]
    IN  /\ t.step = "stamp"
        /\ elapsed' = 0
        /\ excused' = (excused /\ ~launch[t.id].locked)
        /\ Release(l)
        /\ Become(l, [t EXCEPT !.step = "await"])
        /\ UNCHANGED <<launch, batches, faults, gap>>

-----------------------------------------------------------------------------
(* The receipt.                                                            *)

\* on_result: a success is unmarked.
Reported(l, ok) ==
    LET t == task[l]
        i == t.id
    IN  /\ launch' = [launch EXCEPT ![i] = IF @.at = "gone" THEN NoLaunch
                                           ELSE [@ EXCEPT !.ok = ok]]
        /\ Become(l, [t EXCEPT !.step = "choose", !.id = None,
                        !.taken = @ \cup {launch[i].name},
                        !.marked = IF ok THEN @ \ {launch[i].conversation} ELSE @])

\* Mutant: the receipt of any launch of the conversation will do.
AwaitAny(l) ==
    /\ task[l].step = "await"
    /\ Reported(l, \E i \in Slot :
                      /\ launch[i].at \in {"up", "gone"}
                      /\ launch[i].conversation = launch[task[l].id].conversation
                      /\ launch[i].receipt \in {"started", "exited"})
    /\ UNCHANGED <<holder, elapsed, batches, faults, gap, excused>>

\* Mutant: the name of a launch whose child failed is left out of taken.
AwaitForgets(l) ==
    LET t == task[l]
        r == launch[t.id].receipt
    IN  /\ t.step = "await"
        /\ IF r \in {"started", "exited"} THEN Reported(l, TRUE)
           ELSE /\ Become(l, [t EXCEPT !.step = "choose", !.id = None])
                /\ UNCHANGED launch
        /\ UNCHANGED <<holder, elapsed, batches, faults, gap, excused>>

\* wait_started: five seconds without a receipt are a failure.  Whatever the
\* receipt says, the name of the session is taken from now on.
Await(l) ==
    /\ task[l].step = "await"
    /\ Reported(l, launch[task[l].id].receipt \in {"started", "exited"})
    /\ UNCHANGED <<holder, elapsed, batches, faults, gap, excused>>

-----------------------------------------------------------------------------
(* tmux, the monitors and their children, the clock.                       *)

Serve(i) ==
    /\ launch[i].at = "late"
    /\ \/ ComesUp(i)
       \/ /\ launch[i].name \in TmuxSessions
          /\ launch' = [launch EXCEPT ![i] = NoLaunch]
          /\ UNCHANGED <<gap, excused>>
    /\ UNCHANGED <<holder, elapsed, task, batches, faults>>

\* child_status: the child is created or not, and ends; the session ends with
\* its monitor, which may be killed before it writes.
Monitor(i) ==
    LET r == launch[i].receipt
    IN  /\ launch[i].at = "up"
        /\ \/ /\ r = "none"
              /\ launch' = [launch EXCEPT ![i].receipt = "started"]
           \/ /\ \A l \in Launcher : task[l].id # i
              /\ launch' = [launch EXCEPT ![i] = NoLaunch]
           \/ /\ \E l \in Launcher : task[l].id = i
              /\ \E last \in {r, "failed", "exited", "broke"} :
                   /\ last = r \/ (r = "none") = (last = "failed")
                   /\ launch' = [launch EXCEPT ![i].receipt = last, ![i].at = "gone"]
        /\ UNCHANGED <<holder, elapsed, task, batches, faults, gap, excused>>

\* A launcher dies, or cannot write the launch record: its lock is free, and
\* tmux keeps what it has been asked for.  Another one starts in its place.
Crash(l) ==
    LET t == task[l]
    IN  /\ Fault
        /\ task[l].step # "idle"
        /\ Release(l)
        /\ launch' = [i \in Slot |->
                        IF i # t.id \/ launch[i].at = "up" THEN launch[i]
                        ELSE IF t.step = "ask"
                        THEN [launch[i] EXCEPT !.at = "late", !.late = TRUE]
                        ELSE NoLaunch]
        /\ Become(l, [Fresh EXCEPT !.seen = Live])
        /\ UNCHANGED <<elapsed, batches, gap, excused>>

Least(a, b) == IF a < b THEN a ELSE b

Tick ==
    /\ elapsed < Interval \/ gap < Interval
    /\ elapsed' = Least(elapsed + 1, Interval)
    /\ gap' = Least(gap + 1, Interval)
    /\ UNCHANGED <<holder, task, launch, batches, faults, excused>>

\* The wall clock is set.  Forward, the record promises nothing any more.
SetClock ==
    /\ Fault
    /\ \/ /\ elapsed' \in {elapsed - k : k \in 1..MaxSkew}
          /\ UNCHANGED excused
       \/ /\ elapsed' = Interval
          /\ excused' = TRUE
    /\ UNCHANGED <<holder, task, launch, batches, gap>>

-----------------------------------------------------------------------------
Answer(l) == Create(l) \/ Refused(l)

Work(l) ==
    \/ \E c \in Conversation : Choose(l, c)
    \/ EndBatch(l) \/ Acquire(l) \/ WaitOver(l) \/ Answer(l) \/ Stamp(l) \/ Await(l)

Next ==
    \/ \E l \in Launcher :
         \/ Begin(l) \/ Work(l)
         \/ Cancel(l) \/ AskTimesOut(l) \/ Crash(l)
    \/ \E i \in Slot : Serve(i) \/ Monitor(i)
    \/ Tick \/ SetClock

\* A launcher runs while it has something to do, tmux answers or is given up,
\* and time passes.
Fairness == WF_vars(Tick) /\ \A l \in Launcher : WF_vars(Work(l))

Spec == Init /\ [][Next]_vars /\ Fairness

-----------------------------------------------------------------------------
(* The session of a launcher that holds the slot comes up at least         *)
(* Interval after the one before it, in real time, whatever other          *)
(* processes do and wherever the wall clock is set back to; unless that    *)
(* one was left without a record, by a death or a timeout, or the clock    *)
(* was set forward since.                                                  *)
GapKept ==
    [][\A i \in Slot :
         /\ launch[i].at = "asked" /\ launch'[i].at = "up"
         /\ launch[i].locked
         => gap = Interval \/ excused]_vars

(* What is reported as started has had a child of its own.                 *)
OkStarted ==
    \A i \in Slot :
       launch[i].at = "up" /\ launch[i].ok => launch[i].receipt = "started"

(* A picker never starts again a conversation that it has reported as      *)
(* started and that still runs, in the same batch or in a later one.       *)
StartedOnce ==
    \A i, j \in Slot :
       /\ launch[i].at = "up" /\ launch[i].ok
       /\ launch[j].at = "chosen" /\ launch[j].by = launch[i].by
       => launch[i].conversation # launch[j].conversation

(* A launcher whose sessions tmux could list is refused a name only if     *)
(* someone else has it, or a session of its own that came up after tmux    *)
(* was given up.                                                           *)
OwnNames ==
    [][\A l \in Launcher :
         /\ task[l].step = "ask" /\ task[l].listed
         /\ task'[l].step = "choose"
         => \A i \in Up : /\ launch[i].name = launch[task[l].id].name
                          /\ launch[i].by = l
                          => launch[i].late]_vars

(* Every batch ends: whoever waits for the slot gets it or is stopped,     *)
(* whatever the clock does and whoever dies with the lock.                 *)
BatchEnds == \A l \in Launcher : task[l].step # "idle" ~> task[l].step = "idle"
=============================================================================
