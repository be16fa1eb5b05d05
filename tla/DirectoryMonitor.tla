-------------------------- MODULE DirectoryMonitor --------------------------
(***************************************************************************)
(* The folder views of kilix-95 and the monitor that keeps them current:   *)
(* the UI thread (navigation, menus, tick), the inotify thread (events)    *)
(* and the scanner threads (work) of DirectoryMonitor, which share         *)
(* targets, deadlines, results and the per-path generations under one      *)
(* condition variable.                                                     *)
(*                                                                         *)
(* A listing is the version of the directory it was read from.  A          *)
(* generation number is compared only for being the latest of its path, so *)
(* the model keeps that bit ("current") with every listing instead of the  *)
(* number.  Time is a countdown per path; the two rescan timers of the     *)
(* inotify thread are one flag, since only one of them can matter at once. *)
(***************************************************************************)
EXTENDS Naturals, FiniteSets, FiniteSetsExt

CONSTANTS
  Dir,          \* the directories a view can show
  View,         \* the desktop grid and the file manager windows
  Worker,       \* the scanner threads
  None,         \* no directory, no listing, nothing known
  Start,        \* the directory every view shows when the monitor starts
  Armable,      \* the sets of directories inotify may agree to watch, one per try
  Remote,       \* the directories other machines change without an event
  Quiet,        \* debounce: ticks without an event before a scan (.12 s)
  Cap,          \* debounce: ticks after the first event of a scan (.5 s)
  MaxChanges,   \* bound on the versions of a directory
  MaxMoves      \* bound on navigations

ASSUME ViewsAssumption   == Start \in Dir /\ None \notin Dir
ASSUME WatchAssumption   == Armable \subseteq SUBSET Dir /\ Armable # {} /\ Remote \subseteq Dir
ASSUME TimeAssumption    == Quiet \in Nat /\ Cap \in Nat /\ Quiet <= Cap
ASSUME BoundsAssumption  == MaxChanges \in Nat /\ MaxMoves \in Nat

VARIABLES
  content,    \* the version of each directory on disk
  shown,      \* the directory each view shows
  rows,       \* the version whose listing each view displays
  held,       \* a menu, a drag or a double click holds the rows still
  ready,      \* the results tick has taken and not yet committed
  targets,    \* DirectoryMonitor.targets
  waiting,    \* deadlines and first_dirty: what is left of both, per path
  results,    \* DirectoryMonitor.results
  closed,     \* DirectoryMonitor.closed
  thread,     \* where each scanner thread is
  scan,       \* the path a scanner thread lists, and the version at its start
  step,       \* where the inotify thread is
  local,      \* events: its copy of targets
  known,      \* events: the targets it has armed and scanned, or None
  armed,      \* the directories whose present inode is watched
  complete,   \* Inotify.complete
  queue,      \* the unread notifications of the inotify descriptor, per path
  elapsed,    \* next_scan or next_poll has passed
  noticed,    \* history: the version at the last new generation of the path
  moves,      \* navigations so far
  settled     \* the user and the other programs are done

ui          == <<shown, rows, held, ready, moves>>
shared      == <<targets, waiting, results, closed>>
workers     == <<thread, scan>>
watch       == <<step, local, known, armed, complete, queue, elapsed>>
monitorVars == <<content, ui, shared, workers, watch, noticed, settled>>

Listing == [seen : Nat, current : BOOLEAN]
Scan    == [dir : Dir, from : Nat, current : BOOLEAN]
Wait    == [due : 0..Quiet, cap : 0..Cap]

\* Nothing being read is not a scan.
ASSUME NoneAssumption == None \notin Scan

Scanning  == {w \in Worker : scan[w] # None}
Busy      == {scan[w].dir : w \in Scanning}
ViewPaths == {shown[v] : v \in View} \ {None}
Quieted   == [d \in Dir |-> "none"]

(***************************************************************************)
(* A new generation of some paths: every listing of them that is being     *)
(* read, or was taken by tick, is superseded.                              *)
(***************************************************************************)
Supersede(paths) ==
  /\ scan'    = [w \in Worker |-> IF w \in Scanning /\ scan[w].dir \in paths
                                  THEN [scan[w] EXCEPT !.current = FALSE] ELSE scan[w]]
  /\ noticed' = [d \in Dir |-> IF d \in paths THEN content[d] ELSE noticed[d]]

\* notify_all: a scanner thread that waits looks at the deadlines again
Woken == [w \in Worker |-> IF thread[w] = "asleep" THEN "awake" ELSE thread[w]]

\* As Deadline, without the cap.
DeadlineUncapped(d) == [due |-> Quiet, cap |-> IF waiting[d] = None THEN Cap ELSE waiting[d].cap]

\* What is left to wait for d after an event: min(now + .12, first + .5)
Deadline(d) == LET cap == IF waiting[d] = None THEN Cap ELSE waiting[d].cap
               IN  [due |-> Min({Quiet, cap}), cap |-> cap]

\* A periodic rescan leaves a path alone that is being or about to be scanned.
Skipped(d) == d \in Busy \/ waiting[d] # None

Dirty(paths, periodic) ==
  LET due == IF closed THEN {}
             ELSE {d \in paths \cap targets : ~(periodic /\ Skipped(d))}
  IN  /\ Supersede(due)
      /\ ready'   = [d \in Dir |-> IF d \in due /\ ready[d] # None
                                   THEN [ready[d] EXCEPT !.current = FALSE] ELSE ready[d]]
      /\ waiting' = [d \in Dir |-> IF d \in due THEN Deadline(d) ELSE waiting[d]]
      /\ results' = [d \in Dir |-> IF d \in due THEN None ELSE results[d]]
      /\ thread'  = IF closed THEN thread ELSE Woken
      /\ UNCHANGED <<shown, rows, held, moves, targets, closed>>

(***************************************************************************)
(* The inotify thread.                                                     *)
(***************************************************************************)
\* The top of the loop: copy the targets, decide what they need.
ReadTargets ==
  /\ step = "top"
  /\ local' = targets
  /\ step'  = IF closed THEN "ended"
              ELSE IF targets # known \/ (~complete /\ elapsed) THEN "build"
              ELSE IF elapsed /\ Remote \cap targets # {} THEN "poll"
              ELSE "select"
  /\ UNCHANGED <<content, ui, shared, workers, known, armed, complete, queue, elapsed, noticed, settled>>

\* Close the old descriptor, with what it still held, and watch the targets.
Build ==
  /\ step = "build"
  /\ \E able \in Armable : /\ armed'    = local \cap able
                           /\ complete' = (local \subseteq able)
  /\ queue'   = Quieted
  /\ elapsed' = FALSE
  /\ step'    = "rescan"
  /\ UNCHANGED <<content, ui, shared, workers, local, known, noticed, settled>>

RescanTargets ==
  /\ step = "rescan"
  /\ Dirty(local, local = known)
  /\ known' = local
  /\ step'  = "select"
  /\ UNCHANGED <<content, local, armed, complete, queue, elapsed, settled>>

PollRemote ==
  /\ step = "poll"
  /\ Dirty(Remote \cap local, TRUE)
  /\ elapsed' = FALSE
  /\ step'    = "select"
  /\ UNCHANGED <<content, local, known, armed, complete, queue, settled>>

\* select returned for the descriptor: read the notifications and act on them.
\* A notification of a replaced directory forgets the targets, to arm them again.
HandleEvents ==
  /\ step = "select" /\ queue # Quieted
  /\ Dirty({d \in local : queue[d] # "none"}, FALSE)
  /\ known' = IF \E d \in local : queue[d] = "replaced" THEN None ELSE known
  /\ queue' = Quieted
  /\ step'  = "top"
  /\ UNCHANGED <<content, local, armed, complete, elapsed, settled>>

\* select returned for the command pipe or its timeout (.25 s at most).
Wake ==
  /\ step = "select" /\ queue = Quieted
  /\ step' = "top"
  /\ UNCHANGED <<content, ui, shared, workers, local, known, armed, complete, queue, elapsed, noticed, settled>>

Events == ReadTargets \/ Build \/ RescanTargets \/ PollRemote \/ HandleEvents \/ Wake

(***************************************************************************)
(* The scanner threads.                                                    *)
(***************************************************************************)
Eligible == {d \in Dir : waiting[d] # None} \ Busy

StartScan(w, d) ==
  /\ thread[w] = "awake" /\ ~closed
  /\ d \in Eligible /\ waiting[d].due = 0
  /\ waiting' = [waiting EXCEPT ![d] = None]
  /\ scan'    = [scan EXCEPT ![w] = [dir |-> d, from |-> content[d], current |-> TRUE]]
  /\ thread'  = [thread EXCEPT ![w] = "scanning"]
  /\ UNCHANGED <<content, ui, targets, results, closed, watch, noticed, settled>>

\* No deadline of an idle path: wait for a notify_all, without a timeout.
Sleep(w) ==
  /\ thread[w] = "awake" /\ ~closed
  /\ Eligible = {}
  /\ thread' = [thread EXCEPT ![w] = "asleep"]
  /\ UNCHANGED <<content, ui, shared, scan, watch, noticed, settled>>

\* As FinishScan, without asking whether the path is still a target and the
\* generation still the one the scan began with.
FinishScanUnchecked(w) ==
  /\ thread[w] = "scanning"
  /\ \E seen \in scan[w].from .. content[scan[w].dir] :
       results' = IF closed THEN results
                  ELSE [results EXCEPT ![scan[w].dir] = [seen |-> seen, current |-> scan[w].current]]
  /\ scan'   = [scan EXCEPT ![w] = None]
  /\ thread' = [Woken EXCEPT ![w] = "awake"]
  /\ UNCHANGED <<content, ui, targets, waiting, closed, watch, noticed, settled>>

\* As FinishScan, with a notify_all only when a result was stored.
FinishScanQuietly(w) ==
  /\ thread[w] = "scanning"
  /\ \E seen \in scan[w].from .. content[scan[w].dir] :
       IF ~closed /\ scan[w].dir \in targets /\ scan[w].current
       THEN /\ results' = [results EXCEPT ![scan[w].dir] = [seen |-> seen, current |-> scan[w].current]]
            /\ thread' = [Woken EXCEPT ![w] = "awake"]
       ELSE /\ results' = results
            /\ thread' = [thread EXCEPT ![w] = "awake"]
  /\ scan' = [scan EXCEPT ![w] = None]
  /\ UNCHANGED <<content, ui, targets, waiting, closed, watch, noticed, settled>>

\* The listing is some version between the start of the scan and now.
FinishScan(w) ==
  /\ thread[w] = "scanning"
  /\ \E seen \in scan[w].from .. content[scan[w].dir] :
       results' = IF ~closed /\ scan[w].dir \in targets /\ scan[w].current
                  THEN [results EXCEPT ![scan[w].dir] = [seen |-> seen, current |-> scan[w].current]]
                  ELSE results
  /\ scan'   = [scan EXCEPT ![w] = None]
  /\ thread' = [Woken EXCEPT ![w] = "awake"]
  /\ UNCHANGED <<content, ui, targets, waiting, closed, watch, noticed, settled>>

EndWorker(w) ==
  /\ thread[w] = "awake" /\ closed
  /\ thread' = [thread EXCEPT ![w] = "ended"]
  /\ UNCHANGED <<content, ui, shared, scan, watch, noticed, settled>>

Work(w) == (\E d \in Dir : StartScan(w, d)) \/ Sleep(w) \/ FinishScan(w) \/ EndWorker(w)

(***************************************************************************)
(* The UI thread.  Between tick's taking the results and the last of their *)
(* commits it does nothing else.                                           *)
(***************************************************************************)
Idle == ~closed /\ \A d \in Dir : ready[d] = None

\* As Tick, the results taken before the menus are looked at.
TickTakesFirst ==
  LET moved == (ViewPaths \ targets) \cup (targets \ ViewPaths)
      left  == targets \ ViewPaths
  IN  /\ Idle
      /\ targets' = ViewPaths
      /\ Supersede(moved)
      /\ waiting' = [d \in Dir |-> IF d \in left THEN None ELSE waiting[d]]
      /\ ready'   = IF held THEN ready ELSE [d \in Dir |-> IF d \in left THEN None ELSE results[d]]
      /\ results' = [d \in Dir |-> None]
      /\ UNCHANGED <<content, shown, rows, held, moves, closed, thread, watch, settled>>

\* The views' directories become the targets; every path that comes or goes
\* gets a new generation.  The results wait while a menu holds the rows.
Tick ==
  LET moved == (ViewPaths \ targets) \cup (targets \ ViewPaths)
      left  == targets \ ViewPaths
      kept  == [d \in Dir |-> IF d \in left THEN None ELSE results[d]]
  IN  /\ Idle
      /\ targets' = ViewPaths
      /\ Supersede(moved)
      /\ waiting' = [d \in Dir |-> IF d \in left THEN None ELSE waiting[d]]
      /\ ready'   = IF held THEN ready ELSE kept
      /\ results' = IF held THEN kept ELSE [d \in Dir |-> None]
      /\ UNCHANGED <<content, shown, rows, held, moves, closed, thread, watch, settled>>

\* As Commit, without a second look at the generation.
CommitTaken(d) ==
  /\ ready[d] # None /\ ~closed
  /\ ready' = [ready EXCEPT ![d] = None]
  /\ rows'  = [v \in View |-> IF shown[v] = d THEN ready[d].seen ELSE rows[v]]
  /\ UNCHANGED <<content, shown, held, moves, shared, workers, watch, noticed, settled>>

\* The refresh that follows the check touches only the views, which are this
\* thread's own: the two are one step.
Commit(d) ==
  /\ ready[d] # None /\ ~closed
  /\ ready' = [ready EXCEPT ![d] = None]
  /\ rows'  = [v \in View |-> IF shown[v] = d /\ d \in targets /\ ready[d].current
                              THEN ready[d].seen ELSE rows[v]]
  /\ UNCHANGED <<content, shown, held, moves, shared, workers, watch, noticed, settled>>

\* A window goes to another directory, which is listed before it is shown.
Navigate(v, d) ==
  /\ Idle /\ ~settled /\ moves < MaxMoves
  /\ d # shown[v]
  /\ shown' = [shown EXCEPT ![v] = d]
  /\ rows'  = [rows EXCEPT ![v] = content[d]]
  /\ moves' = moves + 1
  /\ UNCHANGED <<content, held, ready, shared, workers, watch, noticed, settled>>

\* dir_changed and F5: list the directory again, on this thread.
DirChanged(v) ==
  /\ Idle /\ ~settled /\ shown[v] # None
  /\ rows' = [rows EXCEPT ![v] = content[shown[v]]]
  /\ UNCHANGED <<content, shown, held, ready, moves, shared, workers, watch, noticed, settled>>

\* A window is closed: its directory is no longer viewed.
Dismiss(v) ==
  /\ Idle /\ ~settled /\ moves < MaxMoves /\ shown[v] # None
  /\ shown' = [shown EXCEPT ![v] = None]
  /\ rows'  = [rows EXCEPT ![v] = 0]
  /\ moves' = moves + 1
  /\ UNCHANGED <<content, held, ready, shared, workers, watch, noticed, settled>>

Hold    == /\ Idle /\ ~settled /\ ~held
           /\ held' = TRUE
           /\ UNCHANGED <<content, shown, rows, ready, moves, shared, workers, watch, noticed, settled>>

Release == /\ Idle /\ held
           /\ held' = FALSE
           /\ UNCHANGED <<content, shown, rows, ready, moves, shared, workers, watch, noticed, settled>>

\* As Close, without the notify_all.
CloseQuietly ==
  /\ Idle
  /\ closed' = TRUE
  /\ UNCHANGED <<content, ui, targets, waiting, results, workers, watch, noticed, settled>>

Close ==
  /\ Idle
  /\ closed' = TRUE
  /\ thread' = Woken
  /\ UNCHANGED <<content, ui, targets, waiting, results, scan, watch, noticed, settled>>

(***************************************************************************)
(* The file system, the clock and the other programs.                      *)
(***************************************************************************)
Queued(d, kind) == IF d \in armed \ Remote THEN [queue EXCEPT ![d] = kind] ELSE queue

\* An entry is created, removed or renamed, or only touched.
Change(d) ==
  /\ ~settled /\ ~closed
  /\ content' = [content EXCEPT ![d] = IF @ < MaxChanges THEN @ + 1 ELSE @]
  /\ queue'   = IF queue[d] = "replaced" THEN queue ELSE Queued(d, "changed")
  /\ UNCHANGED <<ui, shared, workers, step, local, known, armed, complete, elapsed, noticed, settled>>

\* Another directory takes the path: its inode is not watched.
Replace(d) ==
  /\ ~settled /\ ~closed
  /\ content[d] < MaxChanges
  /\ content' = [content EXCEPT ![d] = @ + 1]
  /\ queue'   = Queued(d, "replaced")
  /\ armed'   = armed \ {d}
  /\ UNCHANGED <<ui, shared, workers, step, local, known, complete, elapsed, noticed, settled>>

\* The kernel drops the notifications and says so: every path may have changed.
Overflow ==
  /\ queue # Quieted /\ ~settled /\ ~closed
  /\ queue' = [d \in Dir |-> "replaced"]
  /\ UNCHANGED <<content, ui, shared, workers, step, local, known, armed, complete, elapsed, noticed, settled>>

Clock ==
  /\ ~closed
  /\ \E d \in Dir : waiting[d] # None /\ waiting[d].due > 0
  /\ waiting' = [d \in Dir |-> IF waiting[d] = None THEN None
                               ELSE [due |-> Max({waiting[d].due - 1, 0}),
                                     cap |-> Max({waiting[d].cap - 1, 0})]]
  /\ UNCHANGED <<content, ui, targets, results, closed, workers, watch, noticed, settled>>

\* next_scan counts while a watch is missing, next_poll while a view is remote.
\* They are seconds: a debounce ends and tick takes its turn before they pass,
\* but a scan may be slower, and a menu open longer.
Elapse ==
  /\ ~elapsed /\ ~closed
  /\ ~complete \/ Remote \cap local # {}
  /\ \A d \in Dir : waiting[d] # None => waiting[d].due = 0
  /\ held \/ \A d \in Dir : results[d] = None /\ ready[d] = None
  /\ elapsed' = TRUE
  /\ UNCHANGED <<content, ui, shared, workers, step, local, known, armed, complete, queue, noticed, settled>>

Settle ==
  /\ ~settled /\ ~closed
  /\ settled' = TRUE
  /\ UNCHANGED <<content, ui, shared, workers, watch, noticed>>

MonitorInit ==
  /\ content = [d \in Dir |-> 0]
  /\ shown = [v \in View |-> Start] /\ rows = [v \in View |-> 0]
  /\ held = FALSE /\ ready = [d \in Dir |-> None] /\ moves = 0
  /\ targets = ViewPaths /\ closed = FALSE
  /\ waiting = [d \in Dir |-> None] /\ results = [d \in Dir |-> None]
  /\ thread = [w \in Worker |-> "awake"] /\ scan = [w \in Worker |-> None]
  /\ step = "top" /\ local = {} /\ known = None
  /\ armed = {} /\ complete = FALSE /\ queue = Quieted /\ elapsed = FALSE
  /\ noticed = [d \in Dir |-> 0] /\ settled = FALSE

MonitorNext ==
  \/ Events
  \/ \E w \in Worker : Work(w)
  \/ Tick \/ Hold \/ Release \/ Close
  \/ \E v \in View : (\E d \in Dir : Navigate(v, d)) \/ DirChanged(v) \/ Dismiss(v)
  \/ \E d \in Dir : Commit(d) \/ Change(d) \/ Replace(d)
  \/ Overflow \/ Clock \/ Elapse \/ Settle

MonitorSpec == MonitorInit /\ [][MonitorNext]_monitorVars

(***************************************************************************)
(* Threads that can run do, time passes, the event loop calls tick, a scan *)
(* ends, and a menu is closed one day.  A due path is not passed over for  *)
(* ever: the scanners take the earliest deadline first.  Strong fairness   *)
(* of the last two actions says that the seconds between periodic rescans  *)
(* leave a frame in which tick takes and commits what a scan has found:    *)
(* not every rescan falls between the two.  Nothing is assumed of the      *)
(* user, of other programs or of close.                                    *)
(***************************************************************************)
TakeResults  == Tick /\ ready' # ready
CommitLatest == \E d \in Dir : ready[d] # None /\ ready[d].current /\ Commit(d)

FairSpec ==
  /\ MonitorSpec
  /\ WF_monitorVars(Events) /\ WF_monitorVars(Clock) /\ WF_monitorVars(Elapse)
  /\ WF_monitorVars(Tick) /\ WF_monitorVars(Release) /\ WF_monitorVars(\E d \in Dir : Commit(d))
  /\ \A d \in Dir : WF_monitorVars(\E w \in Worker : StartScan(w, d))
  /\ \A w \in Worker : WF_monitorVars(FinishScan(w) \/ EndWorker(w))
  /\ SF_monitorVars(TakeResults) /\ SF_monitorVars(CommitLatest)

-----------------------------------------------------------------------------
(***************************************************************************)
(* Types, and what ties the shared state together: only targets have       *)
(* deadlines and results, and a stored result is of the latest generation  *)
(* of its path.                                                            *)
(***************************************************************************)
MonitorTypeOK ==
  /\ content \in [Dir -> 0..MaxChanges] /\ noticed \in [Dir -> 0..MaxChanges]
  /\ shown \in [View -> Dir \cup {None}] /\ rows \in [View -> 0..MaxChanges]
  /\ held \in BOOLEAN /\ closed \in BOOLEAN /\ settled \in BOOLEAN /\ moves \in 0..MaxMoves
  /\ ready \in [Dir -> Listing \cup {None}]
  /\ results \in [Dir -> Listing \cup {None}]
  /\ waiting \in [Dir -> Wait \cup {None}]
  /\ targets \subseteq Dir /\ local \subseteq Dir
  /\ known \in (SUBSET Dir) \cup {None}
  /\ thread \in [Worker -> {"awake", "asleep", "scanning", "ended"}]
  /\ scan \in [Worker -> Scan \cup {None}]
  /\ \A w \in Worker : scan[w] # None <=> thread[w] = "scanning"
  /\ step \in {"top", "build", "rescan", "poll", "select", "ended"}
  /\ armed \subseteq Dir /\ complete \in BOOLEAN /\ elapsed \in BOOLEAN
  /\ queue \in [Dir -> {"none", "changed", "replaced"}]
  /\ \A d \in Dir : results[d] # None => d \in targets /\ results[d].current
  /\ \A d \in Dir : waiting[d] # None => d \in targets /\ waiting[d].due <= waiting[d].cap

(***************************************************************************)
(* "Epochs discard results superseded by filesystem events or navigation"  *)
(* (directory_monitor.py:141): rows that change are never older than the   *)
(* directory was when its last event was handled, or when it last became   *)
(* or ceased to be a target.                                               *)
(***************************************************************************)
NoSupersededRows ==
  [][\A v \in View : shown'[v] # None /\ rows'[v] # rows[v] => rows'[v] >= noticed[shown'[v]]]_monitorVars

(***************************************************************************)
(* A scanner that waits without a timeout (condition.wait(None) in work)   *)
(* has nothing to do: every step that gives a path a deadline, frees the   *)
(* path that a deadline was waiting for, or closes the monitor wakes it.   *)
(***************************************************************************)
NoLostWakeup ==
  \A w \in Worker : thread[w] = "asleep" => ~closed /\ Eligible = {}

(***************************************************************************)
(* When the user and the other programs are done, every view comes to show *)
(* its directory as it is, and stays so, unless the monitor was closed:    *)
(* events, the rescans after a replacement or an overflow and the periodic *)
(* ones leave no view behind.                                              *)
(***************************************************************************)
Fresh ==
  <>[](settled => closed \/ \A v \in View : shown[v] # None => rows[v] = content[shown[v]])

(***************************************************************************)
(* The debounce is capped (first + .5): a directory that never stops       *)
(* changing is still scanned, or is no longer viewed.                      *)
(***************************************************************************)
Debounced == \A d \in Dir : waiting[d] # None ~> waiting[d] = None \/ closed

\* close ends the inotify thread and every scanner thread, one that sleeps
\* without a timeout and one in the middle of a scan included.
ThreadsEnd == closed ~> step = "ended" /\ \A w \in Worker : thread[w] = "ended"
=============================================================================
