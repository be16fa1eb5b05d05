------------------------------ MODULE PtySessions ------------------------------
(***************************************************************************)
(* The PTY Sessions window of Kilix 95 (apps/ptysessions.py): one desktop  *)
(* thread, a pool of workers that run `kilix pty`, and the sessions that   *)
(* the broker keeps while the window looks at them.                        *)
(*                                                                         *)
(* A session is an id and its start: ids are used again, starts are not.   *)
(* `kilix pty` and the broker are external.  Texts are left out, but for   *)
(* what a box says of the session the user asked to end.  The calls that   *)
(* only read (journals, preview, journal_view) take workers and may open a *)
(* box; which page and selection allow which of them is left out, and so   *)
(* is what they read.  No action reads a clock: what a timeout or the five *)
(* seconds of a refresh allow may happen at any time.                      *)
(***************************************************************************)
EXTENDS Integers, Sequences, FiniteSets

CONSTANTS
    Sid,          \* ids of sessions
    Own,          \* the ids, one at most, that the desktop itself runs in
    Reader,       \* kinds of calls that only read
    Workers,      \* threads of the window's pool
    MaxStarts,    \* bound: sessions that an id names one after the other
    MaxAsks       \* bound: requests to end a session

ASSUME ConstantsOK ==
    /\ Own \subseteq Sid /\ Reader \cap {"list", "kill"} = {}
    /\ Workers \in Nat \ {0}
    /\ MaxStarts \in Nat \ {0} /\ MaxAsks \in Nat

VARIABLES
    live,       \* the start of the session each id names, 0 without one
    starts,     \* the starts each id has had
    mute,       \* ids whose session does not answer
    requests,   \* end requests on their way to a broker
    window,     \* "open", "closed", or "gone" with its desktop
    page,       \* the tab on top
    rows,       \* the listing on screen, if there has been one
    sel,        \* the selected row
    futures,    \* what the pool does for each kind of call
    queue,      \* the calls that no worker has taken yet
    confirm,    \* the End Session dialog, if it is open
    receipt,    \* the box with the outcome of an end, if it is open
    notice,     \* another message box is open
    asks,       \* requests to end so far
    picked,     \* ghost: the row the user clicked on last
    asked,      \* ghost: what the user saw and picked when confirming
    acted,      \* ghost: the sessions that each request ended
    told        \* ghost: the requests whose outcome was shown

world == <<live, starts, mute>>
view == <<page, rows, sel>>
pool == <<futures, queue>>
boxes == <<confirm, receipt, notice>>
ghosts == <<picked, asked, acted, told>>
vars == <<world, requests, window, view, pool, boxes, asks, ghosts>>

Start == 1..MaxStarts
Ask == 1..MaxAsks
Session == Sid \X Start
Mute == MaxStarts + 1           \* the row of an id that does not answer
Kind == {"list", "kill"} \cup Reader
Listing == [Sid -> 0..Mute]

\* step: where a call is.  of, ask: the session a kill is for, and which.
\* sees: the answer to a listing.  says: the outcome of the other calls.
Call == [step : {"none", "queued", "running", "sent", "done"},
         of : SUBSET Session, ask : Ask \cup {0}, sees : SUBSET Listing,
         says : {"", "ok", "failed", "ended", "nothing", "unknown"}]
NoCall == [step |-> "none", of |-> {}, ask |-> 0, sees |-> {}, says |-> ""]
Dialog == [of : Session, body : {"pending", "laid", "failed"}]
Outcome == [ask : Ask, of : Session, says : {"ended", "nothing", "unknown"}]

TypeOK ==
    /\ live \in [Sid -> 0..MaxStarts] /\ starts \in [Sid -> 0..MaxStarts]
    /\ mute \subseteq Sid
    /\ requests \subseteq Ask \X Session
    /\ window \in {"open", "closed", "gone"} /\ page \in {0, 1}
    /\ rows \subseteq Listing
    /\ sel \subseteq Sid \X (1..Mute)
    /\ futures \in [Kind -> Call] /\ queue \in Seq(Kind)
    /\ confirm \subseteq Dialog
    /\ receipt \subseteq Outcome
    /\ notice \in BOOLEAN
    /\ asks \in 0..MaxAsks
    /\ picked \subseteq Sid \X (1..Mute)
    /\ asked \in [Ask -> SUBSET (Session \X BOOLEAN)]
    /\ acted \in [Ask -> SUBSET Session] /\ told \subseteq Ask

(***************************************************************************)
(* The broker.  The session of the desktop itself neither ends nor stalls: *)
(* the desktop would with it.                                              *)
(***************************************************************************)
SessionStarts(i) ==
    /\ live[i] = 0 /\ starts[i] < MaxStarts
    /\ starts' = [starts EXCEPT ![i] = @ + 1]
    /\ live' = [live EXCEPT ![i] = starts[i] + 1]
    /\ UNCHANGED <<mute, requests, window, view, pool, boxes, asks, ghosts>>

SessionExits(i) ==
    /\ live[i] # 0 /\ i \notin Own
    /\ live' = [live EXCEPT ![i] = 0]
    /\ mute' = mute \ {i}
    /\ UNCHANGED <<starts, requests, window, view, pool, boxes, asks, ghosts>>

\* A broker stops answering, or answers again.
SessionStalls(i) ==
    /\ live[i] # 0 /\ i \notin Own
    /\ mute' = (mute \ {i}) \cup ({i} \ mute)
    /\ UNCHANGED <<live, starts, requests, window, view, pool, boxes, asks, ghosts>>

\* A request names the start as well (--expect-started), and the broker
\* ends no other session.
RequestArrives(r) ==
    LET i == r[2][1] IN
    /\ r \in requests /\ i \notin mute
    /\ requests' = requests \ {r}
    /\ IF live[i] = r[2][2]
       THEN /\ live' = [live EXCEPT ![i] = 0]
            /\ acted' = [acted EXCEPT ![r[1]] = @ \cup {r[2]}]
       ELSE UNCHANGED <<live, acted>>
    /\ UNCHANGED <<starts, mute, window, view, pool, boxes, asks, picked, asked, told>>

(***************************************************************************)
(* _submit and the pool: a call of a kind that is under way already is not *)
(* made again.  Calls are taken in the order they were submitted.          *)
(***************************************************************************)
Idle(k) == futures[k].step = "none"
Submitted(f, k, c) == [f EXCEPT ![k] = [c EXCEPT !.step = "queued"]]

Submit(k, c) ==
    IF Idle(k)
    THEN futures' = Submitted(futures, k, c) /\ queue' = Append(queue, k)
    ELSE UNCHANGED pool

Busy == {k \in Kind : futures[k].step \in {"running", "sent"}}

WorkerTakes ==
    /\ queue # <<>> /\ Cardinality(Busy) < Workers
    /\ queue' = Tail(queue)
    /\ futures' = [futures EXCEPT ![Head(queue)].step = "running"]
    /\ UNCHANGED <<world, requests, window, view, boxes, asks, ghosts>>

Running(k) == futures[k].step = "running"
Done(c, says) == [c EXCEPT !.step = "done", !.says = says]
Answer(k, says) == futures' = [futures EXCEPT ![k] = Done(@, says)]
OutsideTheCall == UNCHANGED <<world, window, view, queue, boxes, asks, ghosts>>

\* load_sessions
Listed == [i \in Sid |-> IF i \in mute THEN Mute ELSE live[i]]

ListAnswers ==
    /\ Running("list")
    /\ futures' = [futures EXCEPT !["list"] =
                      [Done(@, "ok") EXCEPT !.sees = {Listed}]]
    /\ OutsideTheCall /\ UNCHANGED requests

\* PtyError: no launcher, no answer in time, not the contract's document.
CallFails(k) ==
    /\ k # "kill" /\ Running(k)
    /\ Answer(k, "failed")
    /\ OutsideTheCall /\ UNCHANGED requests

\* load_journals, fetch_pane_text, fetch_journal_text
ReadAnswers(k) ==
    /\ k \in Reader /\ Running(k)
    /\ Answer(k, "ok")
    /\ OutsideTheCall /\ UNCHANGED requests

(***************************************************************************)
(* end_session and `kilix pty kill`                                        *)
(***************************************************************************)
Target == CHOOSE s \in futures["kill"].of : TRUE

\* The receipts that say that no request was sent: the session is not found,
\* another has its id, its broker does not answer or is too old to bind the
\* request to a start, the caller is not known.  The desktop's own session
\* is refused here, without a call.
KillRefused ==
    /\ Running("kill")
    /\ Answer("kill", "nothing")
    /\ OutsideTheCall /\ UNCHANGED requests

KillSends ==
    LET i == Target[1] IN
    /\ Running("kill")
    /\ i \notin Own /\ i \notin mute /\ live[i] = Target[2]
    /\ requests' = requests \cup {<<futures["kill"].ask, Target>>}
    /\ futures' = [futures EXCEPT !["kill"].step = "sent"]
    /\ OutsideTheCall

\* The absence is polled for: verified_absent, or uncertain.
KillVerified ==
    /\ futures["kill"].step = "sent"
    /\ Answer("kill", IF live[Target[1]] # Target[2] THEN "ended" ELSE "unknown")
    /\ OutsideTheCall /\ UNCHANGED requests

\* Mutant: a call that was killed counts as one that sent nothing.
KillUnansweredAsRefused ==
    /\ futures["kill"].step \in {"running", "sent"}
    /\ Answer("kill", "nothing")
    /\ OutsideTheCall /\ UNCHANGED requests

\* no_receipt: the time is over and the process group is killed, or what the
\* call printed is no receipt of this session.
KillUnanswered ==
    /\ futures["kill"].step \in {"running", "sent"}
    /\ Answer("kill", "unknown")
    /\ OutsideTheCall /\ UNCHANGED requests

(***************************************************************************)
(* _tick and _finish: one call that is done leaves `futures`, and its      *)
(* result is applied.                                                      *)
(***************************************************************************)
Finishes(k) ==
    /\ window = "open" /\ futures[k].step = "done"
Freed(k) == [futures EXCEPT ![k] = NoCall]
Forget(k) == futures' = Freed(k) /\ UNCHANGED queue

\* Mutant: the row of the same id.
ReselectedById(listing) == {<<s[1], listing[s[1]]>> : s \in sel}

\* _ColumnList.replace keeps the row of the same id and start selected.
Reselected(listing) == {s \in sel : listing[s[1]] = s[2]}

FinishList ==
    /\ Finishes("list") /\ Forget("list")
    /\ IF futures["list"].says = "ok"
       THEN \E listing \in futures["list"].sees :
               rows' = {listing} /\ sel' = Reselected(listing)
       ELSE UNCHANGED <<rows, sel>>
    /\ UNCHANGED <<world, requests, window, page, boxes, asks, ghosts>>

\* What was read is shown in a list or an OutputWindow; if the call failed, the
\* status line says so, or a box.
FinishRead(k) ==
    /\ k \in Reader /\ Finishes(k) /\ Forget(k)
    /\ \/ UNCHANGED notice
       \/ futures[k].says = "failed" /\ notice' = TRUE
    /\ UNCHANGED <<world, requests, window, view, confirm, receipt, asks, ghosts>>

\* Mutant: a call that gave no receipt ends without a box.
FinishKillWithReceipt ==
    LET c == futures["kill"] IN
    /\ Finishes("kill")
    /\ IF c.says = "unknown" THEN UNCHANGED <<receipt, told>>
       ELSE /\ receipt' = {[ask |-> c.ask, of |-> Target, says |-> c.says]}
            /\ told' = told \cup {c.ask}
    /\ IF Idle("list")
       THEN /\ futures' = Submitted(Freed("kill"), "list", NoCall)
            /\ queue' = Append(queue, "list")
       ELSE Forget("kill")
    /\ UNCHANGED <<world, requests, window, view, confirm, notice, asks, picked,
                   asked, acted>>

FinishKill ==
    LET c == futures["kill"] IN
    /\ Finishes("kill")
    /\ receipt' = {[ask |-> c.ask, of |-> Target, says |-> c.says]}
    /\ told' = told \cup {c.ask}
    /\ IF Idle("list")
       THEN /\ futures' = Submitted(Freed("kill"), "list", NoCall)
            /\ queue' = Append(queue, "list")
       ELSE Forget("kill")
    /\ UNCHANGED <<world, requests, window, view, confirm, notice, asks, picked,
                   asked, acted>>

(***************************************************************************)
(* The user.  A dialog or box owns all input, the last one first.          *)
(***************************************************************************)
NoBox == receipt = {} /\ ~notice
Free == window = "open" /\ NoBox /\ confirm = {}

\* The Refresh button, F5, or five seconds without a listing.
Refresh ==
    /\ window = "open"
    /\ \/ Free
       \/ page = 0 /\ Idle("kill")
    /\ page = 0 /\ Idle("list") /\ Submit("list", NoCall)
    /\ UNCHANGED <<world, requests, window, view, boxes, asks, ghosts>>

Switch(p) ==
    /\ Free /\ page' = p
    /\ UNCHANGED <<world, requests, window, rows, sel, pool, boxes, asks, ghosts>>

\* refresh_journals, _preview, _view_journal
Read(k) ==
    /\ Free /\ k \in Reader /\ Idle(k) /\ Submit(k, NoCall)
    /\ UNCHANGED <<world, requests, window, view, boxes, asks, ghosts>>

Select(i) ==
    /\ Free /\ page = 0
    /\ \E listing \in rows :
          /\ listing[i] # 0
          /\ sel' = {<<i, listing[i]>>} /\ picked' = sel'
    /\ UNCHANGED <<world, requests, window, page, rows, pool, boxes, asks,
                   asked, acted, told>>

\* can_end and _actions: the row allows the end, and none is under way.
CanEnd(s) == s[2] # Mute /\ s[1] \notin Own /\ Idle("kill")

\* _end opens ConfirmEnd.  A short id and command are laid out at once.
End(s) ==
    /\ Free /\ page = 0 /\ s \in sel /\ CanEnd(s) /\ asks < MaxAsks
    /\ \E body \in {"pending", "laid", "failed"} :
          confirm' = {[of |-> s, body |-> body]}
    /\ UNCHANGED <<world, requests, window, view, pool, receipt, notice, asks, ghosts>>

\* The layout of a long text lands in the dialog, or fails for good.
BodyLaid(d, body) ==
    /\ window = "open" /\ d \in confirm /\ d.body = "pending"
    /\ confirm' = {[d EXCEPT !.body = body]}
    /\ UNCHANGED <<world, requests, window, view, pool, receipt, notice, asks, ghosts>>

\* ConfirmEnd._end and _confirmed_end
CanConfirm(d) == d.body = "laid"

Confirm(d) ==
    /\ window = "open" /\ NoBox /\ d \in confirm /\ CanConfirm(d)
    /\ confirm' = {}
    /\ IF Idle("kill")
       THEN /\ asks' = asks + 1
            /\ Submit("kill", [NoCall EXCEPT !.of = {d.of}, !.ask = asks + 1])
            /\ asked' = [asked EXCEPT ![asks + 1] =
                            {<<s, d.body = "laid">> : s \in picked}]
       ELSE UNCHANGED <<asks, asked, pool>>
    /\ UNCHANGED <<world, requests, window, view, receipt, notice, picked, acted, told>>

Cancel ==
    /\ window = "open" /\ NoBox /\ confirm # {} /\ confirm' = {}
    /\ UNCHANGED <<world, requests, window, view, pool, receipt, notice, asks, ghosts>>

Dismiss ==
    /\ window = "open" /\ ~NoBox
    /\ \/ receipt' = {} /\ UNCHANGED notice
       \/ notice' = FALSE /\ UNCHANGED receipt
    /\ UNCHANGED <<world, requests, window, view, pool, confirm, asks, ghosts>>

\* The widgets go with the window.
NoWidgets ==
    /\ page' = 0 /\ rows' = {} /\ sel' = {} /\ picked' = {}
    /\ confirm' = {} /\ receipt' = {} /\ notice' = FALSE

\* Calls that a worker has not taken are cancelled; the others run on.
Abandoned(k) == IF futures[k].step = "queued" THEN NoCall ELSE futures[k]

\* Mutant: the window closes on a request that is under way.
CloseAtOnce ==
    /\ Free
    /\ window' = "closed"
    /\ futures' = [k \in Kind |-> Abandoned(k)] /\ queue' = <<>>
    /\ NoWidgets
    /\ UNCHANGED <<world, requests, asks, asked, acted, told>>

RequestClose ==
    /\ Free
    /\ IF Idle("kill")
       THEN /\ window' = "closed"
            /\ futures' = [k \in Kind |-> Abandoned(k)] /\ queue' = <<>>
            /\ NoWidgets
       ELSE /\ notice' = TRUE
            /\ UNCHANGED <<window, pool, view, confirm, receipt, picked>>
    /\ UNCHANGED <<world, requests, asks, asked, acted, told>>

\* The desktop ends without asking its windows; the workers are joined.
Quit ==
    /\ window # "gone" /\ window' = "gone" /\ NoWidgets
    /\ UNCHANGED <<world, requests, pool, asks, asked, acted, told>>

Init ==
    /\ live = [i \in Sid |-> IF i \in Own THEN 1 ELSE 0] /\ starts = live
    /\ mute = {} /\ requests = {}
    /\ window = "open" /\ page = 0 /\ rows = {} /\ sel = {}
    /\ futures = Submitted([k \in Kind |-> NoCall], "list", NoCall)
    /\ queue = <<"list">>
    /\ confirm = {} /\ receipt = {} /\ notice = FALSE
    /\ asks = 0 /\ picked = {} /\ told = {}
    /\ asked = [n \in Ask |-> {}] /\ acted = [n \in Ask |-> {}]

Broker ==
    \/ \E i \in Sid : SessionStarts(i) \/ SessionExits(i) \/ SessionStalls(i)
    \/ \E r \in requests : RequestArrives(r)

KillCall == KillRefused \/ KillSends \/ KillVerified \/ KillUnanswered
Worker ==
    \/ WorkerTakes \/ ListAnswers \/ KillCall
    \/ \E k \in Kind : CallFails(k) \/ ReadAnswers(k)

Tick ==
    \/ FinishList \/ FinishKill
    \/ \E k \in Kind : FinishRead(k)
    \/ \E d \in confirm, body \in {"laid", "failed"} : BodyLaid(d, body)

User ==
    \/ Refresh \/ Cancel \/ Dismiss \/ RequestClose \/ Quit
    \/ \E k \in Reader : Read(k)
    \/ \E p \in {0, 1} : Switch(p)
    \/ \E i \in Sid : Select(i)
    \/ \E s \in sel : End(s)
    \/ \E d \in confirm : Confirm(d)

Next == Broker \/ Worker \/ Tick \/ User

\* Every call of `kilix pty` has a timeout, the pool takes its calls in turn,
\* and the loop of an open desktop polls on.
Fairness ==
    /\ WF_vars(WorkerTakes) /\ WF_vars(KillCall) /\ WF_vars(FinishKill)
    /\ \A k \in Kind \ {"kill"} : WF_vars(CallFails(k))

Spec == Init /\ [][Next]_vars /\ Fairness

-----------------------------------------------------------------------------
(***************************************************************************)
(* A session is ended by the window only if it is the one, id and start,   *)
(* that the user picked in the list and then confirmed with its whole text *)
(* before their eyes, whatever listings came in between and whatever else  *)
(* has its id by now; and never the desktop's own.                         *)
(***************************************************************************)
EndsConfirmed ==
    \A n \in Ask : \A s \in acted[n] : asked[n] = {<<s, TRUE>>} /\ s[1] \notin Own

(***************************************************************************)
(* The box tells exactly what is known: a session that "has ended" is gone,*)
(* and after "nothing was ended" the request neither has ended it nor ever *)
(* will.                                                                   *)
(***************************************************************************)
ReceiptTruthful ==
    \A b \in receipt :
        /\ b.says = "ended" => live[b.of[1]] # b.of[2]
        /\ b.says = "nothing" =>
              acted[b.ask] = {} /\ ~ \E s \in Session : <<b.ask, s>> \in requests

(***************************************************************************)
(* No confirmed end is forgotten: until its outcome is on screen its call  *)
(* is in the pool of an open window, and while it waits for a worker it is *)
(* in the queue.  Submitting, closing, other calls that end and listings   *)
(* that take its place must all keep that.                                 *)
(***************************************************************************)
UnderWay(n) ==
    /\ window = "open" /\ futures["kill"].ask = n /\ ~Idle("kill")
    /\ futures["kill"].step = "queued" => \E m \in 1..Len(queue) : queue[m] = "kill"

NoneForgotten ==
    window # "gone" => \A n \in 1..asks : n \in told \/ UnderWay(n)

(***************************************************************************)
(* Every end that is confirmed is answered by a box, unless the desktop    *)
(* itself ends: the window does not close on a request under way, and no   *)
(* number of other calls keeps it from a worker.                           *)
(***************************************************************************)
OutcomeShown ==
    \A n \in Ask : (asks >= n) ~> (n \in told \/ window = "gone")
=============================================================================
