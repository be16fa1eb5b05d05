-------------------------- MODULE PtySessions_proofs --------------------------
(***************************************************************************)
(* Proofs about PtySessions, for any ids, pool and bounds: its types, and  *)
(* that EndsConfirmed, ReceiptTruthful and NoneForgotten hold.  The        *)
(* inductive invariant follows a request from the row that was picked to   *)
(* the box that tells its outcome: the picked session is the one the       *)
(* dialog, the call and the request name, and a start that the window      *)
(* knows of is never used again.                                           *)
(***************************************************************************)
EXTENDS PtySessions, TLAPS

Kill == futures["kill"]
Waiting == Kill.step \in {"queued", "running"}
Seen(s) == s[2] = Mute \/ s[2] <= starts[s[1]]
Shown(listing) == \A i \in Sid : Seen(<<i, listing[i]>>)

\* Every start that the window knows of has been given by then, and an id
\* does not get a start twice.
StartsOK ==
    /\ \A i \in Sid : live[i] <= starts[i]
    /\ \A listing \in rows : Shown(listing)
    /\ \A listing \in futures["list"].sees : Shown(listing)
    /\ \A s \in picked : Seen(s)
    /\ \A b \in receipt : b.of[2] <= starts[b.of[1]]
    /\ \A s \in Kill.of : s[2] <= starts[s[1]]

\* What is selected is what the user picked, and so is what a dialog names.
ChosenOK ==
    /\ sel \subseteq picked
    /\ \A s, t \in picked : s = t
    /\ \A d \in confirm : d.of \in picked /\ d.of[1] \notin Own
    /\ confirm # {} => asks < MaxAsks

\* A request has the session that was confirmed under its number.
Confirmed(n, s) == n <= asks /\ asked[n] = {<<s, TRUE>>} /\ s[1] \notin Own
KillOK ==
    /\ Kill.step # "none" =>
          Kill.ask \in Ask /\ \E s \in Session : Kill.of = {s} /\ Confirmed(Kill.ask, s)
    /\ Kill.step = "done" => Kill.says \in {"ended", "nothing", "unknown"}
    /\ \A r \in requests : Confirmed(r[1], r[2])
    /\ \A n \in Ask : n > asks => asked[n] = {}

\* A call that has sent nothing so far has ended nothing, and its outcome has
\* not been told; what a call or a box says is so.
Inert(n) == acted[n] = {} /\ \A r \in requests : r[1] # n
Claim(n, s, says) ==
    /\ says = "ended" => live[s[1]] # s[2]
    /\ says = "nothing" => Inert(n)
OutcomeOK ==
    /\ \A n \in told : n <= asks
    /\ Waiting => Kill.ask \notin told /\ Inert(Kill.ask)
    /\ \A n \in Ask : n > asks => Inert(n)
    /\ Kill.step = "done" => \A s \in Kill.of : Claim(Kill.ask, s, Kill.says)
    /\ \A b \in receipt : b.ask \in told /\ Claim(b.ask, b.of, b.says)

\* The calls that wait for a worker are those in the queue, once each.
QueueOK ==
    \A n \in 1..Len(queue) :
       /\ futures[queue[n]].step = "queued"
       /\ \A m \in 1..Len(queue) : queue[m] = queue[n] => m = n

IInv ==
    /\ TypeOK /\ QueueOK /\ StartsOK /\ ChosenOK /\ KillOK
    /\ EndsConfirmed /\ OutcomeOK

-----------------------------------------------------------------------------
LEMMA Calls ==
    /\ NoCall \in Call /\ NoCall.step = "none" /\ NoCall.sees = {} /\ NoCall.of = {}
    /\ \A c \in Call : [c EXCEPT !.step = "queued"] \in Call
    /\ \A c \in Call : [c EXCEPT !.step = "running"] \in Call
    /\ \A c \in Call : [c EXCEPT !.step = "sent"] \in Call
BY DEF NoCall, Call

LEMMA DoneFacts ==
    ASSUME NEW c \in Call,
           NEW says \in {"ok", "failed", "ended", "nothing", "unknown"}
    PROVE  /\ Done(c, says) \in Call /\ Done(c, says).step = "done"
           /\ Done(c, says).says = says /\ Done(c, says).sees = c.sees
           /\ Done(c, says).of = c.of /\ Done(c, says).ask = c.ask
BY DEF Call, Done

LEMMA Kinds == "list" \in Kind /\ "kill" \in Kind /\ Reader \subseteq Kind
               /\ "kill" \notin Reader /\ "list" \notin Reader
BY ConstantsOK DEF Kind

LEMMA Typed ==
    ASSUME IInv
    PROVE  /\ futures \in [Kind -> Call] /\ queue \in Seq(Kind)
           /\ live \in [Sid -> 0..MaxStarts] /\ starts \in [Sid -> 0..MaxStarts]
           /\ requests \subseteq Ask \X Session /\ asks \in 0..MaxAsks
           /\ asked \in [Ask -> SUBSET (Session \X BOOLEAN)]
           /\ acted \in [Ask -> SUBSET Session]
           /\ receipt \subseteq Outcome /\ confirm \subseteq Dialog
           /\ MaxStarts \in Nat \ {0} /\ MaxAsks \in Nat /\ Ask \subseteq Nat
           /\ rows \subseteq Listing
BY ConstantsOK DEF IInv, TypeOK, Ask

(* The queue, when no call leaves it and when one joins it.                *)
LEMMA QueueStays ==
    ASSUME IInv, queue' = queue,
           \A k \in Kind : futures[k].step = "queued" => futures'[k].step = "queued"
    PROVE  QueueOK'
<1>1. \A n \in 1..Len(queue) : queue[n] \in Kind
  BY Typed
<1> QED
  BY <1>1 DEF IInv, QueueOK

LEMMA QueueGrows ==
    ASSUME IInv, NEW k \in Kind, futures[k].step # "queued",
           queue' = Append(queue, k), futures'[k].step = "queued",
           \A j \in Kind : futures[j].step = "queued" => futures'[j].step = "queued"
    PROVE  QueueOK' /\ queue' \in Seq(Kind)
<1>1. queue \in Seq(Kind) /\ \A n \in 1..Len(queue) : queue[n] \in Kind
  BY Typed
<1>2. Len(queue') = Len(queue) + 1 /\ queue' \in Seq(Kind) /\ Len(queue) \in Nat
  BY <1>1
<1>3. /\ queue'[Len(queue) + 1] = k
      /\ \A n \in 1..Len(queue) : queue'[n] = queue[n]
  BY <1>1
<1>4. \A n \in 1..Len(queue) : queue[n] # k
  BY DEF IInv, QueueOK
<1>5. \A n \in 1..Len(queue') : n \in 1..Len(queue) \/ n = Len(queue) + 1
  BY <1>2
<1>6. ASSUME NEW n \in 1..Len(queue') PROVE futures'[queue'[n]].step = "queued"
  BY <1>1, <1>3, <1>5 DEF IInv, QueueOK
<1>7. ASSUME NEW n \in 1..Len(queue'), NEW m \in 1..Len(queue'), queue'[m] = queue'[n]
      PROVE  m = n
  BY <1>3, <1>4, <1>5, <1>7 DEF IInv, QueueOK
<1> QED
  BY <1>2, <1>6, <1>7 DEF QueueOK

(***************************************************************************)
(* The steps that leave the end of a session and its request alone.        *)
(***************************************************************************)
SameEnd ==
    /\ UNCHANGED <<live, starts, requests, asked, acted, told, asks>>
    /\ futures'["kill"] = futures["kill"]

LEMMA StepKeeps ==
    ASSUME IInv, TypeOK', QueueOK', ChosenOK', SameEnd,
           rows' \subseteq rows \cup futures["list"].sees,
           futures'["list"].sees \subseteq futures["list"].sees \cup {Listed},
           receipt' \subseteq receipt, \A s \in picked' : Seen(s)
    PROVE  IInv'
<1>1. Shown(Listed)
  <2>1. \A i \in Sid : Listed[i] = Mute \/ Listed[i] <= starts[i]
    BY DEF Listed, IInv, StartsOK
  <2> QED
    BY <2>1 DEF Shown, Seen
<1>2. StartsOK'
  <2>1. \A listing \in rows' \cup futures'["list"].sees : Shown(listing)
    BY <1>1 DEF IInv, StartsOK
  <2> QED
    BY <2>1 DEF IInv, StartsOK, SameEnd, Shown, Seen, Kill
<1>3. KillOK'
  BY DEF IInv, KillOK, SameEnd, Kill, Confirmed
<1>4. EndsConfirmed'
  BY DEF IInv, EndsConfirmed, SameEnd
<1>5. OutcomeOK'
  BY DEF IInv, OutcomeOK, SameEnd, Kill, Waiting, Inert, Claim
<1> QED
  BY <1>2, <1>3, <1>4, <1>5 DEF IInv

LEMMA ChosenStays ==
    ASSUME IInv, sel' \subseteq sel, picked' = picked, asks' = asks,
           \A d \in confirm' : \E e \in confirm : d.of = e.of
    PROVE  ChosenOK' /\ \A s \in picked' : Seen(s)
BY DEF IInv, ChosenOK, StartsOK

LEMMA ListAnswersKeeps == ASSUME IInv, ListAnswers PROVE IInv'
<1> DEFINE c == [Done(futures["list"], "ok") EXCEPT !.sees = {Listed}]
<1>1. futures' = [futures EXCEPT !["list"] = c] /\ futures["list"].step = "running"
  BY DEF ListAnswers, Running
<1>2. Listed \in Listing
  BY Typed DEF Listed, Listing, Mute
<1>3. c \in Call /\ c.sees = {Listed} /\ c.step = "done"
  <2>1. futures["list"] \in Call
    BY Typed, Kinds
  <2> DEFINE d == Done(futures["list"], "ok")
  <2>2. d \in Call /\ d.step = "done"
    BY <2>1, DoneFacts
  <2>3. c = [d EXCEPT !.sees = {Listed}]
    OBVIOUS
  <2> HIDE DEF d, c
  <2> QED
    BY <1>2, <2>2, <2>3 DEF Call
<1> HIDE DEF c
<1>4. futures' \in [Kind -> Call] /\ futures'["kill"] = futures["kill"]
      /\ futures'["list"] = c
      /\ \A k \in Kind : futures[k].step = "queued" => futures'[k].step = "queued"
  BY <1>1, <1>3, Typed, Kinds
<1>5. TypeOK'
  BY <1>4 DEF IInv, TypeOK, ListAnswers, OutsideTheCall, world, view, boxes, ghosts
<1>6. QueueOK'
  BY <1>4, QueueStays DEF ListAnswers, OutsideTheCall
<1>7. ChosenOK' /\ \A s \in picked' : Seen(s)
  BY ChosenStays DEF ListAnswers, OutsideTheCall, view, boxes, ghosts
<1> QED
  BY <1>3, <1>4, <1>5, <1>6, <1>7, StepKeeps
  DEF ListAnswers, OutsideTheCall, SameEnd, world, view, boxes, ghosts

(* A call that is no end finishes at its worker.                           *)
LEMMA AnswerKeeps ==
    ASSUME IInv, NEW k \in Kind \ {"kill"}, NEW says \in {"ok", "failed"},
           Running(k), Answer(k, says), OutsideTheCall, UNCHANGED requests
    PROVE  IInv'
<1> DEFINE c == Done(futures[k], says)
<1>1. /\ futures' = [futures EXCEPT ![k] = c] /\ futures[k].step = "running"
  BY DEF Answer, Running
<1>2. c \in Call /\ c.sees = futures[k].sees
  BY Typed, DoneFacts
<1> HIDE DEF c
<1>3. /\ futures' \in [Kind -> Call] /\ futures'["kill"] = futures["kill"]
      /\ futures'["list"].sees = futures["list"].sees
      /\ \A j \in Kind : futures[j].step = "queued" => futures'[j].step = "queued"
  BY <1>1, <1>2, Typed, Kinds
<1>4. TypeOK'
  BY <1>3 DEF IInv, TypeOK, OutsideTheCall, world, view, boxes, ghosts
<1>5. QueueOK'
  BY <1>3, QueueStays DEF OutsideTheCall
<1>6. ChosenOK' /\ \A s \in picked' : Seen(s)
  BY ChosenStays DEF OutsideTheCall, view, boxes, ghosts
<1> QED
  BY <1>3, <1>4, <1>5, <1>6, StepKeeps
  DEF OutsideTheCall, SameEnd, world, view, boxes, ghosts

LEMMA CallFailsKeeps == ASSUME IInv, NEW k \in Kind, CallFails(k) PROVE IInv'
BY AnswerKeeps DEF CallFails

LEMMA ReadAnswersKeeps == ASSUME IInv, NEW k \in Kind, ReadAnswers(k) PROVE IInv'
BY AnswerKeeps, Kinds DEF ReadAnswers

(* A call that is no end is submitted, or taken back from its worker.      *)
LEMMA SubmitFacts ==
    ASSUME IInv, NEW k \in Kind, Idle(k), NEW c \in Call, Submit(k, c)
    PROVE  /\ futures' \in [Kind -> Call] /\ queue' \in Seq(Kind) /\ QueueOK'
           /\ futures'[k] = [c EXCEPT !.step = "queued"]
           /\ \A j \in Kind : j # k => futures'[j] = futures[j]
<1> DEFINE q == [c EXCEPT !.step = "queued"]
<1>1. /\ futures' = [futures EXCEPT ![k] = q] /\ queue' = Append(queue, k)
      /\ futures[k].step = "none"
  BY DEF Submit, Submitted, Idle
<1>2. q \in Call /\ q.step = "queued"
  BY Calls DEF Call
<1> HIDE DEF q
<1>3. /\ futures' \in [Kind -> Call] /\ futures'[k] = q
      /\ \A j \in Kind : j # k => futures'[j] = futures[j]
  BY <1>1, <1>2, Typed
<1>4. QueueOK' /\ queue' \in Seq(Kind)
  BY <1>1, <1>2, <1>3, QueueGrows
<1> QED
  BY <1>3, <1>4 DEF q

LEMMA RefreshKeeps == ASSUME IInv, Refresh PROVE IInv'
<1>1. /\ UNCHANGED <<world, requests, window, view, boxes, asks, ghosts>>
      /\ Idle("list") /\ Submit("list", NoCall)
  BY DEF Refresh
<1>2. /\ futures' \in [Kind -> Call] /\ queue' \in Seq(Kind) /\ QueueOK'
      /\ futures'["list"] = [NoCall EXCEPT !.step = "queued"]
      /\ futures'["kill"] = futures["kill"]
  BY <1>1, SubmitFacts, Calls, Kinds
<1>3. futures'["list"].sees = {}
  BY <1>2 DEF NoCall
<1>4. TypeOK'
  BY <1>1, <1>2 DEF IInv, TypeOK, world, view, boxes, ghosts
<1>5. ChosenOK' /\ \A s \in picked' : Seen(s)
  BY <1>1, ChosenStays DEF view, boxes, ghosts
<1> QED
  BY <1>1, <1>2, <1>3, <1>4, <1>5, StepKeeps DEF SameEnd, world, view, boxes, ghosts

LEMMA ReadKeeps == ASSUME IInv, NEW k \in Reader, Read(k) PROVE IInv'
<1>1. /\ UNCHANGED <<world, requests, window, view, boxes, asks, ghosts>>
      /\ Idle(k) /\ Submit(k, NoCall)
  BY DEF Read
<1>2. /\ futures' \in [Kind -> Call] /\ queue' \in Seq(Kind) /\ QueueOK'
      /\ futures'["list"] = futures["list"] /\ futures'["kill"] = futures["kill"]
  <2>1. k \in Kind /\ k # "list" /\ k # "kill"
    BY Kinds
  <2> QED
    BY <1>1, <2>1, SubmitFacts, Calls, Kinds
<1>3. TypeOK'
  BY <1>1, <1>2 DEF IInv, TypeOK, world, view, boxes, ghosts
<1>4. ChosenOK' /\ \A s \in picked' : Seen(s)
  BY <1>1, ChosenStays DEF view, boxes, ghosts
<1> QED
  BY <1>1, <1>2, <1>3, <1>4, StepKeeps DEF SameEnd, world, view, boxes, ghosts

(* The result of a call that is no end is applied.                         *)
LEMMA ForgetFacts ==
    ASSUME IInv, NEW k \in Kind, futures[k].step = "done", Forget(k)
    PROVE  /\ futures' \in [Kind -> Call] /\ queue' = queue /\ QueueOK'
           /\ futures'[k] = NoCall
           /\ \A j \in Kind : j # k => futures'[j] = futures[j]
<1>1. futures' = [futures EXCEPT ![k] = NoCall] /\ queue' = queue
  BY DEF Forget, Freed
<1>2. /\ futures' \in [Kind -> Call] /\ futures'[k] = NoCall
      /\ \A j \in Kind : j # k => futures'[j] = futures[j]
  BY <1>1, Typed, Calls
<1>3. QueueOK'
  BY <1>1, <1>2, QueueStays
<1> QED
  BY <1>1, <1>2, <1>3

LEMMA FinishListKeeps == ASSUME IInv, FinishList PROVE IInv'
<1>1. /\ UNCHANGED <<world, requests, window, page, boxes, asks, ghosts>>
      /\ futures["list"].step = "done" /\ Forget("list")
      /\ rows' \subseteq rows \cup futures["list"].sees
      /\ sel' \subseteq sel
  BY DEF FinishList, Finishes, Reselected
<1>2. /\ futures' \in [Kind -> Call] /\ queue' = queue /\ QueueOK'
      /\ futures'["list"] = NoCall /\ futures'["kill"] = futures["kill"]
  BY <1>1, ForgetFacts, Kinds
<1>3. rows' \subseteq Listing
  BY <1>1, Typed, Kinds DEF Call
<1>4. TypeOK'
  BY <1>1, <1>2, <1>3 DEF IInv, TypeOK, world, boxes, ghosts
<1>5. ChosenOK' /\ \A s \in picked' : Seen(s)
  BY <1>1, ChosenStays DEF boxes, ghosts
<1> QED
  BY <1>1, <1>2, <1>4, <1>5, Calls, StepKeeps DEF SameEnd, world, boxes, ghosts

LEMMA FinishReadKeeps == ASSUME IInv, NEW k \in Kind, FinishRead(k) PROVE IInv'
<1>1. /\ UNCHANGED <<world, requests, window, view, confirm, receipt, asks, ghosts>>
      /\ k \in Reader /\ futures[k].step = "done" /\ Forget(k)
      /\ notice' \in {notice, TRUE}
  BY DEF FinishRead, Finishes
<1>2. /\ futures' \in [Kind -> Call] /\ queue' = queue /\ QueueOK'
      /\ futures'["list"] = futures["list"] /\ futures'["kill"] = futures["kill"]
  BY <1>1, ForgetFacts, Kinds
<1>3. TypeOK'
  BY <1>1, <1>2 DEF IInv, TypeOK, world, view, ghosts
<1>4. ChosenOK' /\ \A s \in picked' : Seen(s)
  BY <1>1, ChosenStays DEF view, ghosts
<1> QED
  BY <1>1, <1>2, <1>3, <1>4, StepKeeps DEF SameEnd, world, view, ghosts

(* The user and the dialogs, while no request is made.                     *)
LEMMA PoolAside ==
    ASSUME IInv, UNCHANGED pool
    PROVE  /\ futures' \in [Kind -> Call] /\ queue' \in Seq(Kind) /\ QueueOK'
           /\ futures' = futures
BY Typed, QueueStays DEF pool

LEMMA SwitchKeeps == ASSUME IInv, NEW p \in {0, 1}, Switch(p) PROVE IInv'
<1>1. UNCHANGED <<world, requests, window, rows, sel, pool, boxes, asks, ghosts>> /\ page' = p
  BY DEF Switch
<1>2. TypeOK'
  BY <1>1, PoolAside DEF IInv, TypeOK, world, boxes, ghosts
<1>3. ChosenOK' /\ \A s \in picked' : Seen(s)
  BY <1>1, ChosenStays DEF boxes, ghosts
<1> QED
  BY <1>1, <1>2, <1>3, PoolAside, StepKeeps DEF SameEnd, world, boxes, ghosts

LEMMA SelectKeeps == ASSUME IInv, NEW i \in Sid, Select(i) PROVE IInv'
<1>1. PICK listing \in rows : listing[i] # 0 /\ sel' = {<<i, listing[i]>>} /\ picked' = sel'
  BY DEF Select
<1>2. /\ UNCHANGED <<world, requests, window, page, rows, pool, boxes, asks, asked, acted, told>>
      /\ confirm = {}
  BY DEF Select, Free
<1>3. listing[i] \in 1..Mute
  BY <1>1, Typed DEF Listing, Mute
<1>4. sel' \subseteq Sid \X (1..Mute)
  BY <1>1, <1>3
<1>5. TypeOK'
  BY <1>1, <1>2, <1>4, PoolAside DEF IInv, TypeOK, world, boxes
<1>6. ChosenOK'
  BY <1>1, <1>2 DEF ChosenOK, boxes
<1>7. \A s \in picked' : Seen(s)
  BY <1>1 DEF IInv, StartsOK, Shown
<1> QED
  BY <1>1, <1>2, <1>5, <1>6, <1>7, PoolAside, StepKeeps DEF SameEnd, world, boxes

LEMMA EndKeeps == ASSUME IInv, NEW s \in sel, End(s) PROVE IInv'
<1>1. PICK body \in {"pending", "laid", "failed"} : confirm' = {[of |-> s, body |-> body]}
  BY DEF End
<1>2. /\ UNCHANGED <<world, requests, window, view, pool, receipt, notice, asks, ghosts>>
      /\ s[2] # Mute /\ s[1] \notin Own /\ asks < MaxAsks
  BY DEF End, CanEnd
<1>3. s \in Session
  <2>1. s \in Sid \X (1..Mute)
    BY DEF IInv, TypeOK
  <2> QED
    BY <1>2, <2>1, Typed DEF Session, Start, Mute
<1>4. confirm' \subseteq Dialog
  BY <1>1, <1>3 DEF Dialog
<1>5. TypeOK'
  BY <1>2, <1>4, PoolAside DEF IInv, TypeOK, world, view, ghosts
<1>6. ChosenOK'
  BY <1>1, <1>2 DEF IInv, ChosenOK, view, ghosts
<1>7. \A t \in picked' : Seen(t)
  BY <1>2 DEF IInv, StartsOK, ghosts
<1> QED
  BY <1>2, <1>5, <1>6, <1>7, PoolAside, StepKeeps DEF SameEnd, world, view, ghosts

LEMMA BodyLaidKeeps ==
    ASSUME IInv, NEW d \in confirm, NEW body \in {"laid", "failed"}, BodyLaid(d, body)
    PROVE  IInv'
<1>1. /\ UNCHANGED <<world, requests, window, view, pool, receipt, notice, asks, ghosts>>
      /\ confirm' = {[d EXCEPT !.body = body]}
  BY DEF BodyLaid
<1>2. d \in Dialog
  BY Typed
<1>3. confirm' \subseteq Dialog /\ \A e \in confirm' : e.of = d.of
  BY <1>1, <1>2 DEF Dialog
<1>4. TypeOK'
  BY <1>1, <1>3, PoolAside DEF IInv, TypeOK, world, view, ghosts
<1>5. ChosenOK' /\ \A s \in picked' : Seen(s)
  BY <1>1, <1>3, ChosenStays DEF view, ghosts
<1> QED
  BY <1>1, <1>4, <1>5, PoolAside, StepKeeps DEF SameEnd, world, view, ghosts

LEMMA CancelKeeps == ASSUME IInv, Cancel PROVE IInv'
<1>1. /\ UNCHANGED <<world, requests, window, view, pool, receipt, notice, asks, ghosts>>
      /\ confirm' = {}
  BY DEF Cancel
<1>2. TypeOK'
  BY <1>1, PoolAside DEF IInv, TypeOK, world, view, ghosts
<1>3. ChosenOK' /\ \A s \in picked' : Seen(s)
  BY <1>1, ChosenStays DEF view, ghosts
<1> QED
  BY <1>1, <1>2, <1>3, PoolAside, StepKeeps DEF SameEnd, world, view, ghosts

LEMMA DismissKeeps == ASSUME IInv, Dismiss PROVE IInv'
<1>1. /\ UNCHANGED <<world, requests, window, view, pool, confirm, asks, ghosts>>
      /\ receipt' \subseteq receipt /\ notice' \in {notice, FALSE}
  BY DEF Dismiss
<1>2. TypeOK'
  BY <1>1, PoolAside DEF IInv, TypeOK, world, view, ghosts
<1>3. ChosenOK' /\ \A s \in picked' : Seen(s)
  BY <1>1, ChosenStays DEF view, ghosts
<1> QED
  BY <1>1, <1>2, <1>3, PoolAside, StepKeeps DEF SameEnd, world, view, ghosts

(* The window ends.                                                        *)
LEMMA WidgetsGone ==
    ASSUME IInv, NoWidgets, QueueOK', futures' \in [Kind -> Call], queue' \in Seq(Kind),
           UNCHANGED <<world, requests, asks, asked, acted, told>>,
           window' \in {"closed", "gone"},
           futures'["kill"] = futures["kill"],
           futures'["list"].sees \subseteq futures["list"].sees
    PROVE  IInv'
<1>1. TypeOK'
  BY DEF IInv, TypeOK, NoWidgets, world
<1>2. ChosenOK' /\ \A s \in picked' : Seen(s)
  BY DEF NoWidgets, ChosenOK
<1> QED
  BY <1>1, <1>2, StepKeeps DEF SameEnd, world, NoWidgets

LEMMA QuitKeeps == ASSUME IInv, Quit PROVE IInv'
BY PoolAside, WidgetsGone DEF Quit

LEMMA RequestCloseKeeps == ASSUME IInv, RequestClose PROVE IInv'
<1>1. CASE Idle("kill")
  <2>1. /\ window' = "closed" /\ NoWidgets
        /\ futures' = [k \in Kind |-> Abandoned(k)] /\ queue' = <<>>
        /\ UNCHANGED <<world, requests, asks, asked, acted, told>>
    BY <1>1 DEF RequestClose
  <2>2. \A k \in Kind : Abandoned(k) \in {NoCall, futures[k]}
    BY DEF Abandoned
  <2>3. Abandoned("kill") = futures["kill"]
    BY <1>1 DEF Abandoned, Idle
  <2>4. /\ futures' \in [Kind -> Call] /\ futures'["kill"] = futures["kill"]
        /\ futures'["list"].sees \subseteq futures["list"].sees
    BY <2>1, <2>2, <2>3, Typed, Kinds, Calls
  <2>5. queue' \in Seq(Kind) /\ QueueOK'
    BY <2>1 DEF QueueOK
  <2> QED
    BY <2>1, <2>4, <2>5, WidgetsGone
<1>2. CASE ~Idle("kill")
  <2>1. /\ UNCHANGED <<window, pool, view, confirm, receipt, picked>> /\ notice' = TRUE
        /\ UNCHANGED <<world, requests, asks, asked, acted, told>>
    BY <1>2 DEF RequestClose
  <2>2. TypeOK'
    BY <2>1, PoolAside DEF IInv, TypeOK, world, view
  <2>3. ChosenOK' /\ \A s \in picked' : Seen(s)
    BY <2>1, ChosenStays DEF view
  <2> QED
    BY <2>1, <2>2, <2>3, PoolAside, StepKeeps DEF SameEnd, world, view
<1> QED
  BY <1>1, <1>2

(***************************************************************************)
(* The broker.                                                             *)
(***************************************************************************)
SameWindow == UNCHANGED <<window, view, pool, boxes, asks, picked, asked, told>>

LEMMA WindowAside ==
    ASSUME IInv, SameWindow
    PROVE  /\ futures' = futures /\ QueueOK' /\ ChosenOK'
           /\ /\ live' \in [Sid -> 0..MaxStarts] /\ starts' \in [Sid -> 0..MaxStarts]
              /\ mute' \subseteq Sid /\ requests' \subseteq Ask \X Session
              /\ acted' \in [Ask -> SUBSET Session]
              => TypeOK'
<1>1. QueueOK' /\ futures' = futures
  BY PoolAside DEF SameWindow, pool
<1>2. ChosenOK'
  BY DEF IInv, ChosenOK, SameWindow, view, boxes
<1> QED
  BY <1>1, <1>2 DEF IInv, TypeOK, SameWindow, view, pool, boxes

LEMMA KillStays ==
    ASSUME IInv, SameWindow, requests' \subseteq requests
    PROVE  KillOK'
<1>1. Kill' = Kill
  BY WindowAside DEF Kill
<1>2. asks' = asks /\ asked' = asked
  BY DEF SameWindow
<1>3. \A n, s : Confirmed(n, s)' = Confirmed(n, s)
  BY <1>2 DEF Confirmed
<1>4. Kill.step # "none" =>
        Kill.ask \in Ask /\ \E s \in Session : Kill.of = {s} /\ Confirmed(Kill.ask, s)
  BY DEF IInv, KillOK
<1> QED
  BY <1>1, <1>2, <1>3, <1>4 DEF IInv, KillOK, Confirmed

LEMMA OutcomeStays ==
    ASSUME IInv, SameWindow, \A n \in Ask : Inert(n) => Inert(n)',
           \A s \in Session :
              s[2] <= starts[s[1]] /\ live[s[1]] # s[2] => live'[s[1]] # s[2]
    PROVE  OutcomeOK'
<1>1. Kill' = Kill /\ Waiting' = Waiting
  BY WindowAside DEF Kill, Waiting
<1>2. UNCHANGED <<told, asks, receipt>>
  BY DEF SameWindow, boxes
<1>3. ASSUME NEW n \in Ask, NEW s \in Session, s[2] <= starts[s[1]], NEW says,
             Claim(n, s, says)
      PROVE  Claim(n, s, says)'
  BY <1>3 DEF Claim
<1>4. ASSUME Kill.step = "done", NEW s \in Kill.of PROVE Claim(Kill.ask, s, Kill.says)'
  <2>1. /\ Kill.ask \in Ask /\ s \in Session /\ s[2] <= starts[s[1]]
        /\ Claim(Kill.ask, s, Kill.says)
    BY <1>4, Typed, Kinds DEF IInv, StartsOK, KillOK, OutcomeOK, Kill, Call
  <2>2. PICK m, what : m = Kill.ask /\ what = Kill.says
    OBVIOUS
  <2>3. Claim(m, s, what)'
    BY <1>3, <2>1, <2>2
  <2> QED
    BY <1>1, <2>2, <2>3 DEF Claim
<1>5. ASSUME NEW b \in receipt PROVE Claim(b.ask, b.of, b.says)'
  <2>1. /\ b.ask \in Ask /\ b.of \in Session /\ b.of[2] <= starts[b.of[1]]
        /\ Claim(b.ask, b.of, b.says)
    BY Typed DEF IInv, StartsOK, OutcomeOK, Outcome
  <2> QED
    BY <1>3, <2>1
<1>6. Waiting => Inert(Kill.ask)'
  <2>1. Waiting => Kill.ask \in Ask /\ Inert(Kill.ask)
    BY DEF IInv, KillOK, OutcomeOK, Waiting
  <2>2. PICK m : m = Kill.ask
    OBVIOUS
  <2>3. Waiting => Inert(m)'
    BY <2>1, <2>2
  <2> QED
    BY <1>1, <2>2, <2>3 DEF Inert
<1>7. \A n \in Ask : n > asks => Inert(n)'
  BY DEF IInv, OutcomeOK
<1> QED
  BY <1>1, <1>2, <1>4, <1>5, <1>6, <1>7 DEF IInv, OutcomeOK

(* A session that starts has a start that nobody knows yet.                *)
LEMMA SessionStartsKeeps == ASSUME IInv, NEW i \in Sid, SessionStarts(i) PROVE IInv'
<1>1. /\ starts[i] < MaxStarts
      /\ starts' = [starts EXCEPT ![i] = starts[i] + 1]
      /\ live' = [live EXCEPT ![i] = starts[i] + 1]
      /\ UNCHANGED <<mute, requests, window, view, pool, boxes, asks, ghosts>>
  BY DEF SessionStarts
<1>2. SameWindow /\ acted' = acted /\ requests' = requests
  BY <1>1 DEF SameWindow, ghosts
<1>3. /\ \A j \in Sid : starts[j] \in Nat /\ starts'[j] \in Nat /\ starts[j] <= starts'[j]
      /\ \A j \in Sid : live'[j] = live[j] \/ live'[j] > starts[j]
      /\ \A j \in Sid : live'[j] <= starts'[j]
  BY <1>1, Typed DEF IInv, StartsOK
<1>4. TypeOK'
  <2>1. live' \in [Sid -> 0..MaxStarts] /\ starts' \in [Sid -> 0..MaxStarts]
    BY <1>1, Typed
  <2> QED
    BY <1>1, <1>2, <2>1, WindowAside, Typed DEF IInv, TypeOK
<1>5. ASSUME NEW s \in Session, s[2] <= starts[s[1]]
      PROVE  s[2] <= starts'[s[1]] /\ (live[s[1]] # s[2] => live'[s[1]] # s[2])
  <2>1. s[1] \in Sid /\ s[2] \in Nat
    BY DEF Session, Start
  <2> QED
    BY <1>3, <1>5, <2>1
<1>6. ASSUME NEW s \in Sid \X (0..Mute), Seen(s) PROVE Seen(s)'
  <2>1. s[1] \in Sid /\ s[2] \in Int
    BY DEF Mute
  <2> QED
    BY <1>3, <1>6, <2>1 DEF Seen, Mute
<1>7. ASSUME NEW listing \in Listing, Shown(listing) PROVE Shown(listing)'
  <2>1. \A j \in Sid : <<j, listing[j]>> \in Sid \X (0..Mute)
    BY DEF Listing
  <2> QED
    BY <1>6, <1>7, <2>1 DEF Shown
<1>8. StartsOK'
  <2>1. \A listing \in rows \cup futures["list"].sees : Shown(listing)'
    BY <1>7, Typed, Kinds DEF IInv, StartsOK, Call
  <2>2. \A s \in picked : Seen(s)'
    BY <1>6 DEF IInv, TypeOK, StartsOK
  <2>3. \A b \in receipt : b.of[2] <= starts'[b.of[1]]
    BY <1>5, Typed DEF IInv, StartsOK, Outcome
  <2>4. \A s \in Kill.of : s[2] <= starts'[s[1]]
    BY <1>5, Typed, Kinds DEF IInv, StartsOK, Kill, Call
  <2> QED
    BY <1>2, <1>3, <2>1, <2>2, <2>3, <2>4, WindowAside
    DEF StartsOK, SameWindow, Kill, view, boxes
<1>9. KillOK' /\ EndsConfirmed'
  <2>1. asked' = asked
    BY <1>2 DEF SameWindow
  <2> QED
    BY <1>2, <2>1, KillStays DEF IInv, EndsConfirmed
<1>10. OutcomeOK'
  <2>1. \A n \in Ask : Inert(n) => Inert(n)'
    BY <1>2 DEF Inert
  <2> QED
    BY <1>2, <1>5, <2>1, OutcomeStays
<1> QED
  BY <1>2, <1>4, <1>8, <1>9, <1>10, WindowAside DEF IInv

(* A session that ends stays ended.                                        *)
EndStep ==
    /\ SameWindow /\ starts' = starts
    /\ \A i \in Sid : live'[i] = live[i] \/ live'[i] = 0

LEMMA EndStepKeeps ==
    ASSUME IInv, EndStep, TypeOK', KillOK', EndsConfirmed',
           \A n \in Ask : Inert(n) => Inert(n)'
    PROVE  IInv'
<1>1. futures' = futures /\ QueueOK' /\ ChosenOK'
  BY WindowAside DEF EndStep
<1>2. StartsOK'
  <2>1. \A i \in Sid : starts[i] \in Nat /\ live[i] <= starts[i]
    BY Typed DEF IInv, StartsOK
  <2>2. \A i \in Sid : live'[i] <= starts[i]
    BY <2>1 DEF EndStep
  <2> QED
    BY <1>1, <2>2 DEF IInv, StartsOK, EndStep, SameWindow, Shown, Seen, Kill, view, boxes
<1>3. \A s \in Session : live[s[1]] # s[2] => live'[s[1]] # s[2]
  <2>1. \A s \in Session : s[1] \in Sid /\ s[2] # 0
    BY Typed DEF Session, Start
  <2> QED
    BY <2>1 DEF EndStep
<1>4. OutcomeOK'
  BY <1>3, OutcomeStays DEF EndStep
<1> QED
  BY <1>1, <1>2, <1>4 DEF IInv

LEMMA SessionExitsKeeps == ASSUME IInv, NEW i \in Sid, SessionExits(i) PROVE IInv'
<1>1. /\ live' = [live EXCEPT ![i] = 0] /\ mute' = mute \ {i}
      /\ UNCHANGED <<starts, requests, window, view, pool, boxes, asks, ghosts>>
  BY DEF SessionExits
<1>2. EndStep /\ acted' = acted
  BY <1>1, Typed DEF EndStep, SameWindow, ghosts
<1>3. TypeOK'
  <2>1. /\ live' \in [Sid -> 0..MaxStarts] /\ starts' \in [Sid -> 0..MaxStarts]
        /\ requests' \subseteq Ask \X Session /\ acted' \in [Ask -> SUBSET Session]
    BY <1>1, <1>2, Typed
  <2>2. mute' \subseteq Sid
    BY <1>1 DEF IInv, TypeOK
  <2> QED
    BY <1>2, <2>1, <2>2, WindowAside DEF EndStep
<1>4. KillOK' /\ EndsConfirmed'
  <2>1. asked' = asked /\ requests' = requests
    BY <1>1, <1>2 DEF EndStep, SameWindow
  <2> QED
    BY <1>2, <2>1, KillStays DEF IInv, EndsConfirmed, EndStep
<1>5. \A n \in Ask : Inert(n)' = Inert(n)
  BY <1>1, <1>2 DEF Inert
<1> QED
  BY <1>2, <1>3, <1>4, <1>5, EndStepKeeps

LEMMA SessionStallsKeeps == ASSUME IInv, NEW i \in Sid, SessionStalls(i) PROVE IInv'
<1>1. /\ mute' = (mute \ {i}) \cup ({i} \ mute)
      /\ UNCHANGED <<live, starts, requests, window, view, pool, boxes, asks, ghosts>>
  BY DEF SessionStalls
<1>2. EndStep /\ acted' = acted
  BY <1>1, Typed DEF EndStep, SameWindow, ghosts
<1>3. TypeOK'
  <2>1. /\ live' \in [Sid -> 0..MaxStarts] /\ starts' \in [Sid -> 0..MaxStarts]
        /\ requests' \subseteq Ask \X Session /\ acted' \in [Ask -> SUBSET Session]
    BY <1>1, <1>2, Typed
  <2>2. mute' \subseteq Sid
    BY <1>1 DEF IInv, TypeOK
  <2> QED
    BY <1>2, <2>1, <2>2, WindowAside DEF EndStep
<1>4. KillOK' /\ EndsConfirmed'
  <2>1. asked' = asked /\ requests' = requests
    BY <1>1, <1>2 DEF EndStep, SameWindow
  <2> QED
    BY <1>2, <2>1, KillStays DEF IInv, EndsConfirmed, EndStep
<1>5. \A n \in Ask : Inert(n)' = Inert(n)
  BY <1>1, <1>2 DEF Inert
<1> QED
  BY <1>2, <1>3, <1>4, <1>5, EndStepKeeps

LEMMA RequestArrivesKeeps == ASSUME IInv, NEW r \in requests, RequestArrives(r) PROVE IInv'
<1> DEFINE i == r[2][1]
<1>1. r[1] \in Ask /\ r[2] \in Session /\ i \in Sid /\ Confirmed(r[1], r[2])
  BY Typed DEF IInv, KillOK, Session
<1>2. /\ requests' = requests \ {r}
      /\ \/ live' = [live EXCEPT ![i] = 0] /\ acted' = [acted EXCEPT ![r[1]] = @ \cup {r[2]}]
         \/ live' = live /\ acted' = acted
      /\ starts' = starts /\ mute' = mute /\ SameWindow
  BY DEF RequestArrives, SameWindow
<1>3. \A n \in Ask : acted'[n] \subseteq acted[n] \cup (IF n = r[1] THEN {r[2]} ELSE {})
  BY <1>2, Typed
<1>4. EndStep
  BY <1>1, <1>2, Typed DEF EndStep
<1>5. TypeOK'
  <2> HIDE DEF i
  <2>1. live' \in [Sid -> 0..MaxStarts]
    <3>1. live' \in {live, [live EXCEPT ![i] = 0]}
      BY <1>2
    <3> QED
      BY <1>1, <3>1, Typed
  <2>2. acted' \in [Ask -> SUBSET Session]
    BY <1>1, <1>2, Typed
  <2>3. starts' \in [Sid -> 0..MaxStarts] /\ mute' \subseteq Sid
        /\ requests' \subseteq Ask \X Session
    BY <1>2, Typed DEF IInv, TypeOK
  <2> QED
    BY <1>2, <2>1, <2>2, <2>3, WindowAside
<1>6. KillOK'
  BY <1>2, KillStays
<1>7. EndsConfirmed'
  BY <1>1, <1>2, <1>3 DEF IInv, EndsConfirmed, SameWindow, Confirmed
<1>8. \A n \in Ask : Inert(n) => Inert(n)'
  BY <1>2, <1>3 DEF Inert
<1> QED
  BY <1>4, <1>5, <1>6, <1>7, <1>8, EndStepKeeps

(***************************************************************************)
(* The call that ends a session, from the queue to its result.             *)
(***************************************************************************)
LEMMA KillFacts ==
    ASSUME IInv, Kill.step # "none"
    PROVE  \E s \in Session :
              /\ Kill.of = {s} /\ Target = s /\ Confirmed(Kill.ask, s)
              /\ Kill.ask \in Ask /\ Kill.ask <= asks
<1>1. PICK s \in Session : Kill.of = {s} /\ Confirmed(Kill.ask, s)
  BY DEF IInv, KillOK
<1>2. Target = s
  BY <1>1 DEF Target, Kill
<1> QED
  BY <1>1, <1>2 DEF IInv, KillOK, Confirmed

KillStep(c) ==
    /\ Kill.step \in {"queued", "running", "sent"}
    /\ futures' = [futures EXCEPT !["kill"] = c]
    /\ c.of = Kill.of /\ c.ask = Kill.ask /\ c.sees = Kill.sees
    /\ c.step \in {"running", "sent", "done"}
    /\ UNCHANGED <<world, window, view, boxes, asks, ghosts>>
    /\ queue' \in Seq(Kind) /\ QueueOK'
    /\ c.step = "running" => Waiting
    /\ c.step # "sent" => requests' = requests
    /\ c.step = "sent" => Waiting /\ requests' = requests \cup {<<Kill.ask, Target>>}
    /\ c.step = "done" =>
          /\ c.says \in {"ended", "nothing", "unknown"}
          /\ \A s \in Kill.of : Claim(Kill.ask, s, c.says)

LEMMA KillStepKeeps == ASSUME IInv, NEW c \in Call, KillStep(c) PROVE IInv'
<1>1. PICK s \in Session :
         /\ Kill.of = {s} /\ Target = s /\ Confirmed(Kill.ask, s)
         /\ Kill.ask \in Ask /\ Kill.ask <= asks
  BY KillFacts DEF KillStep
<1>2. /\ futures' \in [Kind -> Call] /\ Kill' = c /\ futures'["list"] = futures["list"]
  BY Typed, Kinds DEF KillStep, Kill
<1>3. UNCHANGED <<live, starts, mute, window, page, rows, sel, confirm, receipt, notice,
                  asks, picked, asked, acted, told>>
  BY DEF KillStep, world, view, boxes, ghosts
<1>4. requests' \subseteq requests \cup {<<Kill.ask, s>>}
  BY <1>1 DEF KillStep
<1>5. requests' \subseteq Ask \X Session
  BY <1>1, <1>4, Typed
<1>6. TypeOK'
  BY <1>2, <1>3, <1>5 DEF IInv, TypeOK, KillStep
<1>7. StartsOK'
  BY <1>2, <1>3 DEF IInv, StartsOK, KillStep, Shown, Seen
<1>8. ChosenOK' /\ EndsConfirmed'
  BY <1>3 DEF IInv, ChosenOK, EndsConfirmed
<1>9. KillOK'
  <2>1. \A n, t : Confirmed(n, t)' = Confirmed(n, t)
    BY <1>3 DEF Confirmed
  <2>2. \A r \in requests' : Confirmed(r[1], r[2])
    BY <1>1, <1>4 DEF IInv, KillOK
  <2>3. Kill'.of = {s} /\ Kill'.ask = Kill.ask
    BY <1>1, <1>2 DEF KillStep
  <2>4. Kill'.step = "done" => Kill'.says \in {"ended", "nothing", "unknown"}
    BY <1>2 DEF KillStep
  <2>5. \A n \in Ask : n > asks' => asked'[n] = {}
    BY <1>3 DEF IInv, KillOK
  <2>6. Confirmed(Kill.ask, s) /\ Kill.ask \in Ask
    BY <1>1
  <2> QED
    BY <1>3, <2>2, <2>3, <2>4, <2>5, <2>6 DEF KillOK, Confirmed
<1>10. OutcomeOK'
  <2>1. ASSUME NEW n \in Ask, Inert(n), c.step = "sent" => n # Kill.ask
        PROVE  Inert(n)'
    <3>1. requests' \subseteq requests \/ n # Kill.ask
      BY <2>1 DEF KillStep
    <3> QED
      BY <1>3, <1>4, <2>1, <3>1 DEF Inert
  <2>2. ASSUME NEW n \in Ask, n > asks PROVE Inert(n)'
    <3>1. n # Kill.ask
      BY <1>1, <2>2, Typed
    <3> QED
      BY <2>1, <2>2, <3>1 DEF IInv, OutcomeOK
  <2>3. ASSUME NEW b \in receipt PROVE b.ask \in told /\ Claim(b.ask, b.of, b.says)'
    <3>1. b.ask \in told /\ Claim(b.ask, b.of, b.says) /\ b.ask \in Ask
      BY Typed DEF IInv, OutcomeOK, Outcome
    <3>2. c.step = "sent" => b.ask # Kill.ask
      BY <3>1 DEF IInv, OutcomeOK, KillStep
    <3> QED
      BY <1>3, <2>1, <3>1, <3>2 DEF Claim
  <2>4. Waiting' => c.ask \notin told /\ Inert(c.ask)'
    <3>1. ASSUME Waiting' PROVE c.step = "running"
      BY <1>2, <3>1 DEF Waiting, KillStep
    <3>2. c.step = "running" => Kill.ask \notin told /\ Inert(Kill.ask)
      BY DEF IInv, OutcomeOK, KillStep
    <3>3. c.ask = Kill.ask /\ c.ask \in Ask
      BY <1>1 DEF KillStep
    <3>4. c.step = "running" => Inert(c.ask)'
      BY <2>1, <3>2, <3>3
    <3> QED
      BY <3>1, <3>2, <3>3, <3>4
  <2>5. c.step = "done" => Claim(c.ask, s, c.says)'
    <3>1. c.step = "done" => Claim(c.ask, s, c.says) /\ requests' = requests
      BY <1>1 DEF KillStep
    <3> QED
      BY <1>3, <3>1 DEF Claim, Inert
  <2>6. c.of = {s}
    BY <1>1 DEF KillStep
  <2>7. /\ \A n \in told' : n <= asks'
        /\ \A n \in Ask : n > asks' => Inert(n)'
        /\ \A b \in receipt' : b.ask \in told' /\ Claim(b.ask, b.of, b.says)'
    BY <1>3, <2>2, <2>3 DEF IInv, OutcomeOK
  <2>8. Waiting' => Kill'.ask \notin told' /\ Inert(Kill.ask)'
    BY <1>2, <1>3, <2>4 DEF Inert
  <2>9. Kill'.step = "done" => \A t \in Kill'.of : Claim(Kill.ask, t, Kill.says)'
    BY <1>2, <2>5, <2>6 DEF Claim, Inert
  <2> QED
    BY <2>7, <2>8, <2>9 DEF OutcomeOK
<1> QED
  BY <1>6, <1>7, <1>8, <1>9, <1>10 DEF IInv, KillStep

(* The call is answered.                                                   *)
LEMMA KillAnswered ==
    ASSUME IInv, NEW says \in {"ended", "nothing", "unknown"},
           Kill.step \in {"running", "sent"}, Answer("kill", says),
           OutsideTheCall, UNCHANGED requests, Claim(Kill.ask, Target, says)
    PROVE  IInv'
<1> DEFINE c == Done(futures["kill"], says)
<1>1. /\ c \in Call /\ c.step = "done" /\ c.says = says /\ c.sees = Kill.sees
      /\ c.of = Kill.of /\ c.ask = Kill.ask
  BY Typed, Kinds, DoneFacts DEF Kill
<1>2. futures' = [futures EXCEPT !["kill"] = c] /\ futures["kill"].step # "queued"
  BY DEF Answer, Kill
<1> HIDE DEF c
<1>3. queue' = queue /\ UNCHANGED <<world, window, view, boxes, asks, ghosts>>
  BY DEF OutsideTheCall
<1>4. QueueOK' /\ queue' \in Seq(Kind)
  <2>1. \A k \in Kind : futures[k].step = "queued" => futures'[k].step = "queued"
    BY <1>2, Typed
  <2> QED
    BY <1>3, <2>1, QueueStays, Typed
<1>5. \A s \in Kill.of : s = Target
  BY KillFacts
<1>6. KillStep(c)
  BY <1>1, <1>2, <1>3, <1>4, <1>5 DEF KillStep
<1> QED
  BY <1>1, <1>6, KillStepKeeps

LEMMA KillCallKeeps == ASSUME IInv, KillRefused \/ KillVerified \/ KillUnanswered PROVE IInv'
<1>1. CASE KillRefused
  <2>1. Kill.step = "running"
    BY <1>1 DEF KillRefused, Running, Kill
  <2>2. Claim(Kill.ask, Target, "nothing")
    BY <2>1 DEF IInv, OutcomeOK, Waiting, Claim
  <2> QED
    BY <1>1, <2>1, <2>2, KillAnswered DEF KillRefused
<1>2. CASE KillVerified
  <2>1. Kill.step = "sent"
    BY <1>2 DEF KillVerified, Kill
  <2> DEFINE says == IF live[Target[1]] # Target[2] THEN "ended" ELSE "unknown"
  <2>2. says \in {"ended", "nothing", "unknown"} /\ Claim(Kill.ask, Target, says)
    BY DEF Claim
  <2>3. Answer("kill", says) /\ OutsideTheCall /\ UNCHANGED requests
    BY <1>2 DEF KillVerified
  <2> HIDE DEF says
  <2> QED
    BY <2>1, <2>2, <2>3, KillAnswered
<1>3. CASE KillUnanswered
  <2>1. Claim(Kill.ask, Target, "unknown")
    BY DEF Claim
  <2> QED
    BY <1>3, <2>1, KillAnswered DEF KillUnanswered, Kill
<1> QED
  BY <1>1, <1>2, <1>3

LEMMA KillSendsKeeps == ASSUME IInv, KillSends PROVE IInv'
<1> DEFINE c == [futures["kill"] EXCEPT !.step = "sent"]
<1>1. /\ futures["kill"].step = "running" /\ futures["kill"] \in Call
      /\ futures' = [futures EXCEPT !["kill"] = c]
      /\ requests' = requests \cup {<<Kill.ask, Target>>} /\ OutsideTheCall
  BY Typed, Kinds DEF KillSends, Running, Kill
<1>2. /\ c \in Call /\ c.step = "sent" /\ c.sees = Kill.sees
      /\ c.of = Kill.of /\ c.ask = Kill.ask
  BY <1>1 DEF Call, Kill
<1> HIDE DEF c
<1>3. queue' = queue /\ UNCHANGED <<world, window, view, boxes, asks, ghosts>>
  BY <1>1 DEF OutsideTheCall
<1>4. QueueOK' /\ queue' \in Seq(Kind)
  <2>1. \A k \in Kind : futures[k].step = "queued" => futures'[k].step = "queued"
    BY <1>1, Typed
  <2> QED
    BY <1>3, <2>1, QueueStays, Typed
<1>5. KillStep(c)
  BY <1>1, <1>2, <1>3, <1>4 DEF KillStep, Waiting, Kill
<1> QED
  BY <1>2, <1>5, KillStepKeeps

(* A worker takes the call at the head of the queue.                       *)
LEMMA QueueShrinks ==
    ASSUME IInv, queue # <<>>, queue' = Tail(queue),
           \A j \in Kind : j # Head(queue) /\ futures[j].step = "queued"
                           => futures'[j].step = "queued"
    PROVE  /\ Head(queue) \in Kind /\ futures[Head(queue)].step = "queued"
           /\ queue' \in Seq(Kind) /\ QueueOK'
<1>1. queue \in Seq(Kind) /\ Len(queue) \in Nat \ {0} /\ Head(queue) = queue[1]
  BY Typed
<1>2. /\ queue' \in Seq(Kind) /\ Len(queue') = Len(queue) - 1
      /\ \A n \in 1..Len(queue') : queue'[n] = queue[n + 1] /\ n + 1 \in 1..Len(queue)
  BY <1>1
<1>3. \A n \in 1..Len(queue) : queue[n] \in Kind
  BY <1>1
<1>4. /\ 1 \in 1..Len(queue)
      /\ \A n \in 1..Len(queue) : futures[queue[n]].step = "queued"
      /\ \A m, n \in 1..Len(queue) : queue[m] = queue[n] => m = n
  BY <1>1 DEF IInv, QueueOK
<1>5. ASSUME NEW n \in 1..Len(queue')
      PROVE  futures'[queue'[n]].step = "queued"
  <2>1. n + 1 \in 1..Len(queue) /\ n + 1 # 1 /\ queue'[n] = queue[n + 1]
    BY <1>2
  <2>2. queue[n + 1] # queue[1]
    BY <1>4, <2>1
  <2> QED
    BY <1>1, <1>3, <1>4, <2>1, <2>2
<1>6. ASSUME NEW n \in 1..Len(queue'), NEW m \in 1..Len(queue'), queue'[m] = queue'[n]
      PROVE  m = n
  <2>1. m + 1 = n + 1
    BY <1>2, <1>4, <1>6
  <2> QED
    BY <2>1
<1> QED
  BY <1>1, <1>2, <1>3, <1>4, <1>5, <1>6 DEF QueueOK

LEMMA WorkerTakesKeeps == ASSUME IInv, WorkerTakes PROVE IInv'
<1> DEFINE k == Head(queue)
           c == [futures[k] EXCEPT !.step = "running"]
<1>1. /\ queue # <<>> /\ queue' = Tail(queue)
      /\ futures' = [futures EXCEPT ![k].step = "running"]
      /\ UNCHANGED <<world, requests, window, view, boxes, asks, ghosts>>
  BY DEF WorkerTakes
<1>2. \A j \in Kind : j # k => futures'[j] = futures[j]
  BY <1>1, Typed
<1>3. /\ k \in Kind /\ futures[k].step = "queued" /\ queue' \in Seq(Kind) /\ QueueOK'
  BY <1>1, <1>2, QueueShrinks
<1>4. futures' = [futures EXCEPT ![k] = c] /\ futures[k] \in Call
  BY <1>1, <1>3, Typed
<1>5. /\ c \in Call /\ c.step = "running" /\ c.sees = futures[k].sees
      /\ c.of = futures[k].of /\ c.ask = futures[k].ask
  BY <1>4 DEF Call
<1> HIDE DEF c
<1>6. CASE k = "kill"
  <2>1. KillStep(c)
    BY <1>1, <1>3, <1>4, <1>5, <1>6 DEF KillStep, Kill, Waiting
  <2> QED
    BY <1>5, <2>1, KillStepKeeps
<1>7. CASE k # "kill"
  <2>1. /\ futures' \in [Kind -> Call] /\ futures'["kill"] = futures["kill"]
        /\ futures'["list"].sees = futures["list"].sees
    BY <1>3, <1>4, <1>5, <1>7, Typed, Kinds
  <2>2. TypeOK'
    BY <1>1, <1>3, <2>1 DEF IInv, TypeOK, world, view, boxes, ghosts
  <2>3. ChosenOK' /\ \A s \in picked' : Seen(s)
    BY <1>1, ChosenStays DEF view, boxes, ghosts
  <2> QED
    BY <1>1, <1>3, <2>1, <2>2, <2>3, StepKeeps
    DEF SameEnd, world, view, boxes, ghosts
<1> QED
  BY <1>6, <1>7

(* Its result is told.                                                     *)
LEMMA FinishKillKeeps == ASSUME IInv, FinishKill PROVE IInv'
<1>1. /\ Kill.step = "done"
      /\ receipt' = {[ask |-> Kill.ask, of |-> Target, says |-> Kill.says]}
      /\ told' = told \cup {Kill.ask}
      /\ UNCHANGED <<world, requests, window, view, confirm, notice, asks, picked, asked, acted>>
  BY DEF FinishKill, Finishes, Kill
<1>2. PICK s \in Session :
         /\ Kill.of = {s} /\ Target = s /\ Kill.ask \in Ask /\ Kill.ask <= asks
  BY <1>1, KillFacts
<1>3. UNCHANGED <<live, starts, mute, requests, window, page, rows, sel, confirm, notice,
                  asks, picked, asked, acted>>
  BY <1>1 DEF world, view
<1>4. /\ futures' \in [Kind -> Call] /\ queue' \in Seq(Kind) /\ QueueOK'
      /\ futures'["kill"] = NoCall
      /\ futures'["list"].sees \subseteq futures["list"].sees
  <2>1. CASE Idle("list")
    <3> DEFINE q == [NoCall EXCEPT !.step = "queued"]
    <3>1. /\ futures' = [[futures EXCEPT !["kill"] = NoCall] EXCEPT !["list"] = q]
          /\ queue' = Append(queue, "list") /\ futures["list"].step = "none"
      BY <2>1 DEF FinishKill, Submitted, Freed, Idle
    <3>2. q \in Call /\ q.step = "queued" /\ q.sees = {}
      BY Calls DEF Call, NoCall
    <3> HIDE DEF q
    <3>3. /\ futures' \in [Kind -> Call] /\ futures'["kill"] = NoCall /\ futures'["list"] = q
          /\ \A j \in Kind : j \notin {"kill", "list"} => futures'[j] = futures[j]
      BY <3>1, <3>2, Typed, Kinds, Calls
    <3>4. \A j \in Kind : futures[j].step = "queued" => futures'[j].step = "queued"
      BY <1>1, <3>1, <3>2, <3>3 DEF Kill
    <3>5. QueueOK' /\ queue' \in Seq(Kind)
      BY <3>1, <3>2, <3>3, <3>4, QueueGrows, Kinds
    <3> QED
      BY <3>2, <3>3, <3>5
  <2>2. CASE ~Idle("list")
    <3>1. Forget("kill")
      BY <2>2 DEF FinishKill
    <3>2. /\ futures' \in [Kind -> Call] /\ queue' = queue /\ QueueOK'
          /\ futures'["kill"] = NoCall /\ futures'["list"] = futures["list"]
      BY <1>1, <3>1, ForgetFacts, Kinds DEF Kill
    <3> QED
      BY <3>2, Typed
  <2> QED
    BY <2>1, <2>2
<1>5. Kill'.step = "none" /\ Kill'.of = {}
  <2>1. Kill' = NoCall
    BY <1>4 DEF Kill
  <2> QED
    BY <2>1, Calls
<1>6. receipt' = {[ask |-> Kill.ask, of |-> s, says |-> Kill.says]}
  BY <1>1, <1>2
<1>7. TypeOK'
  <2>1. Kill.says \in {"ended", "nothing", "unknown"}
    BY <1>1 DEF IInv, KillOK
  <2>2. receipt' \subseteq Outcome /\ told' \subseteq Ask
    BY <1>1, <1>2, <1>6, <2>1 DEF IInv, TypeOK, Outcome
  <2> QED
    BY <1>3, <1>4, <2>2 DEF IInv, TypeOK
<1>8. StartsOK'
  <2>1. s[2] <= starts[s[1]]
    BY <1>2 DEF IInv, StartsOK
  <2>2. \A b \in receipt' : b.of[2] <= starts'[b.of[1]]
    BY <1>3, <1>6, <2>1
  <2>3. \A listing \in futures'["list"].sees : Shown(listing)'
    BY <1>3, <1>4 DEF IInv, StartsOK, Shown, Seen
  <2> QED
    BY <1>3, <1>5, <2>2, <2>3 DEF IInv, StartsOK, Shown, Seen
<1>9. ChosenOK' /\ EndsConfirmed'
  BY <1>3 DEF IInv, ChosenOK, EndsConfirmed
<1>10. KillOK'
  BY <1>3, <1>5 DEF IInv, KillOK, Confirmed
<1>11. OutcomeOK'
  <2>1. Claim(Kill.ask, s, Kill.says)
    BY <1>1, <1>2 DEF IInv, OutcomeOK
  <2>2. \A n \in Ask : Inert(n)' = Inert(n)
    BY <1>3 DEF Inert
  <2>3. \A b \in receipt' : b.ask = Kill.ask /\ b.of = s /\ b.says = Kill.says
    BY <1>6
  <2>4. \A n, t, says : Claim(n, t, says) => Claim(n, t, says)'
    BY <1>3 DEF Claim, Inert
  <2>5. \A b \in receipt' : b.ask \in told' /\ Claim(b.ask, b.of, b.says)
    BY <1>1, <2>1, <2>3
  <2>6. \A n \in told' : n <= asks'
    BY <1>1, <1>2, <1>3 DEF IInv, OutcomeOK
  <2>7. \A n \in Ask : n > asks' => Inert(n)'
    BY <1>3, <2>2 DEF IInv, OutcomeOK
  <2>8. (\A b \in receipt : b.ask \in told /\ Claim(b.ask, b.of, b.says))'
    BY <2>4, <2>5
  <2> QED
    BY <1>5, <2>6, <2>7, <2>8 DEF OutcomeOK, Waiting
<1> QED
  BY <1>4, <1>7, <1>8, <1>9, <1>10, <1>11 DEF IInv

(* The session that is confirmed is the one that was picked.               *)
LEMMA ConfirmKeeps == ASSUME IInv, NEW d \in confirm, Confirm(d) PROVE IInv'
<1>1. /\ confirm' = {} /\ d.body = "laid"
      /\ UNCHANGED <<world, requests, window, view, receipt, notice, picked, acted, told>>
  BY DEF Confirm, CanConfirm
<1>2. CASE ~Idle("kill")
  <2>1. UNCHANGED <<asks, asked, pool>>
    BY <1>2 DEF Confirm
  <2>2. TypeOK'
    BY <1>1, <2>1, PoolAside DEF IInv, TypeOK, world, view
  <2>3. ChosenOK' /\ \A s \in picked' : Seen(s)
    BY <1>1, <2>1, ChosenStays DEF view
  <2> QED
    BY <1>1, <2>1, <2>2, <2>3, PoolAside, StepKeeps DEF SameEnd, world, view
<1>3. CASE Idle("kill")
  <2>0. PICK n : n = asks + 1
    OBVIOUS
  <2> DEFINE s == d.of
             c == [NoCall EXCEPT !.of = {s}, !.ask = n]
  <2>1. /\ asks' = n /\ Submit("kill", c)
        /\ asked' = [asked EXCEPT ![n] = {<<t, d.body = "laid">> : t \in picked}]
    BY <1>3, <2>0 DEF Confirm
  <2>2. n \in Ask /\ n \in Nat
    BY <2>0, Typed DEF IInv, ChosenOK, Ask
  <2>3. s \in Session /\ picked = {s} /\ s[1] \notin Own
    BY Typed DEF IInv, ChosenOK, Dialog
  <2>4. asked' = [asked EXCEPT ![n] = {<<s, TRUE>>}]
    <3>1. {<<t, d.body = "laid">> : t \in {s}} = {<<s, TRUE>>}
      BY <1>1
    <3> QED
      BY <2>1, <2>3, <3>1
  <2>5. c \in Call /\ c.of = {s} /\ c.ask = n
    <3>1. \A e \in Call : [e EXCEPT !.of = {s}, !.ask = n] \in Call
      BY <2>2, <2>3 DEF Call
    <3>2. c.of = {s} /\ c.ask = n
      BY DEF NoCall
    <3> QED
      BY <3>1, <3>2, Calls
  <2> HIDE DEF c, s
  <2>6. /\ futures' \in [Kind -> Call] /\ queue' \in Seq(Kind) /\ QueueOK'
        /\ Kill' = [c EXCEPT !.step = "queued"] /\ futures'["list"] = futures["list"]
    BY <1>3, <2>1, <2>5, SubmitFacts, Kinds DEF Kill
  <2>7. Kill'.step = "queued" /\ Kill'.of = {s} /\ Kill'.ask = n
    BY <2>5, <2>6 DEF Call
  <2>8. UNCHANGED <<live, starts, mute, requests, window, page, rows, sel, receipt, notice,
                    picked, acted, told>>
    BY <1>1 DEF world, view
  <2>9. /\ asked' \in [Ask -> SUBSET (Session \X BOOLEAN)] /\ asked'[n] = {<<s, TRUE>>}
        /\ \A m \in Ask : m # n => asked'[m] = asked[m]
    <3>1. PICK yes \in BOOLEAN : yes = TRUE
      OBVIOUS
    <3>2. {<<s, yes>>} \in SUBSET (Session \X BOOLEAN)
      BY <2>3
    <3>3. asked' = [asked EXCEPT ![n] = {<<s, yes>>}]
      BY <2>4, <3>1
    <3>4. /\ asked' \in [Ask -> SUBSET (Session \X BOOLEAN)] /\ asked'[n] = {<<s, yes>>}
          /\ \A m \in Ask : m # n => asked'[m] = asked[m]
      BY <2>2, <3>2, <3>3, Typed
    <3> QED
      BY <3>1, <3>4
  <2>10. TypeOK'
    <3>1. asks' \in 0..MaxAsks
      BY <2>1, <2>2, Typed DEF Ask
    <3> QED
      BY <1>1, <2>6, <2>8, <2>9, <3>1 DEF IInv, TypeOK
  <2>11. StartsOK'
    <3>1. s[2] <= starts[s[1]]
      <4>1. Seen(s)
        BY <2>3 DEF IInv, StartsOK
      <4>2. s[2] # Mute
        BY <2>3, Typed DEF Session, Start, Mute
      <4> QED
        BY <4>1, <4>2 DEF Seen
    <3> QED
      BY <2>6, <2>7, <2>8, <3>1 DEF IInv, StartsOK, Shown, Seen
  <2>12. ChosenOK'
    BY <1>1, <2>8 DEF IInv, ChosenOK
  <2>13. \A m, t : m \in Ask /\ Confirmed(m, t) => Confirmed(m, t)'
    <3>1. ASSUME NEW m \in Ask, NEW t, Confirmed(m, t) PROVE Confirmed(m, t)'
      <4>1. m <= asks /\ m \in Nat /\ asks \in Nat
        BY <3>1, Typed DEF Confirmed
      <4>2. m # n /\ m <= asks'
        BY <2>0, <2>1, <4>1
      <4>3. asked'[m] = asked[m]
        BY <2>9, <4>2
      <4> QED
        BY <3>1, <4>2, <4>3 DEF Confirmed
    <3> QED
      BY <3>1
  <2>14. KillOK'
    <3>1. \A r \in requests' : Confirmed(r[1], r[2])'
      BY <2>8, <2>13, Typed DEF IInv, KillOK
    <3>2. \A m \in Ask : m > asks' => asked'[m] = {}
      <4>1. ASSUME NEW m \in Ask, m > asks' PROVE m > asks /\ m # n
        BY <2>0, <2>1, <2>2, <4>1, Typed
      <4> QED
        BY <2>9, <4>1 DEF IInv, KillOK
    <3>3. Kill'.ask \in Ask /\ s \in Session /\ Kill'.of = {s}
      BY <2>2, <2>3, <2>7
    <3>4. Kill'.ask <= asks' /\ asked'[Kill'.ask] = {<<s, TRUE>>} /\ s[1] \notin Own
      <4>1. n <= asks'
        BY <2>1, <2>2
      <4> QED
        BY <2>3, <2>7, <2>9, <4>1
    <3> QED
      BY <2>7, <3>1, <3>2, <3>3, <3>4 DEF KillOK, Confirmed
  <2>15. Inert(n) /\ n \notin told /\ \A m \in Ask : Inert(m)' = Inert(m)
    <3>1. n > asks /\ asks \in Nat /\ \A m \in told : m <= asks
      BY <2>0, Typed DEF IInv, OutcomeOK
    <3>2. Inert(n) /\ n \notin told
      BY <2>2, <3>1 DEF IInv, OutcomeOK
    <3> QED
      BY <2>8, <3>2 DEF Inert
  <2>16. EndsConfirmed'
    BY <2>2, <2>8, <2>9, <2>15 DEF IInv, EndsConfirmed, Inert
  <2>17. OutcomeOK'
    <3>1. \A m \in told' : m <= asks'
      <4>1. \A m \in told : m \in Nat /\ m <= asks
        BY Typed DEF IInv, TypeOK, OutcomeOK
      <4> QED
        BY <2>0, <2>1, <2>8, <4>1, Typed
    <3>2. \A m \in Ask : m > asks' => Inert(m)'
      <4>1. \A m \in Ask : m > asks' => m > asks
        BY <2>0, <2>1, Typed
      <4> QED
        BY <2>15, <4>1 DEF IInv, OutcomeOK
    <3>3. Kill'.ask \notin told' /\ Inert(n)'
      BY <2>2, <2>7, <2>8, <2>15
    <3>4. \A m, t, says : Claim(m, t, says) => Claim(m, t, says)'
      BY <2>8 DEF Claim, Inert
    <3>5. (\A b \in receipt : b.ask \in told /\ Claim(b.ask, b.of, b.says))'
      BY <2>8, <3>4 DEF IInv, OutcomeOK
    <3>6. Kill'.step # "done" /\ Inert(Kill.ask)'
      BY <2>7, <3>3 DEF Inert
    <3> QED
      BY <3>1, <3>2, <3>3, <3>5, <3>6 DEF OutcomeOK
  <2> QED
    BY <2>6, <2>10, <2>11, <2>12, <2>14, <2>16, <2>17 DEF IInv
<1> QED
  BY <1>2, <1>3

-----------------------------------------------------------------------------
LEMMA InitInv == Init => IInv
<1> SUFFICES ASSUME Init PROVE IInv
  OBVIOUS
<1> DEFINE q == [NoCall EXCEPT !.step = "queued"]
<1>1. /\ futures = [[k \in Kind |-> NoCall] EXCEPT !["list"] = q]
      /\ q \in Call /\ q.step = "queued" /\ q.sees = {}
  BY Calls DEF Init, Submitted, Call, NoCall
<1> HIDE DEF q
<1>2. /\ futures \in [Kind -> Call] /\ futures["list"] = q /\ Kill = NoCall
  BY <1>1, Kinds, Calls DEF Kill
<1>3. queue = <<"list">> /\ queue \in Seq(Kind) /\ Len(queue) = 1 /\ queue[1] = "list"
  BY Kinds DEF Init
<1>4. QueueOK
  BY <1>1, <1>2, <1>3 DEF QueueOK
<1>5. live \in [Sid -> 0..MaxStarts] /\ starts = live
  BY ConstantsOK DEF Init
<1>6. TypeOK
  <2>1. asks \in 0..MaxAsks /\ told \subseteq Ask
    BY ConstantsOK DEF Init
  <2>2. /\ asked \in [Ask -> SUBSET (Session \X BOOLEAN)]
        /\ acted \in [Ask -> SUBSET Session]
    BY DEF Init
  <2> QED
    BY <1>2, <1>3, <1>5, <2>1, <2>2 DEF Init, TypeOK
<1>7. StartsOK
  <2>1. \A i \in Sid : live[i] <= starts[i]
    BY <1>5, ConstantsOK
  <2> QED
    BY <1>1, <1>2, <2>1, Calls DEF Init, StartsOK
<1>8. ChosenOK /\ EndsConfirmed
  BY DEF Init, ChosenOK, EndsConfirmed
<1>9. KillOK
  BY <1>2, Calls DEF Init, KillOK
<1>10. OutcomeOK
  BY <1>2, Calls DEF Init, OutcomeOK, Waiting, Inert
<1> QED
  BY <1>4, <1>6, <1>7, <1>8, <1>9, <1>10 DEF IInv

LEMMA StutterKeeps == ASSUME IInv, UNCHANGED vars PROVE IInv'
<1>1. UNCHANGED <<world, requests, window, view, pool, boxes, asks, ghosts>>
  BY DEF vars
<1>2. TypeOK'
  BY <1>1, PoolAside DEF IInv, TypeOK, world, view, boxes, ghosts
<1>3. ChosenOK' /\ \A s \in picked' : Seen(s)
  BY <1>1, ChosenStays DEF view, boxes, ghosts
<1> QED
  BY <1>1, <1>2, <1>3, PoolAside, StepKeeps DEF SameEnd, world, view, boxes, ghosts

LEMMA NextKeeps == IInv /\ [Next]_vars => IInv'
<1> SUFFICES ASSUME IInv, [Next]_vars PROVE IInv'
  OBVIOUS
<1>1. CASE UNCHANGED vars
  BY <1>1, StutterKeeps
<1>2. CASE Broker
  BY <1>2, SessionStartsKeeps, SessionExitsKeeps, SessionStallsKeeps, RequestArrivesKeeps
  DEF Broker
<1>3. CASE Worker
  BY <1>3, WorkerTakesKeeps, ListAnswersKeeps, CallFailsKeeps, ReadAnswersKeeps,
     KillCallKeeps, KillSendsKeeps
  DEF Worker, KillCall
<1>4. CASE Tick
  BY <1>4, FinishListKeeps, FinishReadKeeps, FinishKillKeeps, BodyLaidKeeps DEF Tick
<1>5. CASE User
  BY <1>5, RefreshKeeps, ReadKeeps, SwitchKeeps, SelectKeeps, EndKeeps, ConfirmKeeps,
     CancelKeeps, DismissKeeps, RequestCloseKeeps, QuitKeeps
  DEF User
<1> QED
  BY <1>1, <1>2, <1>3, <1>4, <1>5 DEF Next

-----------------------------------------------------------------------------
(* The types of the window, its pool, the dialogs and the sessions.        *)
THEOREM TypeCorrect == Spec => []TypeOK
<1>1. IInv => TypeOK
  BY DEF IInv
<1> QED
  BY InitInv, NextKeeps, <1>1, PTL DEF Spec

(* The window ends no session but the one, id and start, that was picked   *)
(* and confirmed with its whole text on screen, and never its own.         *)
THEOREM OnlyConfirmedEnds == Spec => []EndsConfirmed
<1>1. IInv => EndsConfirmed
  BY DEF IInv
<1> QED
  BY InitInv, NextKeeps, <1>1, PTL DEF Spec

LEMMA ReceiptHolds == ASSUME IInv PROVE ReceiptTruthful
<1> SUFFICES ASSUME NEW b \in receipt
             PROVE  /\ b.says = "ended" => live[b.of[1]] # b.of[2]
                    /\ b.says = "nothing" =>
                          /\ acted[b.ask] = {}
                          /\ ~ \E s \in Session : <<b.ask, s>> \in requests
  BY DEF ReceiptTruthful
<1>1. Claim(b.ask, b.of, b.says)
  BY DEF IInv, OutcomeOK
<1> QED
  BY <1>1 DEF Claim, Inert

(* A box that says that a session has ended is right, and after one that   *)
(* says that nothing was ended the request never ends anything.            *)
THEOREM ReceiptsTruthful == Spec => []ReceiptTruthful
BY InitInv, NextKeeps, ReceiptHolds, PTL DEF Spec

-----------------------------------------------------------------------------
(* A confirmed end until its outcome is shown.                             *)

InQueue(k) == \E m \in 1..Len(queue) : queue[m] = k

\* Numbers are told for good, and the call keeps its number and its place.
LEMMA CallStays ==
    ASSUME NoneForgotten, IInv, UNCHANGED <<window, asks>>, told \subseteq told',
           Kill.step # "none" =>
              /\ Kill'.step # "none" /\ Kill'.ask = Kill.ask
              /\ Kill'.step = "queued" => Kill.step = "queued"
                                          /\ (InQueue("kill") => InQueue("kill")')
    PROVE  NoneForgotten'
<1>1. SUFFICES ASSUME window # "gone", NEW n \in 1..asks, n \notin told', UnderWay(n)
               PROVE  UnderWay(n)'
  BY DEF NoneForgotten
<1> QED
  BY <1>1 DEF UnderWay, Idle, Kill, InQueue

LEMMA QueueLonger ==
    ASSUME IInv, NEW k \in Kind, queue' = queue \/ queue' = Append(queue, k), InQueue("kill")
    PROVE  InQueue("kill")'
<1>1. queue \in Seq(Kind)
  BY Typed
<1>2. CASE queue' = queue
  BY <1>2 DEF InQueue
<1>3. CASE queue' = Append(queue, k)
  <2>1. PICK m \in 1..Len(queue) : queue[m] = "kill"
    BY DEF InQueue
  <2>2. m \in 1..Len(queue') /\ queue'[m] = queue[m]
    BY <1>1, <1>3
  <2> QED
    BY <2>1, <2>2 DEF InQueue
<1> QED
  BY <1>2, <1>3

\* A step that is about another call, or about none.
LEMMA OtherCall ==
    ASSUME NoneForgotten, IInv, NEW k \in Kind, UNCHANGED <<window, asks, told>>,
           queue' = queue \/ queue' = Append(queue, k), Kill' = Kill
    PROVE  NoneForgotten'
BY CallStays, QueueLonger

LEMMA SubmitOther ==
    ASSUME IInv, NEW k \in Kind \ {"kill"}, NEW c, Submit(k, c)
    PROVE  (queue' = queue \/ queue' = Append(queue, k)) /\ Kill' = Kill
<1>1. futures \in [Kind -> Call]
  BY Typed
<1> QED
  BY <1>1, Kinds DEF Submit, Submitted, pool, Kill

LEMMA WorkerTakesRemembers ==
    ASSUME NoneForgotten, IInv, WorkerTakes PROVE NoneForgotten'
<1>1. /\ queue \in Seq(Kind) /\ queue # <<>> /\ futures \in [Kind -> Call]
      /\ queue' = Tail(queue) /\ UNCHANGED <<window, asks, told>>
      /\ futures' = [futures EXCEPT ![Head(queue)].step = "running"]
  BY Typed DEF WorkerTakes, ghosts
<1>2. Head(queue) = queue[1] /\ Head(queue) \in Kind
  BY <1>1
<1>3. Kill'.ask = Kill.ask
  BY <1>1, Kinds DEF Kill, Call
<1>4. CASE Head(queue) = "kill"
  <2>1. Kill'.step = "running"
    BY <1>1, <1>4, Kinds DEF Kill, Call
  <2> QED
    BY <1>1, <1>3, <2>1, CallStays
<1>5. CASE Head(queue) # "kill"
  <2>1. Kill' = Kill
    BY <1>1, <1>5 DEF Kill
  <2>2. ASSUME InQueue("kill") PROVE InQueue("kill")'
    <3>1. PICK m \in 1..Len(queue) : queue[m] = "kill"
      BY <2>2 DEF InQueue
    <3>2. m # 1
      BY <1>2, <1>5, <3>1
    <3>3. m - 1 \in 1..Len(queue') /\ queue'[m - 1] = queue[m]
      BY <1>1, <3>2
    <3> QED
      BY <3>1, <3>3 DEF InQueue
  <2> QED
    BY <1>1, <2>1, <2>2, CallStays
<1> QED
  BY <1>4, <1>5

LEMMA AnswerKill ==
    ASSUME IInv, NEW says \in {"ended", "nothing", "unknown"}, Answer("kill", says)
    PROVE  Kill'.step = "done" /\ Kill'.ask = Kill.ask
<1>1. futures \in [Kind -> Call] /\ "kill" \in Kind
  BY Typed, Kinds
<1>2. Kill' = Done(Kill, says) /\ Kill \in Call
  BY <1>1 DEF Answer, Kill
<1> QED
  BY <1>2, DoneFacts

LEMMA KillCallRemembers ==
    ASSUME NoneForgotten, IInv, KillCall PROVE NoneForgotten'
<1>1. UNCHANGED <<window, asks, told>>
  BY DEF KillCall, KillRefused, KillSends, KillVerified, KillUnanswered, OutsideTheCall, ghosts
<1>2. CASE KillSends
  <2>1. futures \in [Kind -> Call] /\ "kill" \in Kind
    BY Typed, Kinds
  <2>2. Kill' = [Kill EXCEPT !.step = "sent"] /\ Kill \in Call
    BY <1>2, <2>1 DEF KillSends, Kill
  <2>3. Kill'.step = "sent" /\ Kill'.ask = Kill.ask
    BY <2>2 DEF Call
  <2> QED
    BY <1>1, <2>3, CallStays
<1>3. CASE KillRefused \/ KillVerified \/ KillUnanswered
  <2>1. \E says \in {"ended", "nothing", "unknown"} : Answer("kill", says)
    BY <1>3 DEF KillRefused, KillVerified, KillUnanswered
  <2>2. Kill'.step = "done" /\ Kill'.ask = Kill.ask
    BY <2>1, AnswerKill
  <2> QED
    BY <1>1, <2>2, CallStays
<1> QED
  BY <1>2, <1>3 DEF KillCall

LEMMA FinishKillRemembers ==
    ASSUME NoneForgotten, IInv, FinishKill PROVE NoneForgotten'
<1>1. UNCHANGED <<window, asks>> /\ told' = told \cup {Kill.ask}
  BY DEF FinishKill, Kill
<1>2. SUFFICES ASSUME window # "gone", NEW n \in 1..asks, n \notin told PROVE n \in told'
  BY <1>1 DEF NoneForgotten
<1>3. UnderWay(n)
  BY <1>2 DEF NoneForgotten
<1> QED
  BY <1>1, <1>3 DEF UnderWay, Kill

\* While no end is under way, all have been told.
LEMMA IdleTold ==
    ASSUME NoneForgotten, Idle("kill"), window # "gone" PROVE \A n \in 1..asks : n \in told
BY DEF NoneForgotten, UnderWay

LEMMA ConfirmRemembers ==
    ASSUME NoneForgotten, IInv, NEW d \in confirm, Confirm(d) PROVE NoneForgotten'
<1>1. window = "open" /\ UNCHANGED <<window, told>>
  BY DEF Confirm
<1>2. CASE Idle("kill")
  <2> DEFINE c == [NoCall EXCEPT !.of = {d.of}, !.ask = asks + 1]
  <2>1. /\ futures \in [Kind -> Call] /\ "kill" \in Kind /\ queue \in Seq(Kind)
        /\ asks \in Nat
    BY Typed, Kinds, ConstantsOK
  <2>2. asks' = asks + 1 /\ queue' = Append(queue, "kill")
        /\ futures' = Submitted(futures, "kill", c)
    BY <1>2 DEF Confirm, Submit
  <2>3. Kill' = [c EXCEPT !.step = "queued"]
    BY <2>1, <2>2 DEF Submitted, Kill
  <2>4. Kill'.step = "queued" /\ Kill'.ask = asks'
    BY <2>2, <2>3 DEF NoCall
  <2>5. InQueue("kill")'
    <3>1. Len(queue) + 1 \in 1..Len(queue') /\ queue'[Len(queue) + 1] = "kill"
      BY <2>1, <2>2
    <3> QED
      BY <3>1 DEF InQueue
  <2>6. \A n \in 1..asks' : n \in 1..asks \/ n = asks'
    BY <2>1, <2>2
  <2>7. UnderWay(asks)'
    BY <1>1, <2>4, <2>5 DEF UnderWay, Idle, Kill, InQueue
  <2>8. \A n \in 1..asks : n \in told
    BY <1>1, <1>2, IdleTold
  <2> QED
    BY <1>1, <2>6, <2>7, <2>8 DEF NoneForgotten
<1>3. CASE ~Idle("kill")
  BY <1>1, <1>3, OtherCall, Kinds DEF Confirm, pool, Kill
<1> QED
  BY <1>2, <1>3

LEMMA RequestCloseRemembers ==
    ASSUME NoneForgotten, IInv, RequestClose PROVE NoneForgotten'
<1>1. UNCHANGED <<asks, told>> /\ window = "open"
  BY DEF RequestClose, Free
<1>2. CASE Idle("kill")
  <2>1. \A n \in 1..asks : n \in told
    BY <1>1, <1>2, IdleTold
  <2> QED
    BY <1>1, <2>1 DEF NoneForgotten
<1>3. CASE ~Idle("kill")
  BY <1>1, <1>3, OtherCall, Kinds DEF RequestClose, pool, Kill
<1> QED
  BY <1>2, <1>3

LEMMA OtherWorkRemembers ==
    ASSUME NoneForgotten, IInv,
           ListAnswers \/ \E k \in Kind : CallFails(k) \/ ReadAnswers(k)
    PROVE  NoneForgotten'
<1>1. UNCHANGED <<window, asks, told, queue>>
  BY DEF ListAnswers, CallFails, ReadAnswers, OutsideTheCall, ghosts
<1>2. Kill' = Kill
  <2>1. futures \in [Kind -> Call]
    BY Typed
  <2> QED
    BY <2>1, Kinds DEF ListAnswers, CallFails, ReadAnswers, Answer, Kill
<1> QED
  BY <1>1, <1>2, OtherCall, Kinds

LEMMA OtherFinishRemembers ==
    ASSUME NoneForgotten, IInv, FinishList \/ \E k \in Kind : FinishRead(k)
    PROVE  NoneForgotten'
<1>1. UNCHANGED <<window, asks, told, queue>>
  BY DEF FinishList, FinishRead, Forget, ghosts
<1>2. Kill' = Kill
  <2>1. futures \in [Kind -> Call]
    BY Typed
  <2> QED
    BY <2>1, Kinds DEF FinishList, FinishRead, Forget, Freed, Kill
<1> QED
  BY <1>1, <1>2, OtherCall, Kinds

LEMMA SubmitsRemember ==
    ASSUME NoneForgotten, IInv, Refresh \/ \E k \in Reader : Read(k)
    PROVE  NoneForgotten'
<1>1. PICK k \in Kind \ {"kill"} : Submit(k, NoCall)
  BY Kinds DEF Refresh, Read
<1>2. UNCHANGED <<window, asks, told>>
  BY DEF Refresh, Read, ghosts
<1> QED
  BY <1>1, <1>2, SubmitOther, OtherCall

LEMMA RememberStep ==
    ASSUME IInv, NoneForgotten, [Next]_vars PROVE NoneForgotten'
<1>1. CASE UNCHANGED <<window, asks, told, pool>>
  BY <1>1, OtherCall, Kinds DEF pool, Kill
<1>2. Broker => UNCHANGED <<window, asks, told, pool>>
  BY DEF Broker, SessionStarts, SessionExits, SessionStalls, RequestArrives, ghosts
<1>3. CASE Worker
  BY <1>3, WorkerTakesRemembers, KillCallRemembers, OtherWorkRemembers DEF Worker
<1>4. CASE Tick
  <2>1. \A d, body : BodyLaid(d, body) => UNCHANGED <<window, asks, told, pool>>
    BY DEF BodyLaid, ghosts
  <2> QED
    BY <1>1, <1>4, <2>1, FinishKillRemembers, OtherFinishRemembers DEF Tick
<1>5. CASE User
  <2>1. CASE Quit
    BY <2>1 DEF Quit, NoneForgotten
  <2>2. Cancel \/ Dismiss \/ (\E p \in {0, 1} : Switch(p)) \/ (\E s \in sel : End(s))
        => UNCHANGED <<window, asks, told, pool>>
    BY DEF Cancel, Dismiss, Switch, End, ghosts
  <2>3. \A i \in Sid : Select(i) => UNCHANGED <<window, asks, told, pool>>
    BY DEF Select
  <2> QED
    BY <1>1, <1>5, <2>1, <2>2, <2>3, SubmitsRemember, RequestCloseRemembers,
       ConfirmRemembers
    DEF User
<1>6. UNCHANGED vars => UNCHANGED <<window, asks, told, pool>>
  BY DEF vars, ghosts
<1> QED
  BY <1>1, <1>2, <1>3, <1>4, <1>5, <1>6 DEF Next

(* Until the outcome of a confirmed end is on screen, its call is in the   *)
(* pool of an open window, and in the queue if no worker has it.           *)
THEOREM ConfirmedKept == Spec => []NoneForgotten
<1>1. Init => NoneForgotten
  BY DEF Init, NoneForgotten
<1>2. IInv /\ NoneForgotten /\ [Next]_vars => NoneForgotten'
  BY RememberStep
<1> QED
  BY InitInv, NextKeeps, <1>1, <1>2, PTL DEF Spec

===============================================================================
