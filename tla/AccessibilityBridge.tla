-------------------------- MODULE AccessibilityBridge --------------------------
(***************************************************************************)
(* The accessibility bridge of Kilix 95: the tree of what is on screen     *)
(* that the desktop builds (accessibility.py, Tree) and publishes          *)
(* (Controller), the helper process that offers it to screen readers on    *)
(* the bus (accessibility_service.py, Service), and the socket between     *)
(* them (accessibility_protocol.py, Channel).                              *)
(*                                                                         *)
(* The desktop shows one list of its own and windows with one list each.   *)
(* Of the requests there are three: to activate an item, to select one,    *)
(* which names its place as well, and to close a window.  The others are   *)
(* looked up in the same way.  Left out are what is only read (names,      *)
(* texts, geometry), menus, the taskbar and minimized windows.  A window   *)
(* that was closed never comes back.  No `on_select` of the applications   *)
(* replaces the list that calls it.                                        *)
(***************************************************************************)
EXTENDS Integers, Sequences, FiniteSets

CONSTANTS
    Window, Modal,     \* windows, and those of them that are modal
    Desktop,           \* the list of icons on the desktop
    Item,              \* objects that lists show
    Lists,             \* what a list may show
    Startup,           \* when the bridge starts: the windows that are open, what
                       \* the lists show, and whether the desktop is in front
    Deadline,          \* ticks until the desktop refuses a request
    Timeout,           \* ticks until the helper answers itself
    MaxPending,        \* requests the helper waits for at most
    MaxChanges,        \* bound: changes of the desktop by its user and programs
    MaxAsks            \* bound: requests of screen readers

ASSUME ConstantsOK ==
    /\ Modal \subseteq Window /\ Desktop \notin Window
    /\ Lists \subseteq Seq(Item) /\ Startup \subseteq Seq(Window) \X Lists \X BOOLEAN
    /\ \A l \in Lists : \A p, q \in DOMAIN l : l[p] = l[q] => p = q
    /\ Deadline \in Nat /\ Timeout \in Nat /\ Deadline < Timeout
    /\ MaxPending \in Nat \ {0} /\ MaxChanges \in Nat /\ MaxAsks \in Nat

VARIABLES
    ui,         \* the desktop: its windows, its lists, whether it has the focus
    changes,    \* changes of it so far
    tree,       \* the last build of the tree, and the identities given so far
    last,       \* the tree that was published last, if any
    bridge,     \* "up", or "closed" at the desktop's end
    toHelper,   \* trees and replies on the socket
    toDesk,     \* requests on the socket
    helper,     \* "alive" or "dead"
    nodes,      \* the tree the helper offers, if any
    pending,    \* requests without an answer
    age,        \* how long each of them has waited
    told,       \* the answers: "", "yes", "no", or "gone" with the helper
    asks,       \* requests so far
    asked,      \* ghost: what each asked for
    acted       \* ghost: what was done for it

socket == <<toHelper, toDesk>>
service == <<helper, nodes, pending, age, told, asks, asked>>
vars == <<ui, changes, tree, last, bridge, socket, service, acted>>

Owner == Window \cup {Desktop}
Ask == 1..MaxAsks
Key == Owner \X Item \X Nat      \* an identity: no two items ever have the same
UI == [windows : Seq(Window), opened : SUBSET Window,
       items : [Owner -> Seq(Item)], foreground : BOOLEAN]
Tree == [lists : [Owner -> Seq(Key)], gen : [Owner -> [Item -> Nat]]]
Snapshot == [lists : [Owner -> Seq(Key)], windows : Seq(Window), foreground : BOOLEAN]
Request == [ask : Ask, kind : {"activate", "select", "close"}, owner : Owner,
            at : Nat, of : SUBSET Key]
\* ask: the request a reply is for, or 0 for a tree.  tree: the tree, and (a
\* ghost) the one that was published last when a reply was sent.
Message == [ask : Ask \cup {0}, yes : BOOLEAN, tree : Snapshot]
Deed == [on : SUBSET Item, owner : Owner, free : BOOLEAN, foreground : BOOLEAN]

TypeOK ==
    /\ ui \in UI /\ changes \in 0..MaxChanges
    /\ tree \in Tree /\ last \subseteq Snapshot
    /\ bridge \in {"up", "closed"} /\ helper \in {"alive", "dead"}
    /\ toHelper \in Seq(Message) /\ toDesk \in Seq(Request)
    /\ nodes \subseteq Snapshot
    /\ pending \subseteq Ask /\ Cardinality(pending) <= MaxPending
    /\ age \in [Ask -> 0..Timeout]
    /\ told \in [Ask -> {"", "yes", "no", "gone"}]
    /\ asks \in 0..MaxAsks
    /\ asked \in [Ask -> SUBSET Request] /\ acted \in [Ask -> SUBSET Deed]

(***************************************************************************)
(* The desktop                                                             *)
(***************************************************************************)
Among(w, windows) == \E p \in DOMAIN windows : windows[p] = w
Shown(windows) == {o \in Owner : o = Desktop \/ Among(o, windows)}
Without(windows, w) ==
    LET p == CHOOSE q \in DOMAIN windows : windows[q] = w
    IN  SubSeq(windows, 1, p - 1) \o SubSeq(windows, p + 1, Len(windows))

\* modal_top: the last modal window takes all input.
Behind(windows, o) ==
    \E p \in DOMAIN windows :
        /\ windows[p] \in Modal /\ windows[p] # o
        /\ \A q \in DOMAIN windows : q > p => windows[q] \notin Modal
\* allowed_window
Allowed(windows, o) == o \in Shown(windows) /\ ~Behind(windows, o)

Opened(u, w, l) ==
    [u EXCEPT !.windows = Append(@, w), !.opened = @ \cup {w}, !.items[w] = l]
Closed(u, w) == [u EXCEPT !.windows = Without(@, w)]
Raised(u, o) ==
    IF o = Desktop THEN u
    ELSE [u EXCEPT !.windows = Append(Without(@, o), o)]

Changed(u) ==
    {[u EXCEPT !.foreground = ~@]}
    \cup {Opened(u, w, l) : w \in Window \ u.opened, l \in Lists}
    \cup {Closed(u, w) : w \in Shown(u.windows) \ {Desktop}}
    \cup {Raised(u, o) : o \in Shown(u.windows)}
    \cup {[u EXCEPT !.items[o] = l] : o \in Shown(u.windows), l \in Lists}

Changes(u) ==
    /\ changes < MaxChanges /\ changes' = changes + 1
    /\ \E v \in Changed(u) : ui' = v

DesktopChanges ==
    /\ bridge = "up"           \* nobody looks at it afterwards
    /\ Changes(ui)
    /\ UNCHANGED <<tree, last, bridge, socket, service, acted>>

(***************************************************************************)
(* Tree.build: an item that was in the list at the last build keeps its    *)
(* identity, wherever it stands by now, and any other gets a new one.      *)
(***************************************************************************)
Keeps(t, o, i) == Among(<<o, i, t.gen[o][i]>>, t.lists[o])

Built(t, u) ==
    LET gen == [o \in Owner |-> [i \in Item |->
                   IF o \in Shown(u.windows) /\ Among(i, u.items[o]) /\ ~Keeps(t, o, i)
                   THEN t.gen[o][i] + 1 ELSE t.gen[o][i]]]
    IN  [lists |-> [o \in Owner |->
                       IF o \in Shown(u.windows)
                       THEN [p \in DOMAIN u.items[o] |->
                                <<o, u.items[o][p], gen[o][u.items[o][p]]>>]
                       ELSE <<>>],
         gen |-> gen]

Seen(t, u) == [lists |-> t.lists, windows |-> u.windows, foreground |-> u.foreground]

\* Controller.publish, and the reply after it: n is the request, or 0 without
\* one.  t: the last build.  Nobody reads what is sent to a dead helper.
Sent(q, n, yes, s) == Append(q, [ask |-> n, yes |-> yes, tree |-> s])

Published(t, n, yes) ==
    LET now == Built(t, ui')
        s == Seen(now, ui')
        q == IF last = {s} THEN toHelper ELSE Sent(toHelper, 0, FALSE, s)
    IN  /\ tree' = now /\ last' = {s}
        /\ toHelper' = IF helper = "dead" THEN <<>>
                       ELSE IF n = 0 THEN q ELSE Sent(q, n, yes, s)

Tick ==
    /\ bridge = "up"
    /\ UNCHANGED ui /\ Published(tree, 0, FALSE)
    /\ UNCHANGED <<changes, bridge, toDesk, service, acted>>

(***************************************************************************)
(* Tree.apply: the handlers are those of a build of this moment.           *)
(***************************************************************************)
Places(t, r) == {p \in DOMAIN t.lists[r.owner] : t.lists[r.owner][p] \in r.of}

\* Mutant: what an index stands for is not compared with the item.
HandlersByPlace(t, u, r) ==
    /\ u.foreground /\ r.owner \in Shown(u.windows)
    /\ r.kind = "select" => r.at \in DOMAIN t.lists[r.owner]
    /\ r.kind = "activate" => Places(t, r) # {}
    /\ (r.kind = "select" /\ r.owner = Desktop) \/ Allowed(u.windows, r.owner)

\* A selection in the list of the desktop is not refused behind a modal window.
Handled(t, u, r) ==
    /\ u.foreground /\ r.owner \in Shown(u.windows)
    /\ r.kind = "select" => r.at \in Places(t, r)
    /\ r.kind = "activate" => Places(t, r) # {}
    /\ (r.kind = "select" /\ r.owner = Desktop) \/ Allowed(u.windows, r.owner)

\* The handlers know the place, and act on the item they find there.
Found(t, u, r) ==
    LET places == IF r.kind = "select" THEN {r.at} ELSE Places(t, r)
    IN  IF r.kind = "close" THEN {} ELSE {u.items[r.owner][p] : p \in places}

\* What the application makes of it is at most one change, too.
Carried(r) ==
    \/ /\ \/ r.kind = "activate" /\ ui' = Raised(ui, r.owner)
          \/ r.kind = "select" /\ UNCHANGED ui
          \/ r.kind = "close" /\ ui' \in {ui, Closed(ui, r.owner)}
       /\ UNCHANGED changes
    \/ r.kind = "activate" /\ Changes(Raised(ui, r.owner))
    \/ r.kind = "close" /\ Changes(ui)

Done(t, u, r) ==
    [acted EXCEPT ![r.ask] = @ \cup
        {[on |-> Found(t, u, r), owner |-> r.owner,
          free |-> ~Behind(u.windows, r.owner), foreground |-> u.foreground]}]

\* Mutant: a request is never too late.
NeverLate(r) == FALSE

Late(r) == age[r.ask] > Deadline

(***************************************************************************)
(* Controller.read: one request                                            *)
(***************************************************************************)
Refuse(r) ==
    LET t == Built(tree, ui) IN
    /\ Late(r) \/ ~Handled(t, ui, r)
    /\ UNCHANGED <<ui, changes, acted>>
    /\ Published(t, r.ask, FALSE)
    /\ toDesk' = Tail(toDesk) /\ UNCHANGED bridge

\* `on_activate` may answer that it did not want to, or raise one of the errors
\* that count as a refusal.
Perform(r) ==
    LET t == Built(tree, ui) IN
    /\ ~Late(r) /\ Handled(t, ui, r)
    /\ acted' = Done(t, ui, r)
    /\ Carried(r)
    /\ \E yes \in BOOLEAN : Published(t, r.ask, yes)
    /\ toDesk' = Tail(toDesk) /\ UNCHANGED bridge

\* It raises another: an OSError closes the bridge; anything else is left to the
\* main loop, and the requests that were received with this one are lost.
Raise(r) ==
    LET t == Built(tree, ui) IN
    /\ ~Late(r) /\ Handled(t, ui, r)
    /\ acted' = Done(t, ui, r)
    /\ Carried(r)
    /\ tree' = t /\ UNCHANGED <<last, toHelper>>
    /\ \/ bridge' = "closed" /\ toDesk' = <<>>
       \/ /\ UNCHANGED bridge
          /\ \E lost \in 1..Len(toDesk) : toDesk' = SubSeq(toDesk, lost + 1, Len(toDesk))

DeskReads ==
    /\ bridge = "up" /\ toDesk # <<>>
    /\ LET r == Head(toDesk) IN Refuse(r) \/ Perform(r) \/ Raise(r)
    /\ UNCHANGED service

\* The desktop ends, an application failed, the helper is gone, or the socket
\* is full.
Close ==
    /\ bridge = "up" /\ bridge' = "closed" /\ toDesk' = <<>>
    /\ UNCHANGED <<ui, changes, tree, last, toHelper, service, acted>>

(***************************************************************************)
(* The helper                                                              *)
(***************************************************************************)
\* What a screen reader finds in a tree: the actions that are offered, and
\* the places of the items of a list.
Offered(s, n) ==
    {[ask |-> n, kind |-> "close", owner |-> w, at |-> 0, of |-> {}] :
        w \in {v \in Window : Allowed(s.windows, v)}}
    \cup UNION {{[ask |-> n, kind |-> k, owner |-> o,
                  at |-> IF k = "select" THEN p ELSE 0, of |-> {s.lists[o][p]}] :
                    p \in DOMAIN s.lists[o],
                    k \in {"select"} \cup
                          IF o = Desktop \/ Allowed(s.windows, o)
                          THEN {"activate"} ELSE {}} : o \in Owner}

\* Mutant: no bound on what is waited for.
AcceptsAlways == TRUE

Accepts == Cardinality(pending) < MaxPending

Answered(n, answer) ==
    /\ pending' = pending \ {n}
    /\ told' = [told EXCEPT ![n] = answer]

\* Service.request.  What is written to a closed socket is lost, and the timer
\* runs all the same.
Asks(r) ==
    /\ asks' = asks + 1 /\ asked' = [asked EXCEPT ![r.ask] = {r}]
    /\ IF Accepts
       THEN /\ pending' = pending \cup {r.ask}
            /\ toDesk' = IF bridge = "up" THEN Append(toDesk, r) ELSE toDesk
            /\ UNCHANGED told
       ELSE Answered(r.ask, "no") /\ UNCHANGED toDesk
    /\ UNCHANGED <<ui, changes, tree, last, bridge, toHelper, helper, nodes, age, acted>>

ClientAsks ==
    /\ helper = "alive" /\ asks < MaxAsks
    /\ \E s \in nodes : \E r \in Offered(s, asks + 1) : Asks(r)

\* Mutant: a reply that comes too late is passed on.
HelperReadsLate ==
    /\ helper = "alive" /\ toHelper # <<>>
    /\ toHelper' = Tail(toHelper)
    /\ LET m == Head(toHelper) IN
       IF m.ask = 0
       THEN nodes' = {m.tree} /\ UNCHANGED <<pending, told>>
       ELSE UNCHANGED nodes /\ Answered(m.ask, IF m.yes THEN "yes" ELSE "no")
    /\ UNCHANGED <<ui, changes, tree, last, bridge, toDesk, helper, age, asks, asked, acted>>

\* Service.read: one tree, or one reply.  A reply that comes too late is
\* dropped.
HelperReads ==
    /\ helper = "alive" /\ toHelper # <<>>
    /\ toHelper' = Tail(toHelper)
    /\ LET m == Head(toHelper) IN
       /\ IF m.ask = 0 THEN nodes' = {m.tree} ELSE UNCHANGED nodes
       /\ IF m.ask \in pending
          THEN Answered(m.ask, IF m.yes THEN "yes" ELSE "no")
          ELSE UNCHANGED <<pending, told>>
    /\ UNCHANGED <<ui, changes, tree, last, bridge, toDesk, helper, age, asks, asked, acted>>

\* Mutant: the request is forgotten and its caller with it.
ExpireSilently(n) ==
    /\ helper = "alive" /\ n \in pending /\ age[n] >= Timeout
    /\ pending' = pending \ {n}
    /\ UNCHANGED <<ui, changes, tree, last, bridge, socket, helper, nodes, age, told,
                   asks, asked, acted>>

Expire(n) ==
    /\ helper = "alive" /\ n \in pending /\ age[n] >= Timeout
    /\ Answered(n, "no")
    /\ UNCHANGED <<ui, changes, tree, last, bridge, socket, helper, nodes, age, asks,
                   asked, acted>>

\* Mutant: requests that wait for the desktop are dropped at its end.
HelperDiesSilently ==
    /\ helper = "alive" /\ helper' = "dead"
    /\ pending' = {} /\ toHelper' = <<>> /\ nodes' = {}
    /\ UNCHANGED <<ui, changes, tree, last, bridge, toDesk, age, told, asks, asked, acted>>

\* Its bus or its socket is closed, or a tree is not valid.  The bus tells the
\* callers.
HelperDies ==
    /\ helper = "alive" /\ helper' = "dead"
    /\ pending' = {} /\ toHelper' = <<>> /\ nodes' = {}
    /\ told' = [n \in Ask |-> IF n \in pending THEN "gone" ELSE told[n]]
    /\ UNCHANGED <<ui, changes, tree, last, bridge, toDesk, age, asks, asked, acted>>

TimePasses ==
    /\ \E n \in 1..asks : age[n] < Timeout
    /\ age' = [n \in Ask |-> IF n <= asks /\ age[n] < Timeout
                             THEN age[n] + 1 ELSE age[n]]
    /\ UNCHANGED <<ui, changes, tree, last, bridge, socket, helper, nodes, pending,
                   told, asks, asked, acted>>

Init ==
    /\ \E s \in Startup :
          ui = [windows |-> s[1], opened |-> Shown(s[1]) \ {Desktop},
                items |-> [o \in Owner |-> IF o \in Shown(s[1]) THEN s[2] ELSE <<>>],
                foreground |-> s[3]]
    /\ changes = 0
    /\ tree = [lists |-> [o \in Owner |-> <<>>], gen |-> [o \in Owner |-> [i \in Item |-> 0]]]
    /\ last = {} /\ bridge = "up" /\ toHelper = <<>> /\ toDesk = <<>>
    /\ helper = "alive" /\ nodes = {} /\ pending = {} /\ asks = 0
    /\ age = [n \in Ask |-> 0] /\ told = [n \in Ask |-> ""]
    /\ asked = [n \in Ask |-> {}] /\ acted = [n \in Ask |-> {}]

Next ==
    \/ DesktopChanges \/ Tick \/ DeskReads \/ Close
    \/ ClientAsks \/ HelperReads \/ HelperDies \/ TimePasses
    \/ \E n \in Ask : Expire(n)

\* The main loop of the helper runs its timers.
Fairness == WF_vars(TimePasses) /\ \A n \in Ask : WF_vars(Expire(n))

Spec == Init /\ [][Next]_vars /\ Fairness

-----------------------------------------------------------------------------
(***************************************************************************)
(* What is done for a screen reader is done to the item that it named: not *)
(* to one that has taken its place since, nor while the desktop is not in  *)
(* front, nor behind a modal window, a selection on the desktop excepted.  *)
(***************************************************************************)
ActsOnNamed ==
    \A n \in Ask : \A d \in acted[n] : \E r \in asked[n] :
        /\ d.owner = r.owner /\ d.on = {k[2] : k \in r.of} /\ d.foreground
        /\ d.free \/ (r.kind = "select" /\ r.owner = Desktop)

(***************************************************************************)
(* An answer is to be relied on: after "yes" the request has been carried  *)
(* out and the helper already offers a tree of after that; after "no" it   *)
(* is not carried out any more, however late the desktop reads it.         *)
(***************************************************************************)
AnswersHold ==
    [][\A n \in Ask :
         /\ told'[n] = "yes" /\ told[n] # "yes" =>
               acted[n] # {} /\ nodes = {Head(toHelper).tree}
         /\ told[n] = "no" => acted'[n] = acted[n]]_vars

(***************************************************************************)
(* A caller waits exactly as long as its request has a timer: a request    *)
(* that leaves `pending`, refused, answered, late or with the helper, has  *)
(* been answered, and one that has been answered is not waited for.        *)
(***************************************************************************)
NobodyForgotten == \A n \in 1..asks : told[n] = "" <=> n \in pending

(***************************************************************************)
(* A call of the bus is answered once: a reply of the desktop and the      *)
(* timer of the request, in whichever order they come, do not both answer. *)
(***************************************************************************)
AnsweredOnce == [][\A n \in Ask : told[n] # "" => told'[n] = told[n]]_vars

(***************************************************************************)
(* Every request of a screen reader is answered, or the helper is gone.    *)
(***************************************************************************)
AllAnswered == \A n \in Ask : (asks >= n) ~> told[n] # ""
=============================================================================
