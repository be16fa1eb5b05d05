---------------------- MODULE AccessibilityBridge_proofs ----------------------
(***************************************************************************)
(* Proofs about AccessibilityBridge, for any windows, lists, timeouts and  *)
(* bounds: its types, and that ActsOnNamed, AnswersHold, NobodyForgotten   *)
(* and AnsweredOnce hold.  The inductive invariant says what is on the     *)
(* socket: a request is the one that its number was given to and names one *)
(* item; a reply comes after its request was read, and behind the tree     *)
(* that goes with it.                                                      *)
(***************************************************************************)
EXTENDS AccessibilityBridge, FiniteSetTheorems, TLAPS

\* A request names one item, and a place of it, or just a window.
Names(r) ==
    /\ r.kind = "close" => r.of = {} /\ r.owner \in Window
    /\ r.kind # "close" => \E k \in Key : r.of = {k}

RequestsOK ==
    /\ \A p \in 1..Len(toDesk) :
          /\ toDesk[p].ask <= asks /\ asked[toDesk[p].ask] = {toDesk[p]}
          /\ Names(toDesk[p])
          /\ \A q \in 1..Len(toDesk) : toDesk[p].ask = toDesk[q].ask => p = q
    /\ \A n \in Ask : n > asks => asked[n] = {} /\ told[n] = "" /\ n \notin pending

Absent(q, n) == \A p \in 1..Len(q) : q[p].ask # n

\* A reply is for a request that was read, and a refusal for one that was, or
\* that will be found too late.
RepliesOK ==
    /\ \A p \in 1..Len(toHelper) : toHelper[p].ask # 0 =>
          /\ toHelper[p].ask <= asks /\ Absent(toDesk, toHelper[p].ask)
          /\ toHelper[p].yes => acted[toHelper[p].ask] # {}
    /\ \A n \in Ask : told[n] = "no" => Absent(toDesk, n) \/ age[n] > Deadline

\* The tree that the helper has once it has read q up to p, offering b now.
Latest(q, b, p, s) ==
    \/ \E j \in 1..(p - 1) :
          /\ q[j].ask = 0 /\ q[j].tree = s
          /\ \A i \in (j + 1)..(p - 1) : q[i].ask # 0
    \/ b = {s} /\ \A i \in 1..(p - 1) : q[i].ask # 0

TreesOK ==
    helper = "alive" =>
       /\ \A p \in 1..Len(toHelper) : toHelper[p].ask # 0 =>
             Latest(toHelper, nodes, p, toHelper[p].tree)
       /\ \A s \in last : Latest(toHelper, nodes, Len(toHelper) + 1, s)

IInv ==
    /\ TypeOK /\ RequestsOK /\ ActsOnNamed /\ RepliesOK /\ TreesOK
    /\ IsFiniteSet(pending)

-----------------------------------------------------------------------------
(***************************************************************************)
(* What the helper has read last                                           *)
(***************************************************************************)
LEMMA LatestStays ==
    ASSUME NEW q \in Seq(Message), NEW m \in Message, NEW b, NEW s,
           NEW p \in 1..(Len(q) + 1), Latest(q, b, p, s)
    PROVE  Latest(Append(q, m), b, p, s)
<1>1. \A i \in 1..(p - 1) : Append(q, m)[i] = q[i]
  OBVIOUS
<1>2. \A j \in 1..(p - 1) : \A i \in (j + 1)..(p - 1) : i \in 1..(p - 1)
  OBVIOUS
<1> QED
  BY <1>1, <1>2 DEF Latest

LEMMA LatestTree ==
    ASSUME NEW q \in Seq(Message), NEW m \in Message, m.ask = 0, NEW b
    PROVE  Latest(Append(q, m), b, Len(q) + 2, m.tree)
<1>1. Len(q) + 1 \in 1..(Len(q) + 1) /\ Append(q, m)[Len(q) + 1] = m
  OBVIOUS
<1>2. \A i \in (Len(q) + 2)..(Len(q) + 1) : Append(q, m)[i].ask # 0
  OBVIOUS
<1> QED
  BY <1>1, <1>2 DEF Latest

LEMMA LatestReply ==
    ASSUME NEW q \in Seq(Message), NEW m \in Message, m.ask # 0, NEW b, NEW s,
           Latest(q, b, Len(q) + 1, s)
    PROVE  Latest(Append(q, m), b, Len(q) + 2, s)
<1>1. /\ \A i \in 1..Len(q) : Append(q, m)[i] = q[i]
      /\ Append(q, m)[Len(q) + 1] = m /\ Len(q) \in Nat
  OBVIOUS
<1>2. \A i \in 1..(Len(q) + 1) : i \in 1..Len(q) \/ i = Len(q) + 1
  BY <1>1
<1>3. CASE \E j \in 1..Len(q) :
              /\ q[j].ask = 0 /\ q[j].tree = s
              /\ \A i \in (j + 1)..Len(q) : q[i].ask # 0
  <2>1. PICK j \in 1..Len(q) :
              /\ q[j].ask = 0 /\ q[j].tree = s
              /\ \A i \in (j + 1)..Len(q) : q[i].ask # 0
    BY <1>3
  <2>2. /\ j \in 1..(Len(q) + 1)
        /\ \A i \in (j + 1)..(Len(q) + 1) : i \in (j + 1)..Len(q) \/ i = Len(q) + 1
        /\ \A i \in (j + 1)..Len(q) : i \in 1..Len(q)
    BY <1>1
  <2>3. \A i \in (j + 1)..(Len(q) + 1) : Append(q, m)[i].ask # 0
    BY <1>1, <2>1, <2>2
  <2>4. Append(q, m)[j].ask = 0 /\ Append(q, m)[j].tree = s
    BY <1>1, <2>1
  <2>5. (Len(q) + 2) - 1 = Len(q) + 1
    BY <1>1
  <2> QED
    BY <2>2, <2>3, <2>4, <2>5 DEF Latest
<1>4. CASE b = {s} /\ \A i \in 1..Len(q) : q[i].ask # 0
  <2>1. \A i \in 1..(Len(q) + 1) : Append(q, m)[i].ask # 0
    BY <1>1, <1>2, <1>4
  <2>2. (Len(q) + 2) - 1 = Len(q) + 1
    BY <1>1
  <2> QED
    BY <1>4, <2>1, <2>2 DEF Latest
<1>5. (Len(q) + 1) - 1 = Len(q)
  BY <1>1
<1> QED
  BY <1>3, <1>4, <1>5 DEF Latest

\* One message is read.
Reading(b, m) == IF m.ask = 0 THEN {m.tree} ELSE b

LEMMA LatestRead ==
    ASSUME NEW q \in Seq(Message), q # <<>>, NEW b, NEW s,
           NEW p \in 2..(Len(q) + 1), Latest(q, b, p, s)
    PROVE  Latest(Tail(q), Reading(b, Head(q)), p - 1, s)
<1>1. /\ \A i \in 1..(p - 2) : Tail(q)[i] = q[i + 1]
      /\ Head(q) = q[1] /\ Len(q) \in Nat /\ p \in Nat
  OBVIOUS
<1>2. (p - 1) - 1 = p - 2
  BY <1>1
<1>3. CASE \E j \in 1..(p - 1) :
              /\ q[j].ask = 0 /\ q[j].tree = s
              /\ \A i \in (j + 1)..(p - 1) : q[i].ask # 0
  <2>1. PICK j \in 1..(p - 1) :
              /\ q[j].ask = 0 /\ q[j].tree = s
              /\ \A i \in (j + 1)..(p - 1) : q[i].ask # 0
    BY <1>3
  <2>2. CASE j = 1
    <3>1. \A i \in 1..(p - 2) : i + 1 \in 2..(p - 1)
      BY <1>1
    <3>2. \A i \in 1..(p - 2) : Tail(q)[i].ask # 0
      BY <1>1, <2>1, <2>2, <3>1
    <3>3. Reading(b, Head(q)) = {s}
      BY <1>1, <2>1, <2>2 DEF Reading
    <3> QED
      BY <1>2, <3>2, <3>3 DEF Latest
  <2>3. CASE j # 1
    <3>1. /\ j - 1 \in 1..(p - 2) /\ (j - 1) + 1 = j
          /\ \A i \in j..(p - 2) : i \in 1..(p - 2) /\ i + 1 \in (j + 1)..(p - 1)
      BY <1>1, <2>3
    <3>2. \A i \in j..(p - 2) : Tail(q)[i].ask # 0
      BY <1>1, <2>1, <3>1
    <3>3. Tail(q)[j - 1] = q[j]
      BY <1>1, <3>1
    <3> QED
      BY <1>2, <2>1, <3>1, <3>2, <3>3 DEF Latest
  <2> QED
    BY <2>2, <2>3
<1>4. CASE b = {s} /\ \A i \in 1..(p - 1) : q[i].ask # 0
  <2>1. 1 \in 1..(p - 1) /\ \A i \in 1..(p - 2) : i + 1 \in 1..(p - 1)
    BY <1>1
  <2>2. \A i \in 1..(p - 2) : Tail(q)[i].ask # 0
    BY <1>1, <1>4, <2>1
  <2>3. Reading(b, Head(q)) = {s}
    BY <1>1, <1>4, <2>1 DEF Reading
  <2> QED
    BY <1>2, <2>2, <2>3 DEF Latest
<1> QED
  BY <1>3, <1>4 DEF Latest

LEMMA LatestNow == ASSUME NEW q, NEW b, NEW s PROVE Latest(q, b, 1, s) <=> b = {s}
BY DEF Latest

(***************************************************************************)
(* The desktop and its tree                                                *)
(***************************************************************************)
LEMMA WithoutType ==
    ASSUME NEW windows \in Seq(Window), NEW v, Among(v, windows)
    PROVE  Without(windows, v) \in Seq(Window)
<1> DEFINE p == CHOOSE q \in DOMAIN windows : windows[q] = v
<1>1. p \in DOMAIN windows /\ DOMAIN windows = 1..Len(windows) /\ Len(windows) \in Nat
  BY DEF Among
<1> HIDE DEF p
<1>2. /\ SubSeq(windows, 1, p - 1) \in Seq(Window)
      /\ SubSeq(windows, p + 1, Len(windows)) \in Seq(Window)
  BY <1>1
<1>3. Without(windows, v) = SubSeq(windows, 1, p - 1) \o SubSeq(windows, p + 1, Len(windows))
  BY DEF Without, p
<1> QED
  BY <1>2, <1>3

LEMMA RaisedType ==
    ASSUME NEW u \in UI, NEW o \in Shown(u.windows) PROVE Raised(u, o) \in UI
<1>1. CASE o = Desktop
  BY <1>1 DEF Raised
<1>2. CASE o # Desktop
  <2>1. o \in Window /\ Among(o, u.windows) /\ u.windows \in Seq(Window)
    BY <1>2 DEF Shown, Owner, UI
  <2>2. Append(Without(u.windows, o), o) \in Seq(Window)
    BY <2>1, WithoutType
  <2> QED
    BY <1>2, <2>2 DEF Raised, UI
<1> QED
  BY <1>1, <1>2

LEMMA ClosedType ==
    ASSUME NEW u \in UI, NEW o \in Shown(u.windows), o # Desktop PROVE Closed(u, o) \in UI
<1>1. Without(u.windows, o) \in Seq(Window)
  BY WithoutType DEF Shown, UI
<1> QED
  BY <1>1 DEF Closed, UI

LEMMA ChangedType == ASSUME NEW u \in UI PROVE Changed(u) \subseteq UI
<1>1. [u EXCEPT !.foreground = ~@] \in UI
  BY DEF UI
<1>2. ASSUME NEW v \in Window, NEW l \in Lists PROVE Opened(u, v, l) \in UI
  <2>1. /\ Append(u.windows, v) \in Seq(Window) /\ u.opened \cup {v} \subseteq Window
        /\ l \in Seq(Item)
    BY ConstantsOK DEF UI
  <2>2. [u.items EXCEPT ![v] = l] \in [Owner -> Seq(Item)]
    BY <2>1 DEF UI
  <2>3. Opened(u, v, l) = [u EXCEPT !.windows = Append(u.windows, v),
            !.opened = u.opened \cup {v}, !.items = [u.items EXCEPT ![v] = l]]
    BY DEF Opened
  <2> QED
    BY <2>1, <2>2, <2>3 DEF UI
<1>3. ASSUME NEW o \in Owner, NEW l \in Lists PROVE [u EXCEPT !.items[o] = l] \in UI
  <2>1. [u.items EXCEPT ![o] = l] \in [Owner -> Seq(Item)]
    BY ConstantsOK DEF UI
  <2> QED
    BY <2>1 DEF UI
<1>4. Shown(u.windows) \subseteq Owner
  BY DEF Shown
<1> QED
  BY <1>1, <1>2, <1>3, <1>4, RaisedType, ClosedType DEF Changed

LEMMA ChangesType ==
    ASSUME NEW u \in UI, changes \in 0..MaxChanges, Changes(u)
    PROVE  ui' \in UI /\ changes' \in 0..MaxChanges
BY ChangedType, ConstantsOK DEF Changes

LEMMA FunctionIsSeq ==
    ASSUME NEW S, NEW n \in Nat, NEW f \in [1..n -> S] PROVE f \in Seq(S)
OBVIOUS

LEMMA KeyFacts ==
    ASSUME NEW o \in Owner, NEW i \in Item, NEW g \in Nat, NEW k, k = <<o, i, g>>
    PROVE  k \in Key /\ k[2] = i
BY DEF Key

(* What Tree.build shows is what the lists show at the time.               *)
LEMMA BuiltFacts ==
    ASSUME NEW t \in Tree, NEW u \in UI
    PROVE  /\ Built(t, u) \in Tree
           /\ \A o \in Owner : \A p \in DOMAIN Built(t, u).lists[o] :
                 /\ p \in 1..Len(u.items[o])
                 /\ Built(t, u).lists[o][p][2] = u.items[o][p]
<1> DEFINE gen == [o \in Owner |-> [i \in Item |->
                   IF o \in Shown(u.windows) /\ Among(i, u.items[o]) /\ ~Keeps(t, o, i)
                   THEN t.gen[o][i] + 1 ELSE t.gen[o][i]]]
           list(o) == [p \in DOMAIN u.items[o] |->
                           <<o, u.items[o][p], gen[o][u.items[o][p]]>>]
           lists == [o \in Owner |-> IF o \in Shown(u.windows) THEN list(o) ELSE <<>>]
<1>1. gen \in [Owner -> [Item -> Nat]]
  BY DEF Tree
<1>2. Built(t, u) = [lists |-> lists, gen |-> gen]
  BY DEF Built
<1> HIDE DEF gen
<1>3. ASSUME NEW o \in Owner
      PROVE  /\ u.items[o] \in Seq(Item) /\ DOMAIN u.items[o] = 1..Len(u.items[o])
             /\ \A p \in 1..Len(u.items[o]) : list(o)[p] \in Key /\ list(o)[p][2] = u.items[o][p]
  <2>1. u.items[o] \in Seq(Item)
    BY DEF UI
  <2>2. \A p \in 1..Len(u.items[o]) : u.items[o][p] \in Item
    BY <2>1
  <2>3. DOMAIN u.items[o] = 1..Len(u.items[o])
    BY <2>1
  <2>4. ASSUME NEW p \in 1..Len(u.items[o])
        PROVE  list(o)[p] \in Key /\ list(o)[p][2] = u.items[o][p]
    <3>1. list(o)[p] = <<o, u.items[o][p], gen[o][u.items[o][p]]>>
      BY <2>3
    <3>2. gen[o][u.items[o][p]] \in Nat
      BY <1>1, <2>2
    <3> HIDE DEF list
    <3> QED
      BY <2>2, <3>1, <3>2, KeyFacts
  <2> QED
    BY <2>1, <2>3, <2>4
<1>4. ASSUME NEW o \in Owner PROVE list(o) \in Seq(Key)
  <2>1. u.items[o] \in Seq(Item) /\ Len(u.items[o]) \in Nat
    BY <1>3
  <2>2. list(o) \in [1..Len(u.items[o]) -> Key]
    BY <1>3
  <2> HIDE DEF list
  <2> QED
    BY <2>1, <2>2, FunctionIsSeq
<1>5. ASSUME NEW o \in Owner, NEW p \in DOMAIN lists[o]
      PROVE  p \in 1..Len(u.items[o]) /\ lists[o][p][2] = u.items[o][p]
  <2>1. lists[o] = IF o \in Shown(u.windows) THEN list(o) ELSE <<>>
    OBVIOUS
  <2>2. DOMAIN <<>> = {} /\ DOMAIN list(o) = 1..Len(u.items[o])
    BY <1>3
  <2>3. lists[o] = list(o) /\ p \in 1..Len(u.items[o])
    BY <2>1, <2>2
  <2>4. list(o)[p][2] = u.items[o][p]
    BY <1>3, <2>3
  <2> HIDE DEF list, lists
  <2> QED
    BY <2>3, <2>4
<1>6. lists \in [Owner -> Seq(Key)]
  BY <1>4
<1> HIDE DEF lists
<1> QED
  BY <1>1, <1>2, <1>5, <1>6 DEF Tree

LEMMA SeenType ==
    ASSUME NEW t \in Tree, NEW u \in UI PROVE Seen(t, u) \in Snapshot
BY DEF Seen, Tree, UI, Snapshot

(* Controller.publish: what it puts on the socket, and where.              *)
LEMMA SentFacts ==
    ASSUME IInv, ui' \in UI, NEW n \in Ask \cup {0}, NEW yes \in BOOLEAN, NEW t \in Tree,
           Published(t, n, yes), nodes' = nodes, helper' = helper,
           n # 0 => n <= asks
    PROVE  /\ tree' \in Tree /\ last' \subseteq Snapshot /\ toHelper' \in Seq(Message)
           /\ TreesOK'
           /\ \A p \in 1..Len(toHelper') : toHelper'[p].ask # 0 =>
                 \/ toHelper'[p].ask = n /\ toHelper'[p].yes = yes
                 \/ \E q \in 1..Len(toHelper) : toHelper'[p] = toHelper[q]
<1> DEFINE now == Built(t, ui')
           s == Seen(now, ui')
           tr == [ask |-> 0, yes |-> FALSE, tree |-> s]
           re == [ask |-> n, yes |-> yes, tree |-> s]
           q == IF last = {s} THEN toHelper ELSE Append(toHelper, tr)
<1>1. /\ tree' = now /\ last' = {s}
      /\ toHelper' = IF helper = "dead" THEN <<>> ELSE IF n = 0 THEN q ELSE Append(q, re)
  BY DEF Published, Sent
<1>2. now \in Tree /\ s \in Snapshot
  BY BuiltFacts, SeenType
<1> HIDE DEF now
<1> HIDE DEF s
<1>3. tr \in Message /\ re \in Message /\ toHelper \in Seq(Message)
      /\ tr.ask = 0 /\ tr.tree = s /\ re.ask = n /\ re.yes = yes /\ re.tree = s
  BY <1>2 DEF Message, IInv, TypeOK
<1> HIDE DEF tr, re
<1>4. q \in Seq(Message) /\ Len(q) \in Nat
  BY <1>3
<1>5. \A p \in 1..Len(q) : q[p].ask # 0 =>
         p \in 1..Len(toHelper) /\ q[p] = toHelper[p]
  BY <1>3
<1>6. ASSUME helper = "alive"
      PROVE  /\ Latest(q, nodes, Len(q) + 1, s)
             /\ \A p \in 1..Len(q) : q[p].ask # 0 => Latest(q, nodes, p, q[p].tree)
  <2>1. TreesOK
    BY DEF IInv
  <2>2. CASE last = {s}
    BY <1>6, <2>1, <2>2 DEF TreesOK
  <2>3. CASE last # {s}
    <3>1. q = Append(toHelper, tr) /\ Len(q) + 1 = Len(toHelper) + 2
      BY <1>3, <2>3
    <3>2. Latest(q, nodes, Len(q) + 1, s)
      BY <1>3, <3>1, LatestTree
    <3>3. ASSUME NEW p \in 1..Len(q), q[p].ask # 0 PROVE Latest(q, nodes, p, q[p].tree)
      <4>1. p \in 1..Len(toHelper) /\ q[p] = toHelper[p] /\ p \in 1..(Len(toHelper) + 1)
        BY <1>3, <1>5, <3>3
      <4>2. Latest(toHelper, nodes, p, q[p].tree)
        BY <1>6, <2>1, <3>3, <4>1 DEF TreesOK
      <4> QED
        BY <1>3, <3>1, <4>1, <4>2, LatestStays
    <3> QED
      BY <3>2, <3>3
  <2> QED
    BY <2>2, <2>3
<1> HIDE DEF q
<1>7. CASE helper = "dead"
  BY <1>1, <1>2, <1>7 DEF TreesOK
<1>8. CASE helper = "alive" /\ n = 0
  <2>1. toHelper' = q
    BY <1>1, <1>8
  <2>2. TreesOK'
    BY <1>1, <1>6, <1>8, <2>1 DEF TreesOK
  <2> QED
    BY <1>1, <1>2, <1>4, <1>5, <2>1, <2>2
<1>9. CASE helper = "alive" /\ n # 0
  <2>1. /\ toHelper' = Append(q, re) /\ toHelper' \in Seq(Message)
        /\ Len(toHelper') = Len(q) + 1 /\ toHelper'[Len(q) + 1] = re
        /\ \A p \in 1..Len(q) : toHelper'[p] = q[p]
        /\ \A p \in 1..Len(toHelper') : p \in 1..Len(q) \/ p = Len(q) + 1
    BY <1>1, <1>3, <1>4, <1>9
  <2>2. Latest(toHelper', nodes, Len(q) + 2, s)
    BY <1>3, <1>4, <1>6, <1>9, <2>1, LatestReply
  <2>3. ASSUME NEW p \in 1..Len(toHelper'), toHelper'[p].ask # 0
        PROVE  Latest(toHelper', nodes, p, toHelper'[p].tree)
    <3>1. CASE p \in 1..Len(q)
      <4>1. Latest(q, nodes, p, q[p].tree) /\ p \in 1..(Len(q) + 1)
        BY <1>4, <1>6, <1>9, <2>1, <2>3, <3>1
      <4> QED
        BY <1>3, <1>4, <2>1, <3>1, <4>1, LatestStays
    <3>2. CASE p = Len(q) + 1
      <4>1. Latest(q, nodes, p, s) /\ p \in 1..(Len(q) + 1)
        BY <1>4, <1>6, <1>9, <3>2
      <4> QED
        BY <1>3, <1>4, <2>1, <3>2, <4>1, LatestStays
    <3> QED
      BY <2>1, <3>1, <3>2
  <2>4. TreesOK'
    <3>1. Len(toHelper') + 1 = Len(q) + 2
      BY <1>4, <2>1
    <3> QED
      BY <1>1, <2>2, <2>3, <3>1 DEF TreesOK
  <2>5. ASSUME NEW p \in 1..Len(toHelper'), toHelper'[p].ask # 0
        PROVE  \/ toHelper'[p].ask = n /\ toHelper'[p].yes = yes
               \/ \E j \in 1..Len(toHelper) : toHelper'[p] = toHelper[j]
    BY <1>3, <1>5, <2>1, <2>5
  <2> QED
    BY <1>1, <1>2, <2>1, <2>4, <2>5
<1>10. helper = "dead" \/ helper = "alive"
  BY DEF IInv, TypeOK
<1> QED
  BY <1>7, <1>8, <1>9, <1>10

(***************************************************************************)
(* What the desktop reads                                                  *)
(***************************************************************************)
LEMMA Typed ==
    ASSUME IInv
    PROVE  /\ ui \in UI /\ changes \in 0..MaxChanges /\ MaxChanges \in Nat
           /\ tree \in Tree /\ last \subseteq Snapshot /\ nodes \subseteq Snapshot
BY ConstantsOK DEF IInv, TypeOK

LEMMA TypedSocket ==
    ASSUME IInv
    PROVE  /\ toHelper \in Seq(Message) /\ Len(toHelper) \in Nat
           /\ toDesk \in Seq(Request) /\ Len(toDesk) \in Nat
<1>1. toDesk \in Seq(Request) /\ toHelper \in Seq(Message)
  BY DEF IInv, TypeOK
<1> QED
  BY <1>1

LEMMA Numbers ==
    ASSUME IInv
    PROVE  /\ asks \in Nat /\ MaxAsks \in Nat /\ asks <= MaxAsks
           /\ \A n : n \in Ask <=> n \in Nat /\ 1 <= n /\ n <= MaxAsks
<1>1. asks \in 0..MaxAsks /\ MaxAsks \in Nat
  BY ConstantsOK DEF IInv, TypeOK
<1> QED
  BY <1>1 DEF Ask

LEMMA TypedAsks ==
    ASSUME IInv
    PROVE  /\ pending \subseteq Ask /\ age \in [Ask -> 0..Timeout]
           /\ told \in [Ask -> {"", "yes", "no", "gone"}]
           /\ asked \in [Ask -> SUBSET Request] /\ acted \in [Ask -> SUBSET Deed]
           /\ Timeout \in Nat /\ Deadline \in Nat /\ Deadline < Timeout
BY ConstantsOK DEF IInv, TypeOK

(* Requests are taken from the front of the queue, and no others appear.   *)
LEMMA FewerRequests ==
    ASSUME IInv, NEW k \in Nat, toDesk' \in Seq(Request),
           Len(toDesk') + k = Len(toDesk),
           \A p \in 1..Len(toDesk') : toDesk'[p] = toDesk[p + k],
           UNCHANGED <<asks, asked>>,
           \A n \in Ask : n > asks => told'[n] = told[n] /\ (n \in pending' => n \in pending)
    PROVE  /\ RequestsOK'
           /\ \A n \in Ask : Absent(toDesk, n) => Absent(toDesk', n)
           /\ k > 0 => \A n \in Ask : n = Head(toDesk).ask => Absent(toDesk', n)
<1>0. Len(toDesk) \in Nat /\ Len(toDesk') \in Nat
  BY TypedSocket
<1>1. \A p \in 1..Len(toDesk') : p + k \in 1..Len(toDesk) /\ (k > 0 => p + k # 1)
  BY <1>0
<1>2. \A p, q \in 1..Len(toDesk') : p + k = q + k => p = q
  BY <1>0
<1>3. RequestsOK
  BY DEF IInv
<1>4. RequestsOK'
  <2>1. ASSUME NEW p \in 1..Len(toDesk')
        PROVE  /\ toDesk'[p].ask <= asks' /\ asked'[toDesk'[p].ask] = {toDesk'[p]}
               /\ Names(toDesk'[p])
    <3>1. p + k \in 1..Len(toDesk) /\ toDesk'[p] = toDesk[p + k]
      BY <1>1
    <3>2. /\ toDesk[p + k].ask <= asks /\ asked[toDesk[p + k].ask] = {toDesk[p + k]}
          /\ Names(toDesk[p + k])
      BY <1>3, <3>1 DEF RequestsOK
    <3> QED
      BY <3>1, <3>2
  <2>2. ASSUME NEW p \in 1..Len(toDesk'), NEW q \in 1..Len(toDesk'),
               toDesk'[p].ask = toDesk'[q].ask
        PROVE  p = q
    <3>1. /\ p + k \in 1..Len(toDesk) /\ toDesk'[p] = toDesk[p + k]
          /\ q + k \in 1..Len(toDesk) /\ toDesk'[q] = toDesk[q + k]
      BY <1>1
    <3>2. p + k = q + k
      BY <1>3, <2>2, <3>1 DEF RequestsOK
    <3> QED
      BY <1>2, <3>2
  <2>3. \A n \in Ask : n > asks' => asked'[n] = {} /\ told'[n] = "" /\ n \notin pending'
    BY <1>3 DEF RequestsOK
  <2> QED
    BY <2>1, <2>2, <2>3 DEF RequestsOK, Names
<1>5. \A n \in Ask : Absent(toDesk, n) => Absent(toDesk', n)
  BY <1>1 DEF Absent
<1>6. ASSUME k > 0, NEW n \in Ask, n = Head(toDesk).ask PROVE Absent(toDesk', n)
  <2>1. k > 0 /\ Len(toDesk) > 0
    BY <1>0, <1>6
  <2>2. Head(toDesk) = toDesk[1] /\ 1 \in 1..Len(toDesk)
    BY <2>1, TypedSocket
  <2>3. ASSUME NEW p \in 1..Len(toDesk') PROVE toDesk'[p].ask # Head(toDesk).ask
    <3>1. p + k \in 1..Len(toDesk) /\ toDesk'[p] = toDesk[p + k] /\ p + k # 1
      BY <1>1, <1>6
    <3> QED
      BY <1>3, <2>2, <3>1 DEF RequestsOK
  <2> QED
    BY <1>6, <2>3 DEF Absent
<1> QED
  BY <1>4, <1>5, <1>6

LEMMA HeadFacts ==
    ASSUME IInv, toDesk # <<>>
    PROVE  /\ Head(toDesk) \in Request /\ Head(toDesk).ask \in Ask
           /\ Head(toDesk).ask <= asks /\ Names(Head(toDesk))
           /\ asked[Head(toDesk).ask] = {Head(toDesk)}
           /\ ~Absent(toDesk, Head(toDesk).ask)
<1>1. Head(toDesk) = toDesk[1] /\ 1 \in 1..Len(toDesk) /\ toDesk[1] \in Request
  BY TypedSocket
<1> QED
  BY <1>1 DEF IInv, RequestsOK, Request, Absent

LEMMA TailFacts ==
    ASSUME IInv, toDesk # <<>>
    PROVE  /\ Tail(toDesk) \in Seq(Request) /\ Len(Tail(toDesk)) + 1 = Len(toDesk)
           /\ \A p \in 1..Len(Tail(toDesk)) : Tail(toDesk)[p] = toDesk[p + 1]
BY TypedSocket

(* What is done for a request is done to what it names.                    *)
LEMMA DoneFacts ==
    ASSUME IInv, NEW r \in Request, asked[r.ask] = {r}, Names(r),
           Handled(Built(tree, ui), ui, r), acted' = Done(Built(tree, ui), ui, r),
           asked' = asked
    PROVE  /\ acted' \in [Ask -> SUBSET Deed] /\ ActsOnNamed'
           /\ acted'[r.ask] # {} /\ \A n \in Ask : acted[n] \subseteq acted'[n]
           /\ \A n \in Ask : n # r.ask => acted'[n] = acted[n]
<1> DEFINE t == Built(tree, ui)
           d == [on |-> Found(t, ui, r), owner |-> r.owner,
                 free |-> ~Behind(ui.windows, r.owner), foreground |-> ui.foreground]
<1>1. /\ r.ask \in Ask /\ r.owner \in Owner /\ r.at \in Nat
      /\ r.kind \in {"activate", "select", "close"}
  BY DEF Request
<1>2. \A p \in Places(t, r) : /\ t.lists[r.owner][p] \in r.of
                              /\ t.lists[r.owner][p][2] = ui.items[r.owner][p]
  BY <1>1, BuiltFacts, Typed DEF Places
<1>3. Handled(t, ui, r)
  OBVIOUS
<1> HIDE DEF t
<1>5. Found(t, ui, r) = {k[2] : k \in r.of}
  <2>1. CASE r.kind # "close"
    <3>1. PICK k \in Key : r.of = {k}
      BY <2>1 DEF Names
    <3>2. \A p \in Places(t, r) : ui.items[r.owner][p] = k[2]
      BY <1>2, <3>1
    <3>3. CASE r.kind = "activate"
      <4>1. Found(t, ui, r) = {ui.items[r.owner][p] : p \in Places(t, r)}
        BY <3>3 DEF Found
      <4>2. Places(t, r) # {}
        BY <1>3, <3>3 DEF Handled
      <4>3. Found(t, ui, r) = {k[2]}
        BY <3>2, <4>1, <4>2
      <4> QED
        BY <3>1, <4>3
    <3>4. CASE r.kind = "select"
      <4>1. Found(t, ui, r) = {ui.items[r.owner][p] : p \in {r.at}}
        BY <3>4 DEF Found
      <4>2. r.at \in Places(t, r)
        BY <1>3, <3>4 DEF Handled
      <4>3. Found(t, ui, r) = {k[2]}
        BY <3>2, <4>1, <4>2
      <4> QED
        BY <3>1, <4>3
    <3> QED
      BY <1>1, <2>1, <3>3, <3>4
  <2>2. CASE r.kind = "close"
    BY <2>2 DEF Found, Names
  <2> QED
    BY <2>1, <2>2
<1>6. d.on = {k[2] : k \in r.of} /\ d.owner = r.owner /\ d.foreground
      /\ (d.free \/ (r.kind = "select" /\ r.owner = Desktop))
  BY <1>3, <1>5 DEF Handled, Allowed
<1>7. d \in Deed
  <2>1. \A k \in r.of : k[2] \in Item
    BY DEF Request, Key
  <2>2. ui.foreground \in BOOLEAN /\ Behind(ui.windows, r.owner) \in BOOLEAN
    BY Typed DEF UI, Behind
  <2>3. Found(t, ui, r) \in SUBSET Item
    BY <1>5, <2>1
  <2> QED
    BY <1>1, <2>2, <2>3 DEF Deed
<1>8. acted' = [acted EXCEPT ![r.ask] = @ \cup {d}]
  BY DEF Done, t
<1> HIDE DEF d
<1>9. /\ acted' \in [Ask -> SUBSET Deed] /\ acted'[r.ask] = acted[r.ask] \cup {d}
      /\ \A n \in Ask : n # r.ask => acted'[n] = acted[n]
  <2>1. acted \in [Ask -> SUBSET Deed] /\ acted[r.ask] \cup {d} \in SUBSET Deed
    BY <1>1, <1>7, TypedAsks
  <2> QED
    BY <1>1, <1>8, <2>1
<1>10. ActsOnNamed'
  <2>1. ASSUME NEW n \in Ask, NEW e \in acted'[n]
        PROVE  \E x \in asked[n] :
                  /\ e.owner = x.owner /\ e.on = {k[2] : k \in x.of} /\ e.foreground
                  /\ e.free \/ (x.kind = "select" /\ x.owner = Desktop)
    <3>1. CASE e \in acted[n]
      BY <3>1 DEF IInv, ActsOnNamed
    <3>2. CASE e \notin acted[n]
      <4>1. n = r.ask /\ e = d
        BY <1>9, <2>1, <3>2
      <4> QED
        BY <1>6, <4>1
    <3> QED
      BY <3>1, <3>2
  <2> QED
    BY <2>1 DEF ActsOnNamed
<1> QED
  BY <1>9, <1>10

LEMMA CarriedType ==
    ASSUME IInv, NEW r \in Request, r.owner \in Shown(ui.windows), Carried(r),
           r.kind = "close" => r.owner # Desktop
    PROVE  ui' \in UI /\ changes' \in 0..MaxChanges
BY Typed, RaisedType, ClosedType, ChangesType DEF Carried

(***************************************************************************)
(* The steps of the desktop                                                *)
(***************************************************************************)
\* The requests and the answers stay as they are.
LEMMA NothingAsked ==
    ASSUME IInv, UNCHANGED <<toDesk, asks, asked, told, pending>>
    PROVE  RequestsOK' /\ \A n \in Ask : Absent(toDesk, n) <=> Absent(toDesk', n)
BY DEF IInv, RequestsOK, Absent, Names

LEMMA InitInv == Init => IInv
<1> SUFFICES ASSUME Init PROVE IInv
  OBVIOUS
<1>1. ui \in UI
  <2>1. PICK s \in Startup :
          ui = [windows |-> s[1], opened |-> Shown(s[1]) \ {Desktop},
                items |-> [o \in Owner |-> IF o \in Shown(s[1]) THEN s[2] ELSE <<>>],
                foreground |-> s[3]]
    BY DEF Init
  <2>2. s[1] \in Seq(Window) /\ s[2] \in Seq(Item) /\ s[3] \in BOOLEAN
    BY ConstantsOK
  <2>3. Shown(s[1]) \ {Desktop} \subseteq Window
    BY DEF Shown, Owner
  <2> QED
    BY <2>1, <2>2, <2>3 DEF UI
<1>2. tree \in Tree
  <2>1. <<>> \in Seq(Key) /\ 0 \in Nat
    OBVIOUS
  <2>2. tree = [lists |-> [o \in Owner |-> <<>>],
                gen |-> [o \in Owner |-> [i \in Item |-> 0]]]
    BY DEF Init
  <2>3. [o \in Owner |-> <<>>] \in [Owner -> Seq(Key)]
    BY <2>1
  <2> QED
    BY <2>1, <2>2, <2>3 DEF Tree
<1>3. toHelper = <<>> /\ toDesk = <<>>
  BY DEF Init
<1>4. /\ toHelper \in Seq(Message) /\ Len(toHelper) = 0
      /\ toDesk \in Seq(Request) /\ Len(toDesk) = 0
  BY <1>3
<1>5. pending = {} /\ last = {} /\ nodes = {} /\ asks = 0 /\ changes = 0
  BY DEF Init
<1>6. bridge = "up" /\ helper = "alive"
  BY DEF Init
<1>7. /\ age = [n \in Ask |-> 0] /\ told = [n \in Ask |-> ""]
      /\ asked = [n \in Ask |-> {}] /\ acted = [n \in Ask |-> {}]
  BY DEF Init
<1>8. IsFiniteSet(pending) /\ Cardinality(pending) = 0
  BY <1>5, FS_EmptySet
<1>9. TypeOK
  <2>1. /\ age \in [Ask -> 0..Timeout] /\ told \in [Ask -> {"", "yes", "no", "gone"}]
        /\ asked \in [Ask -> SUBSET Request] /\ acted \in [Ask -> SUBSET Deed]
    <3>1. 0 \in 0..Timeout /\ {} \in SUBSET Request /\ {} \in SUBSET Deed
      BY ConstantsOK
    <3> QED
      BY <1>7, <3>1
  <2>2. Cardinality(pending) <= MaxPending /\ changes \in 0..MaxChanges /\ asks \in 0..MaxAsks
    BY <1>5, <1>8, ConstantsOK
  <2> QED
    BY <1>1, <1>2, <1>4, <1>5, <1>6, <2>1, <2>2 DEF TypeOK
<1>10. RequestsOK /\ ActsOnNamed
  <2>1. 1..Len(toDesk) = {}
    BY <1>4
  <2>2. \A n \in Ask : asked[n] = {} /\ told[n] = "" /\ acted[n] = {}
    BY <1>7
  <2> QED
    BY <1>5, <2>1, <2>2 DEF RequestsOK, ActsOnNamed
<1>11. RepliesOK
  <2>1. 1..Len(toHelper) = {}
    BY <1>4
  <2>2. \A n \in Ask : told[n] # "no"
    BY <1>7
  <2> QED
    BY <2>1, <2>2 DEF RepliesOK
<1>12. TreesOK
  BY <1>4, <1>5 DEF TreesOK
<1> QED
  BY <1>8, <1>9, <1>10, <1>11, <1>12 DEF IInv

LEMMA RestKeeps ==
    ASSUME IInv, UNCHANGED <<toHelper, toDesk, helper, nodes, last>>,
           UNCHANGED <<pending, age, told, asks, asked, acted>>, TypeOK'
    PROVE  IInv'
<1>1. RequestsOK' /\ \A n \in Ask : Absent(toDesk, n) <=> Absent(toDesk', n)
  BY NothingAsked
<1>2. ActsOnNamed'
  BY DEF IInv, ActsOnNamed
<1>3. RepliesOK'
  BY DEF IInv, RepliesOK, Absent
<1>4. TreesOK'
  BY DEF IInv, TreesOK
<1> QED
  BY <1>1, <1>2, <1>3, <1>4 DEF IInv

LEMMA StutterKeeps == ASSUME IInv, UNCHANGED vars PROVE IInv'
<1>1. UNCHANGED <<ui, changes, tree, last, bridge, toHelper, toDesk, helper, nodes,
                  pending, age, told, asks, asked, acted>>
  BY DEF vars, socket, service
<1>2. TypeOK'
  BY <1>1 DEF IInv, TypeOK
<1> QED
  BY <1>1, <1>2, RestKeeps

LEMMA DesktopChangesKeeps == ASSUME IInv, DesktopChanges PROVE IInv'
<1>1. UNCHANGED <<tree, last, bridge, toHelper, toDesk, helper, nodes,
                  pending, age, told, asks, asked, acted>>
  BY DEF DesktopChanges, socket, service
<1>2. ui' \in UI /\ changes' \in 0..MaxChanges
  BY Typed, ChangesType DEF DesktopChanges
<1>3. TypeOK'
  BY <1>1, <1>2 DEF IInv, TypeOK
<1> QED
  BY <1>1, <1>3, RestKeeps

LEMMA TickKeeps == ASSUME IInv, Tick PROVE IInv'
<1>1. UNCHANGED <<ui, changes, bridge, toDesk, helper, nodes,
                  pending, age, told, asks, asked, acted>> /\ Published(tree, 0, FALSE)
  BY DEF Tick, service
<1>2. ui' \in UI /\ tree \in Tree
  BY <1>1, Typed
<1>3. /\ tree' \in Tree /\ last' \subseteq Snapshot /\ toHelper' \in Seq(Message)
      /\ TreesOK'
      /\ \A p \in 1..Len(toHelper') : toHelper'[p].ask # 0 =>
            \E q \in 1..Len(toHelper) : toHelper'[p] = toHelper[q]
  BY <1>1, <1>2, SentFacts
<1>4. TypeOK'
  BY <1>1, <1>2, <1>3 DEF IInv, TypeOK
<1>5. RequestsOK' /\ \A n \in Ask : Absent(toDesk, n) <=> Absent(toDesk', n)
  BY <1>1, NothingAsked
<1>6. RepliesOK'
  <2>1. RepliesOK
    BY DEF IInv
  <2>2. ASSUME NEW p \in 1..Len(toHelper'), toHelper'[p].ask # 0
        PROVE  /\ toHelper'[p].ask <= asks /\ Absent(toDesk, toHelper'[p].ask)
               /\ toHelper'[p].yes => acted[toHelper'[p].ask] # {}
    <3>1. PICK q \in 1..Len(toHelper) : toHelper'[p] = toHelper[q]
      BY <1>3, <2>2
    <3> QED
      BY <2>1, <2>2, <3>1 DEF RepliesOK
  <2> QED
    BY <1>1, <2>1, <2>2 DEF RepliesOK
<1> QED
  BY <1>1, <1>3, <1>4, <1>5, <1>6 DEF IInv, ActsOnNamed

\* What a reply to n may say, when d has been done for it.
Backed(m, n, d) == m.ask = n /\ (m.yes => d # {})

(* A request is read, and what replies it gets comes after it.             *)
LEMMA ReadKeeps ==
    ASSUME IInv, toDesk # <<>>, TypeOK', TreesOK', ActsOnNamed',
           NEW k \in Nat \ {0}, Len(toDesk') + k = Len(toDesk),
           \A p \in 1..Len(toDesk') : toDesk'[p] = toDesk[p + k],
           UNCHANGED <<pending, age, told, asks, asked>>,
           \A n \in Ask : acted[n] \subseteq acted'[n],
           NEW r \in Ask, r = Head(toDesk).ask,
           \A p \in 1..Len(toHelper') : toHelper'[p].ask # 0 =>
              \/ Backed(toHelper'[p], r, acted'[r])
              \/ \E q \in 1..Len(toHelper) : toHelper'[p] = toHelper[q]
    PROVE  IInv'
<1>1. toDesk' \in Seq(Request) /\ toHelper' \in Seq(Message)
  BY DEF TypeOK
<1>2. /\ RequestsOK' /\ \A n \in Ask : Absent(toDesk, n) => Absent(toDesk', n)
      /\ \A n \in Ask : n = r => Absent(toDesk', n)
  <2>1. k \in Nat /\ k > 0 /\ told' = told /\ pending' = pending
    OBVIOUS
  <2> QED
    BY <1>1, <2>1, FewerRequests
<1>3. r \in Ask /\ r <= asks
  BY HeadFacts
<1>4. ASSUME NEW p \in 1..Len(toHelper'), toHelper'[p].ask # 0
      PROVE  /\ toHelper'[p].ask <= asks /\ Absent(toDesk', toHelper'[p].ask)
             /\ toHelper'[p].yes => acted'[toHelper'[p].ask] # {}
  <2>0. toHelper'[p] \in Message
    BY <1>1
  <2>1. toHelper'[p].ask \in Ask
    BY <1>4, <2>0 DEF Message
  <2>2. CASE Backed(toHelper'[p], r, acted'[r])
    BY <1>2, <1>3, <2>1, <2>2 DEF Backed
  <2>3. CASE \E q \in 1..Len(toHelper) : toHelper'[p] = toHelper[q]
    <3>1. PICK q \in 1..Len(toHelper) : toHelper'[p] = toHelper[q]
      BY <2>3
    <3>2. /\ toHelper[q].ask <= asks /\ Absent(toDesk, toHelper[q].ask)
          /\ toHelper[q].yes => acted[toHelper[q].ask] # {}
      BY <1>4, <3>1 DEF IInv, RepliesOK
    <3>3. acted[toHelper[q].ask] \subseteq acted'[toHelper[q].ask] /\ Absent(toDesk', toHelper'[p].ask)
      BY <1>2, <2>1, <3>1, <3>2
    <3> QED
      BY <3>1, <3>2, <3>3
  <2> QED
    BY <1>4, <2>2, <2>3
<1>5. RepliesOK'
  <2>1. \A n \in Ask : told'[n] = "no" => Absent(toDesk', n) \/ age'[n] > Deadline
    BY <1>2 DEF IInv, RepliesOK
  <2>2. \A p \in 1..Len(toHelper') : toHelper'[p].ask # 0 =>
           /\ toHelper'[p].ask <= asks' /\ Absent(toDesk', toHelper'[p].ask)
           /\ toHelper'[p].yes => acted'[toHelper'[p].ask] # {}
    BY <1>4
  <2> QED
    BY <2>1, <2>2 DEF RepliesOK
<1> QED
  BY <1>2, <1>5 DEF IInv

LEMMA RefuseKeeps ==
    ASSUME IInv, toDesk # <<>>, UNCHANGED service, Refuse(Head(toDesk)) PROVE IInv'
<1>1. /\ UNCHANGED <<ui, changes, bridge, helper, nodes, pending, age, told, asks, asked, acted>>
      /\ Published(Built(tree, ui), Head(toDesk).ask, FALSE) /\ toDesk' = Tail(toDesk)
  BY DEF Refuse, service
<1>2. PICK k \in Nat \ {0} :
        /\ toDesk' \in Seq(Request) /\ Len(toDesk') + k = Len(toDesk)
        /\ \A p \in 1..Len(toDesk') : toDesk'[p] = toDesk[p + k]
  <2>1. /\ 1 \in Nat \ {0} /\ toDesk' \in Seq(Request) /\ Len(toDesk') + 1 = Len(toDesk)
        /\ \A p \in 1..Len(toDesk') : toDesk'[p] = toDesk[p + 1]
    BY <1>1, TailFacts
  <2> QED
    BY <2>1
<1>3. /\ ui' \in UI /\ Head(toDesk).ask \in Ask /\ Head(toDesk).ask <= asks
      /\ Built(tree, ui) \in Tree
  BY <1>1, Typed, HeadFacts, BuiltFacts
<1>4. /\ tree' \in Tree /\ last' \subseteq Snapshot /\ toHelper' \in Seq(Message)
      /\ TreesOK'
      /\ \A p \in 1..Len(toHelper') : toHelper'[p].ask # 0 =>
            \/ toHelper'[p].ask = Head(toDesk).ask /\ toHelper'[p].yes = FALSE
            \/ \E q \in 1..Len(toHelper) : toHelper'[p] = toHelper[q]
  BY <1>1, <1>3, SentFacts
<1>5. TypeOK'
  BY <1>1, <1>2, <1>3, <1>4 DEF IInv, TypeOK
<1>6. ActsOnNamed' /\ \A n \in Ask : acted[n] \subseteq acted'[n]
  BY <1>1 DEF IInv, ActsOnNamed
<1>7. \A p \in 1..Len(toHelper') : toHelper'[p].ask # 0 =>
         \/ Backed(toHelper'[p], Head(toDesk).ask, acted'[Head(toDesk).ask])
         \/ \E q \in 1..Len(toHelper) : toHelper'[p] = toHelper[q]
  BY <1>4 DEF Backed
<1> QED
  BY <1>1, <1>2, <1>3, <1>4, <1>5, <1>6, <1>7, ReadKeeps

(* Perform and Raise: what the handler has done by then.                   *)
LEMMA Handling ==
    ASSUME IInv, toDesk # <<>>, UNCHANGED service, NEW r, r = Head(toDesk),
           Handled(Built(tree, ui), ui, r), acted' = Done(Built(tree, ui), ui, r),
           Carried(r)
    PROVE  /\ ui' \in UI /\ changes' \in 0..MaxChanges
           /\ acted' \in [Ask -> SUBSET Deed] /\ ActsOnNamed' /\ acted'[r.ask] # {}
           /\ \A n \in Ask : acted[n] \subseteq acted'[n]
<1>1. r \in Request /\ asked[r.ask] = {r} /\ Names(r)
  BY HeadFacts
<1>2. asked' = asked
  BY DEF service
<1>3. r.owner \in Shown(ui.windows) /\ (r.kind = "close" => r.owner # Desktop)
  BY <1>1, ConstantsOK DEF Handled, Names
<1> QED
  BY <1>1, <1>2, <1>3, DoneFacts, CarriedType

LEMMA PerformKeeps ==
    ASSUME IInv, toDesk # <<>>, UNCHANGED service, Perform(Head(toDesk)) PROVE IInv'
<1> DEFINE r == Head(toDesk)
<1>1. PICK yes \in BOOLEAN : Published(Built(tree, ui), r.ask, yes)
  BY DEF Perform
<1>2. /\ UNCHANGED <<bridge, helper, nodes, pending, age, told, asks, asked>>
      /\ toDesk' = Tail(toDesk)
  BY DEF Perform, service
<1>3. /\ ui' \in UI /\ changes' \in 0..MaxChanges
      /\ acted' \in [Ask -> SUBSET Deed] /\ ActsOnNamed' /\ acted'[r.ask] # {}
      /\ \A n \in Ask : acted[n] \subseteq acted'[n]
  BY Handling DEF Perform
<1>4. PICK k \in Nat \ {0} :
        /\ toDesk' \in Seq(Request) /\ Len(toDesk') + k = Len(toDesk)
        /\ \A p \in 1..Len(toDesk') : toDesk'[p] = toDesk[p + k]
  <2>1. /\ 1 \in Nat \ {0} /\ toDesk' \in Seq(Request) /\ Len(toDesk') + 1 = Len(toDesk)
        /\ \A p \in 1..Len(toDesk') : toDesk'[p] = toDesk[p + 1]
    BY <1>2, TailFacts
  <2> QED
    BY <2>1
<1>5. r.ask \in Ask /\ r.ask <= asks /\ Built(tree, ui) \in Tree
  BY HeadFacts, Typed, BuiltFacts
<1>6. /\ tree' \in Tree /\ last' \subseteq Snapshot /\ toHelper' \in Seq(Message)
      /\ TreesOK'
      /\ \A p \in 1..Len(toHelper') : toHelper'[p].ask # 0 =>
            \/ toHelper'[p].ask = r.ask /\ toHelper'[p].yes = yes
            \/ \E q \in 1..Len(toHelper) : toHelper'[p] = toHelper[q]
  BY <1>1, <1>2, <1>3, <1>5, SentFacts
<1>7. TypeOK'
  BY <1>2, <1>3, <1>4, <1>6 DEF IInv, TypeOK
<1>8. \A p \in 1..Len(toHelper') : toHelper'[p].ask # 0 =>
         \/ Backed(toHelper'[p], r.ask, acted'[r.ask])
         \/ \E q \in 1..Len(toHelper) : toHelper'[p] = toHelper[q]
  <2>1. \A m : m.ask = r.ask => Backed(m, r.ask, acted'[r.ask])
    BY <1>3 DEF Backed
  <2> QED
    BY <1>6, <2>1
<1> QED
  BY <1>2, <1>3, <1>4, <1>5, <1>6, <1>7, <1>8, ReadKeeps

LEMMA RaiseKeeps ==
    ASSUME IInv, toDesk # <<>>, UNCHANGED service, Raise(Head(toDesk)) PROVE IInv'
<1> DEFINE r == Head(toDesk)
<1>1. UNCHANGED <<helper, nodes, pending, age, told, asks, asked, last, toHelper>>
      /\ tree' = Built(tree, ui) /\ bridge' \in {bridge, "closed"}
  BY DEF Raise, service
<1>2. PICK k \in 1..Len(toDesk) :
        /\ toDesk' \in Seq(Request) /\ Len(toDesk') + k = Len(toDesk)
        /\ \A p \in 1..Len(toDesk') : toDesk'[p] = toDesk[p + k]
  <2>1. CASE toDesk' = <<>>
    <3>1. Len(toDesk') = 0 /\ toDesk' \in Seq(Request)
      BY <2>1
    <3>2. Len(toDesk) \in 1..Len(toDesk)
      BY TypedSocket
    <3>3. Len(toDesk') + Len(toDesk) = Len(toDesk) /\ 1..Len(toDesk') = {}
      BY <3>1, TypedSocket
    <3> QED
      BY <3>1, <3>2, <3>3
  <2>2. ASSUME NEW lost \in 1..Len(toDesk), toDesk' = SubSeq(toDesk, lost + 1, Len(toDesk))
        PROVE  /\ toDesk' \in Seq(Request) /\ Len(toDesk') + lost = Len(toDesk)
               /\ \A p \in 1..Len(toDesk') : toDesk'[p] = toDesk[p + lost]
    <3>1. toDesk \in Seq(Request) /\ Len(toDesk) \in Nat
      BY TypedSocket
    <3> QED
      BY <2>2, <3>1
  <2> QED
    BY <2>1, <2>2 DEF Raise
<1>3. /\ ui' \in UI /\ changes' \in 0..MaxChanges
      /\ acted' \in [Ask -> SUBSET Deed] /\ ActsOnNamed'
      /\ \A n \in Ask : acted[n] \subseteq acted'[n]
  BY Handling DEF Raise
<1>4. tree' \in Tree
  BY <1>1, BuiltFacts, Typed
<1>5. TypeOK'
  BY <1>1, <1>2, <1>3, <1>4 DEF IInv, TypeOK
<1>6. TreesOK'
  BY <1>1 DEF IInv, TreesOK
<1>7. k \in Nat \ {0}
  BY TypedSocket
<1>8. \A p \in 1..Len(toHelper') : \E q \in 1..Len(toHelper) : toHelper'[p] = toHelper[q]
  BY <1>1
<1>9. Head(toDesk).ask \in Ask
  BY HeadFacts
<1> QED
  BY <1>1, <1>2, <1>3, <1>5, <1>6, <1>7, <1>8, <1>9, ReadKeeps

LEMMA DeskReadsKeeps == ASSUME IInv, DeskReads PROVE IInv'
BY RefuseKeeps, PerformKeeps, RaiseKeeps DEF DeskReads

LEMMA CloseKeeps == ASSUME IInv, Close PROVE IInv'
<1>1. UNCHANGED <<ui, changes, tree, last, toHelper, helper, nodes,
                  pending, age, told, asks, asked, acted>>
      /\ toDesk' = <<>> /\ bridge' = "closed"
  BY DEF Close, service
<1>2. toDesk' \in Seq(Request) /\ Len(toDesk') = 0
  BY <1>1
<1>3. TypeOK'
  BY <1>1, <1>2 DEF IInv, TypeOK
<1>4. \A n : Absent(toDesk', n)
  BY <1>2 DEF Absent
<1>5. RequestsOK'
  <2>1. RequestsOK
    BY DEF IInv
  <2>2. 1..Len(toDesk') = {}
    BY <1>2
  <2>3. \A n \in Ask : n > asks' => asked'[n] = {} /\ told'[n] = "" /\ n \notin pending'
    BY <1>1, <2>1 DEF RequestsOK
  <2> QED
    BY <2>2, <2>3 DEF RequestsOK
<1>6. RepliesOK'
  BY <1>1, <1>4 DEF IInv, RepliesOK
<1> QED
  BY <1>1, <1>3, <1>5, <1>6 DEF IInv, ActsOnNamed, TreesOK

(***************************************************************************)
(* The steps of the helper                                                 *)
(***************************************************************************)
LEMMA OfferedFacts ==
    ASSUME NEW s \in Snapshot, NEW n \in Ask, NEW r \in Offered(s, n)
    PROVE  r \in Request /\ r.ask = n /\ Names(r)
<1>1. CASE r \in {[ask |-> n, kind |-> "close", owner |-> w, at |-> 0, of |-> {}] :
                    w \in {v \in Window : Allowed(s.windows, v)}}
  BY <1>1 DEF Request, Names, Owner
<1>2. CASE r \notin {[ask |-> n, kind |-> "close", owner |-> w, at |-> 0, of |-> {}] :
                       w \in {v \in Window : Allowed(s.windows, v)}}
  <2>1. PICK o \in Owner : \E p \in DOMAIN s.lists[o], k \in {"select", "activate"} :
           r = [ask |-> n, kind |-> k, owner |-> o,
                at |-> IF k = "select" THEN p ELSE 0, of |-> {s.lists[o][p]}]
    BY <1>2 DEF Offered
  <2>4. PICK p \in DOMAIN s.lists[o], k \in {"select", "activate"} :
           r = [ask |-> n, kind |-> k, owner |-> o,
                at |-> IF k = "select" THEN p ELSE 0, of |-> {s.lists[o][p]}]
    BY <2>1
  <2>2. s.lists[o] \in Seq(Key)
    BY DEF Snapshot
  <2>3. p \in Nat /\ s.lists[o][p] \in Key
    BY <2>2
  <2> QED
    BY <2>4, <2>3 DEF Request, Names
<1> QED
  BY <1>1, <1>2

LEMMA OneMore ==
    ASSUME IsFiniteSet(pending), Cardinality(pending) < MaxPending, MaxPending \in Nat, NEW n
    PROVE  IsFiniteSet(pending \cup {n}) /\ Cardinality(pending \cup {n}) <= MaxPending
<1>1. IsFiniteSet(pending \cup {n})
  BY FS_AddElement
<1>2. Cardinality(pending \cup {n}) =
         IF n \in pending THEN Cardinality(pending) ELSE Cardinality(pending) + 1
  BY FS_AddElement
<1>3. Cardinality(pending) \in Nat
  BY FS_CardinalityType
<1> QED
  BY <1>1, <1>2, <1>3

LEMMA OneLess ==
    ASSUME IInv, NEW n
    PROVE  IsFiniteSet(pending \ {n}) /\ Cardinality(pending \ {n}) <= MaxPending
<1>1. IsFiniteSet(pending) /\ Cardinality(pending) <= MaxPending /\ MaxPending \in Nat
  BY ConstantsOK DEF IInv, TypeOK
<1>2. IsFiniteSet(pending \ {n})
  BY <1>1, FS_RemoveElement
<1>3. Cardinality(pending \ {n}) =
         IF n \in pending THEN Cardinality(pending) - 1 ELSE Cardinality(pending)
  BY <1>1, FS_RemoveElement
<1>4. Cardinality(pending) \in Nat
  BY <1>1, FS_CardinalityType
<1> QED
  BY <1>1, <1>2, <1>3, <1>4

LEMMA ClientAsksKeeps == ASSUME IInv, ClientAsks PROVE IInv'
<1>1. PICK s \in nodes : \E x \in Offered(s, asks + 1) : Asks(x)
  BY DEF ClientAsks
<1>2. PICK r \in Offered(s, asks + 1) : Asks(r)
  BY <1>1
<1> DEFINE n == asks + 1
<1>3. n \in Ask /\ s \in Snapshot /\ asks < MaxAsks /\ n > asks /\ asked[n] = {} /\ told[n] = ""
  <2>1. n \in Ask /\ s \in Snapshot /\ asks < MaxAsks /\ n > asks
    BY Typed, Numbers DEF ClientAsks
  <2>2. RequestsOK
    BY DEF IInv
  <2> HIDE DEF n
  <2> QED
    BY <2>1, <2>2 DEF RequestsOK
<1>4. r \in Request /\ r.ask = n /\ Names(r)
  BY <1>3, OfferedFacts
<1>5. /\ UNCHANGED <<ui, changes, tree, last, bridge, toHelper, helper, nodes, age, acted>>
      /\ asks' = n /\ asked' = [asked EXCEPT ![n] = {r}]
  BY <1>2, <1>4 DEF Asks
<1>6. \/ /\ Cardinality(pending) < MaxPending
         /\ pending' = pending \cup {n} /\ told' = told
         /\ toDesk' = Append(toDesk, r) \/ toDesk' = toDesk
      \/ /\ pending' = pending \ {n} /\ told' = [told EXCEPT ![n] = "no"] /\ toDesk' = toDesk
  BY <1>2, <1>4 DEF Asks, Accepts, Answered
<1>7. /\ pending' \subseteq pending \cup {n}
      /\ told' = told \/ told' = [told EXCEPT ![n] = "no"]
      /\ toDesk' = Append(toDesk, r) \/ toDesk' = toDesk
  BY <1>6
<1>8. IsFiniteSet(pending') /\ Cardinality(pending') <= MaxPending
  <2>1. IsFiniteSet(pending) /\ MaxPending \in Nat
    BY ConstantsOK DEF IInv
  <2> QED
    BY <1>6, <2>1, OneMore, OneLess
<1>9. toDesk' \in Seq(Request)
  BY <1>4, <1>7, TypedSocket
<1>10. /\ told' \in [Ask -> {"", "yes", "no", "gone"}] /\ asked' \in [Ask -> SUBSET Request]
       /\ asks' \in 0..MaxAsks /\ pending' \subseteq Ask
       /\ asked'[n] = {r} /\ \A m \in Ask : m # n => asked'[m] = asked[m] /\ told'[m] = told[m]
  <2>1. asks' \in 0..MaxAsks
    <3>1. asks' = asks + 1 /\ asks < MaxAsks
      BY <1>3, <1>5
    <3>2. asks \in Nat /\ MaxAsks \in Nat
      BY Numbers
    <3> QED
      BY <3>1, <3>2
  <2> HIDE DEF n
  <2>2. pending' \subseteq Ask
    BY <1>3, <1>7, TypedAsks
  <2>3. /\ asked' \in [Ask -> SUBSET Request] /\ asked'[n] = {r}
        /\ \A m \in Ask : m # n => asked'[m] = asked[m]
    BY <1>3, <1>4, <1>5, TypedAsks
  <2>4. /\ told' \in [Ask -> {"", "yes", "no", "gone"}]
        /\ \A m \in Ask : m # n => told'[m] = told[m]
    BY <1>3, <1>7, TypedAsks
  <2> QED
    BY <2>1, <2>2, <2>3, <2>4
<1>11. TypeOK'
  BY <1>5, <1>8, <1>9, <1>10 DEF IInv, TypeOK
<1>12. \A p \in 1..Len(toDesk) : toDesk[p] \in Request /\ toDesk[p].ask \in Ask /\ toDesk[p].ask # n
  <2>1. \A p \in 1..Len(toDesk) : toDesk[p] \in Request /\ toDesk[p].ask <= asks
    <3>1. \A p \in 1..Len(toDesk) : toDesk[p].ask <= asks
      BY DEF IInv, RequestsOK
    <3>2. \A p \in 1..Len(toDesk) : toDesk[p] \in Request
      BY TypedSocket
    <3> QED
      BY <3>1, <3>2
  <2>2. \A m \in Ask : m <= asks => m # n
    BY Numbers
  <2> QED
    BY <2>1, <2>2 DEF Request
<1>13. \A p \in 1..Len(toDesk') :
          \/ p \in 1..Len(toDesk) /\ toDesk'[p] = toDesk[p]
          \/ p = Len(toDesk) + 1 /\ toDesk'[p] = r
  BY <1>4, <1>7, TypedSocket
<1>14. RequestsOK'
  <2>1. RequestsOK /\ asks \in Nat /\ Ask \subseteq Nat
    BY Numbers DEF IInv
  <2>2. ASSUME NEW p \in 1..Len(toDesk')
        PROVE  /\ toDesk'[p].ask <= n /\ asked'[toDesk'[p].ask] = {toDesk'[p]}
               /\ Names(toDesk'[p])
    <3>1. CASE p \in 1..Len(toDesk) /\ toDesk'[p] = toDesk[p]
      <4>1. /\ toDesk[p].ask <= asks /\ asked[toDesk[p].ask] = {toDesk[p]}
            /\ Names(toDesk[p])
        BY <2>1, <3>1 DEF RequestsOK
      <4>2. toDesk[p].ask \in Ask /\ toDesk[p].ask # n
        BY <1>12, <3>1
      <4>3. toDesk[p].ask <= n
        <5>1. \A x \in Nat : x <= asks => x <= n
          BY <2>1
        <5>2. toDesk[p].ask \in Nat
          BY <2>1, <4>2
        <5> QED
          BY <4>1, <5>1, <5>2
      <4> QED
        BY <1>10, <3>1, <4>1, <4>2, <4>3
    <3>2. CASE toDesk'[p] = r
      <4>1. n <= n
        BY <2>1
      <4> QED
        BY <1>4, <1>10, <3>2, <4>1
    <3> QED
      BY <1>13, <3>1, <3>2
  <2>3. ASSUME NEW p \in 1..Len(toDesk'), NEW q \in 1..Len(toDesk'),
               toDesk'[p].ask = toDesk'[q].ask
        PROVE  p = q
    <3>1. CASE p \in 1..Len(toDesk) /\ q \in 1..Len(toDesk)
      <4>1. toDesk'[p] = toDesk[p] /\ toDesk'[q] = toDesk[q]
        BY <1>13, <3>1, TypedSocket
      <4> QED
        BY <2>1, <2>3, <3>1, <4>1 DEF RequestsOK
    <3>2. CASE p \notin 1..Len(toDesk) \/ q \notin 1..Len(toDesk)
      BY <1>4, <1>12, <1>13, <2>3, <3>2
    <3> QED
      BY <3>1, <3>2
  <2>4. ASSUME NEW m \in Ask, m > n
        PROVE  asked'[m] = {} /\ told'[m] = "" /\ m \notin pending'
    <3>1. m > asks /\ m # n
      BY <2>1, <2>4
    <3> QED
      BY <1>7, <1>10, <2>1, <3>1 DEF RequestsOK
  <2> QED
    BY <1>5, <2>2, <2>3, <2>4 DEF RequestsOK
<1>15. \A m \in Ask : m # n => (Absent(toDesk, m) => Absent(toDesk', m))
  BY <1>4, <1>13 DEF Absent
<1>16. ActsOnNamed'
  <2>1. \A m \in Ask : asked[m] \subseteq asked'[m]
    BY <1>3, <1>10
  <2>2. ActsOnNamed
    BY DEF IInv
  <2> QED
    BY <1>5, <2>1, <2>2 DEF ActsOnNamed
<1>17. RepliesOK'
  <2>1. RepliesOK
    BY DEF IInv
  <2>2. ASSUME NEW p \in 1..Len(toHelper), toHelper[p].ask # 0
        PROVE  /\ toHelper[p].ask <= n /\ Absent(toDesk', toHelper[p].ask)
               /\ toHelper[p].yes => acted[toHelper[p].ask] # {}
    <3>1. /\ toHelper[p].ask <= asks /\ Absent(toDesk, toHelper[p].ask)
          /\ toHelper[p].yes => acted[toHelper[p].ask] # {}
      BY <2>1, <2>2 DEF RepliesOK
    <3>2. toHelper[p] \in Message
      BY TypedSocket
    <3>3. toHelper[p].ask \in Ask
      BY <2>2, <3>2 DEF Message
    <3>4. toHelper[p].ask # n /\ toHelper[p].ask <= n
      BY <3>1, <3>3, Numbers
    <3> QED
      BY <1>15, <3>1, <3>3, <3>4
  <2>3. ASSUME NEW m \in Ask, told'[m] = "no" PROVE Absent(toDesk', m) \/ age[m] > Deadline
    <3>1. CASE m # n
      BY <1>10, <1>15, <2>1, <2>3, <3>1 DEF RepliesOK
    <3>2. CASE m = n
      <4>1. toDesk' = toDesk
        BY <1>3, <1>6, <2>3, <3>2
      <4> QED
        BY <1>12, <3>2, <4>1 DEF Absent
    <3> QED
      BY <3>1, <3>2
  <2> QED
    BY <1>5, <2>2, <2>3 DEF RepliesOK
<1>18. TreesOK'
  BY <1>5 DEF IInv, TreesOK
<1> QED
  BY <1>8, <1>11, <1>14, <1>16, <1>17, <1>18 DEF IInv

(* An answer is given, or callers are told that the helper has gone.       *)
LEMMA AnswersKeep ==
    ASSUME IInv, TypeOK', TreesOK', IsFiniteSet(pending'),
           UNCHANGED <<toDesk, age, asks, asked, acted>>,
           pending' \subseteq pending,
           \A p \in 1..Len(toHelper') : \E q \in 1..Len(toHelper) : toHelper'[p] = toHelper[q],
           \A n \in Ask : n \notin pending => told'[n] = told[n],
           \A n \in Ask : told'[n] = "no" =>
              told[n] = "no" \/ Absent(toDesk, n) \/ age[n] > Deadline
    PROVE  IInv'
<1>1. RequestsOK /\ RepliesOK /\ ActsOnNamed
  BY DEF IInv
<1>2. RequestsOK'
  BY <1>1 DEF RequestsOK, Names
<1>3. ActsOnNamed'
  BY <1>1 DEF ActsOnNamed
<1>4. RepliesOK'
  <2>1. ASSUME NEW p \in 1..Len(toHelper'), toHelper'[p].ask # 0
        PROVE  /\ toHelper'[p].ask <= asks' /\ Absent(toDesk', toHelper'[p].ask)
               /\ toHelper'[p].yes => acted'[toHelper'[p].ask] # {}
    <3>1. PICK q \in 1..Len(toHelper) : toHelper'[p] = toHelper[q]
      OBVIOUS
    <3>2. /\ toHelper[q].ask <= asks /\ Absent(toDesk, toHelper[q].ask)
          /\ toHelper[q].yes => acted[toHelper[q].ask] # {}
      BY <1>1, <2>1, <3>1 DEF RepliesOK
    <3> QED
      BY <3>1, <3>2
  <2>2. \A n \in Ask : told'[n] = "no" => Absent(toDesk', n) \/ age'[n] > Deadline
    BY <1>1 DEF RepliesOK
  <2> QED
    BY <2>1, <2>2 DEF RepliesOK
<1> QED
  BY <1>2, <1>3, <1>4 DEF IInv

\* What the helper makes of the message at the head of its queue.
ReadsHead(m) ==
    /\ nodes' = Reading(nodes, m)
    /\ IF m.ask \in pending
       THEN Answered(m.ask, IF m.yes THEN "yes" ELSE "no")
       ELSE UNCHANGED <<pending, told>>

LEMMA HelperReadsFacts ==
    ASSUME IInv, HelperReads
    PROVE  /\ helper = "alive" /\ toHelper # <<>> /\ toHelper' = Tail(toHelper)
           /\ Head(toHelper) \in Message /\ toHelper' \in Seq(Message)
           /\ \A p \in 1..Len(toHelper') : toHelper'[p] = toHelper[p + 1]
           /\ Len(toHelper') + 1 = Len(toHelper) /\ Head(toHelper) = toHelper[1]
           /\ ReadsHead(Head(toHelper))
           /\ UNCHANGED <<ui, changes, tree, last, bridge, toDesk, helper, age, asks, asked,
                          acted>>
<1>1. /\ helper = "alive" /\ toHelper # <<>> /\ toHelper' = Tail(toHelper)
      /\ ReadsHead(Head(toHelper))
      /\ UNCHANGED <<ui, changes, tree, last, bridge, toDesk, helper, age, asks, asked, acted>>
  BY DEF HelperReads, ReadsHead, Reading
<1> QED
  BY <1>1, TypedSocket

LEMMA TreesRead == ASSUME IInv, HelperReads PROVE TreesOK'
<1> DEFINE m == Head(toHelper)
<1>1. /\ toHelper \in Seq(Message) /\ toHelper # <<>> /\ toHelper' = Tail(toHelper)
      /\ nodes' = Reading(nodes, m) /\ last' = last /\ helper = "alive"
      /\ Len(toHelper') + 1 = Len(toHelper) /\ Len(toHelper) \in Nat /\ Len(toHelper') \in Nat
      /\ \A p \in 1..Len(toHelper') : toHelper'[p] = toHelper[p + 1]
  BY HelperReadsFacts, TypedSocket DEF ReadsHead
<1>2. TreesOK
  BY DEF IInv
<1>3. ASSUME NEW p \in 1..Len(toHelper'), toHelper'[p].ask # 0
      PROVE  Latest(toHelper', nodes', p, toHelper'[p].tree)
  <2>1. /\ p + 1 \in 1..Len(toHelper) /\ p + 1 \in 2..(Len(toHelper) + 1) /\ (p + 1) - 1 = p
        /\ toHelper'[p] = toHelper[p + 1]
    BY <1>1
  <2>2. Latest(toHelper, nodes, p + 1, toHelper'[p].tree)
    BY <1>1, <1>2, <1>3, <2>1 DEF TreesOK
  <2>3. Latest(Tail(toHelper), Reading(nodes, m), (p + 1) - 1, toHelper'[p].tree)
    BY <1>1, <2>1, <2>2, LatestRead
  <2> QED
    BY <1>1, <2>1, <2>3
<1>4. ASSUME NEW s \in last PROVE Latest(toHelper', nodes', Len(toHelper') + 1, s)
  <2>1. /\ Len(toHelper) + 1 \in 2..(Len(toHelper) + 1)
        /\ (Len(toHelper) + 1) - 1 = Len(toHelper') + 1
    BY <1>1
  <2>2. Latest(toHelper, nodes, Len(toHelper) + 1, s)
    BY <1>1, <1>2 DEF TreesOK
  <2>3. Latest(Tail(toHelper), Reading(nodes, m), (Len(toHelper) + 1) - 1, s)
    BY <1>1, <2>1, <2>2, LatestRead
  <2> QED
    BY <1>1, <2>1, <2>3
<1> QED
  BY <1>1, <1>3, <1>4 DEF TreesOK

LEMMA AnsweredType ==
    ASSUME IInv, NEW n \in Ask, NEW answer \in {"yes", "no"}, Answered(n, answer)
    PROVE  /\ pending' \subseteq Ask /\ pending' \subseteq pending
           /\ IsFiniteSet(pending') /\ Cardinality(pending') <= MaxPending
           /\ told' \in [Ask -> {"", "yes", "no", "gone"}]
           /\ told'[n] = answer /\ \A k \in Ask : k # n => told'[k] = told[k]
BY TypedAsks, OneLess DEF Answered

LEMMA HelperReadsKeeps == ASSUME IInv, HelperReads PROVE IInv'
<1> DEFINE m == Head(toHelper)
<1>1. /\ UNCHANGED <<ui, changes, tree, last, bridge, toDesk, helper, age, asks, asked, acted>>
      /\ toHelper' \in Seq(Message) /\ m \in Message /\ ReadsHead(m)
      /\ Len(toHelper') + 1 = Len(toHelper) /\ m = toHelper[1]
      /\ \A p \in 1..Len(toHelper') : toHelper'[p] = toHelper[p + 1]
  BY HelperReadsFacts
<1>2. nodes' \subseteq Snapshot
  BY <1>1, Typed DEF ReadsHead, Reading, Message
<1>3. 1 \in 1..Len(toHelper) /\ \A p \in 1..Len(toHelper') : p + 1 \in 1..Len(toHelper)
  <2>1. Len(toHelper) \in Nat /\ Len(toHelper') \in Nat
    BY <1>1, TypedSocket
  <2> QED
    BY <1>1, <2>1
<1>4. CASE m.ask \in pending
  <2>1. PICK answer \in {"yes", "no"} : Answered(m.ask, answer)
    BY <1>1, <1>4 DEF ReadsHead
  <2>2. m.ask \in Ask
    BY <1>4, TypedAsks
  <2>3. /\ pending' \subseteq Ask /\ pending' \subseteq pending
        /\ IsFiniteSet(pending') /\ Cardinality(pending') <= MaxPending
        /\ told' \in [Ask -> {"", "yes", "no", "gone"}]
        /\ \A k \in Ask : k # m.ask => told'[k] = told[k]
    BY <2>1, <2>2, AnsweredType
  <2>4. Absent(toDesk, m.ask)
    <3>1. m.ask # 0
      BY <2>2, Numbers
    <3> QED
      BY <1>1, <1>3, <3>1 DEF IInv, RepliesOK
  <2>5. TypeOK'
    BY <1>1, <1>2, <2>3 DEF IInv, TypeOK
  <2> QED
    BY <1>1, <1>3, <1>4, <2>3, <2>4, <2>5, TreesRead, AnswersKeep
<1>5. CASE m.ask \notin pending
  <2>1. UNCHANGED <<pending, told>>
    BY <1>1, <1>5 DEF ReadsHead
  <2>2. TypeOK' /\ IsFiniteSet(pending')
    BY <1>1, <1>2, <2>1 DEF IInv, TypeOK
  <2> QED
    BY <1>1, <1>3, <2>1, <2>2, TreesRead, AnswersKeep
<1> QED
  BY <1>4, <1>5

LEMMA ExpireKeeps == ASSUME IInv, NEW n \in Ask, Expire(n) PROVE IInv'
<1>1. /\ UNCHANGED <<ui, changes, tree, last, bridge, toHelper, toDesk, helper, nodes, age,
                     asks, asked, acted>>
      /\ Answered(n, "no") /\ n \in pending /\ age[n] >= Timeout
  BY DEF Expire, socket
<1>2. /\ pending' \subseteq Ask /\ pending' \subseteq pending
      /\ IsFiniteSet(pending') /\ Cardinality(pending') <= MaxPending
      /\ told' \in [Ask -> {"", "yes", "no", "gone"}]
      /\ \A k \in Ask : k # n => told'[k] = told[k]
  BY <1>1, AnsweredType
<1>3. age[n] > Deadline
  <2>1. /\ age[n] \in 0..Timeout
        /\ Timeout \in Nat /\ Deadline \in Nat /\ Deadline < Timeout
    BY TypedAsks
  <2> QED
    BY <1>1, <2>1
<1>4. TypeOK'
  BY <1>1, <1>2 DEF IInv, TypeOK
<1>5. TreesOK'
  BY <1>1 DEF IInv, TreesOK
<1> QED
  BY <1>1, <1>2, <1>3, <1>4, <1>5, AnswersKeep

LEMMA HelperDiesKeeps == ASSUME IInv, HelperDies PROVE IInv'
<1>1. /\ UNCHANGED <<ui, changes, tree, last, bridge, toDesk, age, asks, asked, acted>>
      /\ helper' = "dead" /\ pending' = {} /\ toHelper' = <<>> /\ nodes' = {}
      /\ told' = [n \in Ask |-> IF n \in pending THEN "gone" ELSE told[n]]
  BY DEF HelperDies
<1>2. /\ IsFiniteSet(pending') /\ Cardinality(pending') <= MaxPending /\ pending' \subseteq Ask
      /\ pending' \subseteq pending
  BY <1>1, FS_EmptySet, ConstantsOK
<1>3. /\ told' \in [Ask -> {"", "yes", "no", "gone"}]
      /\ \A n \in Ask : n \notin pending => told'[n] = told[n]
      /\ \A n \in Ask : told'[n] = "no" => told[n] = "no"
  BY <1>1, TypedAsks
<1>4. toHelper' \in Seq(Message) /\ 1..Len(toHelper') = {}
  BY <1>1
<1>5. TypeOK'
  BY <1>1, <1>2, <1>3, <1>4 DEF IInv, TypeOK
<1>6. TreesOK'
  BY <1>1 DEF TreesOK
<1> QED
  BY <1>1, <1>2, <1>3, <1>4, <1>5, <1>6, AnswersKeep

LEMMA TimePassesKeeps == ASSUME IInv, TimePasses PROVE IInv'
<1>1. /\ UNCHANGED <<ui, changes, tree, last, bridge, toHelper, toDesk, helper, nodes, pending,
                     told, asks, asked, acted>>
      /\ age' = [n \in Ask |-> IF n <= asks /\ age[n] < Timeout THEN age[n] + 1 ELSE age[n]]
  BY DEF TimePasses, socket
<1>2. \A n \in Ask : age'[n] \in 0..Timeout /\ age'[n] >= age[n]
  <2>1. \A n \in Ask : age[n] \in 0..Timeout /\ Timeout \in Nat
    BY TypedAsks
  <2>2. \A n \in Ask : age'[n] = IF n <= asks /\ age[n] < Timeout THEN age[n] + 1 ELSE age[n]
    BY <1>1
  <2> QED
    BY <2>1, <2>2
<1>3. age' \in [Ask -> 0..Timeout]
  BY <1>1, <1>2
<1>4. TypeOK'
  BY <1>1, <1>3 DEF IInv, TypeOK
<1>5. RequestsOK' /\ \A n \in Ask : Absent(toDesk, n) <=> Absent(toDesk', n)
  BY <1>1, NothingAsked
<1>6. RepliesOK'
  <2>1. RepliesOK
    BY DEF IInv
  <2>2. \A n \in Ask : age[n] > Deadline => age'[n] > Deadline
    <3>1. Timeout \in Nat /\ Deadline \in Nat /\ \A n \in Ask : age[n] \in 0..Timeout
      BY TypedAsks
    <3> QED
      BY <1>2, <3>1
  <2> QED
    BY <1>1, <2>1, <2>2 DEF RepliesOK
<1>7. ActsOnNamed' /\ TreesOK' /\ IsFiniteSet(pending')
  BY <1>1 DEF IInv, ActsOnNamed, TreesOK
<1> QED
  BY <1>4, <1>5, <1>6, <1>7 DEF IInv

LEMMA NextKeeps == IInv /\ [Next]_vars => IInv'
BY StutterKeeps, DesktopChangesKeeps, TickKeeps, DeskReadsKeeps, CloseKeeps, ClientAsksKeeps,
   HelperReadsKeeps, ExpireKeeps, HelperDiesKeeps, TimePassesKeeps
DEF Next

(***************************************************************************)
(* The answers                                                             *)
(***************************************************************************)
Holds ==
    \A n \in Ask :
       /\ told'[n] = "yes" /\ told[n] # "yes" =>
             acted[n] # {} /\ nodes = {Head(toHelper).tree}
       /\ told[n] = "no" => acted'[n] = acted[n]

LEMMA DeskReadsHold == ASSUME IInv, DeskReads PROVE Holds
<1> DEFINE r == Head(toDesk)
<1>1. toDesk # <<>> /\ told' = told /\ (Refuse(r) \/ Perform(r) \/ Raise(r))
  BY DEF DeskReads, service
<1>2. CASE Refuse(r)
  BY <1>1, <1>2 DEF Refuse, Holds
<1>3. CASE Perform(r) \/ Raise(r)
  <2>1. /\ ~Late(r) /\ acted' = Done(Built(tree, ui), ui, r)
    BY <1>3 DEF Perform, Raise
  <2>2. \A n \in Ask : n # r.ask => acted'[n] = acted[n]
    BY <1>1, <2>1, HeadFacts, TypedAsks DEF Done
  <2>3. r.ask \in Ask /\ ~Absent(toDesk, r.ask)
    BY <1>1, HeadFacts
  <2>4. told[r.ask] # "no"
    BY <2>1, <2>3 DEF IInv, RepliesOK, Late
  <2> QED
    BY <1>1, <2>2, <2>4 DEF Holds
<1> QED
  BY <1>1, <1>2, <1>3

LEMMA HelperReadsHolds == ASSUME IInv, HelperReads PROVE Holds
<1> DEFINE m == Head(toHelper)
<1>1. /\ helper = "alive" /\ 1 \in 1..Len(toHelper) /\ m = toHelper[1] /\ m \in Message
      /\ ReadsHead(m) /\ acted' = acted
  BY HelperReadsFacts, TypedSocket
<1>2. ASSUME NEW n \in Ask, told'[n] = "yes", told[n] # "yes"
      PROVE  acted[n] # {} /\ nodes = {m.tree}
  <2>1. m.ask \in pending /\ Answered(m.ask, IF m.yes THEN "yes" ELSE "no")
    BY <1>1, <1>2 DEF ReadsHead
  <2>2. told' = [told EXCEPT ![m.ask] = IF m.yes THEN "yes" ELSE "no"]
    BY <2>1 DEF Answered
  <2>3. n = m.ask /\ m.yes
    BY <1>2, <2>2, TypedAsks
  <2>4. m.ask # 0
    BY <2>3, Numbers
  <2>5. acted[m.ask] # {}
    BY <1>1, <2>3, <2>4 DEF IInv, RepliesOK
  <2>6. Latest(toHelper, nodes, 1, m.tree)
    BY <1>1, <2>4 DEF IInv, TreesOK
  <2> QED
    BY <2>3, <2>5, <2>6, LatestNow
<1> QED
  BY <1>1, <1>2 DEF Holds

LEMMA AnswersStep == ASSUME IInv, [Next]_vars PROVE [Holds]_vars
<1>1. ASSUME told' = told, acted' = acted PROVE Holds
  BY <1>1 DEF Holds
<1>2. ASSUME \A n \in Ask : told'[n] = "yes" => told[n] = "yes", acted' = acted PROVE Holds
  BY <1>2 DEF Holds
<1>3. CASE DesktopChanges \/ Tick \/ Close \/ TimePasses
  BY <1>1, <1>3 DEF DesktopChanges, Tick, Close, TimePasses, service
<1>4. CASE ClientAsks
  <2>1. PICK n : told' = told \/ told' = [told EXCEPT ![n] = "no"]
    BY <1>4 DEF ClientAsks, Asks, Answered
  <2>2. acted' = acted
    BY <1>4 DEF ClientAsks, Asks
  <2> QED
    BY <1>2, <2>1, <2>2, TypedAsks
<1>5. ASSUME NEW n \in Ask, Expire(n) PROVE Holds
  BY <1>2, <1>5, TypedAsks DEF Expire, Answered
<1>6. CASE HelperDies
  BY <1>2, <1>6 DEF HelperDies
<1> QED
  BY <1>3, <1>4, <1>5, <1>6, DeskReadsHold, HelperReadsHolds DEF Next

-----------------------------------------------------------------------------
(* The types of the desktop, the socket and the helper, and that it never  *)
(* waits for more requests than MaxPending (Service.request).              *)
THEOREM TypeCorrect == Spec => []TypeOK
<1>1. IInv => TypeOK
  BY DEF IInv
<1> QED
  BY InitInv, NextKeeps, <1>1, PTL DEF Spec

(* What is done for a screen reader is done to the item that it named, in  *)
(* front and not behind a modal window (Tree.apply, _item_activate).       *)
THEOREM OnlyNamed == Spec => []ActsOnNamed
<1>1. IInv => ActsOnNamed
  BY DEF IInv
<1> QED
  BY InitInv, NextKeeps, <1>1, PTL DEF Spec

(* A "yes" comes after the deed and after the tree that shows it, and a    *)
(* "no" is never followed by the deed (Controller.read, Service.read).     *)
THEOREM AnswersReliable == Spec => AnswersHold
<1>1. IInv /\ [Next]_vars => [Holds]_vars
  BY AnswersStep
<1>2. [][Holds]_vars => AnswersHold
  BY PTL DEF AnswersHold, Holds
<1> QED
  BY InitInv, NextKeeps, <1>1, <1>2, PTL DEF Spec

-----------------------------------------------------------------------------
(***************************************************************************)
(* Who waits, and who has been answered                                    *)
(***************************************************************************)
Waits == <<pending, told, asks>>

LEMMA WaitsOn == ASSUME NobodyForgotten, UNCHANGED Waits PROVE NobodyForgotten'
BY DEF NobodyForgotten, Waits

LEMMA Counted ==
    ASSUME IInv
    PROVE  /\ asks \in Nat /\ MaxAsks \in Nat /\ asks <= MaxAsks
           /\ \A k \in 1..asks : k \in Ask
           /\ \A k \in Ask : k > asks => told[k] = "" /\ k \notin pending
           /\ \A k \in pending : k \in Ask /\ k \in 1..asks
<1>1. asks \in 0..MaxAsks
  BY DEF IInv, TypeOK
<1>2. MaxAsks \in Nat
  BY ConstantsOK
<1>3. asks \in Nat /\ asks <= MaxAsks
  BY <1>1, <1>2
<1>4. \A k \in 1..asks : k \in Ask
  BY <1>2, <1>3 DEF Ask
<1>5. RequestsOK
  BY DEF IInv
<1>6. \A k \in Ask : k > asks => told[k] = "" /\ k \notin pending
  BY <1>5 DEF RequestsOK
<1>7. ASSUME NEW k \in pending PROVE k \in Ask /\ k \in 1..asks
  <2>1. k \in Ask
    BY TypedAsks
  <2>2. k \in Nat \ {0}
    BY <2>1, <1>2 DEF Ask
  <2>3. ~(k > asks)
    BY <2>1, <1>6
  <2> QED
    BY <1>3, <2>1, <2>2, <2>3
<1> QED
  BY <1>2, <1>3, <1>4, <1>6, <1>7

LEMMA AnsweredKeeps ==
    ASSUME IInv, NobodyForgotten, UNCHANGED asks, NEW n, NEW answer \in {"yes", "no", "gone"},
           Answered(n, answer), n \in Ask
    PROVE  NobodyForgotten'
<1>1. /\ pending' = pending \ {n} /\ told' = [told EXCEPT ![n] = answer]
      /\ \A k \in Ask : told'[k] = IF k = n THEN answer ELSE told[k]
  BY TypedAsks DEF Answered
<1>2. \A k \in 1..asks : k \in Ask
  BY Counted
<1> QED
  BY <1>1, <1>2 DEF NobodyForgotten

LEMMA ClientAsksKeepsAnswers ==
    ASSUME IInv, NobodyForgotten, ClientAsks
    PROVE  NobodyForgotten' /\ \A n \in Ask : told[n] # "" => told'[n] = told[n]
<1> DEFINE new == asks + 1
<1>0. asks' = new /\ asks < MaxAsks
  BY DEF ClientAsks, Asks
<1>1. /\ asks \in Nat /\ asks' = new /\ new \in Ask /\ \A k \in 1..new : k \in Ask
  <2>1. asks \in Nat /\ MaxAsks \in Nat
    BY Counted
  <2>2. new \in Nat /\ 1 <= new /\ new <= MaxAsks
    BY <1>0, <2>1
  <2>3. \A k \in 1..new : k \in Nat /\ 1 <= k /\ k <= MaxAsks
    BY <2>1, <2>2
  <2> QED
    BY <1>0, <2>1, <2>2, <2>3, Numbers
<1>2. told[new] = "" /\ new \notin pending
  <2>1. new > asks
    BY <1>1
  <2> QED
    BY <1>1, <2>1, Counted
<1>3. \E r : r.ask = new /\ Asks(r)
  BY DEF ClientAsks, Offered
<1>4. \/ pending' = pending \cup {new} /\ told' = told
      \/ pending' = pending \ {new} /\ told' = [told EXCEPT ![new] = "no"]
  BY <1>3 DEF Asks, Answered
<1>5. \A k \in 1..asks' : k \in 1..asks \/ k = new
  BY <1>1
<1>6. \A k \in 1..asks : k # new /\ k \in Ask
  BY <1>1
<1>7. CASE pending' = pending \cup {new} /\ told' = told
  BY <1>2, <1>5, <1>6, <1>7 DEF NobodyForgotten
<1>8. CASE pending' = pending \ {new} /\ told' = [told EXCEPT ![new] = "no"]
  <2>1. \A k \in Ask : told'[k] = IF k = new THEN "no" ELSE told[k]
    BY <1>8, TypedAsks
  <2>2. NobodyForgotten'
    <3> SUFFICES ASSUME NEW k \in 1..new PROVE told'[k] = "" <=> k \in pending'
      BY <1>1 DEF NobodyForgotten
    <3>1. CASE k = new
      <4>1. told'[k] = "no"
        BY <1>1, <2>1, <3>1
      <4>2. k \notin pending'
        BY <1>8, <3>1
      <4> QED
        BY <4>1, <4>2
    <3>2. CASE k \in 1..asks
      BY <1>6, <1>8, <2>1, <3>2 DEF NobodyForgotten
    <3> QED
      BY <1>1, <1>5, <3>1, <3>2
  <2> QED
    BY <1>2, <2>1, <2>2
<1> QED
  BY <1>4, <1>7, <1>8

\* Whoever is answered was waited for.
LEMMA PendingUntold ==
    ASSUME IInv, NobodyForgotten, NEW n \in pending
    PROVE  n \in Ask /\ n \in 1..asks /\ told[n] = ""
BY Counted DEF NobodyForgotten

LEMMA AnsweredNow ==
    ASSUME IInv, NobodyForgotten, NEW n \in pending, NEW answer, Answered(n, answer)
    PROVE  \A k \in Ask : told[k] # "" => told'[k] = told[k]
<1>1. told[n] = "" /\ n \in Ask
  BY PendingUntold
<1> QED
  BY <1>1, TypedAsks DEF Answered

LEMMA HelperDiesAnswers ==
    ASSUME IInv, NobodyForgotten, HelperDies
    PROVE  NobodyForgotten' /\ \A n \in Ask : told[n] # "" => told'[n] = told[n]
<1>1. /\ pending' = {} /\ asks' = asks
      /\ \A n \in Ask : told'[n] = IF n \in pending THEN "gone" ELSE told[n]
  BY DEF HelperDies
<1>2. \A k \in 1..asks : k \in Ask
  BY Counted
<1> QED
  BY <1>1, <1>2, PendingUntold DEF NobodyForgotten

\* The two facts of one step.
Heard == \A n \in Ask : told[n] # "" => told'[n] = told[n]

LEMMA HeardStep ==
    ASSUME IInv, NobodyForgotten, [Next]_vars PROVE NobodyForgotten' /\ Heard
<1>1. CASE UNCHANGED Waits
  BY <1>1, WaitsOn DEF Heard, Waits
<1>2. DesktopChanges \/ Tick \/ DeskReads \/ Close \/ TimePasses => UNCHANGED Waits
  BY DEF DesktopChanges, Tick, DeskReads, Close, TimePasses, service, Waits
<1>3. UNCHANGED vars => UNCHANGED Waits
  BY DEF vars, service, Waits
<1>4. CASE ClientAsks
  BY <1>4, ClientAsksKeepsAnswers DEF Heard
<1>5. CASE HelperReads
  <2> DEFINE m == Head(toHelper)
  <2>1. asks' = asks
    BY <1>5 DEF HelperReads
  <2>2. CASE m.ask \in pending
    <3>1. \E answer \in {"yes", "no", "gone"} : Answered(m.ask, answer)
      BY <1>5, <2>2 DEF HelperReads
    <3> QED
      BY <2>1, <2>2, <3>1, AnsweredKeeps, AnsweredNow, PendingUntold DEF Heard
  <2>3. CASE m.ask \notin pending
    BY <1>1, <1>5, <2>1, <2>3 DEF HelperReads, Waits
  <2> QED
    BY <2>2, <2>3
<1>6. CASE HelperDies
  BY <1>6, HelperDiesAnswers DEF Heard
<1>7. ASSUME NEW n \in Ask, Expire(n) PROVE NobodyForgotten' /\ Heard
  <2>1. Answered(n, "no") /\ n \in pending /\ asks' = asks
    BY <1>7 DEF Expire
  <2> QED
    BY <2>1, AnsweredKeeps, AnsweredNow DEF Heard
<1> QED
  BY <1>1, <1>2, <1>3, <1>4, <1>5, <1>6, <1>7 DEF Next

(* A caller of the bus waits exactly as long as its request is pending,    *)
(* and so has a timer (Service.request, Service.reply).                    *)
THEOREM CallersKept == Spec => []NobodyForgotten
<1>1. Init => NobodyForgotten
  <2> SUFFICES ASSUME Init PROVE NobodyForgotten
    OBVIOUS
  <2>1. asks = 0
    BY DEF Init
  <2>2. 1..asks = {}
    BY <2>1
  <2> QED
    BY <2>2 DEF NobodyForgotten
<1>2. IInv /\ NobodyForgotten /\ [Next]_vars => NobodyForgotten'
  BY HeardStep
<1> QED
  BY InitInv, NextKeeps, <1>1, <1>2, PTL DEF Spec

(* A call is answered once, whichever of the reply of the desktop, the     *)
(* timer and the end of the helper comes first (Service.read, expire).     *)
THEOREM OneAnswer == Spec => AnsweredOnce
<1>1. IInv /\ NobodyForgotten /\ [Next]_vars => [Heard]_vars
  BY HeardStep
<1>2. [][Heard]_vars => AnsweredOnce
  BY PTL DEF AnsweredOnce, Heard
<1> QED
  BY InitInv, NextKeeps, CallersKept, <1>1, <1>2, PTL DEF Spec

=============================================================================
