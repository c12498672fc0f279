---------------------------- MODULE AndroidProofs ---------------------------
(***************************************************************************)
(* Proofs about Android for any lists, any settings, any number of native  *)
(* tracks, of commands and of restarts.                                    *)
(*                                                                         *)
(* The steps of the main looper are composed of functions of a state.      *)
(* Fine(s, r) says what each of them keeps on its way from s to r.         *)
(***************************************************************************)
EXTENDS Android, SequenceTheorems, TLAPS

Posts == {"playcur", "next", "start_2", "rec_click"}
List == [id : Nat, items : Seq(Nat), mod : BOOLEAN]
QueueType ==
  [lists : Seq(List), made : Nat, act : Nat \ {0}, sel : Nat, cur : Int, idx : Int,
   active : BOOLEAN, split : BOOLEAN, astop : {"off", "armed", "expired"}]
TrackType ==
  [state : {"NONE", "OPENING", "PLAYING", "PAUSED", "UNPAUSE", "SEEKING"}, url : Nat,
   stopped : BOOLEAN, error : BOOLEAN, seek : {"none", "zero", "skip", "user"},
   tail : BOOLEAN, intail : BOOLEAN]
PlayerType ==
  [st : {"idle", "preparing", "started", "paused"}, src : Nat, tmr : BOOLEAN, seeking : BOOLEAN]
SysType == [focus : BOOLEAN, later : BOOLEAN, transient : BOOLEAN, busy : BOOLEAN]
SvcType ==
  [st : {"STOPPED", "BUFFERING", "PLAYING", "PAUSED", "SKIPPING"}, fg : BOOLEAN,
   later : BOOLEAN, on : BOOLEAN]
AppType ==
  [q : QueueType, t : TrackType, mp : PlayerType, sys : SysType, svc : SvcType,
   loop : Seq(Posts), ask : Nat, ended : Nat, dlg : Int, trec : Nat, bad : BOOLEAN]
JobType ==
  [kind : {"none", "info", "rec", "conv"}, list : Nat, calls : Nat,
   st : {"none", "run", "stopping", "finished", "freed"}]

DiskType == [files : [1..4 -> Seq(Nat) \union {Absent}], cur : Int, act : Nat \ {0}]
SesType ==
  [conf : Confs, user : Nat, moved : BOOLEAN, crossed : BOOLEAN, starts : Nat,
   saved : BOOLEAN, fresh : BOOLEAN, goal : Seq(Seq(Nat))]

Types ==
  /\ app \in AppType /\ app.q.sel \in 1..Len(app.q.lists) /\ app.trec \in 0..MaxJobs
  /\ jobs \in [1..MaxJobs -> JobType]
  /\ disk \in DiskType
  /\ ses \in SesType

-----------------------------------------------------------------------------
(* What holds of a state of the application between two functions.         *)

\* PlayerHeld, and what it rests on: a service that is going to be stopped is
\* not one that plays.
Player(s) ==
  ~s.bad =>
    /\ (s.t.state = "NONE") = (s.mp.st = "idle")
    /\ (s.t.state = "OPENING") = (s.mp.st = "preparing")
    /\ (s.t.state = "PAUSED") = (s.mp.st = "paused")
    /\ s.t.state # "NONE" => s.mp.src = s.t.url
    /\ s.mp.tmr = (s.mp.st \in {"started", "paused"})
    /\ s.q.active = (s.t.state # "NONE")
    /\ s.t.state # "NONE" =>
         s.sys.focus /\ ~s.sys.later /\ ~s.svc.later /\ s.svc.st # "STOPPED"
    /\ s.t.state = "NONE" /\ s.svc.on => s.svc.later
    /\ s.svc.later => s.svc.st \notin {"PLAYING", "BUFFERING"}
    /\ s.t.state # "UNPAUSE"

IsId(s, i) == \E l \in 1..Len(s.q.lists) : s.q.lists[l].id = i

\* CursorOnTrack also while the tags of the track are read, and that what is
\* to be asked for is a list that exists.
Cursor(s) ==
  /\ ~s.bad
  /\ HasList(s, s.q.act) /\ HasList(s, s.q.sel)
  /\ s.q.idx >= 0 =>
       InList(s, s.q.act, s.q.idx) /\ Items(s, s.q.act)[s.q.idx + 1] = s.t.url
  /\ s.ask # 0 => IsId(s, s.ask)

\* The lists of s are those of r, and those that differ are marked.
Marked(s, r) ==
  /\ Len(r.q.lists) = Len(s.q.lists)
  /\ \A i \in 1..Len(s.q.lists) :
       /\ r.q.lists[i].id = s.q.lists[i].id
       /\ r.q.lists[i].mod \/ r.q.lists[i] = s.q.lists[i]

\* A function leads from s to r ...
Keeps(s, r) ==
  /\ r \in AppType /\ r.trec = s.trec /\ (s.bad => r.bad)
  /\ r.q.sel = s.q.sel /\ Marked(s, r)

\* ... and what holds of s holds of r.
Fine(s, r) == Keeps(s, r) /\ (Player(s) => Player(r) /\ (Cursor(s) => Cursor(r)))

\* The same whatever the player did in s.
Sound(s, r) == Keeps(s, r) /\ Player(r) /\ (Cursor(s) => Cursor(r))

-----------------------------------------------------------------------------
(* The inductive invariant.                                                *)

\* A native track calls back once at most, and only when it ends by itself.
CallsOnce ==
  \A j \in 1..MaxJobs :
    jobs[j].calls <= 1 /\ (jobs[j].st \in {"none", "run", "stopping"} => jobs[j].calls = 0)

\* The lists whose tags are read exist.
InfoLists ==
  \A j \in 1..MaxJobs : jobs[j].kind = "info" /\ jobs[j].st = "run" => IsId(app, jobs[j].list)

\* The files of the lists that are not modified are there, if they have entries.
FilesHeld(s) ==
  /\ Len(s.q.lists) \in 1..3
  /\ \A i \in 1..Len(s.q.lists) :
       s.q.lists[i].mod \/ s.q.lists[i].items \in {<<>>, disk.files[i]}

\* What was saved is on disk.
GoalSaved ==
  ses.saved /\ (\A i \in 1..Len(ses.goal) : ses.goal[i] # <<>>) =>
    /\ Len(ses.goal) \in 1..3
    /\ \A i \in 1..Len(ses.goal) : disk.files[i] = ses.goal[i] /\ disk.files[i] # Absent
    /\ disk.files[Len(ses.goal) + 1] = Absent

\* Until the user has done something after a start, nothing happens.
Quiet ==
  ses.fresh =>
    /\ app.loop = <<>> /\ app.mp.st = "idle" /\ ~app.mp.seeking /\ ~app.mp.tmr
    /\ ~app.svc.later /\ ~app.sys.later
    /\ \A j \in 1..MaxJobs : jobs[j].st \notin {"run", "stopping"}

Basic == Types /\ app.ask = 0 /\ Player(app) /\ RecordingsHeld /\ CallsOnce
Kept == Cursor(app) /\ InfoLists /\ FilesHeld(app) /\ disk.files[4] = Absent
AndroidInv == Basic /\ (~ses.moved => Kept /\ GoalSaved /\ Quiet /\ ListsReloaded)

-----------------------------------------------------------------------------
(* Functions.                                                              *)

\* A function that changes nothing is fine, and so are two in a row.
LEMMA FineSame ==
  ASSUME NEW s \in AppType
  PROVE  Fine(s, s)
<1>1. Len(s.q.lists) \in Nat
  BY DEF AppType, QueueType
<1> QED BY <1>1 DEF Fine, Keeps, Marked

LEMMA MarkedTwice ==
  ASSUME NEW s, NEW r, NEW u, Marked(s, r), Marked(r, u)
  PROVE  Marked(s, u)
BY DEF Marked

LEMMA FineTwice ==
  ASSUME NEW s, NEW r, NEW u, Fine(s, r), Fine(r, u)
  PROVE  Fine(s, u)
BY MarkedTwice DEF Fine, Keeps

LEMMA ThenSound ==
  ASSUME NEW s, NEW r, NEW u, Fine(s, r), Sound(r, u)
  PROVE  Fine(s, u) /\ Sound(r, u)
BY MarkedTwice DEF Fine, Keeps, Sound

\* One list is replaced by another with its id that is marked.
LEMMA ListReplaced ==
  ASSUME NEW f \in Seq(List), NEW l \in Nat, NEW e,
         l \in 1..Len(f) => e \in List /\ e.mod /\ e.id = f[l].id
  PROVE  LET g == [f EXCEPT ![l] = e]
         IN /\ g \in Seq(List) /\ Len(g) = Len(f)
            /\ \A i \in 1..Len(f) :
                 /\ g[i] = IF i = l THEN e ELSE f[i]
                 /\ g[i].id = f[i].id
                 /\ g[i].mod \/ g[i] = f[i]
<1> DEFINE g == [f EXCEPT ![l] = e]
<1>1. CASE l \in 1..Len(f)
  <2>1. /\ g \in Seq(List) /\ Len(g) = Len(f)
        /\ \A i \in 1..Len(f) : g[i] = IF i = l THEN e ELSE f[i]
    BY <1>1, ExceptSeq
  <2> QED BY <1>1, <2>1
<1>2. CASE l \notin 1..Len(f)
  <2>1. f \in [1..Len(f) -> List]
    BY LenProperties
  <2>2. g = f
    BY <1>2, <2>1
  <2> QED BY <1>2, <2>2
<1> QED BY <1>1, <1>2

\* AddTo, RemoveEntry and QueueOpen put such a list there.
LEMMA ListPut ==
  ASSUME NEW s \in AppType, NEW l, NEW e
  PROVE  [s EXCEPT !.q.lists[l] = e]
           = [s EXCEPT !.q = [s.q EXCEPT !.lists = [s.q.lists EXCEPT ![l] = e]]]
BY Zenon

SameBut(s, r) ==
  /\ r.t = s.t /\ r.mp = s.mp /\ r.sys = s.sys /\ r.svc = s.svc
  /\ r.bad = s.bad /\ r.ask = s.ask /\ r.trec = s.trec /\ r.q.active = s.q.active
  /\ r.q.act = s.q.act /\ r.q.sel = s.q.sel

LEMMA AddToFine ==
  ASSUME NEW s \in AppType, NEW l \in Nat, NEW url \in Nat
  PROVE  LET r == AddTo(s, l, url) IN Fine(s, r) /\ SameBut(s, r) /\ r.q.idx = s.q.idx
<1> DEFINE r == AddTo(s, l, url)
           f == s.q.lists
           e == With(f[l], url)
           g == [f EXCEPT ![l] = e]
<1>1. f \in Seq(List) /\ Len(f) \in Nat
  BY DEF AppType, QueueType
<1>2. l \in 1..Len(f) => f[l] \in List
  BY <1>1, ElementOfSeq
<1>3. l \in 1..Len(f) => e \in List /\ e.mod /\ e.id = f[l].id /\ e.items = Append(f[l].items, url)
  BY <1>2, AppendProperties DEF List, With
<1>4. /\ g \in Seq(List) /\ Len(g) = Len(f)
      /\ \A i \in 1..Len(f) :
           /\ g[i] = IF i = l THEN e ELSE f[i]
           /\ g[i].id = f[i].id
           /\ g[i].mod \/ g[i] = f[i]
  BY <1>1, <1>3, ListReplaced
<1>5. r = [s EXCEPT !.q = [s.q EXCEPT !.lists = g]]
  BY ListPut DEF AddTo
<1> HIDE DEF r, g, e
<1>6. r \in AppType /\ r.q.lists = g /\ SameBut(s, r) /\ r.q.idx = s.q.idx
  BY <1>4, <1>5 DEF AppType, QueueType, SameBut
<1>7. Keeps(s, r)
  BY <1>4, <1>6 DEF Keeps, Marked, SameBut
<1>8. Player(s) => Player(r)
  BY <1>6 DEF Player, SameBut
<1>9. ASSUME Cursor(s) PROVE Cursor(r)
  <2>1. \A i \in 1..Len(f), p \in Nat :
          p < Len(f[i].items) => p < Len(g[i].items) /\ g[i].items[p + 1] = f[i].items[p + 1]
    <3> SUFFICES ASSUME NEW i \in 1..Len(f), NEW p \in Nat, p < Len(f[i].items)
                 PROVE  p < Len(g[i].items) /\ g[i].items[p + 1] = f[i].items[p + 1]
      OBVIOUS
    <3>0. f[i] \in List
      BY <1>1, ElementOfSeq
    <3>1. f[i].items \in Seq(Nat)
      BY <3>0 DEF List
    <3>2. CASE i = l
      <4>1. g[i].items = Append(f[i].items, url)
        BY <1>3, <1>4, <3>2
      <4> QED BY <3>1, <4>1, AppendProperties
    <3>3. CASE i # l
      BY <1>4, <3>3
    <3> QED BY <3>2, <3>3
  <2>2. s.q.idx \in Int /\ s.q.act \in Nat
    BY DEF AppType, QueueType
  <2>3. HasList(s, s.q.act) /\ HasList(s, s.q.sel)
    BY <1>9 DEF Cursor
  <2>3b. s.q.act \in 1..Len(f) /\ s.q.act \in 1..Len(g)
    BY <1>4, <2>3 DEF HasList
  <2>3c. f[s.q.act] \in List /\ g[s.q.act] \in List
    BY <1>1, <1>4, <2>3b, ElementOfSeq
  <2>3a. Len(f[s.q.act].items) \in Nat /\ Len(g[s.q.act].items) \in Nat
    BY <2>3c DEF List
  <2>4. s.q.idx >= 0 => InList(r, r.q.act, r.q.idx) /\ Items(r, r.q.act)[r.q.idx + 1] = r.t.url
    <3> SUFFICES ASSUME s.q.idx >= 0
                 PROVE  InList(r, r.q.act, r.q.idx) /\ Items(r, r.q.act)[r.q.idx + 1] = r.t.url
      OBVIOUS
    <3>1. s.q.idx \in Nat /\ s.q.idx < Len(f[s.q.act].items)
      BY <1>9, <2>2, <2>3a DEF Cursor, InList, Items
    <3>2. s.q.idx < Len(g[s.q.act].items) /\ g[s.q.act].items[s.q.idx + 1] = s.t.url
      BY <1>9, <2>1, <2>3, <3>1 DEF Cursor, HasList, Items
    <3> QED BY <1>6, <2>3a, <3>1, <3>2 DEF SameBut, InList, Items
  <2> QED BY <1>4, <1>6, <1>9, <2>3, <2>4 DEF Cursor, SameBut, HasList, IsId
<1> QED BY <1>6, <1>7, <1>8, <1>9 DEF Fine, r

\* Queue.remove, remove_at: the entries behind it move up.
LEMMA RemovedEntry ==
  ASSUME NEW S, NEW ch \in Seq(S), NEW pos \in 1..Len(ch)
  PROVE  /\ RemoveAt(ch, pos) \in Seq(S) /\ Len(RemoveAt(ch, pos)) = Len(ch) - 1
         /\ \A i \in 1..(pos - 1) : RemoveAt(ch, pos)[i] = ch[i]
         /\ \A i \in pos..(Len(ch) - 1) : RemoveAt(ch, pos)[i] = ch[i + 1]
<1> DEFINE a == SubSeq(ch, 1, pos - 1)
           b == SubSeq(ch, pos + 1, Len(ch))
<1>0. Len(ch) \in Nat /\ pos \in Nat /\ pos <= Len(ch) /\ pos >= 1
  OBVIOUS
<1>1. a \in Seq(S) /\ Len(a) = pos - 1 /\ \A i \in 1..(pos - 1) : a[i] = ch[i]
  BY <1>0
<1>2. /\ b \in Seq(S) /\ Len(b) = Len(ch) - pos
      /\ \A i \in 1..(Len(ch) - pos) : b[i] = ch[pos + i]
  BY <1>0
<1>3. RemoveAt(ch, pos) = a \o b
  BY DEF RemoveAt
<1> HIDE DEF a, b
<1>4. /\ a \o b \in Seq(S) /\ Len(a \o b) = Len(a) + Len(b)
      /\ \A i \in 1..(Len(a) + Len(b)) : (a \o b)[i] = IF i <= Len(a) THEN a[i] ELSE b[i - Len(a)]
  BY <1>1, <1>2, ConcatProperties
<1>5. Len(a) + Len(b) = Len(ch) - 1
  BY <1>0, <1>1, <1>2
<1>6. \A i \in 1..(pos - 1) : (a \o b)[i] = ch[i]
  BY <1>0, <1>1, <1>4, <1>5
<1>7. ASSUME NEW i \in pos..(Len(ch) - 1) PROVE (a \o b)[i] = ch[i + 1]
  <2>1. i \in 1..(Len(a) + Len(b)) /\ ~(i <= Len(a)) /\ i - Len(a) \in 1..(Len(ch) - pos)
        /\ pos + (i - Len(a)) = i + 1
    BY <1>0, <1>1, <1>5
  <2> QED BY <1>2, <1>4, <2>1
<1> QED BY <1>3, <1>4, <1>5, <1>6, <1>7

\* Every other entry of l is in e, behind pos one position nearer.
MovedUp(l, e, pos) ==
  /\ Len(l.items) \in Nat /\ Len(e.items) \in Nat
  /\ \A i \in Nat :
       i < Len(l.items) /\ i # pos =>
         LET k == IF pos < i THEN i - 1 ELSE i
         IN k < Len(e.items) /\ e.items[k + 1] = l.items[i + 1]

\* Without takes one entry away.
LEMMA WithoutIs ==
  ASSUME NEW l \in List, NEW pos \in Nat, NEW e, e = Without(l, pos)
  PROVE  e \in List /\ e.mod /\ e.id = l.id /\ MovedUp(l, e, pos)
<1>1. l.items \in Seq(Nat) /\ Len(l.items) \in Nat
  BY DEF List
<1>2. CASE pos \in 0..(Len(l.items) - 1)
  <2> DEFINE p == pos + 1
             d == RemoveAt(l.items, p)
  <2>1. e = [l EXCEPT !.items = d, !.mod = TRUE]
    BY <1>2 DEF Without
  <2>2. p \in 1..Len(l.items)
    BY <1>1, <1>2
  <2> HIDE DEF p
  <2>3. /\ d \in Seq(Nat) /\ Len(d) = Len(l.items) - 1
        /\ \A i \in 1..(p - 1) : d[i] = l.items[i]
        /\ \A i \in p..(Len(l.items) - 1) : d[i] = l.items[i + 1]
    BY <1>1, <2>2, RemovedEntry
  <2> HIDE DEF d
  <2>4. e \in List /\ e.mod /\ e.id = l.id /\ e.items = d
    BY <2>1, <2>3 DEF List
  <2>5. ASSUME NEW i \in Nat, i < Len(l.items), i # pos
        PROVE  LET k == IF pos < i THEN i - 1 ELSE i
               IN k < Len(e.items) /\ e.items[k + 1] = l.items[i + 1]
    <3>1. CASE pos < i
      <4>1. i \in p..(Len(l.items) - 1) /\ (i - 1) + 1 = i /\ i - 1 < Len(l.items) - 1
        BY <1>1, <2>5, <3>1 DEF p
      <4>2. d[i] = l.items[i + 1]
        BY <2>3, <4>1
      <4> QED BY <2>3, <2>4, <3>1, <4>1, <4>2
    <3>2. CASE ~(pos < i)
      <4>1. i + 1 \in 1..(p - 1) /\ i < Len(l.items) - 1
        BY <1>1, <1>2, <2>5, <3>2 DEF p
      <4>2. d[i + 1] = l.items[i + 1]
        BY <2>3, <4>1
      <4> QED BY <2>3, <2>4, <3>2, <4>1, <4>2
    <3> QED BY <3>1, <3>2
  <2> QED BY <1>1, <2>3, <2>4, <2>5 DEF MovedUp
<1>3. CASE pos \notin 0..(Len(l.items) - 1)
  <2>1. e = [l EXCEPT !.items = l.items, !.mod = TRUE]
    BY <1>3 DEF Without
  <2>2. e \in List /\ e.mod /\ e.id = l.id /\ e.items = l.items
    BY <2>1 DEF List
  <2>3. \A i \in Nat : i < Len(l.items) => ~(pos < i)
    BY <1>1, <1>3
  <2> QED BY <1>1, <2>2, <2>3 DEF MovedUp
<1> QED BY <1>2, <1>3

\* What nobody catches happens only if the cursor was wrong already.
LEMMA ThrowsSound ==
  ASSUME NEW s \in AppType, ~Cursor(s)
  PROVE  Sound(s, Throws(s)) /\ Fine(s, Throws(s))
<1>1. Len(s.q.lists) \in Nat
  BY DEF AppType, QueueType
<1>2. Keeps(s, Throws(s))
  BY <1>1 DEF Throws, Keeps, Marked, AppType
<1>3. Throws(s).bad
  BY DEF Throws, AppType
<1> QED BY <1>2, <1>3 DEF Sound, Fine, Player

LEMMA RemoveFine ==
  ASSUME NEW s \in AppType, NEW pos \in Nat
  PROVE  LET r == RemoveEntry(s, pos)
         IN /\ Fine(s, r) /\ (Cursor(s) => Cursor(r)) /\ r.loop = s.loop
            /\ HasList(s, s.q.act) => SameBut(s, r)
<1> DEFINE r == RemoveEntry(s, pos)
           f == s.q.lists
           e == Without(f[s.q.act], pos)
           g == [f EXCEPT ![s.q.act] = e]
           cur == IF pos < s.q.cur THEN s.q.cur - 1 ELSE s.q.cur
           idx == IF pos = s.q.idx THEN -1 ELSE IF pos < s.q.idx THEN s.q.idx - 1 ELSE s.q.idx
<1>1. CASE ~HasList(s, s.q.act)
  <2>1. r = Throws(s) /\ ~Cursor(s)
    BY <1>1 DEF RemoveEntry, Cursor
  <2>2. r.loop = s.loop
    BY <2>1 DEF Throws, AppType
  <2> QED BY <1>1, <2>1, <2>2, ThrowsSound
<1>2. CASE HasList(s, s.q.act)
  <2>1. f \in Seq(List) /\ Len(f) \in Nat /\ s.q.act \in 1..Len(f) /\ s.q.act \in Nat
        /\ s.q.cur \in Int /\ s.q.idx \in Int
    BY <1>2 DEF AppType, QueueType, HasList
  <2>2. f[s.q.act] \in List
    BY <2>1, ElementOfSeq
  <2>3. e \in List /\ e.mod /\ e.id = f[s.q.act].id /\ MovedUp(f[s.q.act], e, pos)
    <3> HIDE DEF e
    <3>1. e = Without(f[s.q.act], pos)
      BY DEF e
    <3> QED BY <2>2, <3>1, WithoutIs
  <2>4. r = [s EXCEPT !.q.lists[s.q.act] = e, !.q.cur = cur, !.q.idx = idx]
    BY <1>2 DEF RemoveEntry
  <2> HIDE DEF e
  <2>5. /\ g \in Seq(List) /\ Len(g) = Len(f)
        /\ \A i \in 1..Len(f) :
             /\ g[i] = IF i = s.q.act THEN e ELSE f[i]
             /\ g[i].id = f[i].id
             /\ g[i].mod \/ g[i] = f[i]
    BY <2>1, <2>3, ListReplaced
  <2>6. cur \in Int /\ idx \in Int
    BY <2>1
  <2> HIDE DEF cur, idx
  <2>7. r = [s EXCEPT !.q = [s.q EXCEPT !.lists = g, !.cur = cur, !.idx = idx]]
    <3>1. [s EXCEPT !.q.lists[s.q.act] = e] = [s EXCEPT !.q = [s.q EXCEPT !.lists = g]]
      BY ListPut
    <3>2. r = [[s EXCEPT !.q.lists[s.q.act] = e] EXCEPT !.q.cur = cur, !.q.idx = idx]
      BY <2>4
    <3> QED BY <3>1, <3>2 DEF AppType, QueueType
  <2> HIDE DEF r, g
  <2>8. /\ r \in AppType /\ r.q.lists = g /\ r.q.idx = idx /\ SameBut(s, r) /\ r.loop = s.loop
    BY <2>5, <2>6, <2>7 DEF AppType, QueueType, SameBut
  <2>9. Keeps(s, r)
    BY <2>5, <2>8 DEF Keeps, Marked, SameBut
  <2>10. Player(s) => Player(r)
    BY <2>8 DEF Player, SameBut
  <2>11. ASSUME Cursor(s) PROVE Cursor(r)
    <3>1. idx >= 0 => InList(r, r.q.act, idx) /\ Items(r, r.q.act)[idx + 1] = r.t.url
      <4> SUFFICES ASSUME idx >= 0
                   PROVE  InList(r, r.q.act, idx) /\ Items(r, r.q.act)[idx + 1] = r.t.url
        OBVIOUS
      <4>1. s.q.idx \in Nat /\ s.q.idx # pos /\ idx = IF pos < s.q.idx THEN s.q.idx - 1 ELSE s.q.idx
        BY <2>1 DEF idx
      <4>2. s.q.idx < Len(f[s.q.act].items) /\ f[s.q.act].items[s.q.idx + 1] = s.t.url
        BY <2>3, <2>11, <4>1 DEF Cursor, InList, Items, MovedUp
      <4>3. idx < Len(e.items) /\ e.items[idx + 1] = s.t.url
        BY <2>3, <4>1, <4>2 DEF MovedUp
      <4>4. g[s.q.act].items = e.items
        BY <2>1, <2>5
      <4> QED BY <2>3, <2>6, <2>8, <4>3, <4>4 DEF SameBut, InList, Items, MovedUp
    <3> QED BY <2>5, <2>8, <2>11, <3>1 DEF Cursor, SameBut, HasList, IsId
  <2> QED BY <2>8, <2>9, <2>10, <2>11 DEF Fine, r
<1> QED BY <1>1, <1>2

LEMMA NextListAddCurFine ==
  ASSUME NEW s \in AppType
  PROVE  LET r == NextListAddCur(s)
         IN Fine(s, r) /\ (~r.bad => SameBut(s, r) /\ r.q.idx = s.q.idx)
<1> DEFINE l == IndexNext(s, s.q.act)
<1>1. l \in Nat /\ s.t.url \in Nat /\ Len(s.q.lists) \in Nat /\ s.q.act \in Nat
  BY DEF IndexNext, AppType, QueueType, TrackType
<1>2. CASE Len(s.q.lists) = 1 \/ s.t.state = "NONE"
  <2>1. NextListAddCur(s) = s
    BY <1>2 DEF NextListAddCur
  <2> QED BY <2>1, FineSame DEF SameBut
<1>3. CASE ~(Len(s.q.lists) = 1 \/ s.t.state = "NONE") /\ ~HasList(s, l)
  <2>1. NextListAddCur(s) = Throws(s)
    BY <1>3 DEF NextListAddCur
  <2>2. ~Cursor(s)
    BY <1>1, <1>3 DEF Cursor, HasList, IndexNext
  <2>3. Throws(s).bad
    BY DEF Throws, AppType
  <2> QED BY <2>1, <2>2, <2>3, ThrowsSound
<1>4. CASE ~(Len(s.q.lists) = 1 \/ s.t.state = "NONE") /\ HasList(s, l)
  <2>1. NextListAddCur(s) = AddTo(s, l, s.t.url)
    BY <1>4 DEF NextListAddCur
  <2> QED BY <1>1, <2>1, AddToFine
<1> QED BY <1>2, <1>3, <1>4

-----------------------------------------------------------------------------
(* Closing a track.                                                        *)

\* A track that is being closed, with the filters in D closed already.
Closing(s, D) ==
  /\ s \in AppType /\ s.t.state = "NONE"
  /\ "queue" \in D => s.bad \/ ~s.q.active
  /\ "mp" \in D => s.mp.st = "idle" /\ ~s.mp.tmr /\ ~s.mp.seeking
  /\ "svc" \in D => s.svc.later /\ s.svc.st = "SKIPPING"

\* What the closing keeps: the lists, and the cursor if it was right.
Leaves(s, r) == Keeps(s, r) /\ r.ask = s.ask /\ (Cursor(s) => Cursor(r))

LEMMA LeavesTwice ==
  ASSUME NEW s, NEW r, NEW u, Leaves(s, r), Leaves(r, u)
  PROVE  Leaves(s, u)
BY MarkedTwice DEF Leaves, Keeps

LEMMA LeavesSame ==
  ASSUME NEW s \in AppType
  PROVE  Leaves(s, s)
<1>1. Len(s.q.lists) \in Nat
  BY DEF AppType, QueueType
<1> QED BY <1>1 DEF Leaves, Keeps, Marked

\* Queue.on_close: an entry that failed may be removed, then the cursor does not
\* point to it any more.
LEMMA QueueCloseLeaves ==
  ASSUME NEW s \in AppType, NEW c
  PROVE  LET r == QueueClose(s, c)
         IN /\ Leaves(s, r) /\ r.t = s.t /\ r.mp = s.mp /\ r.sys = s.sys /\ r.svc = s.svc
            /\ r.bad \/ ~r.q.active
<1> DEFINE looks == s.q.idx >= 0 /\ s.t.error /\ c.rmerr
           lost == looks /\ (~HasList(s, s.q.act) \/ ~InList(s, s.q.act, s.q.idx))
           hit == looks /\ ~lost /\ Items(s, s.q.act)[s.q.idx + 1] = s.t.url
           x == IF hit THEN RemoveEntry(s, s.q.idx) ELSE s
           goes == ~s.t.stopped /\ s.q.astop # "expired"
           astop == IF x.q.astop = "expired" THEN "off" ELSE x.q.astop
           ended == IF goes /\ s.loop = <<>> THEN s.t.url ELSE 0
           loop == IF ~goes THEN x.loop ELSE Append(x.loop, IF x.q.idx < 0 THEN "playcur" ELSE "next")
           y == [x EXCEPT !.q.active = FALSE, !.q.idx = -1, !.q.astop = astop,
                          !.ended = ended, !.loop = loop]
           r == QueueClose(s, c)
<1>1. CASE lost
  <2>1. ~Cursor(s)
    BY <1>1 DEF Cursor
  <2>2. r = Throws(s)
    BY <1>1 DEF QueueClose
  <2>3. Sound(s, r)
    BY <2>1, <2>2, ThrowsSound
  <2>4. r.bad /\ r.ask = s.ask /\ r.t = s.t /\ r.mp = s.mp /\ r.sys = s.sys /\ r.svc = s.svc
    BY <2>2 DEF Throws, AppType
  <2> QED BY <2>3, <2>4 DEF Leaves, Sound
<1>2. CASE ~lost
  <2>1. r = y
    BY <1>2 DEF QueueClose
  <2>2. /\ x \in AppType /\ Leaves(s, x) /\ SameBut(s, x)
    <3>1. CASE hit
      <4>1. s.q.idx \in Nat /\ HasList(s, s.q.act)
        BY <3>1 DEF AppType, QueueType
      <4>2. Fine(s, x) /\ (Cursor(s) => Cursor(x)) /\ SameBut(s, x)
        BY <3>1, <4>1, RemoveFine
      <4> QED BY <4>2 DEF Fine, Keeps, Leaves, SameBut
    <3>2. CASE ~hit
      BY <3>2, LeavesSame DEF SameBut
    <3> QED BY <3>1, <3>2
  <2> HIDE DEF x
  <2>3. /\ astop \in {"off", "armed", "expired"} /\ ended \in Nat /\ loop \in Seq(Posts)
    <3>1. x.q.astop \in {"off", "armed", "expired"} /\ s.t.url \in Nat /\ x.loop \in Seq(Posts)
      BY <2>2 DEF AppType, QueueType, TrackType
    <3>2. "playcur" \in Posts /\ "next" \in Posts
      BY DEF Posts
    <3>3. Append(x.loop, "playcur") \in Seq(Posts) /\ Append(x.loop, "next") \in Seq(Posts)
      BY <3>1, <3>2, AppendProperties
    <3> QED BY <3>1, <3>3
  <2> HIDE DEF astop, ended, loop
  <2>3a. y = [x EXCEPT !.q = [x.q EXCEPT !.active = FALSE, !.idx = -1, !.astop = astop],
                       !.ended = ended, !.loop = loop]
    BY <2>2 DEF AppType, QueueType
  <2> HIDE DEF y
  <2>4. /\ y \in AppType /\ y.q.lists = x.q.lists /\ ~y.q.active /\ y.q.idx = -1
        /\ y.q.act = x.q.act /\ y.q.sel = x.q.sel
        /\ y.t = x.t /\ y.mp = x.mp /\ y.sys = x.sys /\ y.svc = x.svc /\ y.ask = x.ask
        /\ y.trec = x.trec /\ y.bad = x.bad
    <3> DEFINE Q == [x.q EXCEPT !.active = FALSE, !.idx = -1, !.astop = astop]
    <3>0. x.q \in QueueType
      BY <2>2 DEF AppType
    <3>1. /\ Q \in QueueType /\ Q.lists = x.q.lists /\ Q.active = FALSE /\ Q.idx = -1
          /\ Q.act = x.q.act /\ Q.sel = x.q.sel
      <4> DEFINE P == [x.q EXCEPT !.active = FALSE]
                 O == [P EXCEPT !.idx = -1]
      <4>1. /\ P \in QueueType /\ P.lists = x.q.lists /\ P.active = FALSE
            /\ P.act = x.q.act /\ P.sel = x.q.sel
        BY <3>0 DEF QueueType
      <4> HIDE DEF P
      <4>2. /\ O \in QueueType /\ O.lists = x.q.lists /\ O.active = FALSE /\ O.idx = -1
            /\ O.act = x.q.act /\ O.sel = x.q.sel
        BY <4>1 DEF QueueType
      <4> HIDE DEF O
      <4>3. Q = [O EXCEPT !.astop = astop]
        BY DEF O, P
      <4> HIDE DEF Q
      <4> QED BY <2>3, <4>2, <4>3 DEF QueueType
    <3> HIDE DEF Q
    <3>2. y = [x EXCEPT !.q = Q, !.ended = ended, !.loop = loop]
      BY <2>3a DEF Q
    <3> QED BY <2>2, <2>3, <3>1, <3>2 DEF AppType
  <2>5. Keeps(s, y)
    BY <2>2, <2>4 DEF Leaves, Keeps, Marked
  <2>6. Cursor(x) => Cursor(y)
    BY <2>4 DEF Cursor, HasList, IsId
  <2> QED BY <2>1, <2>2, <2>4, <2>5, <2>6 DEF Leaves, SameBut, y
<1> QED BY <1>1, <1>2

\* MP, SysJobs and Svc change their own part of the state only.
LEMMA PartChanged ==
  ASSUME NEW s \in AppType, NEW r \in AppType, r.q = s.q, r.ask = s.ask, r.trec = s.trec,
         r.bad = s.bad, r.t.url = s.t.url
  PROVE  Leaves(s, r)
<1>1. Len(s.q.lists) \in Nat
  BY DEF AppType, QueueType
<1>2. Keeps(s, r)
  BY <1>1 DEF Keeps, Marked
<1>3. Cursor(s) => Cursor(r)
  BY DEF Cursor, HasList, InList, Items, IsId
<1> QED BY <1>2, <1>3 DEF Leaves

LEMMA MpCloseIs ==
  ASSUME NEW s \in AppType
  PROVE  LET r == MpClose(s)
         IN /\ Leaves(s, r) /\ r.t = s.t /\ r.q = s.q /\ r.sys = s.sys /\ r.svc = s.svc
            /\ r.bad = s.bad /\ r.mp.st = "idle" /\ ~r.mp.tmr /\ ~r.mp.seeking
<1> DEFINE m == [st |-> "idle", src |-> 0, tmr |-> FALSE, seeking |-> FALSE]
           r == [s EXCEPT !.mp = m]
<1>1. m \in PlayerType /\ m.st = "idle" /\ ~m.tmr /\ ~m.seeking
  BY DEF PlayerType
<1> HIDE DEF m
<1>2. /\ r \in AppType /\ r.t = s.t /\ r.q = s.q /\ r.sys = s.sys /\ r.svc = s.svc
      /\ r.bad = s.bad /\ r.mp = m /\ r.ask = s.ask /\ r.trec = s.trec
  BY <1>1 DEF AppType
<1> HIDE DEF r
<1>3. Leaves(s, r)
  BY <1>2, PartChanged
<1>4. MpClose(s) = r
  BY DEF MpClose, r, m
<1> QED BY <1>1, <1>2, <1>3, <1>4

LEMMA SysCloseIs ==
  ASSUME NEW s \in AppType
  PROVE  LET r == SysClose(s)
         IN /\ Leaves(s, r) /\ r.t = s.t /\ r.q = s.q /\ r.mp = s.mp /\ r.svc = s.svc
            /\ r.bad = s.bad
<1> DEFINE y == [s.sys EXCEPT !.later = TRUE]
           r == [s EXCEPT !.sys = y]
<1>1. y \in SysType
  BY DEF AppType, SysType
<1> HIDE DEF y
<1>2. /\ r \in AppType /\ r.t = s.t /\ r.q = s.q /\ r.mp = s.mp /\ r.svc = s.svc
      /\ r.bad = s.bad /\ r.ask = s.ask /\ r.trec = s.trec
  BY <1>1 DEF AppType
<1> HIDE DEF r
<1>3. Leaves(s, r)
  BY <1>2, PartChanged
<1>4. SysClose(s) = r \/ SysClose(s) = s
  BY DEF SysClose, r, y
<1> QED BY <1>2, <1>3, <1>4, LeavesSame

LEMMA SvcCloseIs ==
  ASSUME NEW s \in AppType
  PROVE  LET r == SvcClose(s)
         IN /\ Leaves(s, r) /\ r.t = s.t /\ r.q = s.q /\ r.mp = s.mp /\ r.sys = s.sys
            /\ r.bad = s.bad /\ r.svc.later /\ r.svc.st = "SKIPPING"
<1> DEFINE x == [s.svc EXCEPT !.st = "SKIPPING"]
           y == [x EXCEPT !.later = TRUE]
           r == [s EXCEPT !.svc = y]
<1>0. s.svc \in SvcType
  BY DEF AppType
<1>1. x \in SvcType /\ x.st = "SKIPPING"
  BY <1>0 DEF SvcType
<1> HIDE DEF x
<1>2. y \in SvcType /\ y.later /\ y.st = "SKIPPING"
  BY <1>1 DEF SvcType
<1> HIDE DEF y
<1>3. /\ r \in AppType /\ r.t = s.t /\ r.q = s.q /\ r.mp = s.mp /\ r.sys = s.sys
      /\ r.bad = s.bad /\ r.ask = s.ask /\ r.trec = s.trec /\ r.svc = y
  BY <1>2 DEF AppType
<1> HIDE DEF r
<1>4. Leaves(s, r)
  BY <1>3, PartChanged
<1>5. SvcClose(s) = r
  BY DEF SvcClose, r, y, x, AppType, SvcType
<1> QED BY <1>2, <1>3, <1>4, <1>5

\* One more filter is closed.
LEMMA CloseOne ==
  ASSUME NEW s, NEW D, Closing(s, D), NEW f \in Filters, NEW c
  PROVE  LET r == CloseFilter(s, f, c) IN Leaves(s, r) /\ Closing(r, D \union {f})
<1>1. s \in AppType
  BY DEF Closing
<1>2. CASE f = "queue"
  <2>1. CloseFilter(s, f, c) = QueueClose(s, c)
    BY <1>2 DEF CloseFilter
  <2> QED BY <1>1, <1>2, <2>1, QueueCloseLeaves DEF Closing, Leaves, Keeps
<1>3. CASE f = "mp"
  <2>1. CloseFilter(s, f, c) = MpClose(s)
    BY <1>3 DEF CloseFilter
  <2> QED BY <1>1, <1>3, <2>1, MpCloseIs DEF Closing, Leaves, Keeps
<1>4. CASE f = "sys"
  <2>1. CloseFilter(s, f, c) = SysClose(s)
    BY <1>4 DEF CloseFilter
  <2> QED BY <1>1, <1>4, <2>1, SysCloseIs DEF Closing, Leaves, Keeps
<1>5. CASE f = "svc"
  <2>1. CloseFilter(s, f, c) = SvcClose(s)
    BY <1>5 DEF CloseFilter
  <2> QED BY <1>1, <1>5, <2>1, SvcCloseIs DEF Closing, Leaves, Keeps
<1> QED BY <1>2, <1>3, <1>4, <1>5 DEF Filters

\* Track.trk_close: whatever the order of the filters is, and whichever of them
\* were open, the player is idle, no track is open, and the service that shows
\* the track is going to be stopped.
LEMMA TrkCloseSound ==
  ASSUME NEW s \in AppType, NEW c, ConfOk(c)
  PROVE  LET r == TrkClose(s, c)
         IN Leaves(s, r) /\ Sound(s, r) /\ r.t.state = "NONE"
<1> DEFINE T0 == [s.t EXCEPT !.state = "NONE"]
           s0 == [s EXCEPT !.t = T0]
           s1 == CloseFilter(s0, c.order[1], c)
           s2 == CloseFilter(s1, c.order[2], c)
           s3 == CloseFilter(s2, c.order[3], c)
           s4 == CloseFilter(s3, c.order[4], c)
           T5 == [s4.t EXCEPT !.error = FALSE]
           r == [s4 EXCEPT !.t = T5]
           D1 == {c.order[1]}
           D2 == D1 \union {c.order[2]}
           D3 == D2 \union {c.order[3]}
           D4 == D3 \union {c.order[4]}
<1>1. TrkClose(s, c) = r
  BY Zenon DEF TrkClose
<1>2. /\ c.order[1] \in Filters /\ c.order[2] \in Filters /\ c.order[3] \in Filters
      /\ c.order[4] \in Filters /\ Filters \subseteq D4
  BY DEF ConfOk
<1>3. T0 \in TrackType /\ T0.state = "NONE" /\ T0.url = s.t.url
  BY DEF AppType, TrackType
<1>4. Leaves(s, s0) /\ Closing(s0, {})
  <2> HIDE DEF T0
  <2>1. /\ s0 \in AppType /\ s0.t = T0 /\ s0.q = s.q /\ s0.ask = s.ask /\ s0.trec = s.trec
        /\ s0.bad = s.bad
    BY <1>3 DEF AppType
  <2> HIDE DEF s0
  <2>2. Leaves(s, s0)
    BY <1>3, <2>1, PartChanged
  <2> QED BY <1>3, <2>1, <2>2 DEF Closing
<1> HIDE DEF s0
<1>5. Leaves(s0, s1) /\ Closing(s1, D1)
  BY <1>2, <1>4, CloseOne
<1> HIDE DEF s1, D1
<1>6. Leaves(s1, s2) /\ Closing(s2, D2)
  BY <1>2, <1>5, CloseOne
<1> HIDE DEF s2, D2
<1>7. Leaves(s2, s3) /\ Closing(s3, D3)
  BY <1>2, <1>6, CloseOne
<1> HIDE DEF s3, D3
<1>8. Leaves(s3, s4) /\ Closing(s4, D4)
  BY <1>2, <1>7, CloseOne
<1> HIDE DEF s4, D4
<1>9. /\ s4 \in AppType /\ s4.t.state = "NONE" /\ (s4.bad \/ ~s4.q.active)
      /\ s4.mp.st = "idle" /\ ~s4.mp.tmr /\ s4.svc.later /\ s4.svc.st = "SKIPPING"
  BY <1>2, <1>8 DEF Closing, Filters
<1>10. T5 \in TrackType /\ T5.state = "NONE" /\ T5.url = s4.t.url
  BY <1>9 DEF AppType, TrackType
<1> HIDE DEF T5
<1>11. /\ r \in AppType /\ r.t = T5 /\ r.q = s4.q /\ r.mp = s4.mp /\ r.svc = s4.svc
       /\ r.ask = s4.ask /\ r.trec = s4.trec /\ r.bad = s4.bad
  BY <1>9, <1>10 DEF AppType
<1> HIDE DEF r
<1>12. Leaves(s4, r)
  BY <1>9, <1>10, <1>11, PartChanged
<1>13. Leaves(s, r)
  BY <1>4, <1>5, <1>6, <1>7, <1>8, <1>12, LeavesTwice
<1>14. Player(r)
  <2>1. r.mp.tmr \in BOOLEAN /\ r.q.active \in BOOLEAN
    BY <1>11 DEF AppType, PlayerType, QueueType
  <2> QED BY <1>9, <1>10, <1>11, <2>1 DEF Player
<1> QED BY <1>1, <1>10, <1>11, <1>13, <1>14 DEF Leaves, Sound

-----------------------------------------------------------------------------
(* Opening a track.                                                        *)

\* A track that is being opened, with the filters in D open already.
Opening(s, D) ==
  /\ s \in AppType
  /\ "queue" \in D => s.bad \/ s.q.active
  /\ "mp" \in D =>
       /\ s.t.state = "OPENING" /\ s.mp.st = "preparing" /\ s.mp.src = s.t.url /\ ~s.mp.tmr
  /\ "sys" \in D => s.sys.focus /\ ~s.sys.later
  /\ "svc" \in D => s.svc.st = "BUFFERING" /\ ~s.svc.later

\* Queue.on_open: the active list is marked, as tags may have been read.
LEMMA QueueOpenLeaves ==
  ASSUME NEW s \in AppType, NEW c, ConfOk(c)
  PROVE  LET r == QueueOpen(s, c)
         IN /\ Leaves(s, r) /\ r.mp = s.mp /\ r.sys = s.sys /\ r.svc = s.svc
            /\ r.t.state = s.t.state /\ r.t.url = s.t.url /\ r.q.active
<1> DEFINE T1 == [s.t EXCEPT !.seek = IF c.skip THEN "skip" ELSE "zero"]
           T2 == [T1 EXCEPT !.tail = c.tail]
           Q == [s.q EXCEPT !.active = TRUE]
           x1 == [s EXCEPT !.q = Q]
           x == [x1 EXCEPT !.t = T2]
           f == s.q.lists
           e == [f[s.q.act] EXCEPT !.mod = TRUE]
           g == [f EXCEPT ![s.q.act] = e]
           y == [x EXCEPT !.q.lists[s.q.act] = e]
           z == [x EXCEPT !.q = [x.q EXCEPT !.lists = g]]
<1>0. s.q \in QueueType /\ s.t \in TrackType /\ c.tail \in BOOLEAN
      /\ f \in Seq(List) /\ Len(f) \in Nat /\ s.q.act \in Nat
  <2>1. s.q \in QueueType /\ s.t \in TrackType
    BY DEF AppType
  <2>2. c.tail \in BOOLEAN
    BY DEF ConfOk
  <2>3. f \in Seq(List) /\ s.q.act \in Nat
    BY <2>1 DEF QueueType
  <2>4. Len(f) \in Nat
    BY <2>3
  <2> QED BY <2>1, <2>2, <2>3, <2>4
<1>1. T1 \in TrackType /\ T1.state = s.t.state /\ T1.url = s.t.url
  BY <1>0 DEF TrackType
<1> HIDE DEF T1
<1>2. T2 \in TrackType /\ T2.state = s.t.state /\ T2.url = s.t.url
  BY <1>0, <1>1 DEF TrackType
<1>3. /\ Q \in QueueType /\ Q.lists = f /\ Q.act = s.q.act /\ Q.sel = s.q.sel /\ Q.idx = s.q.idx
      /\ Q.active = TRUE
  BY <1>0 DEF QueueType
<1> HIDE DEF T2, Q
<1>4. /\ x1 \in AppType /\ x1.q = Q /\ x1.t = s.t /\ x1.mp = s.mp /\ x1.sys = s.sys
      /\ x1.svc = s.svc /\ x1.ask = s.ask /\ x1.trec = s.trec /\ x1.bad = s.bad
  BY <1>3 DEF AppType
<1> HIDE DEF x1
<1>5. /\ x \in AppType /\ x.q = Q /\ x.t = T2 /\ x.mp = s.mp /\ x.sys = s.sys
      /\ x.svc = s.svc /\ x.ask = s.ask /\ x.trec = s.trec /\ x.bad = s.bad
  BY <1>2, <1>4 DEF AppType
<1>6. QueueOpen(s, c) = IF c.notags THEN x ELSE IF ~HasList(s, s.q.act) THEN Throws(x) ELSE y
  <2>1. [s EXCEPT !.q.active = TRUE, !.t.seek = IF c.skip THEN "skip" ELSE "zero",
                  !.t.tail = c.tail] = x
    BY DEF x, x1, T2, T1, Q, AppType
  <2>2. HasList(s, s.q.act) => [x EXCEPT !.q.lists[s.q.act].mod = TRUE] = y
    BY <1>3, <1>5 DEF HasList
  <2> DEFINE X == [s EXCEPT !.q.active = TRUE, !.t.seek = IF c.skip THEN "skip" ELSE "zero",
                            !.t.tail = c.tail]
  <2>3. QueueOpen(s, c) = IF c.notags THEN X ELSE IF ~HasList(s, s.q.act) THEN Throws(X)
                          ELSE [X EXCEPT !.q.lists[s.q.act].mod = TRUE]
    BY Zenon DEF QueueOpen
  <2>4. X = x
    BY <2>1
  <2> HIDE DEF x, y, X
  <2> QED BY <2>2, <2>3, <2>4
<1> HIDE DEF x
<1>7. Leaves(s, x)
  <2>1. Keeps(s, x)
    BY <1>0, <1>3, <1>5 DEF Keeps, Marked
  <2>2. Cursor(s) => Cursor(x)
    BY <1>2, <1>3, <1>5 DEF Cursor, HasList, InList, Items, IsId
  <2> QED BY <1>5, <2>1, <2>2 DEF Leaves
<1>8. CASE c.notags
  BY <1>2, <1>3, <1>5, <1>6, <1>7, <1>8
<1>9. CASE ~c.notags /\ ~HasList(s, s.q.act)
  <2> DEFINE r == Throws(x)
  <2>1. QueueOpen(s, c) = r
    BY <1>6, <1>9
  <2>2. r \in AppType /\ r.bad /\ r.q = x.q /\ r.t = x.t /\ r.mp = x.mp /\ r.sys = x.sys
        /\ r.svc = x.svc /\ r.ask = x.ask /\ r.trec = x.trec
    BY <1>5 DEF Throws, AppType
  <2>3. ~Cursor(s)
    BY <1>9 DEF Cursor
  <2> HIDE DEF r
  <2>4. Leaves(s, r)
    BY <1>5, <1>7, <2>2, <2>3 DEF Leaves, Keeps, Marked
  <2> QED BY <1>2, <1>3, <1>5, <2>1, <2>2, <2>4
<1>10. CASE ~c.notags /\ HasList(s, s.q.act)
  <2>1. s.q.act \in 1..Len(f)
    BY <1>10 DEF HasList
  <2>2. f[s.q.act] \in List
    BY <1>0, <2>1, ElementOfSeq
  <2>3. e \in List /\ e.mod /\ e.id = f[s.q.act].id /\ e.items = f[s.q.act].items
    BY <2>2 DEF List
  <2>4. y = z
    BY <1>3, <1>5, ListPut
  <2> HIDE DEF e, y
  <2>5. /\ g \in Seq(List) /\ Len(g) = Len(f)
        /\ \A i \in 1..Len(f) :
             /\ g[i] = IF i = s.q.act THEN e ELSE f[i]
             /\ g[i].id = f[i].id
             /\ g[i].mod \/ g[i] = f[i]
    BY <1>0, <2>1, <2>3, ListReplaced
  <2> HIDE DEF g
  <2>6. /\ z \in AppType /\ z.q.lists = g /\ z.q.act = Q.act /\ z.q.sel = Q.sel /\ z.q.idx = Q.idx
        /\ z.q.active = TRUE /\ z.t = x.t /\ z.mp = x.mp /\ z.sys = x.sys
        /\ z.svc = x.svc /\ z.ask = x.ask /\ z.trec = x.trec /\ z.bad = x.bad
    <3> DEFINE P == [x.q EXCEPT !.lists = g]
    <3>1. P \in QueueType /\ P.lists = g /\ P.act = Q.act /\ P.sel = Q.sel /\ P.idx = Q.idx
          /\ P.active = TRUE
      BY <1>3, <1>5, <2>5 DEF QueueType
    <3> HIDE DEF P
    <3>2. z = [x EXCEPT !.q = P]
      BY DEF P
    <3> HIDE DEF z
    <3> QED BY <1>5, <3>1, <3>2 DEF AppType
  <2> HIDE DEF z
  <2>7. Keeps(s, z)
    BY <1>3, <1>5, <2>5, <2>6 DEF Keeps, Marked
  <2>8. \A i \in 1..Len(f) : g[i].items = f[i].items
    BY <2>3, <2>5
  <2>9. ASSUME Cursor(s) PROVE Cursor(z)
    <3>1. z.q.act = s.q.act /\ z.q.sel = s.q.sel /\ z.q.idx = s.q.idx /\ z.ask = s.ask
          /\ z.bad = s.bad /\ z.t.url = s.t.url /\ z.q.lists = g /\ Len(g) = Len(f)
      BY <1>2, <1>3, <1>5, <2>5, <2>6
    <3>2. s.q.idx >= 0 => InList(z, z.q.act, z.q.idx) /\ Items(z, z.q.act)[z.q.idx + 1] = z.t.url
      <4>1. g[s.q.act].items = f[s.q.act].items
        BY <2>1, <2>8
      <4> QED BY <2>9, <3>1, <4>1 DEF Cursor, InList, Items
    <3>3. s.ask # 0 => IsId(z, z.ask)
      BY <2>5, <2>9, <3>1 DEF Cursor, IsId
    <3> QED BY <2>9, <3>1, <3>2, <3>3 DEF Cursor, HasList
  <2> QED BY <1>2, <1>5, <1>6, <1>10, <2>4, <2>6, <2>7, <2>9 DEF Leaves
<1> QED BY <1>8, <1>9, <1>10

LEMMA MpOpenIs ==
  ASSUME NEW s \in AppType
  PROVE  LET r == MpOpen(s)
         IN /\ Leaves(s, r) /\ r.q = s.q /\ r.sys = s.sys /\ r.svc = s.svc /\ r.bad = s.bad
            /\ ~MpFails(s) => /\ r.t.state = "OPENING" /\ r.mp.st = "preparing"
                              /\ r.mp.src = r.t.url /\ ~r.mp.tmr
<1> DEFINE t == [s.t EXCEPT !.state = "OPENING"]
           m == [st |-> "preparing", src |-> s.t.url, tmr |-> FALSE, seeking |-> FALSE]
           x == [s EXCEPT !.t = t]
           y == [x EXCEPT !.mp = m]
<1>1. t \in TrackType /\ t.state = "OPENING" /\ t.url = s.t.url /\ s.t.url \in Nat
  BY DEF AppType, TrackType
<1>2. m \in PlayerType /\ m.st = "preparing" /\ m.src = s.t.url /\ ~m.tmr
  BY <1>1 DEF PlayerType
<1> HIDE DEF t, m
<1>3. /\ x \in AppType /\ x.q = s.q /\ x.sys = s.sys /\ x.svc = s.svc /\ x.bad = s.bad
      /\ x.ask = s.ask /\ x.trec = s.trec /\ x.t = t /\ x.mp = s.mp
  BY <1>1 DEF AppType
<1> HIDE DEF x
<1>4. /\ y \in AppType /\ y.q = s.q /\ y.sys = s.sys /\ y.svc = s.svc /\ y.bad = s.bad
      /\ y.ask = s.ask /\ y.trec = s.trec /\ y.t = t /\ y.mp = m
  BY <1>2, <1>3 DEF AppType
<1> HIDE DEF y
<1>5. Leaves(s, x) /\ Leaves(s, y)
  BY <1>1, <1>3, <1>4, PartChanged
<1>6. MpOpen(s) = IF MpFails(s) THEN x ELSE y
  BY Zenon DEF MpOpen, x, y, t, m
<1> QED BY <1>1, <1>2, <1>3, <1>4, <1>5, <1>6

LEMMA SysOpenIs ==
  ASSUME NEW s \in AppType
  PROVE  LET r == SysOpen(s)
         IN /\ Leaves(s, r) /\ r.q = s.q /\ r.mp = s.mp /\ r.svc = s.svc /\ r.bad = s.bad
            /\ r.t = s.t
            /\ ~SysFails(s) => r.sys.focus /\ ~r.sys.later
<1> DEFINE x == [s.sys EXCEPT !.later = FALSE]
           y == [x EXCEPT !.focus = s.sys.focus \/ ~s.sys.busy]
           r == [s EXCEPT !.sys = y]
<1>0. s.sys \in SysType
  BY DEF AppType
<1>1. x \in SysType /\ ~x.later
  BY <1>0 DEF SysType
<1> HIDE DEF x
<1>2. y \in SysType /\ ~y.later /\ y.focus = (s.sys.focus \/ ~s.sys.busy)
  BY <1>0, <1>1 DEF SysType
<1> HIDE DEF y
<1>3. /\ r \in AppType /\ r.t = s.t /\ r.q = s.q /\ r.mp = s.mp /\ r.svc = s.svc
      /\ r.bad = s.bad /\ r.ask = s.ask /\ r.trec = s.trec /\ r.sys = y
  BY <1>2 DEF AppType
<1> HIDE DEF r
<1>4. Leaves(s, r)
  BY <1>3, PartChanged
<1>5. SysOpen(s) = r
  BY DEF SysOpen, r, y, x, AppType, SysType
<1> QED BY <1>2, <1>3, <1>4, <1>5 DEF SysFails

LEMMA SvcOpenIs ==
  ASSUME NEW s \in AppType
  PROVE  LET r == SvcOpen(s)
         IN /\ Leaves(s, r) /\ r.q = s.q /\ r.mp = s.mp /\ r.sys = s.sys /\ r.bad = s.bad
            /\ r.t = s.t /\ r.svc.st = "BUFFERING" /\ ~r.svc.later
<1> DEFINE y == [st |-> "BUFFERING", fg |-> TRUE, later |-> FALSE,
                 on |-> s.svc.on \/ s.svc.st = "STOPPED"]
           r == [s EXCEPT !.svc = y]
<1>1. s.svc \in SvcType
  BY DEF AppType
<1>2. y \in SvcType /\ y.st = "BUFFERING" /\ ~y.later
  BY <1>1 DEF SvcType
<1> HIDE DEF y
<1>3. /\ r \in AppType /\ r.t = s.t /\ r.q = s.q /\ r.mp = s.mp /\ r.sys = s.sys
      /\ r.bad = s.bad /\ r.ask = s.ask /\ r.trec = s.trec /\ r.svc = y
  BY <1>2 DEF AppType
<1> HIDE DEF r
<1>4. Leaves(s, r)
  BY <1>3, PartChanged
<1>5. SvcOpen(s) = r
  BY Zenon DEF SvcOpen, r, y
<1> QED BY <1>2, <1>3, <1>4, <1>5

\* One more filter is opened, or it fails.
LEMMA OpenOne ==
  ASSUME NEW s, NEW D, Opening(s, D), NEW f \in Filters, NEW c, ConfOk(c)
  PROVE  LET r == OpenFilter(s, f, c)
         IN Leaves(s, r) /\ (~OpenFails(s, f) => Opening(r, D \union {f}))
<1>1. s \in AppType
  BY DEF Opening
<1>2. CASE f = "queue"
  <2>1. OpenFilter(s, f, c) = QueueOpen(s, c)
    BY <1>2 DEF OpenFilter
  <2> QED BY <1>1, <1>2, <2>1, QueueOpenLeaves DEF Opening, Leaves, Keeps
<1>3. CASE f = "mp"
  <2>1. OpenFilter(s, f, c) = MpOpen(s) /\ OpenFails(s, f) = MpFails(s)
    BY <1>3 DEF OpenFilter, OpenFails
  <2> QED BY <1>1, <1>3, <2>1, MpOpenIs DEF Opening, Leaves, Keeps
<1>4. CASE f = "sys"
  <2>1. OpenFilter(s, f, c) = SysOpen(s) /\ OpenFails(s, f) = SysFails(s)
    BY <1>4 DEF OpenFilter, OpenFails
  <2> QED BY <1>1, <1>4, <2>1, SysOpenIs DEF Opening, Leaves, Keeps
<1>5. CASE f = "svc"
  <2>1. OpenFilter(s, f, c) = SvcOpen(s)
    BY <1>5 DEF OpenFilter
  <2> QED BY <1>1, <1>5, <2>1, SvcOpenIs DEF Opening, Leaves, Keeps
<1> QED BY <1>2, <1>3, <1>4, <1>5 DEF Filters

\* How far Track.start_3 has come: what it began with has become a.s, with
\* the filters in D open if none of them has failed.
Opened(s, a, D) == Leaves(s, a.s) /\ (a.ok => Opening(a.s, D))

LEMMA OpenNext ==
  ASSUME NEW s, NEW a, NEW D, Opened(s, a, D), NEW f \in Filters, NEW c, ConfOk(c)
  PROVE  Opened(s, IF ~a.ok THEN a ELSE [s |-> OpenFilter(a.s, f, c), ok |-> ~OpenFails(a.s, f)],
                D \union {f})
<1>1. CASE ~a.ok
  BY <1>1 DEF Opened
<1>2. CASE a.ok
  <2> DEFINE b == [s |-> OpenFilter(a.s, f, c), ok |-> ~OpenFails(a.s, f)]
  <2>1. Leaves(a.s, b.s) /\ (b.ok => Opening(b.s, D \union {f}))
    BY <1>2, OpenOne DEF Opened
  <2> HIDE DEF b
  <2>2. Opened(s, b, D \union {f})
    BY <2>1, LeavesTwice DEF Opened
  <2> QED BY <1>2, <2>2 DEF b
<1> QED BY <1>1, <1>2

\* Track.start_3: the track plays with every filter, or with none.
LEMMA Start3Sound ==
  ASSUME NEW s \in AppType, NEW c, ConfOk(c)
  PROVE  LET r == Start3(s, c) IN Leaves(s, r) /\ Sound(s, r)
<1> DEFINE a0 == [s |-> s, ok |-> TRUE]
           step(a, i) == IF ~a.ok THEN a
                         ELSE [s |-> OpenFilter(a.s, c.order[i], c),
                               ok |-> ~OpenFails(a.s, c.order[i])]
           a1 == step(a0, 1)
           a2 == step(a1, 2)
           a3 == step(a2, 3)
           a4 == step(a3, 4)
           D1 == {c.order[1]}
           D2 == D1 \union {c.order[2]}
           D3 == D2 \union {c.order[3]}
           D4 == D3 \union {c.order[4]}
           v == [a4.s EXCEPT !.t.error = TRUE]
<1>1. Start3(s, c) = IF a4.ok THEN a4.s ELSE TrkClose(v, c)
  BY Zenon DEF Start3
<1>2. /\ c.order[1] \in Filters /\ c.order[2] \in Filters /\ c.order[3] \in Filters
      /\ c.order[4] \in Filters /\ Filters \subseteq D4
  BY DEF ConfOk
<1>3. Opened(s, a0, {})
  BY LeavesSame DEF Opened, Opening
<1> HIDE DEF a0
<1>4. Opened(s, a1, D1)
  <2>1. Opened(s, step(a0, 1), {} \union {c.order[1]})
    BY <1>2, <1>3, OpenNext
  <2> QED BY <2>1
<1> HIDE DEF a1, D1
<1>5. Opened(s, a2, D2)
  BY <1>2, <1>4, OpenNext
<1> HIDE DEF a2, D2
<1>6. Opened(s, a3, D3)
  BY <1>2, <1>5, OpenNext
<1> HIDE DEF a3, D3
<1>7. Opened(s, a4, D4)
  BY <1>2, <1>6, OpenNext
<1> HIDE DEF a4, D4
<1>8. CASE a4.ok
  <2>1. Leaves(s, a4.s) /\ Opening(a4.s, D4)
    BY <1>7, <1>8 DEF Opened
  <2>2. a4.s \in AppType
    BY <2>1 DEF Opening
  <2>3. a4.s.q.active \in BOOLEAN /\ a4.s.mp.tmr \in BOOLEAN
    BY <2>2 DEF AppType, QueueType, PlayerType
  <2>4. Player(a4.s)
    BY <1>2, <2>1, <2>3 DEF Opening, Filters, Player
  <2> QED BY <1>1, <1>8, <2>1, <2>4 DEF Leaves, Sound
<1>9. CASE ~a4.ok
  <2>1. a4.s \in AppType /\ Leaves(s, a4.s)
    BY <1>7 DEF Opened, Leaves, Keeps
  <2> DEFINE T == [a4.s.t EXCEPT !.error = TRUE]
             w == [a4.s EXCEPT !.t = T]
  <2>2. v = w
    OBVIOUS
  <2>3. T \in TrackType /\ T.url = a4.s.t.url
    BY <2>1 DEF AppType, TrackType
  <2> HIDE DEF v, T
  <2>4. /\ w \in AppType /\ w.q = a4.s.q /\ w.ask = a4.s.ask /\ w.trec = a4.s.trec
        /\ w.bad = a4.s.bad /\ w.t = T
    BY <2>1, <2>3 DEF AppType
  <2> HIDE DEF w
  <2>5. Leaves(a4.s, w)
    BY <2>1, <2>3, <2>4, PartChanged
  <2>6. LET r == TrkClose(w, c) IN Leaves(w, r) /\ Sound(w, r)
    BY <2>4, TrkCloseSound
  <2> QED BY <1>1, <1>9, <2>1, <2>2, <2>5, <2>6, LeavesTwice DEF Leaves, Sound
<1> QED BY <1>8, <1>9

LEMMA SoundTwice ==
  ASSUME NEW s, NEW r, NEW u, Sound(s, r), Sound(r, u)
  PROVE  Sound(s, u)
BY MarkedTwice DEF Keeps, Sound

\* The same for a function that asks for no tags.
Stays(s, r) == Leaves(s, r) /\ Player(r)

LEMMA StaysTwice ==
  ASSUME NEW s, NEW r, NEW u, Stays(s, r), Stays(r, u)
  PROVE  Stays(s, u)
BY LeavesTwice DEF Stays

LEMMA StaysSame ==
  ASSUME NEW s \in AppType, Player(s)
  PROVE  Stays(s, s)
BY LeavesSame DEF Stays

LEMMA FineIsSound ==
  ASSUME NEW s, NEW r, Fine(s, r), Player(s)
  PROVE  Sound(s, r)
BY DEF Fine, Sound

\* A change to what is remembered of the track, but not to which one it is.
LEMMA TrackChanged ==
  ASSUME NEW s \in AppType, NEW t \in TrackType, t.url = s.t.url
  PROVE  LET r == [s EXCEPT !.t = t]
         IN /\ Leaves(s, r) /\ r.t = t /\ r.q = s.q /\ r.mp = s.mp /\ r.sys = s.sys /\ r.svc = s.svc
            /\ r.bad = s.bad /\ r.ask = s.ask
            /\ t.state = s.t.state => Fine(s, r)
<1> DEFINE r == [s EXCEPT !.t = t]
<1>1. /\ r \in AppType /\ r.t = t /\ r.q = s.q /\ r.mp = s.mp /\ r.sys = s.sys /\ r.svc = s.svc
      /\ r.bad = s.bad /\ r.ask = s.ask /\ r.trec = s.trec
  BY DEF AppType
<1> HIDE DEF r
<1>2. Leaves(s, r)
  BY <1>1, PartChanged
<1>3. t.state = s.t.state /\ Player(s) => Player(r)
  BY <1>1 DEF Player
<1> QED BY <1>1, <1>2, <1>3 DEF Leaves, Fine, r

\* Track.stop and MP.on_complete.
LEMMA TrackStopSound ==
  ASSUME NEW s \in AppType, NEW c, ConfOk(c)
  PROVE  LET r == TrackStop(s, c) IN Sound(s, r) /\ Leaves(s, r) /\ r.t.state = "NONE"
<1> DEFINE t == [s.t EXCEPT !.stopped = TRUE]
           w == [s EXCEPT !.t = t]
<1>1. t \in TrackType /\ t.url = s.t.url
  BY DEF AppType, TrackType
<1>2. TrackStop(s, c) = TrkClose(w, c)
  BY Zenon DEF TrackStop
<1> HIDE DEF t
<1>3. Leaves(s, w)
  BY <1>1, TrackChanged
<1> HIDE DEF w
<1>4. w \in AppType
  BY <1>3 DEF Leaves, Keeps
<1>5. LET r == TrkClose(w, c) IN Leaves(w, r) /\ Sound(w, r) /\ r.t.state = "NONE"
  BY <1>4, TrkCloseSound
<1> QED BY <1>2, <1>3, <1>5, LeavesTwice DEF Leaves, Sound

LEMMA OnCompleteSound ==
  ASSUME NEW s \in AppType, NEW c, ConfOk(c), Player(s) \/ s.t.state # "NONE"
  PROVE  Stays(s, OnComplete(s, c))
<1> DEFINE t == [s.t EXCEPT !.stopped = FALSE]
           w == [s EXCEPT !.t = t]
<1>1. t \in TrackType /\ t.url = s.t.url
  BY DEF AppType, TrackType
<1>2. OnComplete(s, c) = IF s.t.state = "NONE" THEN s ELSE TrkClose(w, c)
  BY Zenon DEF OnComplete
<1> HIDE DEF t
<1>3. Leaves(s, w)
  BY <1>1, TrackChanged
<1> HIDE DEF w
<1>4. w \in AppType
  BY <1>3 DEF Leaves, Keeps
<1>5. Leaves(w, TrkClose(w, c)) /\ Stays(w, TrkClose(w, c))
  BY <1>4, TrkCloseSound DEF Sound, Stays
<1> QED BY <1>2, <1>3, <1>5, LeavesTwice, LeavesSame DEF Leaves, Sound, Stays

-----------------------------------------------------------------------------
(* Playing an entry of a list.                                             *)

\* The list that plays is switched.
LEMMA ActSet ==
  ASSUME NEW q \in QueueType, NEW l \in Nat \ {0}
  PROVE  LET P == [q EXCEPT !.act = l]
         IN /\ P \in QueueType /\ P.act = l
            /\ P.lists = q.lists /\ P.active = q.active /\ P.sel = q.sel
BY DEF QueueType

\* Queue._play makes an entry of the list the current one.
LEMMA Pointed ==
  ASSUME NEW x \in AppType, NEW l \in Nat, NEW it \in Int, HasList(x, l), InList(x, l, it)
  PROVE  LET p == [x EXCEPT !.q.act = l, !.q.idx = it, !.q.cur = it]
             w == [p EXCEPT !.t.url = Items(p, l)[it + 1], !.t.seek = "none"]
         IN /\ Keeps(x, p) /\ p.t = x.t /\ p.bad = x.bad /\ p.q.lists = x.q.lists
            /\ Keeps(x, w) /\ w.t.state = x.t.state /\ w.mp = x.mp /\ w.sys = x.sys /\ w.svc = x.svc
            /\ w.bad = x.bad /\ w.ask = x.ask /\ w.q.active = x.q.active /\ w.q.lists = x.q.lists
            /\ Cursor(x) => Cursor(w)
<1> DEFINE P == [x.q EXCEPT !.act = l]
           O == [P EXCEPT !.idx = it]
           Q == [O EXCEPT !.cur = it]
           u == Items(x, l)[it + 1]
           T == [x.t EXCEPT !.url = u]
           S == [T EXCEPT !.seek = "none"]
           p == [x EXCEPT !.q = Q]
           w == [p EXCEPT !.t = S]
<1>0. x.q \in QueueType /\ x.t \in TrackType /\ Len(x.q.lists) \in Nat /\ x.q.lists \in Seq(List)
  BY DEF AppType, QueueType
<1>1. u \in Nat /\ it >= 0
  <2>1. x.q.lists[l] \in List
    BY <1>0, ElementOfSeq DEF HasList
  <2>2. Items(x, l) \in Seq(Nat) /\ it + 1 \in 1..Len(Items(x, l))
    BY <2>1 DEF List, Items, InList
  <2> QED BY <2>2, ElementOfSeq
<1>2. P \in QueueType /\ P.act = l /\ P.lists = x.q.lists /\ P.active = x.q.active /\ P.sel = x.q.sel
  <2>1. l \in Nat \ {0}
    BY <1>0 DEF HasList
  <2> QED BY <1>0, <2>1, ActSet
<1> HIDE DEF P
<1>3. O \in QueueType /\ O.act = l /\ O.idx = it /\ O.lists = x.q.lists /\ O.active = x.q.active /\ O.sel = x.q.sel
  BY <1>2 DEF QueueType
<1> HIDE DEF O
<1>4. Q \in QueueType /\ Q.act = l /\ Q.idx = it /\ Q.lists = x.q.lists /\ Q.active = x.q.active /\ Q.sel = x.q.sel
  BY <1>3 DEF QueueType
<1> HIDE DEF Q, u
<1>5. T \in TrackType /\ T.url = u /\ T.state = x.t.state
  BY <1>0, <1>1 DEF TrackType
<1> HIDE DEF T
<1>6. S \in TrackType /\ S.url = u /\ S.state = x.t.state
  BY <1>5 DEF TrackType
<1> HIDE DEF S
<1>7. /\ p \in AppType /\ p.q = Q /\ p.t = x.t /\ p.mp = x.mp /\ p.sys = x.sys /\ p.svc = x.svc
      /\ p.bad = x.bad /\ p.ask = x.ask /\ p.trec = x.trec
  BY <1>4 DEF AppType
<1>8. p = [x EXCEPT !.q.act = l, !.q.idx = it, !.q.cur = it]
  BY DEF Q, O, P, AppType, QueueType
<1> HIDE DEF p
<1>9. /\ w \in AppType /\ w.q = Q /\ w.t = S /\ w.mp = x.mp /\ w.sys = x.sys /\ w.svc = x.svc
      /\ w.bad = x.bad /\ w.ask = x.ask /\ w.trec = x.trec
  BY <1>6, <1>7 DEF AppType
<1>10. w = [p EXCEPT !.t.url = Items(p, l)[it + 1], !.t.seek = "none"]
  <2>1. Items(p, l)[it + 1] = u
    BY <1>4, <1>7 DEF Items, u
  <2>2. p.t = x.t
    BY <1>7
  <2> QED BY <1>7, <2>1, <2>2 DEF S, T, AppType, TrackType
<1> HIDE DEF w
<1>11. Keeps(x, p) /\ Keeps(x, w)
  BY <1>0, <1>4, <1>7, <1>9 DEF Keeps, Marked
<1>12. ASSUME Cursor(x) PROVE Cursor(w)
  BY <1>4, <1>6, <1>9, <1>12 DEF Cursor, HasList, InList, Items, IsId, u
<1> QED BY <1>4, <1>6, <1>7, <1>8, <1>9, <1>10, <1>11, <1>12

\* Queue._play: the playing track is stopped first; then no track is open, and
\* Track.start opens the new one or has its tags read.
LEMMA PlaySound ==
  ASSUME NEW s \in AppType, Player(s), NEW l \in Nat, HasList(s, l), NEW it \in Int,
         NEW c, ConfOk(c)
  PROVE  Sound(s, Play(s, l, it, c))
<1> DEFINE x == IF s.q.active THEN TrackStop(s, c) ELSE s
           p == [x EXCEPT !.q.act = l, !.q.idx = it, !.q.cur = it]
           w == [p EXCEPT !.t.url = Items(p, l)[it + 1], !.t.seek = "none"]
           a == [w EXCEPT !.ask = p.q.lists[l].id]
<1>1. Sound(s, x) /\ (s.bad \/ x.t.state = "NONE")
  <2>1. CASE s.q.active
    BY <2>1, TrackStopSound
  <2>2. CASE ~s.q.active
    <3>1. Sound(s, s)
      BY FineSame DEF Fine, Sound
    <3>2. s.q.active \in BOOLEAN
      BY DEF AppType, QueueType
    <3> QED BY <2>2, <3>1, <3>2 DEF Player
  <2> QED BY <2>1, <2>2
<1>2. Play(s, l, it, c) = IF ~HasList(x, l) THEN Throws(x) ELSE IF ~InList(x, l, it) THEN x
                          ELSE IF p.t.state # "NONE" THEN p
                          ELSE IF c.notags THEN Start3(w, c) ELSE a
  BY Zenon DEF Play, Start
<1> HIDE DEF x
<1>3. x \in AppType /\ HasList(x, l) /\ Player(x)
  BY <1>1 DEF Sound, Keeps, Marked, HasList
<1>4. CASE ~InList(x, l, it)
  BY <1>1, <1>2, <1>3, <1>4
<1>5. CASE InList(x, l, it)
  <2>1. /\ Keeps(x, p) /\ p.t = x.t /\ p.bad = x.bad /\ p.q.lists = x.q.lists
        /\ Keeps(x, w) /\ w.t.state = x.t.state /\ w.mp = x.mp /\ w.sys = x.sys /\ w.svc = x.svc
        /\ w.bad = x.bad /\ w.ask = x.ask /\ w.q.active = x.q.active /\ w.q.lists = x.q.lists
        /\ Cursor(x) => Cursor(w)
    BY <1>3, <1>5, Pointed
  <2> HIDE DEF w, p
  <2>2. w \in AppType
    BY <2>1 DEF Keeps
  <2>3. CASE p.t.state # "NONE"
    <3>1. p.bad /\ ~Cursor(x)
      BY <1>1, <2>1, <2>3 DEF Sound, Keeps, Cursor
    <3>2. Sound(x, p)
      BY <2>1, <3>1 DEF Sound, Player
    <3> QED BY <1>1, <1>2, <1>3, <1>5, <2>3, <3>2, SoundTwice
  <2>4. CASE p.t.state = "NONE" /\ c.notags
    <3>1. Sound(w, Start3(w, c))
      BY <2>2, Start3Sound
    <3>2. Sound(x, Start3(w, c))
      BY <2>1, <3>1, MarkedTwice DEF Sound, Keeps
    <3> QED BY <1>1, <1>2, <1>3, <1>5, <2>4, <3>2, SoundTwice
  <2>5. CASE p.t.state = "NONE" /\ ~c.notags
    <3> DEFINE i == p.q.lists[l].id
    <3>1. i \in Nat /\ IsId(w, i)
      <4>1. l \in 1..Len(x.q.lists) /\ x.q.lists \in Seq(List)
        BY <1>3 DEF HasList, AppType, QueueType
      <4>2. x.q.lists[l] \in List
        BY <4>1, ElementOfSeq
      <4> QED BY <2>1, <4>1, <4>2 DEF List, IsId
    <3> HIDE DEF i
    <3>2. a = [w EXCEPT !.ask = i]
      BY DEF i
    <3> HIDE DEF a
    <3>3. /\ a \in AppType /\ a.q = w.q /\ a.t = w.t /\ a.mp = w.mp /\ a.sys = w.sys
          /\ a.svc = w.svc /\ a.bad = w.bad /\ a.trec = w.trec /\ a.ask = i
      BY <2>2, <3>1, <3>2 DEF AppType
    <3>4. Keeps(x, a)
      BY <2>1, <3>3 DEF Keeps, Marked
    <3>5. Player(a)
      BY <1>3, <2>1, <2>5, <3>3 DEF Player
    <3>6. Cursor(w) => Cursor(a)
      BY <3>1, <3>3 DEF Cursor, HasList, InList, Items, IsId
    <3>7. Sound(x, a)
      BY <2>1, <3>4, <3>5, <3>6 DEF Sound
    <3> QED BY <1>1, <1>2, <1>3, <1>5, <2>5, <3>7, SoundTwice
  <2> QED BY <2>3, <2>4, <2>5
<1> QED BY <1>4, <1>5

LEMMA PlaycurSound ==
  ASSUME NEW s \in AppType, Player(s), NEW c, ConfOk(c)
  PROVE  Sound(s, Playcur(s, c))
<1> DEFINE it == IF InList(s, s.q.act, s.q.cur) THEN s.q.cur ELSE 0
<1>1. it \in Int /\ s.q.act \in Nat
  BY DEF AppType, QueueType
<1>2. Playcur(s, c) = IF ~HasList(s, s.q.act) THEN Throws(s) ELSE Play(s, s.q.act, it, c)
  BY DEF Playcur
<1> HIDE DEF it
<1>3. ~HasList(s, s.q.act) => Sound(s, Throws(s))
  BY ThrowsSound DEF Cursor
<1>4. HasList(s, s.q.act) => Sound(s, Play(s, s.q.act, it, c))
  BY <1>1, PlaySound
<1> QED BY <1>2, <1>3, <1>4

LEMMA PlayDeltaSound ==
  ASSUME NEW s \in AppType, Player(s), NEW delta \in Int, NEW rnd \in Int, NEW c, ConfOk(c)
  PROVE  Sound(s, PlayDelta(s, delta, rnd, c))
<1> DEFINE n == Len(Items(s, s.q.act))
           i == s.q.cur + delta
           j == IF ~c.repeat THEN i ELSE IF i > n THEN 0 ELSE IF i <= 0 THEN n - 1 ELSE i
           Q == [s.q EXCEPT !.split = IF n = 1 THEN s.q.split ELSE ~s.q.split]
           x == [s EXCEPT !.q = Q]
<1>1. PlayDelta(s, delta, rnd, c) =
        IF ~HasList(s, s.q.act) THEN Throws(s) ELSE IF n = 0 THEN s
        ELSE IF c.random THEN Play(x, s.q.act, rnd, c) ELSE Play(s, s.q.act, j, c)
  BY Zenon DEF PlayDelta
<1>2. CASE ~HasList(s, s.q.act)
  BY <1>1, <1>2, ThrowsSound DEF Cursor
<1>3. CASE HasList(s, s.q.act)
  <2>0. s.q \in QueueType /\ s.q.act \in Nat /\ s.q.cur \in Int
    BY DEF AppType, QueueType
  <2>1. n \in Nat
    <3>1. s.q.lists[s.q.act] \in List
      BY <1>3, ElementOfSeq DEF HasList, AppType, QueueType
    <3> QED BY <3>1 DEF List, Items
  <2> HIDE DEF n
  <2>2. j \in Int
    BY <2>0, <2>1
  <2>3. /\ Q \in QueueType /\ Q.lists = s.q.lists /\ Q.active = s.q.active /\ Q.idx = s.q.idx
        /\ Q.act = s.q.act /\ Q.sel = s.q.sel
    BY <2>0 DEF QueueType
  <2> HIDE DEF Q, j
  <2>4. /\ x \in AppType /\ x.q = Q /\ x.t = s.t /\ x.mp = s.mp /\ x.sys = s.sys /\ x.svc = s.svc
        /\ x.bad = s.bad /\ x.ask = s.ask /\ x.trec = s.trec
    BY <2>3 DEF AppType
  <2> HIDE DEF x
  <2>5. Sound(s, x)
    <3>1. Keeps(s, x)
      BY <2>0, <2>3, <2>4 DEF Keeps, Marked, QueueType
    <3>2. Player(x)
      BY <2>3, <2>4 DEF Player
    <3>3. Cursor(s) => Cursor(x)
      BY <2>3, <2>4 DEF Cursor, HasList, InList, Items, IsId
    <3> QED BY <3>1, <3>2, <3>3 DEF Sound
  <2>6. Sound(x, Play(x, s.q.act, rnd, c))
    <3>1. HasList(x, s.q.act) /\ Player(x)
      BY <1>3, <2>3, <2>4, <2>5 DEF HasList, Sound
    <3> QED BY <2>0, <2>4, <3>1, PlaySound
  <2>7. Sound(s, Play(s, s.q.act, j, c))
    BY <1>3, <2>0, <2>2, PlaySound
  <2>8. Sound(s, s)
    BY FineSame DEF Fine, Sound
  <2> QED BY <1>1, <1>3, <2>5, <2>6, <2>7, <2>8, SoundTwice
<1> QED BY <1>2, <1>3

\* order_next: the playing entry may be copied to the next list and removed
\* from its own before the next one is played.
LEMMA OrderNextSound ==
  ASSUME NEW s \in AppType, Player(s), NEW rnd \in Int, NEW c, ConfOk(c)
  PROVE  Sound(s, OrderNext(s, rnd, c))
<1> DEFINE rm == s.q.active /\ s.q.idx >= 0 /\ (c.addnext \/ c.rmnext)
           x == IF rm /\ c.addnext THEN NextListAddCur(s) ELSE s
           y == IF rm /\ ~x.bad THEN RemoveEntry(x, x.q.idx) ELSE x
           delta == IF rm \/ (s.q.active /\ s.q.idx < 0) THEN 0 ELSE 1
<1>1. OrderNext(s, rnd, c) = IF y.bad THEN y ELSE PlayDelta(y, delta, rnd, c)
  BY DEF OrderNext
<1>2. delta \in Int
  OBVIOUS
<1> HIDE DEF delta
<1>3. Sound(s, x) /\ (rm /\ ~x.bad => x.q.idx \in Nat)
  <2>1. s.q.idx \in Int
    BY DEF AppType, QueueType
  <2>2. CASE rm /\ c.addnext
    <3>1. Fine(s, x) /\ (~x.bad => x.q.idx = s.q.idx)
      BY <2>2, NextListAddCurFine
    <3> QED BY <2>1, <3>1, FineIsSound
  <2>3. CASE ~(rm /\ c.addnext)
    BY <2>1, <2>3, FineSame, FineIsSound
  <2> QED BY <2>2, <2>3
<1> HIDE DEF x
<1>4. x \in AppType /\ Player(x)
  BY <1>3 DEF Sound, Keeps
<1>5. Sound(x, y)
  <2>1. CASE rm /\ ~x.bad
    <3>1. Fine(x, y)
      BY <1>3, <1>4, <2>1, RemoveFine
    <3> QED BY <1>4, <3>1, FineIsSound
  <2>2. CASE ~(rm /\ ~x.bad)
    BY <1>4, <2>2, FineSame, FineIsSound
  <2> QED BY <2>1, <2>2
<1> HIDE DEF y
<1>6. y \in AppType /\ Player(y)
  BY <1>5 DEF Sound, Keeps
<1>7. Sound(y, PlayDelta(y, delta, rnd, c))
  BY <1>2, <1>6, PlayDeltaSound
<1> QED BY <1>1, <1>3, <1>5, <1>7, SoundTwice

-----------------------------------------------------------------------------
(* The player's events.                                                    *)

\* A track that plays or is paused, and whose player may not know yet.
Half(s) ==
  ~s.bad =>
    /\ s.t.state \in {"PLAYING", "PAUSED", "UNPAUSE", "SEEKING"}
    /\ s.mp.st \in {"started", "paused"}
    /\ s.t.state \in {"PLAYING", "SEEKING"} => s.mp.st = "started"
    /\ s.mp.src = s.t.url /\ s.mp.tmr /\ s.q.active /\ s.sys.focus
    /\ ~s.sys.later /\ ~s.svc.later /\ s.svc.st # "STOPPED"

\* The player is told.
LEMMA MpChanged ==
  ASSUME NEW s \in AppType, NEW m \in PlayerType
  PROVE  LET r == [s EXCEPT !.mp = m]
         IN /\ Leaves(s, r) /\ r.t = s.t /\ r.q = s.q /\ r.mp = m /\ r.sys = s.sys /\ r.svc = s.svc
            /\ r.bad = s.bad
<1> DEFINE r == [s EXCEPT !.mp = m]
<1>1. /\ r \in AppType /\ r.t = s.t /\ r.q = s.q /\ r.mp = m /\ r.sys = s.sys /\ r.svc = s.svc
      /\ r.bad = s.bad /\ r.ask = s.ask /\ r.trec = s.trec
  BY DEF AppType
<1> HIDE DEF r
<1> QED BY <1>1, PartChanged DEF r

\* MP.on_process
LEMMA MpProcessSound ==
  ASSUME NEW s \in AppType, Half(s), NEW c, ConfOk(c)
  PROVE  Stays(s, MpProcess(s, c))
<1> DEFINE T1 == [s.t EXCEPT !.state = IF s.t.state = "PLAYING" THEN "SEEKING" ELSE s.t.state]
           T2 == [T1 EXCEPT !.tail = s.t.tail /\ ~(s.t.seek = "user" /\ s.t.intail)]
           T3 == [T2 EXCEPT !.seek = "none"]
           m == [s.mp EXCEPT !.seeking = TRUE]
           v == [s EXCEPT !.t = T3]
           w == [v EXCEPT !.mp = m]
           x == IF s.t.seek = "none" THEN s ELSE w
           m1 == [x.mp EXCEPT !.st = "paused"]
           y == [x EXCEPT !.mp = m1]
           m2 == [x.mp EXCEPT !.st = "started"]
           T4 == [x.t EXCEPT !.state = "PLAYING"]
           z1 == [x EXCEPT !.t = T4]
           z == [z1 EXCEPT !.mp = m2]
<1>0. s.t \in TrackType /\ s.mp \in PlayerType
  BY DEF AppType
<1>1. T1 \in TrackType /\ T1.url = s.t.url
      /\ T1.state = IF s.t.state = "PLAYING" THEN "SEEKING" ELSE s.t.state
  BY <1>0 DEF TrackType
<1> HIDE DEF T1
<1>2. T2 \in TrackType /\ T2.url = s.t.url /\ T2.state = T1.state
  BY <1>0, <1>1 DEF TrackType
<1> HIDE DEF T2
<1>3. T3 \in TrackType /\ T3.url = s.t.url /\ T3.state = T1.state
  BY <1>2 DEF TrackType
<1> HIDE DEF T3
<1>4. m \in PlayerType /\ m.st = s.mp.st /\ m.src = s.mp.src /\ m.tmr = s.mp.tmr
  BY <1>0 DEF PlayerType
<1> HIDE DEF m
<1>5. /\ v \in AppType /\ Leaves(s, v) /\ v.t = T3 /\ v.q = s.q /\ v.mp = s.mp /\ v.sys = s.sys
      /\ v.svc = s.svc /\ v.bad = s.bad
  BY <1>3, TrackChanged DEF Leaves, Keeps
<1> HIDE DEF v
<1>6. /\ w \in AppType /\ Leaves(v, w) /\ w.t = T3 /\ w.q = s.q /\ w.mp = m /\ w.sys = s.sys
      /\ w.svc = s.svc /\ w.bad = s.bad
  BY <1>4, <1>5, MpChanged DEF Leaves, Keeps
<1>7. w = [s EXCEPT !.t.state = IF @ = "PLAYING" THEN "SEEKING" ELSE @,
                    !.t.tail = @ /\ ~(s.t.seek = "user" /\ s.t.intail), !.t.seek = "none",
                    !.mp.seeking = TRUE]
  BY DEF w, v, m, T1, T2, T3, AppType
<1> HIDE DEF w
<1>8. x \in AppType /\ Leaves(s, x) /\ Half(x)
  <2>1. CASE s.t.seek = "none"
    BY <2>1, LeavesSame
  <2>2. CASE s.t.seek # "none"
    <3>1. Half(w)
      BY <1>1, <1>3, <1>4, <1>6 DEF Half
    <3> QED BY <1>5, <1>6, <2>2, <3>1, LeavesTwice
  <2> QED BY <2>1, <2>2
<1>9. MpProcess(s, c) =
        IF x.t.tail /\ x.t.intail THEN OnComplete(x, c) ELSE IF x.t.state = "PAUSED" THEN y
        ELSE IF x.t.state = "UNPAUSE" THEN z ELSE x
  <2> DEFINE W == [s EXCEPT !.t.state = IF @ = "PLAYING" THEN "SEEKING" ELSE @,
                    !.t.tail = @ /\ ~(s.t.seek = "user" /\ s.t.intail), !.t.seek = "none",
                    !.mp.seeking = TRUE]
             X == IF s.t.seek = "none" THEN s ELSE W
  <2>1. MpProcess(s, c) =
        IF X.t.tail /\ X.t.intail THEN OnComplete(X, c)
        ELSE IF X.t.state = "PAUSED" THEN [X EXCEPT !.mp.st = "paused"]
        ELSE IF X.t.state = "UNPAUSE" THEN [X EXCEPT !.t.state = "PLAYING", !.mp.st = "started"]
        ELSE X
    BY Zenon DEF MpProcess
  <2>2. X = x
    BY <1>7
  <2> HIDE DEF X, x
  <2>3. [x EXCEPT !.mp.st = "paused"] = y
    OBVIOUS
  <2>4. [x EXCEPT !.t.state = "PLAYING", !.mp.st = "started"] = z
    BY <1>8 DEF AppType
  <2> QED BY <2>1, <2>2, <2>3, <2>4
<1> HIDE DEF x
<1>10. x.t \in TrackType /\ x.mp \in PlayerType
  BY <1>8 DEF AppType
<1>11. x.q.active \in BOOLEAN /\ x.mp.tmr \in BOOLEAN
  BY <1>8 DEF AppType, QueueType, PlayerType
<1>12. Stays(x, OnComplete(x, c))
  BY <1>8, OnCompleteSound DEF Half, Player
<1>13. x.t.state = "PAUSED" => Stays(x, y)
  <2>1. m1 \in PlayerType /\ m1.st = "paused" /\ m1.src = x.mp.src /\ m1.tmr = x.mp.tmr
    BY <1>10 DEF PlayerType
  <2> HIDE DEF m1
  <2>2. /\ Leaves(x, y) /\ y.t = x.t /\ y.q = x.q /\ y.mp = m1 /\ y.sys = x.sys
        /\ y.svc = x.svc /\ y.bad = x.bad
    BY <1>8, <2>1, MpChanged
  <2> HIDE DEF y
  <2>3. x.t.state = "PAUSED" => Player(y)
    BY <1>8, <1>11, <2>1, <2>2 DEF Half, Player
  <2> QED BY <2>2, <2>3 DEF Leaves, Sound, Stays
<1>14. x.t.state = "UNPAUSE" => Stays(x, z)
  <2>1. m2 \in PlayerType /\ m2.st = "started" /\ m2.src = x.mp.src /\ m2.tmr = x.mp.tmr
    BY <1>10 DEF PlayerType
  <2>2. T4 \in TrackType /\ T4.url = x.t.url /\ T4.state = "PLAYING"
    BY <1>10 DEF TrackType
  <2> HIDE DEF m2, T4
  <2>3. /\ z1 \in AppType /\ Leaves(x, z1) /\ z1.t = T4 /\ z1.q = x.q /\ z1.mp = x.mp /\ z1.sys = x.sys
        /\ z1.svc = x.svc /\ z1.bad = x.bad
    BY <1>8, <2>2, TrackChanged DEF Leaves, Keeps
  <2> HIDE DEF z1
  <2>4. /\ Leaves(z1, z) /\ z.t = T4 /\ z.q = x.q /\ z.mp = m2 /\ z.sys = x.sys
        /\ z.svc = x.svc /\ z.bad = x.bad
    BY <2>1, <2>3, MpChanged
  <2> HIDE DEF z
  <2>5. x.t.state = "UNPAUSE" => Player(z)
    BY <1>8, <1>11, <2>1, <2>2, <2>4 DEF Half, Player
  <2>6. Leaves(x, z)
    BY <2>3, <2>4, LeavesTwice
  <2> QED BY <2>5, <2>6 DEF Leaves, Sound, Stays
<1>15. x.t.state \notin {"PAUSED", "UNPAUSE"} => Stays(x, x)
  <2>1. x.t.state \notin {"PAUSED", "UNPAUSE"} => Player(x)
    BY <1>8, <1>11 DEF Half, Player
  <2> QED BY <1>8, <2>1, LeavesSame DEF Leaves, Sound, Stays
<1>16. Stays(x, MpProcess(s, c))
  <2> HIDE DEF y, z
  <2> QED BY <1>9, <1>12, <1>13, <1>14, <1>15
<1> QED BY <1>8, <1>16, MarkedTwice DEF Leaves, Sound, Stays, Keeps

\* Svc.update_track
LEMMA SvcProcessIs ==
  ASSUME NEW s \in AppType
  PROVE  LET r == SvcProcess(s)
         IN Leaves(s, r) /\ (Half(s) => Half(r)) /\ (Player(s) => Player(r))
<1> DEFINE y == [s.svc EXCEPT !.st = "PLAYING"]
           r == [s EXCEPT !.svc = y]
<1>1. y \in SvcType /\ y.st = "PLAYING" /\ y.later = s.svc.later /\ y.on = s.svc.on
  BY DEF AppType, SvcType
<1> HIDE DEF y
<1>2. /\ r \in AppType /\ r.t = s.t /\ r.q = s.q /\ r.mp = s.mp /\ r.sys = s.sys
      /\ r.bad = s.bad /\ r.ask = s.ask /\ r.trec = s.trec /\ r.svc = y
  BY <1>1 DEF AppType
<1> HIDE DEF r
<1>3. Leaves(s, r)
  BY <1>2, PartChanged
<1>4. SvcProcess(s) = IF s.t.state = "PLAYING" THEN r ELSE s
  BY DEF SvcProcess, r, y
<1>5. Half(s) => Half(r)
  BY <1>1, <1>2 DEF Half
<1>6. s.t.state = "PLAYING" /\ Player(s) => Player(r)
  BY <1>1, <1>2 DEF Player
<1> QED BY <1>3, <1>4, <1>5, <1>6, LeavesSame

\* Track.update: the player and the service, in either order.
LEMMA UpdateSound ==
  ASSUME NEW s \in AppType, Half(s), NEW c, ConfOk(c)
  PROVE  Stays(s, Update(s, c))
<1>1. Update(s, c) \in {SvcProcess(MpProcess(s, c)), MpProcess(SvcProcess(s), c)}
  BY DEF Update
<1>2. Stays(s, SvcProcess(MpProcess(s, c)))
  <2> DEFINE x == MpProcess(s, c)
  <2>1. Stays(s, x)
    BY MpProcessSound
  <2> HIDE DEF x
  <2>2. x \in AppType /\ Player(x)
    BY <2>1 DEF Stays, Leaves, Keeps
  <2>3. Stays(x, SvcProcess(x))
    BY <2>2, SvcProcessIs DEF Leaves, Sound, Stays
  <2> QED BY <2>1, <2>3, StaysTwice DEF x
<1>3. Stays(s, MpProcess(SvcProcess(s), c))
  <2> DEFINE x == SvcProcess(s)
  <2>1. Leaves(s, x) /\ Half(x)
    BY SvcProcessIs
  <2> HIDE DEF x
  <2>2. Stays(x, MpProcess(x, c))
    BY <2>1, MpProcessSound DEF Leaves, Keeps
  <2> QED BY <2>1, <2>2, MarkedTwice DEF Leaves, Sound, Stays, Keeps, x
<1> QED BY <1>1, <1>2, <1>3

\* A track that plays or is paused gets a new state or is to seek, and all are told.
LEMMA ToldSound ==
  ASSUME NEW s \in AppType, Player(s), NEW c, ConfOk(c), NEW t \in TrackType, t.url = s.t.url,
         s.t.state \in {"PLAYING", "PAUSED"}, t.state \in {s.t.state, "PAUSED", "UNPAUSE"}
  PROVE  Stays(s, Update([s EXCEPT !.t = t], c))
<1> DEFINE w == [s EXCEPT !.t = t]
<1>1. /\ Leaves(s, w) /\ w.t = t /\ w.q = s.q /\ w.mp = s.mp /\ w.sys = s.sys /\ w.svc = s.svc
      /\ w.bad = s.bad
  BY TrackChanged
<1> HIDE DEF w
<1>2. s.mp.st \in {"idle", "preparing", "started", "paused"}
  BY DEF AppType, PlayerType
<1>3. Half(w)
  BY <1>1, <1>2 DEF Player, Half
<1>4. Stays(w, Update(w, c))
  BY <1>1, <1>3, UpdateSound DEF Leaves, Keeps
<1> QED BY <1>1, <1>4, MarkedTwice DEF Leaves, Sound, Stays, Keeps, w

\* Track.pause
LEMMA PauseSound ==
  ASSUME NEW s \in AppType, Player(s), NEW c, ConfOk(c)
  PROVE  Stays(s, Pause(s, c))
<1> DEFINE t == [s.t EXCEPT !.state = "PAUSED"]
<1>1. t \in TrackType /\ t.url = s.t.url /\ t.state = "PAUSED"
  BY DEF AppType, TrackType
<1>2. Pause(s, c) = IF s.t.state = "PLAYING" THEN Update([s EXCEPT !.t = t], c) ELSE s
  BY Zenon DEF Pause
<1> HIDE DEF t
<1>3. s.t.state = "PLAYING" => Stays(s, Update([s EXCEPT !.t = t], c))
  BY <1>1, ToldSound
<1>4. Stays(s, s)
  BY StaysSame
<1> QED BY <1>2, <1>3, <1>4

\* Track.unpause
LEMMA UnpauseSound ==
  ASSUME NEW s \in AppType, Player(s), NEW c, ConfOk(c)
  PROVE  Stays(s, Unpause(s, c))
<1> DEFINE t == [s.t EXCEPT !.state = "UNPAUSE"]
<1>1. t \in TrackType /\ t.url = s.t.url /\ t.state = "UNPAUSE"
  BY DEF AppType, TrackType
<1>2. Unpause(s, c) = IF s.t.state = "PAUSED" THEN Update([s EXCEPT !.t = t], c) ELSE s
  BY Zenon DEF Unpause
<1> HIDE DEF t
<1>3. s.t.state = "PAUSED" => Stays(s, Update([s EXCEPT !.t = t], c))
  BY <1>1, ToldSound
<1>4. Stays(s, s)
  BY StaysSame
<1> QED BY <1>2, <1>3, <1>4

\* Track.seek
LEMMA SeekSound ==
  ASSUME NEW s \in AppType, Player(s), NEW c, ConfOk(c), NEW tail \in BOOLEAN
  PROVE  Stays(s, Seek(s, tail, c))
<1> DEFINE t1 == [s.t EXCEPT !.seek = "user"]
           t == [t1 EXCEPT !.intail = tail]
           w == [s EXCEPT !.t.seek = "user", !.t.intail = tail]
           v == [s EXCEPT !.t = t]
<1>1. t1 \in TrackType /\ t1.url = s.t.url /\ t1.state = s.t.state
  BY DEF AppType, TrackType
<1> HIDE DEF t1
<1>2. t \in TrackType /\ t.url = s.t.url /\ t.state = s.t.state
  BY <1>1 DEF TrackType
<1>3. w = v
  BY DEF t, t1, AppType
<1> HIDE DEF t
<1>4. s.t.state \in {"PLAYING", "PAUSED"} => Stays(s, Update(v, c))
  BY <1>2, ToldSound
<1>5. Seek(s, tail, c) = IF s.t.state \in {"PLAYING", "PAUSED"} THEN Update(w, c) ELSE s
  BY Zenon DEF Seek
<1> HIDE DEF v, w
<1>6. Stays(s, s)
  BY StaysSame
<1> QED BY <1>3, <1>4, <1>5, <1>6

\* MP.update
LEMMA TimerSound ==
  ASSUME NEW s \in AppType, Player(s), NEW c, ConfOk(c), NEW tail \in BOOLEAN, s.t.state = "PLAYING"
  PROVE  Stays(s, Update([s EXCEPT !.t.intail = tail], c))
<1> DEFINE t == [s.t EXCEPT !.intail = tail]
<1>1. t \in TrackType /\ t.url = s.t.url /\ t.state = s.t.state
  BY DEF AppType, TrackType
<1>2. [s EXCEPT !.t.intail = tail] = [s EXCEPT !.t = t]
  BY Zenon
<1> HIDE DEF t
<1>3. Stays(s, Update([s EXCEPT !.t = t], c))
  BY <1>1, ToldSound
<1> QED BY <1>2, <1>3

\* MP.on_start, MP.on_seek_complete, MP.on_error
LEMMA OnStartSound ==
  ASSUME NEW s \in AppType, Player(s), s.mp.st = "preparing"
  PROVE  Stays(s, OnStart(s))
<1> DEFINE skips == s.t.seek = "skip"
           t1 == [s.t EXCEPT !.state = "PLAYING"]
           t == [t1 EXCEPT !.seek = IF skips THEN "none" ELSE s.t.seek]
           m1 == [s.mp EXCEPT !.st = "started"]
           m2 == [m1 EXCEPT !.tmr = TRUE]
           m == [m2 EXCEPT !.seeking = skips]
           v == [s EXCEPT !.t = t]
           r == [v EXCEPT !.mp = m]
<1>0. s.t \in TrackType /\ s.mp \in PlayerType
  BY DEF AppType
<1>1. t1 \in TrackType /\ t1.url = s.t.url /\ t1.state = "PLAYING"
  BY <1>0 DEF TrackType
<1>2. m1 \in PlayerType /\ m1.st = "started" /\ m1.src = s.mp.src
  BY <1>0 DEF PlayerType
<1> HIDE DEF t1, m1
<1>3. t \in TrackType /\ t.url = s.t.url /\ t.state = "PLAYING"
  BY <1>0, <1>1 DEF TrackType
<1>4. m2 \in PlayerType /\ m2.st = "started" /\ m2.src = s.mp.src /\ m2.tmr
  BY <1>2 DEF PlayerType
<1> HIDE DEF t, m2
<1>5. m \in PlayerType /\ m.st = "started" /\ m.src = s.mp.src /\ m.tmr
  BY <1>4 DEF PlayerType
<1> HIDE DEF m
<1>6. /\ v \in AppType /\ Leaves(s, v) /\ v.t = t /\ v.q = s.q /\ v.mp = s.mp /\ v.sys = s.sys
      /\ v.svc = s.svc /\ v.bad = s.bad
  BY <1>3, TrackChanged DEF Leaves, Keeps
<1> HIDE DEF v
<1>7. /\ Leaves(v, r) /\ r.t = t /\ r.q = s.q /\ r.mp = m /\ r.sys = s.sys /\ r.svc = s.svc
      /\ r.bad = s.bad
  BY <1>5, <1>6, MpChanged
<1>8. OnStart(s) = r
  BY DEF OnStart, r, v, m, m2, m1, t, t1, AppType
<1> HIDE DEF r
<1>9. Player(r)
  BY <1>3, <1>5, <1>7 DEF Player
<1>10. Leaves(s, r)
  BY <1>6, <1>7, LeavesTwice
<1> QED BY <1>8, <1>9, <1>10 DEF Leaves, Sound, Stays

LEMMA SeekCompletedSound ==
  ASSUME NEW s \in AppType, Player(s)
  PROVE  Stays(s, [s EXCEPT !.mp.seeking = FALSE,
                            !.t.state = IF @ = "SEEKING" THEN "PLAYING" ELSE @])
<1> DEFINE t == [s.t EXCEPT !.state = IF s.t.state = "SEEKING" THEN "PLAYING" ELSE s.t.state]
           m == [s.mp EXCEPT !.seeking = FALSE]
           v == [s EXCEPT !.mp = m]
           r == [v EXCEPT !.t = t]
           w == [s EXCEPT !.mp.seeking = FALSE,
                          !.t.state = IF @ = "SEEKING" THEN "PLAYING" ELSE @]
<1>0. s.t \in TrackType /\ s.mp \in PlayerType
  BY DEF AppType
<1>1. /\ t \in TrackType /\ t.url = s.t.url
      /\ t.state = IF s.t.state = "SEEKING" THEN "PLAYING" ELSE s.t.state
  BY <1>0 DEF TrackType
<1>2. m \in PlayerType /\ m.st = s.mp.st /\ m.src = s.mp.src /\ m.tmr = s.mp.tmr
  BY <1>0 DEF PlayerType
<1>3. w = r
  BY DEF AppType
<1> HIDE DEF t, m
<1>4. /\ v \in AppType /\ Leaves(s, v) /\ v.t = s.t /\ v.q = s.q /\ v.mp = m /\ v.sys = s.sys
      /\ v.svc = s.svc /\ v.bad = s.bad
  BY <1>2, MpChanged DEF Leaves, Keeps
<1> HIDE DEF v
<1>5. /\ Leaves(v, r) /\ r.t = t /\ r.q = s.q /\ r.mp = m /\ r.sys = s.sys /\ r.svc = s.svc
      /\ r.bad = s.bad
  BY <1>1, <1>4, TrackChanged
<1> HIDE DEF r
<1>6. Player(r)
  BY <1>1, <1>2, <1>5 DEF Player
<1>7. Leaves(s, r)
  BY <1>4, <1>5, LeavesTwice
<1> QED BY <1>3, <1>6, <1>7 DEF Leaves, Sound, Stays

LEMMA FailedSound ==
  ASSUME NEW s \in AppType, Player(s), NEW c, ConfOk(c)
  PROVE  Stays(s, OnComplete([s EXCEPT !.t.error = TRUE], c))
<1> DEFINE t == [s.t EXCEPT !.error = TRUE]
           v == [s EXCEPT !.t = t]
<1>1. t \in TrackType /\ t.url = s.t.url /\ t.state = s.t.state
  BY DEF AppType, TrackType
<1>2. [s EXCEPT !.t.error = TRUE] = v
  BY Zenon
<1> HIDE DEF t
<1>3. Fine(s, v) /\ Leaves(s, v)
  BY <1>1, TrackChanged
<1> HIDE DEF v
<1>4. Stays(s, v) /\ v \in AppType /\ Player(v)
  BY <1>3 DEF Fine, Stays, Leaves, Keeps
<1>5. Stays(v, OnComplete(v, c))
  BY <1>4, OnCompleteSound
<1> QED BY <1>2, <1>4, <1>5, StaysTwice

-----------------------------------------------------------------------------
(* Steps.                                                                  *)

\* A step of the main looper leads to s, and then perhaps to a native track.
Leads(s, moved) ==
  /\ s \in AppType /\ Player(s) /\ s.trec = app.trec /\ s.q.sel \in 1..Len(s.q.lists)
  /\ ~moved => Cursor(s) /\ (\A i \in Nat : IsId(app, i) => IsId(s, i)) /\ FilesHeld(s)

LEMMA SoundLeads ==
  ASSUME AndroidInv, NEW s, Sound(app, s), NEW moved, ses.moved => moved
  PROVE  Leads(s, moved)
<1>1. /\ s \in AppType /\ Player(s) /\ s.trec = app.trec /\ s.q.sel = app.q.sel /\ Marked(app, s)
      /\ Cursor(app) => Cursor(s)
  BY DEF Sound, Keeps
<1>2. s.q.sel \in 1..Len(s.q.lists)
  BY <1>1 DEF AndroidInv, Basic, Types, Marked
<1>3. ASSUME ~moved
      PROVE  Cursor(s) /\ (\A i \in Nat : IsId(app, i) => IsId(s, i)) /\ FilesHeld(s)
  <2>1. Cursor(app) /\ FilesHeld(app)
    BY <1>3 DEF AndroidInv, Kept
  <2>2. \A i \in Nat : IsId(app, i) => IsId(s, i)
    BY <1>1 DEF Marked, IsId
  <2>3. FilesHeld(s)
    BY <1>1, <2>1 DEF FilesHeld, Marked
  <2> QED BY <1>1, <2>1, <2>2, <2>3
<1> QED BY <1>1, <1>2, <1>3 DEF Leads

\* What is posted, asked by a dialog or remembered of the track that ended
\* has no part in it.
LEMMA LeadsToo ==
  ASSUME NEW s, NEW moved, Leads(s, moved), NEW r \in AppType, r.q = s.q, r.t = s.t, r.mp = s.mp,
         r.sys = s.sys, r.svc = s.svc, r.ask = s.ask, r.trec = s.trec, r.bad = s.bad
  PROVE  Leads(r, moved)
<1>1. Player(s) => Player(r)
  BY DEF Player
<1>2. Cursor(s) => Cursor(r)
  BY DEF Cursor, HasList, InList, Items, IsId
<1>3. FilesHeld(s) => FilesHeld(r)
  BY DEF FilesHeld
<1>4. \A i \in Nat : IsId(s, i) => IsId(r, i)
  BY DEF IsId
<1> QED BY <1>1, <1>2, <1>3, <1>4 DEF Leads

\* A native track that is not there yet.
LEMMA FreeJob ==
  ASSUME AndroidInv, HasJob, NEW j, j = CHOOSE k \in DOMAIN jobs : jobs[k].st = "none"
  PROVE  j \in 1..MaxJobs /\ jobs[j].st = "none"
<1>1. DOMAIN jobs = 1..MaxJobs
  BY DEF AndroidInv, Basic, Types
<1> QED BY <1>1 DEF HasJob

\* The native tracks after one was started for s.
LEMMA AsksInv ==
  ASSUME AndroidInv, NEW s, NEW moved, Leads(s, moved), ses.moved => moved, HasJob \/ s.ask = 0,
         Asks(s)
  PROVE  /\ app' \in AppType /\ app'.q.sel \in 1..Len(app'.q.lists) /\ app'.trec \in 0..MaxJobs
         /\ jobs' \in [1..MaxJobs -> JobType]
         /\ app'.ask = 0 /\ Player(app') /\ RecordingsHeld' /\ CallsOnce'
         /\ ~moved => Cursor(app') /\ FilesHeld(app') /\ InfoLists'
<1> DEFINE r == [s EXCEPT !.ask = 0]
           j == CHOOSE k \in DOMAIN jobs : jobs[k].st = "none"
           w == [Job0 EXCEPT !.kind = "info", !.st = "run", !.list = s.ask]
<1>0. /\ s \in AppType /\ app.trec \in 0..MaxJobs /\ jobs \in [1..MaxJobs -> JobType]
      /\ s.ask \in Nat
  BY DEF AndroidInv, Basic, Types, Leads, AppType
<1>1. app' = r /\ jobs' = IF s.ask = 0 THEN jobs ELSE [jobs EXCEPT ![j] = w]
  BY Zenon DEF Asks
<1>2. s.ask # 0 => j \in 1..MaxJobs /\ jobs[j].st = "none"
  BY FreeJob
<1>3. w \in JobType /\ w.kind = "info" /\ w.st = "run" /\ w.list = s.ask /\ w.calls = 0
  BY <1>0 DEF Job0, JobType
<1> HIDE DEF j, w
<1>4. /\ r \in AppType /\ r.q = s.q /\ r.t = s.t /\ r.mp = s.mp /\ r.sys = s.sys /\ r.svc = s.svc
      /\ r.ask = 0 /\ r.trec = s.trec /\ r.bad = s.bad
  BY <1>0 DEF AppType
<1> HIDE DEF r
<1>5. /\ jobs' \in [1..MaxJobs -> JobType]
      /\ \A k \in 1..MaxJobs : jobs'[k] = IF s.ask # 0 /\ k = j THEN w ELSE jobs[k]
  BY <1>0, <1>1, <1>2, <1>3
<1>6. Player(app')
  BY <1>1, <1>4 DEF Leads, Player
<1>7. RecordingsHeld'
  <2>1. RecordingsHeld /\ app'.trec = app.trec
    BY <1>1, <1>4 DEF AndroidInv, Basic, Leads
  <2>2. app.trec # 0 => jobs'[app.trec] = jobs[app.trec]
    BY <1>0, <1>2, <1>5, <2>1 DEF RecordingsHeld
  <2> QED BY <1>0, <1>3, <1>5, <2>1, <2>2 DEF RecordingsHeld
<1>8. CallsOnce'
  BY <1>3, <1>5 DEF AndroidInv, Basic, CallsOnce
<1>9. ASSUME ~moved PROVE Cursor(app') /\ FilesHeld(app') /\ InfoLists'
  <2>1. Cursor(app')
    BY <1>1, <1>4, <1>9 DEF Leads, Cursor, HasList, InList, Items, IsId
  <2>2. FilesHeld(app')
    BY <1>1, <1>4, <1>9 DEF Leads, FilesHeld
  <2>3. \A i \in Nat : IsId(s, i) => IsId(app', i)
    BY <1>1, <1>4 DEF IsId
  <2>4. InfoLists'
    <3>1. s.ask # 0 => IsId(s, s.ask)
      BY <1>9 DEF Leads, Cursor
    <3>2. \A k \in 1..MaxJobs : jobs[k].list \in Nat
      BY <1>0 DEF JobType
    <3>3. \A k \in 1..MaxJobs : jobs[k].kind = "info" /\ jobs[k].st = "run" => IsId(s, jobs[k].list)
      BY <1>9, <3>2 DEF AndroidInv, Kept, InfoLists, Leads
    <3> SUFFICES ASSUME NEW k \in 1..MaxJobs, jobs'[k].kind = "info", jobs'[k].st = "run"
                 PROVE  IsId(app', jobs'[k].list)
      BY DEF InfoLists
    <3> QED BY <1>0, <1>3, <1>5, <2>3, <3>1, <3>2, <3>3
  <2> QED BY <2>1, <2>2, <2>4
<1>10. app'.q.sel \in 1..Len(app'.q.lists) /\ app'.trec \in 0..MaxJobs
  BY <1>0, <1>1, <1>4 DEF Leads
<1> QED BY <1>1, <1>4, <1>5, <1>6, <1>7, <1>8, <1>9, <1>10

\* A command.  After it nothing is said of a fresh start any more.
LEMMA UserInv ==
  ASSUME AndroidInv, NEW s, NEW moved \in BOOLEAN, Leads(s, ses.moved \/ moved), User(s, moved)
  PROVE  AndroidInv'
<1> DEFINE r == [s EXCEPT !.ended = 0]
           m == ses.moved \/ moved
<1>1. /\ HasJob /\ Asks(r) /\ disk' = disk
      /\ ses' = [ses EXCEPT !.user = @ + 1, !.moved = @ \/ moved,
                            !.crossed = @ \/ Coming \/ ~InOrder(s), !.fresh = FALSE]
  BY DEF User
<1>2. Coming \in BOOLEAN /\ InOrder(s) \in BOOLEAN
  BY DEF Coming, InOrder
<1>3. /\ ses' \in SesType
      /\ ses'.moved = m /\ ses'.fresh = FALSE /\ ses'.goal = ses.goal /\ ses'.saved = ses.saved
  <2> DEFINE a == [ses EXCEPT !.user = ses.user + 1]
             b == [a EXCEPT !.moved = m]
             d == [b EXCEPT !.crossed = ses.crossed \/ Coming \/ ~InOrder(s)]
             e == [d EXCEPT !.fresh = FALSE]
  <2>1. ses \in SesType
    BY DEF AndroidInv, Basic, Types
  <2>2. a \in SesType /\ a.goal = ses.goal /\ a.saved = ses.saved
    BY <2>1 DEF SesType
  <2>3. ses' = e
    BY <1>1, <2>1 DEF SesType
  <2>4. m \in BOOLEAN /\ (ses.crossed \/ Coming \/ ~InOrder(s)) \in BOOLEAN
    OBVIOUS
  <2> HIDE DEF a, m
  <2>5. b \in SesType /\ b.goal = ses.goal /\ b.saved = ses.saved /\ b.moved = m
    BY <2>2, <2>4 DEF SesType
  <2> HIDE DEF b
  <2>6. d \in SesType /\ d.goal = ses.goal /\ d.saved = ses.saved /\ d.moved = m
    BY <2>4, <2>5 DEF SesType
  <2> HIDE DEF d
  <2> QED BY <2>3, <2>6 DEF SesType
<1>4. /\ r \in AppType /\ r.q = s.q /\ r.t = s.t /\ r.mp = s.mp /\ r.sys = s.sys /\ r.svc = s.svc
      /\ r.ask = s.ask /\ r.trec = s.trec /\ r.bad = s.bad
  BY DEF Leads, AppType
<1> HIDE DEF r
<1>5. Leads(r, m)
  BY <1>4, LeadsToo
<1>6. /\ app' \in AppType /\ app'.q.sel \in 1..Len(app'.q.lists) /\ app'.trec \in 0..MaxJobs
      /\ jobs' \in [1..MaxJobs -> JobType]
      /\ app'.ask = 0 /\ Player(app') /\ RecordingsHeld' /\ CallsOnce'
      /\ ~m => Cursor(app') /\ FilesHeld(app') /\ InfoLists'
  BY <1>1, <1>5, AsksInv
<1>7. Basic'
  BY <1>1, <1>3, <1>6 DEF AndroidInv, Basic, Types
<1>8. ASSUME ~m PROVE Kept' /\ GoalSaved' /\ Quiet' /\ ListsReloaded'
  <2>1. FilesHeld(app)'
    BY <1>1, <1>6, <1>8 DEF FilesHeld
  <2>2. Kept'
    BY <1>1, <1>6, <1>8, <2>1 DEF AndroidInv, Kept
  <2>3. GoalSaved'
    BY <1>1, <1>3, <1>8 DEF AndroidInv, GoalSaved
  <2> QED BY <1>3, <2>2, <2>3 DEF Quiet, ListsReloaded
<1> QED BY <1>3, <1>7, <1>8 DEF AndroidInv

\* What comes from the system, from the player and from the application itself.
\* Nothing of it comes before the first command.
LEMMA EventInv ==
  ASSUME AndroidInv, NEW s, Leads(s, ses.moved), HasJob \/ s.ask = 0, Asks(s),
         UNCHANGED <<disk, ses>>, ses.fresh => ses.moved
  PROVE  AndroidInv'
<1>1. /\ app' \in AppType /\ app'.q.sel \in 1..Len(app'.q.lists) /\ app'.trec \in 0..MaxJobs
      /\ jobs' \in [1..MaxJobs -> JobType]
      /\ app'.ask = 0 /\ Player(app') /\ RecordingsHeld' /\ CallsOnce'
      /\ ~ses.moved => Cursor(app') /\ FilesHeld(app') /\ InfoLists'
  BY AsksInv
<1>2. Basic'
  <2>1. disk' = disk /\ ses' = ses
    OBVIOUS
  <2>2. Types'
    BY <1>1, <2>1 DEF AndroidInv, Basic, Types
  <2> QED BY <1>1, <2>2 DEF Basic
<1>3. ASSUME ~ses.moved PROVE Kept' /\ GoalSaved' /\ Quiet' /\ ListsReloaded'
  <2>1. FilesHeld(app)'
    BY <1>1, <1>3 DEF FilesHeld
  <2>2. Kept'
    BY <1>1, <1>3, <2>1 DEF AndroidInv, Kept
  <2>3. GoalSaved'
    BY <1>3 DEF AndroidInv, GoalSaved
  <2> QED BY <1>3, <2>2, <2>3 DEF Quiet, ListsReloaded
<1> QED BY <1>2, <1>3 DEF AndroidInv

\* A step that changes the native tracks and what is posted, and nothing else.
LEMMA JobsInv ==
  ASSUME AndroidInv, app' \in AppType, app'.q = app.q, app'.t = app.t, app'.mp = app.mp,
         app'.sys = app.sys, app'.svc = app.svc, app'.ask = app.ask, app'.trec \in 0..MaxJobs,
         app.bad => app'.bad, ~ses.moved => ~app'.bad,
         jobs' \in [1..MaxJobs -> JobType], RecordingsHeld', CallsOnce',
         \A j \in 1..MaxJobs : jobs'[j].kind = "info" /\ jobs'[j].st = "run" => jobs'[j] = jobs[j],
         disk' = disk, ses'.moved = ses.moved, ses'.goal = ses.goal, ses'.saved = ses.saved,
         ses'.fresh => ses.fresh,
         ses' \in SesType,
         ~ses.moved /\ ses'.fresh => Quiet'
  PROVE  AndroidInv'
<1>1. Player(app)'
  BY DEF AndroidInv, Basic, Player
<1>2. Basic'
  BY <1>1 DEF AndroidInv, Basic, Types
<1>3. ASSUME ~ses.moved PROVE Kept' /\ GoalSaved' /\ Quiet' /\ ListsReloaded'
  <2>1. Cursor(app)'
    BY <1>3 DEF AndroidInv, Kept, Cursor, HasList, InList, Items, IsId
  <2>2. FilesHeld(app)'
    BY <1>3 DEF AndroidInv, Kept, FilesHeld
  <2>3. InfoLists'
    <3> SUFFICES ASSUME NEW j \in 1..MaxJobs, jobs'[j].kind = "info", jobs'[j].st = "run"
                 PROVE  IsId(app', jobs'[j].list)
      BY DEF InfoLists
    <3>1. jobs'[j] = jobs[j] /\ IsId(app, jobs[j].list)
      BY <1>3 DEF AndroidInv, Kept, InfoLists
    <3> QED BY <3>1 DEF IsId
  <2>4. GoalSaved'
    BY <1>3 DEF AndroidInv, GoalSaved
  <2>5. ListsReloaded'
    BY <1>3 DEF AndroidInv, ListsReloaded, Saved
  <2>6. Quiet'
    BY <1>3 DEF Quiet
  <2> QED BY <1>3, <2>1, <2>2, <2>3, <2>4, <2>5, <2>6 DEF AndroidInv, Kept
<1> QED BY <1>2, <1>3 DEF AndroidInv

LEMMA ConfIsOk ==
  ASSUME AndroidInv
  PROVE  /\ ConfOk(Conf) /\ app \in AppType /\ Player(app)
         /\ HasList(app, app.q.sel) /\ app.q.sel \in Nat /\ app.q.act \in Nat
BY AndroidAssumption DEF AndroidInv, Basic, Types, SesType, Conf, HasList, AppType, QueueType

\* A command that is sound.
LEMMA CommandInv ==
  ASSUME AndroidInv, NEW s, Sound(app, s), NEW moved \in BOOLEAN, User(s, moved)
  PROVE  AndroidInv'
<1>1. Leads(s, ses.moved \/ moved)
  BY SoundLeads
<1> QED BY <1>1, UserInv

\* An event that is sound.
LEMMA SelfInv ==
  ASSUME AndroidInv, NEW s, Stays(app, s), Event(s), ses.fresh => ses.moved
  PROVE  AndroidInv'
<1>1. Leads(s, ses.moved)
  BY SoundLeads DEF Stays, Sound, Leaves
<1>2. s.ask = 0
  BY DEF Stays, Leaves, AndroidInv, Basic
<1> QED BY <1>1, <1>2, EventInv DEF Event

\* The service and the focus.
LEMMA SvcChanged ==
  ASSUME NEW s \in AppType, NEW v \in SvcType
  PROVE  LET r == [s EXCEPT !.svc = v]
         IN /\ Leaves(s, r)
            /\ Player(s) /\ v.later = s.svc.later /\ v.on = s.svc.on
               /\ v.st \in {s.svc.st, "PAUSED"} => Player(r)
<1> DEFINE r == [s EXCEPT !.svc = v]
<1>1. /\ r \in AppType /\ r.t = s.t /\ r.q = s.q /\ r.mp = s.mp /\ r.sys = s.sys /\ r.svc = v
      /\ r.bad = s.bad /\ r.ask = s.ask /\ r.trec = s.trec
  BY DEF AppType
<1> HIDE DEF r
<1>2. Player(s) /\ v.later = s.svc.later /\ v.on = s.svc.on
      /\ v.st \in {s.svc.st, "PAUSED"} => Player(r)
  BY <1>1 DEF Player
<1> QED BY <1>1, <1>2, PartChanged DEF r

LEMMA SysChanged ==
  ASSUME NEW s \in AppType, NEW y \in SysType
  PROVE  LET r == [s EXCEPT !.sys = y]
         IN /\ r \in AppType /\ Leaves(s, r)
            /\ Player(s) /\ y.later = s.sys.later /\ y.focus = s.sys.focus => Player(r)
<1> DEFINE r == [s EXCEPT !.sys = y]
<1>1. /\ r \in AppType /\ r.t = s.t /\ r.q = s.q /\ r.mp = s.mp /\ r.svc = s.svc /\ r.sys = y
      /\ r.bad = s.bad /\ r.ask = s.ask /\ r.trec = s.trec
  BY DEF AppType
<1> HIDE DEF r
<1>2. Player(s) /\ y.later = s.sys.later /\ y.focus = s.sys.focus => Player(r)
  BY <1>1 DEF Player
<1> QED BY <1>1, <1>2, PartChanged DEF r

\* A track taken by random is named by a number.
LEMMA PicksInt ==
  ASSUME AndroidInv, NEW r \in Picks
  PROVE  r \in Int
<1> DEFINE n == Len(Items(app, app.q.act))
<1>1. CASE HasList(app, app.q.act) /\ Items(app, app.q.act) # <<>> /\ Conf.random
  <2>1. app.q.lists[app.q.act] \in List
    <3>1. app.q.lists \in Seq(List)
      BY ConfIsOk DEF AppType, QueueType
    <3> QED BY <1>1, <3>1, ElementOfSeq DEF HasList
  <2>2. n \in Nat
    BY <2>1 DEF List, Items
  <2>3. r \in NextRandom(app, n)
    BY <1>1 DEF Picks
  <2> HIDE DEF n
  <2>4. n \div 2 \in Int
    BY <2>2
  <2> QED BY <2>2, <2>3, <2>4 DEF NextRandom
<1>2. CASE ~(HasList(app, app.q.act) /\ Items(app, app.q.act) # <<>> /\ Conf.random)
  BY <1>2 DEF Picks
<1> QED BY <1>1, <1>2

\* The commands that are about playing.
LEMMA PlayInv ==
  ASSUME AndroidInv,
         \/ UserPlay \/ OnPlay \/ OnPause \/ OnStop \/ OnSkipToNext \/ OnSkipToPrevious \/ OnSeekTo
         \/ Noisy \/ FocusLoss \/ FocusLossTransient \/ FocusGain \/ Call
  PROVE  AndroidInv'
<1>0. /\ ConfOk(Conf) /\ app \in AppType /\ Player(app)
      /\ HasList(app, app.q.sel) /\ app.q.sel \in Nat /\ app.q.act \in Nat
      /\ app.sys \in SysType
  BY ConfIsOk DEF AppType
<1>1. CASE UserPlay
  <2>1. PICK pos \in 0..2 : User(Play(app, app.q.sel, pos, Conf), FALSE)
    BY <1>1 DEF UserPlay
  <2>2. Sound(app, Play(app, app.q.sel, pos, Conf))
    BY <1>0, PlaySound
  <2> QED BY <2>1, <2>2, CommandInv
<1>2. CASE OnPlay
  <2> DEFINE x == Unpause(app, Conf)
             v == [x.svc EXCEPT !.fg = TRUE]
             y == [x EXCEPT !.svc.fg = TRUE]
             s == IF app.t.state = "NONE" THEN Playcur(app, Conf) ELSE y
  <2>1. User(s, FALSE)
    BY <1>2 DEF OnPlay
  <2>2. Sound(app, Playcur(app, Conf))
    BY <1>0, PlaycurSound
  <2>3. Sound(app, x)
    BY <1>0, UnpauseSound DEF Stays, Leaves, Sound
  <2>4. y = [x EXCEPT !.svc = v]
    BY Zenon
  <2> HIDE DEF x
  <2>5. x \in AppType /\ Player(x)
    BY <2>3 DEF Sound, Keeps
  <2>6. v \in SvcType /\ v.later = x.svc.later /\ v.on = x.svc.on /\ v.st = x.svc.st
    BY <2>5 DEF AppType, SvcType
  <2> HIDE DEF v, y
  <2>7. Sound(x, y)
    BY <2>4, <2>5, <2>6, SvcChanged DEF Leaves, Sound
  <2>8. Sound(app, s)
    BY <2>2, <2>3, <2>7, SoundTwice
  <2> QED BY <2>1, <2>8, CommandInv
<1>3. CASE OnPause
  <2> DEFINE x == Pause(app, Conf)
             v1 == [x.svc EXCEPT !.st = "PAUSED"]
             v == [v1 EXCEPT !.fg = FALSE]
             y == [x EXCEPT !.svc.st = "PAUSED", !.svc.fg = FALSE]
  <2>1. User(y, FALSE)
    BY <1>3 DEF OnPause
  <2>3. Sound(app, x)
    BY <1>0, PauseSound DEF Stays, Leaves, Sound
  <2> HIDE DEF x
  <2>5. x \in AppType /\ Player(x)
    BY <2>3 DEF Sound, Keeps
  <2>4. y = [x EXCEPT !.svc = v]
    BY <2>5 DEF AppType
  <2>6. v1 \in SvcType /\ v1.later = x.svc.later /\ v1.on = x.svc.on /\ v1.st = "PAUSED"
    BY <2>5 DEF AppType, SvcType
  <2> HIDE DEF v1
  <2>7. v \in SvcType /\ v.later = x.svc.later /\ v.on = x.svc.on /\ v.st = "PAUSED"
    BY <2>6 DEF SvcType
  <2> HIDE DEF v, y
  <2>8. Sound(x, y)
    BY <2>4, <2>5, <2>7, SvcChanged DEF Leaves, Sound
  <2> QED BY <2>1, <2>3, <2>8, SoundTwice, CommandInv
<1>4. CASE OnStop
  BY <1>0, <1>4, TrackStopSound, CommandInv DEF OnStop
<1>5. CASE OnSkipToNext
  <2>1. PICK r \in Picks : User(OrderNext(app, r, Conf), FALSE)
    BY <1>5 DEF OnSkipToNext
  <2>2. Sound(app, OrderNext(app, r, Conf))
    BY <1>0, PicksInt, OrderNextSound
  <2> QED BY <2>1, <2>2, CommandInv
<1>6. CASE OnSkipToPrevious
  <2>1. PICK r \in Picks : User(PlayDelta(app, -1, r, Conf), FALSE)
    BY <1>6 DEF OnSkipToPrevious
  <2>2. Sound(app, PlayDelta(app, -1, r, Conf))
    BY <1>0, PicksInt, PlayDeltaSound
  <2> QED BY <2>1, <2>2, CommandInv
<1>7. CASE OnSeekTo
  <2>1. PICK tail \in BOOLEAN : User(Seek(app, tail, Conf), FALSE)
    BY <1>7 DEF OnSeekTo
  <2>2. Sound(app, Seek(app, tail, Conf))
    BY <1>0, SeekSound DEF Stays, Leaves, Sound
  <2> QED BY <2>1, <2>2, CommandInv
<1>8. CASE Noisy
  <2>1. Sound(app, Pause(app, Conf))
    BY <1>0, PauseSound DEF Stays, Leaves, Sound
  <2> QED BY <1>8, <2>1, CommandInv DEF Noisy
<1>9. CASE FocusLoss
  <2> DEFINE y == [app.sys EXCEPT !.focus = FALSE]
             x == [app EXCEPT !.sys = y]
  <2>1. y \in SysType
    BY <1>0 DEF SysType
  <2>2. [app EXCEPT !.sys.focus = FALSE] = x
    BY Zenon
  <2>3. User(TrackStop(x, Conf), FALSE)
    BY <1>9, <2>2 DEF FocusLoss
  <2> HIDE DEF y
  <2>4. x \in AppType /\ Leaves(app, x)
    BY <1>0, <2>1, SysChanged
  <2> HIDE DEF x
  <2>5. Leaves(x, TrackStop(x, Conf)) /\ Player(TrackStop(x, Conf))
    BY <1>0, <2>4, TrackStopSound DEF Sound
  <2>6. Sound(app, TrackStop(x, Conf))
    BY <2>4, <2>5, LeavesTwice DEF Leaves, Sound
  <2> QED BY <2>3, <2>6, CommandInv
<1>10. CASE FocusLossTransient
  <2> DEFINE y == [app.sys EXCEPT !.transient = TRUE]
             x == [app EXCEPT !.sys = y]
  <2>1. y \in SysType /\ y.later = app.sys.later /\ y.focus = app.sys.focus
    BY <1>0 DEF SysType
  <2>2. [app EXCEPT !.sys.transient = TRUE] = x
    BY Zenon
  <2>3. User(Pause(x, Conf), FALSE)
    BY <1>10, <2>2 DEF FocusLossTransient
  <2> HIDE DEF y
  <2>4. x \in AppType /\ Sound(app, x) /\ Player(x)
    BY <1>0, <2>1, SysChanged DEF Leaves, Sound
  <2> HIDE DEF x
  <2>5. Sound(x, Pause(x, Conf))
    BY <1>0, <2>4, PauseSound DEF Stays, Leaves, Sound
  <2> QED BY <2>3, <2>4, <2>5, SoundTwice, CommandInv
<1>11. CASE FocusGain
  <2> DEFINE y == [app.sys EXCEPT !.transient = FALSE]
             x == [app EXCEPT !.sys = y]
  <2>1. y \in SysType /\ y.later = app.sys.later /\ y.focus = app.sys.focus
    BY <1>0 DEF SysType
  <2>2. [app EXCEPT !.sys.transient = FALSE] = x
    BY Zenon
  <2>3. User(Unpause(x, Conf), FALSE)
    BY <1>11, <2>2 DEF FocusGain
  <2> HIDE DEF y
  <2>4. x \in AppType /\ Sound(app, x) /\ Player(x)
    BY <1>0, <2>1, SysChanged DEF Leaves, Sound
  <2> HIDE DEF x
  <2>5. Sound(x, Unpause(x, Conf))
    BY <1>0, <2>4, UnpauseSound DEF Stays, Leaves, Sound
  <2> QED BY <2>3, <2>4, <2>5, SoundTwice, CommandInv
<1>12. CASE Call
  <2> DEFINE y == [app.sys EXCEPT !.busy = ~app.sys.busy]
             x == [app EXCEPT !.sys = y]
  <2>1. y \in SysType /\ y.later = app.sys.later /\ y.focus = app.sys.focus
    BY <1>0 DEF SysType
  <2>2. [app EXCEPT !.sys.busy = ~@] = x
    BY Zenon
  <2>3. User(x, FALSE)
    BY <1>12, <2>2 DEF Call
  <2> HIDE DEF y
  <2>4. Sound(app, x)
    BY <1>0, <2>1, SysChanged DEF Leaves, Sound
  <2> HIDE DEF x
  <2> QED BY <2>3, <2>4, CommandInv
<1> QED BY <1>1, <1>2, <1>3, <1>4, <1>5, <1>6, <1>7, <1>8, <1>9, <1>10, <1>11, <1>12

\* The events of the player and of the system, the delayed messages and the timer.
LEMMA EventsInv ==
  ASSUME AndroidInv,
         \/ Prepared \/ Completed \/ Failed \/ SeekCompleted \/ StopDelayed \/ AfocusAbandon \/ Timer
  PROVE  AndroidInv'
<1>0. ConfOk(Conf) /\ app \in AppType /\ Player(app)
  BY ConfIsOk
<1>1. ses.fresh /\ ~ses.moved =>
        app.mp.st = "idle" /\ ~app.mp.seeking /\ ~app.mp.tmr /\ ~app.svc.later /\ ~app.sys.later
  BY DEF AndroidInv, Quiet
<1>2. CASE Prepared
  <2>1. Stays(app, OnStart(app))
    BY <1>0, <1>2, OnStartSound DEF Prepared
  <2> QED BY <1>1, <1>2, <2>1, SelfInv DEF Prepared
<1>3. CASE Completed
  <2>1. Stays(app, OnComplete(app, Conf))
    BY <1>0, OnCompleteSound
  <2> QED BY <1>1, <1>3, <2>1, SelfInv DEF Completed
<1>4. CASE Failed
  <2> DEFINE s == OnComplete([app EXCEPT !.t.error = TRUE], Conf)
  <2>1. Stays(app, s)
    BY <1>0, FailedSound
  <2>2. Event(s) /\ app.mp.st # "idle"
    BY <1>4 DEF Failed
  <2> HIDE DEF s
  <2> QED BY <1>1, <2>1, <2>2, SelfInv
<1>5. CASE SeekCompleted
  <2> DEFINE s == [app EXCEPT !.mp.seeking = FALSE,
                              !.t.state = IF @ = "SEEKING" THEN "PLAYING" ELSE @]
  <2>1. Stays(app, s)
    BY <1>0, SeekCompletedSound
  <2>2. Event(s) /\ app.mp.seeking
    BY <1>5 DEF SeekCompleted
  <2> HIDE DEF s
  <2> QED BY <1>1, <2>1, <2>2, SelfInv
<1>6. CASE StopDelayed
  <2> DEFINE v == [st |-> "STOPPED", fg |-> FALSE, later |-> FALSE, on |-> FALSE]
             r == [app EXCEPT !.svc = v]
  <2>1. ~app.bad /\ app.svc.later
    BY <1>6 DEF StopDelayed, Event, Up
  <2>2. app.svc.st \notin {"PLAYING", "BUFFERING"} /\ app.t.state = "NONE"
    BY <1>0, <2>1 DEF Player
  <2>3. Event(r)
    BY <1>6, <2>2 DEF StopDelayed
  <2>4. v \in SvcType /\ ~v.later /\ ~v.on
    BY DEF SvcType
  <2> HIDE DEF v
  <2>5. /\ r \in AppType /\ r.t = app.t /\ r.q = app.q /\ r.mp = app.mp /\ r.sys = app.sys
        /\ r.svc = v /\ r.bad = app.bad
    BY <1>0, <2>4 DEF AppType
  <2>6. Leaves(app, r)
    BY <1>0, <2>4, SvcChanged
  <2> HIDE DEF r
  <2>7. Player(r)
    BY <1>0, <2>2, <2>4, <2>5 DEF Player
  <2> QED BY <1>1, <2>1, <2>3, <2>6, <2>7, SelfInv DEF Stays
<1>7. CASE AfocusAbandon
  <2> DEFINE y1 == [app.sys EXCEPT !.later = FALSE]
             y == [y1 EXCEPT !.focus = FALSE]
             r == [app EXCEPT !.sys = y]
  <2>1. ~app.bad /\ app.sys.later
    BY <1>7 DEF AfocusAbandon, Event, Up
  <2>2. app.t.state = "NONE"
    BY <1>0, <2>1 DEF Player
  <2>3. [app EXCEPT !.sys.later = FALSE, !.sys.focus = FALSE] = r
    BY <1>0 DEF AppType
  <2>4. y1 \in SysType
    BY <1>0 DEF AppType, SysType
  <2> HIDE DEF y1
  <2>5. y \in SysType
    BY <2>4 DEF SysType
  <2> HIDE DEF y
  <2>6. /\ r \in AppType /\ r.t = app.t /\ r.q = app.q /\ r.mp = app.mp /\ r.sys = y
        /\ r.svc = app.svc /\ r.bad = app.bad
    BY <1>0, <2>5 DEF AppType
  <2>7. Leaves(app, r)
    BY <1>0, <2>5, SysChanged
  <2>8. Event(r)
    BY <1>7, <2>3 DEF AfocusAbandon
  <2> HIDE DEF r
  <2>9. Player(r)
    BY <1>0, <2>2, <2>6 DEF Player
  <2> QED BY <1>1, <2>1, <2>7, <2>8, <2>9, SelfInv DEF Stays
<1>8. CASE Timer
  <2>1. PICK tail \in BOOLEAN : Event(Update([app EXCEPT !.t.intail = tail], Conf))
    BY <1>8 DEF Timer
  <2>2. Stays(app, Update([app EXCEPT !.t.intail = tail], Conf))
    BY <1>0, <1>8, TimerSound DEF Timer
  <2> DEFINE s == Update([app EXCEPT !.t.intail = tail], Conf)
  <2> HIDE DEF s
  <2>3. Event(s) /\ Stays(app, s)
    BY <2>1, <2>2 DEF s
  <2> QED BY <1>1, <1>8, <2>3, SelfInv DEF Timer
<1> QED BY <1>2, <1>3, <1>4, <1>5, <1>6, <1>7, <1>8

\* The auto-stop timer.
LEMMA AutoStopExpiresInv ==
  ASSUME AndroidInv, AutoStopExpires
  PROVE  AndroidInv'
<1> DEFINE Q == [app.q EXCEPT !.astop = "expired"]
<1>0. app \in AppType /\ app.q \in QueueType /\ app' = [app EXCEPT !.q.astop = "expired"]
      /\ jobs' = jobs /\ disk' = disk /\ ses' = ses
  BY ConfIsOk DEF AutoStopExpires, AppType
<1>1. app' = [app EXCEPT !.q = Q]
  BY Zenon, <1>0
<1>2. /\ Q \in QueueType /\ Q.lists = app.q.lists /\ Q.active = app.q.active /\ Q.idx = app.q.idx
      /\ Q.act = app.q.act /\ Q.sel = app.q.sel
  BY <1>0 DEF QueueType
<1> HIDE DEF Q
<1>3. /\ app' \in AppType /\ app'.q = Q /\ app'.t = app.t /\ app'.mp = app.mp /\ app'.sys = app.sys
      /\ app'.svc = app.svc /\ app'.bad = app.bad /\ app'.ask = app.ask /\ app'.trec = app.trec
      /\ app'.loop = app.loop
  BY <1>0, <1>1, <1>2 DEF AppType
<1>4. Basic'
  <2>1. Types'
    BY <1>0, <1>2, <1>3 DEF AndroidInv, Basic, Types
  <2>2. Player(app)'
    BY <1>2, <1>3 DEF AndroidInv, Basic, Player
  <2>3. RecordingsHeld' /\ CallsOnce'
    BY <1>0, <1>3 DEF AndroidInv, Basic, RecordingsHeld, CallsOnce
  <2> QED BY <1>3, <2>1, <2>2, <2>3 DEF AndroidInv, Basic
<1>5. ASSUME ~ses.moved PROVE Kept' /\ GoalSaved' /\ Quiet' /\ ListsReloaded'
  <2>1. Cursor(app)'
    BY <1>2, <1>3, <1>5 DEF AndroidInv, Kept, Cursor, HasList, InList, Items, IsId
  <2>2. FilesHeld(app)' /\ InfoLists' /\ disk'.files[4] = Absent
    BY <1>0, <1>2, <1>3, <1>5 DEF AndroidInv, Kept, FilesHeld, InfoLists, IsId
  <2>3. GoalSaved'
    BY <1>0, <1>5 DEF AndroidInv, GoalSaved
  <2>4. Quiet'
    BY <1>0, <1>3, <1>5 DEF AndroidInv, Quiet
  <2>5. ListsReloaded'
    BY <1>0, <1>2, <1>3, <1>5 DEF AndroidInv, ListsReloaded, Saved
  <2> QED BY <2>1, <2>2, <2>3, <2>4, <2>5 DEF Kept
<1> QED BY <1>0, <1>4, <1>5 DEF AndroidInv

\* The job that the button shows is set.
LEMMA TrecSet ==
  ASSUME NEW x \in AppType, NEW j \in Nat
  PROVE  LET y == [x EXCEPT !.trec = j]
         IN /\ y \in AppType /\ y.q = x.q /\ y.t = x.t /\ y.mp = x.mp /\ y.sys = x.sys
            /\ y.svc = x.svc /\ y.ask = x.ask /\ y.trec = j /\ y.bad = x.bad
BY DEF AppType

\* rec_click: the button starts a recording, or stops the one it shows.
LEMMA RecClickInv ==
  ASSUME AndroidInv, Up, HasJob, NEW x \in AppType, x.q = app.q, x.t = app.t, x.mp = app.mp,
         x.sys = app.sys, x.svc = app.svc, x.ask = app.ask, x.trec = app.trec, x.bad = app.bad,
         RecClick(x), disk' = disk, ses'.moved = ses.moved, ses'.goal = ses.goal,
         ses'.saved = ses.saved, ses' \in SesType, ses'.fresh => ses.fresh,
         ses'.fresh => ses.moved
  PROVE  AndroidInv'
<1>0. /\ jobs \in [1..MaxJobs -> JobType] /\ app.trec \in 0..MaxJobs /\ ~app.bad
      /\ RecordingsHeld /\ CallsOnce
  BY DEF AndroidInv, Basic, Types, Up
<1>1. CASE x.trec = 0
  <2> DEFINE j == CHOOSE k \in DOMAIN jobs : jobs[k].st = "none"
             w == [Job0 EXCEPT !.kind = "rec", !.st = "run"]
  <2>1. app' = [x EXCEPT !.trec = j] /\ jobs' = [jobs EXCEPT ![j] = w]
    BY Zenon, <1>1 DEF RecClick, RecStart
  <2>2. j \in 1..MaxJobs /\ jobs[j].st = "none"
    BY FreeJob
  <2>3. w \in JobType /\ w.kind = "rec" /\ w.st = "run" /\ w.calls = 0
    BY DEF Job0, JobType
  <2> HIDE DEF j, w
  <2>4. /\ app' \in AppType /\ app'.q = x.q /\ app'.t = x.t /\ app'.mp = x.mp /\ app'.sys = x.sys
        /\ app'.svc = x.svc /\ app'.ask = x.ask /\ app'.trec = j /\ app'.bad = x.bad
    <3>1. j \in Nat
      BY <2>2
    <3> QED BY <2>1, <3>1, TrecSet
  <2>5. /\ jobs' \in [1..MaxJobs -> JobType] /\ DOMAIN jobs = 1..MaxJobs
        /\ \A k \in 1..MaxJobs : jobs'[k] = IF k = j THEN w ELSE jobs[k]
    BY <1>0, <2>1, <2>2, <2>3
  <2>6. RecordingsHeld'
    BY <1>0, <1>1, <2>2, <2>3, <2>4, <2>5 DEF RecordingsHeld
  <2>7. CallsOnce'
    BY <1>0, <2>3, <2>5 DEF CallsOnce
  <2>8. \A k \in 1..MaxJobs : jobs'[k].kind = "info" => jobs'[k] = jobs[k]
    BY <2>3, <2>5
  <2> QED BY <1>0, <2>2, <2>4, <2>5, <2>6, <2>7, <2>8, JobsInv
<1>2. CASE x.trec # 0
  <2> DEFINE j == app.trec
             w == [jobs[j] EXCEPT !.st = IF jobs[j].st = "run" THEN "stopping" ELSE "freed"]
  <2>1. app' = [x EXCEPT !.trec = 0, !.bad = jobs[j].st = "freed"] /\ jobs' = [jobs EXCEPT ![j] = w]
    BY <1>2 DEF RecClick, RecStop
  <2>2. j \in 1..MaxJobs /\ jobs[j] \in JobType /\ jobs[j].kind = "rec"
        /\ jobs[j].st \in {"run", "finished"}
    BY <1>0, <1>2 DEF RecordingsHeld
  <2>3. w \in JobType /\ w.kind = "rec" /\ w.calls = jobs[j].calls
        /\ w.st = IF jobs[j].st = "run" THEN "stopping" ELSE "freed"
    BY <2>2 DEF JobType
  <2> HIDE DEF j, w
  <2>4. /\ app' \in AppType /\ app'.q = x.q /\ app'.t = x.t /\ app'.mp = x.mp /\ app'.sys = x.sys
        /\ app'.svc = x.svc /\ app'.ask = x.ask /\ app'.trec = 0 /\ app'.bad = FALSE
    <3>1. app' = [x EXCEPT !.trec = 0, !.bad = FALSE]
      BY <2>1, <2>2
    <3> QED BY <3>1 DEF AppType
  <2>5. /\ jobs' \in [1..MaxJobs -> JobType] /\ DOMAIN jobs = 1..MaxJobs
        /\ \A k \in 1..MaxJobs : jobs'[k] = IF k = j THEN w ELSE jobs[k]
    BY <1>0, <2>1, <2>2, <2>3
  <2>6. RecordingsHeld'
    <3>1. \A k \in 1..MaxJobs : jobs[k].kind = "rec" /\ jobs[k].st \in {"run", "finished"} => k = j
      BY <1>0, <2>5 DEF RecordingsHeld, j
    <3>2. \A k \in 1..MaxJobs : jobs'[k].calls <= 1
      BY <1>0, <2>3, <2>5 DEF CallsOnce
    <3> QED BY <2>3, <2>4, <2>5, <3>1, <3>2 DEF RecordingsHeld
  <2>7. CallsOnce'
    BY <1>0, <2>2, <2>3, <2>5 DEF CallsOnce
  <2>8. \A k \in 1..MaxJobs : jobs'[k].kind = "info" => jobs'[k] = jobs[k]
    BY <2>3, <2>5
  <2>9. app'.trec \in 0..MaxJobs
    BY <1>0, <2>4, AndroidAssumption
  <2> QED BY <1>0, <2>4, <2>5, <2>6, <2>7, <2>8, <2>9, JobsInv
<1> QED BY <1>1, <1>2

\* The looper runs what was posted.
LEMMA RunPostInv ==
  ASSUME AndroidInv, RunPost
  PROVE  AndroidInv'
<1> DEFINE p == Tail(app.loop)
           x == [app EXCEPT !.loop = Tail(@), !.ended = 0]
           h == Head(app.loop)
<1>0. ConfOk(Conf) /\ app \in AppType /\ Player(app)
  BY ConfIsOk
<1>1. /\ Up /\ app.loop # <<>> /\ HasJob /\ disk' = disk /\ ses' = ses
      /\ \/ \E r \in Picks : Asks(PlayDelta(x, 1, r, Conf))
         \/ Asks(Playcur(x, Conf))
         \/ Asks(Start3(x, Conf))
         \/ RecClick(x)
  BY DEF RunPost
<1>2. ses.fresh => ses.moved
  BY <1>1 DEF AndroidInv, Quiet
<1>3. p \in Seq(Posts)
  BY <1>0, <1>1, HeadTailProperties DEF AppType
<1> HIDE DEF p
<1>4. /\ x \in AppType /\ x.q = app.q /\ x.t = app.t /\ x.mp = app.mp /\ x.sys = app.sys
      /\ x.svc = app.svc /\ x.ask = app.ask /\ x.trec = app.trec /\ x.bad = app.bad
  <2>1. x = [app EXCEPT !.loop = p, !.ended = 0]
    BY DEF p
  <2> HIDE DEF x
  <2> QED BY <1>0, <1>3, <2>1 DEF AppType
<1> HIDE DEF x
<1>5. Leaves(app, x) /\ Player(x)
  <2>1. Player(x)
    BY <1>0, <1>4 DEF Player
  <2> QED BY <1>0, <1>4, <2>1, PartChanged
<1>6. Sound(app, x)
  BY <1>5 DEF Leaves, Sound
<1>7. ASSUME NEW s, Sound(x, s), Asks(s) PROVE AndroidInv'
  <2>1. Leads(s, ses.moved)
    BY <1>6, <1>7, SoundTwice, SoundLeads
  <2> QED BY <1>1, <1>2, <1>7, <2>1, EventInv
<1>8. CASE \E r \in Picks : Asks(PlayDelta(x, 1, r, Conf))
  <2>1. PICK r \in Picks : Asks(PlayDelta(x, 1, r, Conf))
    BY <1>8
  <2>2. Sound(x, PlayDelta(x, 1, r, Conf))
    BY <1>0, <1>4, <1>5, PicksInt, PlayDeltaSound
  <2> QED BY <1>7, <2>1, <2>2
<1>9. CASE Asks(Playcur(x, Conf))
  BY <1>0, <1>4, <1>5, <1>7, <1>9, PlaycurSound
<1>10. CASE Asks(Start3(x, Conf))
  BY <1>0, <1>4, <1>7, <1>10, Start3Sound
<1>11. CASE RecClick(x)
  <2>1. ses' \in SesType
    BY <1>1 DEF AndroidInv, Basic, Types
  <2> QED BY <1>1, <1>2, <1>4, <1>11, <2>1, RecClickInv
<1> QED BY <1>1, <1>8, <1>9, <1>10, <1>11

-----------------------------------------------------------------------------
(* Native tracks.                                                          *)

LEMMA SesAfter ==
  ASSUME ses \in SesType, ses' = [ses EXCEPT !.user = @ + 1, !.fresh = FALSE]
  PROVE  /\ ses' \in SesType /\ ses'.moved = ses.moved /\ ses'.goal = ses.goal
         /\ ses'.saved = ses.saved /\ ses'.fresh = FALSE
<1> DEFINE a == [ses EXCEPT !.user = ses.user + 1]
           b == [a EXCEPT !.fresh = FALSE]
<1>1. /\ a \in SesType /\ a.moved = ses.moved /\ a.goal = ses.goal /\ a.saved = ses.saved
  BY DEF SesType
<1>2. ses' = b
  BY DEF SesType
<1> HIDE DEF a
<1> QED BY <1>1, <1>2 DEF SesType

LEMMA UserRecInv ==
  ASSUME AndroidInv, UserRec
  PROVE  AndroidInv'
<1> DEFINE x == [app EXCEPT !.ended = 0]
<1>0. app \in AppType /\ ses \in SesType
  BY DEF AndroidInv, Basic, Types
<1>1. /\ Up /\ HasJob /\ RecClick(x) /\ disk' = disk
      /\ ses' = [ses EXCEPT !.user = @ + 1, !.fresh = FALSE]
  BY DEF UserRec
<1>2. /\ x \in AppType /\ x.q = app.q /\ x.t = app.t /\ x.mp = app.mp /\ x.sys = app.sys
      /\ x.svc = app.svc /\ x.ask = app.ask /\ x.trec = app.trec /\ x.bad = app.bad
  BY <1>0 DEF AppType
<1> HIDE DEF x
<1>3. /\ ses' \in SesType /\ ses'.moved = ses.moved /\ ses'.goal = ses.goal
      /\ ses'.saved = ses.saved /\ ses'.fresh = FALSE
  BY <1>0, <1>1, SesAfter
<1> QED BY <1>1, <1>2, <1>3, RecClickInv

LEMMA UserConvertInv ==
  ASSUME AndroidInv, UserConvert
  PROVE  AndroidInv'
<1> DEFINE j == CHOOSE k \in DOMAIN jobs : jobs[k].st = "none"
           w == [Job0 EXCEPT !.kind = "conv", !.st = "run"]
<1>0. /\ app \in AppType /\ ses \in SesType /\ jobs \in [1..MaxJobs -> JobType]
      /\ app.trec \in 0..MaxJobs /\ RecordingsHeld /\ CallsOnce
      /\ ~ses.moved => ~app.bad
  BY DEF AndroidInv, Basic, Types, Kept, Cursor
<1>1. /\ HasJob /\ disk' = disk /\ ses' = [ses EXCEPT !.user = @ + 1, !.fresh = FALSE]
      /\ app' = [app EXCEPT !.ended = 0]
      /\ jobs' = [jobs EXCEPT ![j] = w]
  BY Zenon DEF UserConvert
<1>2. j \in 1..MaxJobs /\ jobs[j].st = "none"
  BY <1>1, FreeJob
<1>3. w \in JobType /\ w.kind = "conv" /\ w.st = "run" /\ w.calls = 0
  BY DEF Job0, JobType
<1> HIDE DEF j, w
<1>4. /\ app' \in AppType /\ app'.q = app.q /\ app'.t = app.t /\ app'.mp = app.mp
      /\ app'.sys = app.sys /\ app'.svc = app.svc /\ app'.ask = app.ask /\ app'.trec = app.trec
      /\ app'.bad = app.bad
  BY <1>0, <1>1 DEF AppType
<1>5. /\ jobs' \in [1..MaxJobs -> JobType] /\ DOMAIN jobs = 1..MaxJobs
      /\ \A k \in 1..MaxJobs : jobs'[k] = IF k = j THEN w ELSE jobs[k]
  BY <1>0, <1>1, <1>2, <1>3
<1>6. RecordingsHeld'
  BY <1>0, <1>2, <1>3, <1>4, <1>5 DEF RecordingsHeld
<1>7. CallsOnce'
  BY <1>0, <1>3, <1>5 DEF CallsOnce
<1>8. \A k \in 1..MaxJobs : jobs'[k].kind = "info" => jobs'[k] = jobs[k]
  BY <1>3, <1>5
<1>9. /\ ses' \in SesType /\ ses'.moved = ses.moved /\ ses'.goal = ses.goal
      /\ ses'.saved = ses.saved /\ ses'.fresh = FALSE
  BY <1>0, <1>1, SesAfter
<1> QED BY <1>0, <1>1, <1>4, <1>5, <1>6, <1>7, <1>8, <1>9, JobsInv

\* infotrk_close, rectrk_close, convtrk_close: the list whose tags were read is there.
LEMMA JobEndsInv ==
  ASSUME AndroidInv, NEW j \in DOMAIN jobs, JobEnds(j)
  PROVE  AndroidInv'
<1> DEFINE k == jobs[j].kind
           gone == k = "info" /\ \A l \in 1..Len(app.q.lists) : app.q.lists[l].id # jobs[j].list
           loop == IF k = "conv" THEN app.loop
                   ELSE Append(app.loop, IF k = "info" THEN "start_2" ELSE "rec_click")
           st == IF k = "rec" THEN "finished" ELSE "freed"
           w1 == [jobs[j] EXCEPT !.st = st]
           w == [w1 EXCEPT !.calls = jobs[j].calls + 1]
<1>0. /\ app \in AppType /\ ses \in SesType /\ jobs \in [1..MaxJobs -> JobType]
      /\ app.trec \in 0..MaxJobs /\ RecordingsHeld /\ CallsOnce /\ j \in 1..MaxJobs
  BY DEF AndroidInv, Basic, Types
<1>1. /\ ~app.bad /\ jobs[j].st = "run" /\ disk' = disk /\ ses' = ses
      /\ app' = [app EXCEPT !.bad = gone, !.loop = loop]
      /\ jobs' = [jobs EXCEPT ![j].st = st, ![j].calls = @ + 1]
  BY DEF JobEnds, Up
<1>2. jobs' = [jobs EXCEPT ![j] = w]
  BY <1>0, <1>1
<1>3. jobs[j] \in JobType /\ jobs[j].calls = 0
  BY <1>0, <1>1 DEF CallsOnce
<1>4. gone \in BOOLEAN /\ (~ses.moved => ~gone)
  <2>1. ~ses.moved /\ k = "info" => IsId(app, jobs[j].list)
    BY <1>0, <1>1 DEF AndroidInv, Kept, InfoLists
  <2> QED BY <2>1 DEF IsId
<1>5. loop \in Seq(Posts)
  <2>1. app.loop \in Seq(Posts) /\ "start_2" \in Posts /\ "rec_click" \in Posts
    BY <1>0 DEF AppType, Posts
  <2>2. Append(app.loop, "start_2") \in Seq(Posts) /\ Append(app.loop, "rec_click") \in Seq(Posts)
    BY <2>1, AppendProperties
  <2> QED BY <2>1, <2>2
<1>6. w1 \in JobType /\ w1.kind = k /\ w1.st = st /\ w1.calls = 0
  BY <1>3 DEF JobType
<1> HIDE DEF w1
<1>7. w \in JobType /\ w.kind = k /\ w.st = st /\ w.calls = 1
  BY <1>3, <1>6 DEF JobType
<1> HIDE DEF w, gone, loop
<1>8. /\ app' \in AppType /\ app'.q = app.q /\ app'.t = app.t /\ app'.mp = app.mp
      /\ app'.sys = app.sys /\ app'.svc = app.svc /\ app'.ask = app.ask /\ app'.trec = app.trec
      /\ app'.bad = gone
  BY <1>0, <1>1, <1>4, <1>5 DEF AppType
<1>9. /\ jobs' \in [1..MaxJobs -> JobType] /\ DOMAIN jobs = 1..MaxJobs
      /\ \A i \in 1..MaxJobs : jobs'[i] = IF i = j THEN w ELSE jobs[i]
  BY <1>0, <1>2, <1>7
<1>10. RecordingsHeld'
  <2>1. app.trec # 0 => jobs'[app.trec].kind = "rec" /\ jobs'[app.trec].st \in {"run", "finished"}
    BY <1>0, <1>7, <1>9 DEF RecordingsHeld
  <2>2. \A i \in 1..MaxJobs :
          jobs'[i].kind = "rec" /\ jobs'[i].st \in {"run", "finished"} => i = app.trec
    BY <1>0, <1>1, <1>7, <1>9 DEF RecordingsHeld
  <2>3. \A i \in 1..MaxJobs : jobs'[i].calls <= 1
    BY <1>0, <1>7, <1>9 DEF CallsOnce
  <2> QED BY <1>8, <1>9, <2>1, <2>2, <2>3 DEF RecordingsHeld
<1>11. CallsOnce'
  BY <1>0, <1>7, <1>9 DEF CallsOnce
<1>12. \A i \in 1..MaxJobs : jobs'[i].st = "run" => jobs'[i] = jobs[i]
  BY <1>7, <1>9
<1>13. ~ses.moved => ~ses.fresh
  BY <1>0, <1>1 DEF AndroidInv, Quiet
<1> QED BY <1>0, <1>1, <1>4, <1>8, <1>9, <1>10, <1>11, <1>12, <1>13, JobsInv

LEMMA JobStopsInv ==
  ASSUME AndroidInv, NEW j \in DOMAIN jobs, JobStops(j)
  PROVE  AndroidInv'
<1> DEFINE w == [jobs[j] EXCEPT !.st = "freed"]
<1>0. /\ app \in AppType /\ ses \in SesType /\ jobs \in [1..MaxJobs -> JobType]
      /\ app.trec \in 0..MaxJobs /\ RecordingsHeld /\ CallsOnce /\ j \in 1..MaxJobs
      /\ ~ses.moved => ~app.bad
  BY DEF AndroidInv, Basic, Types, Kept, Cursor
<1>1. /\ jobs[j].st = "stopping" /\ app' = app /\ disk' = disk /\ ses' = ses
      /\ jobs' = [jobs EXCEPT ![j] = w]
  BY DEF JobStops
<1>2. w \in JobType /\ w.kind = jobs[j].kind /\ w.st = "freed" /\ w.calls = jobs[j].calls
  BY <1>0 DEF JobType
<1> HIDE DEF w
<1>3. /\ jobs' \in [1..MaxJobs -> JobType] /\ DOMAIN jobs = 1..MaxJobs
      /\ \A i \in 1..MaxJobs : jobs'[i] = IF i = j THEN w ELSE jobs[i]
  BY <1>0, <1>1, <1>2
<1>4. RecordingsHeld'
  BY <1>0, <1>1, <1>2, <1>3 DEF RecordingsHeld
<1>5. CallsOnce'
  BY <1>0, <1>2, <1>3 DEF CallsOnce
<1>6. \A i \in 1..MaxJobs : jobs'[i].st = "run" => jobs'[i] = jobs[i]
  BY <1>2, <1>3
<1>7. ~ses.moved => ~ses.fresh
  BY <1>0, <1>1 DEF AndroidInv, Quiet
<1> QED BY <1>0, <1>1, <1>3, <1>4, <1>5, <1>6, <1>7, JobsInv

-----------------------------------------------------------------------------
(* Commands about lists.                                                   *)

LEMMA QueueChanged ==
  ASSUME NEW s \in AppType, NEW Q \in QueueType, Q.active = s.q.active
  PROVE  LET r == [s EXCEPT !.q = Q]
         IN /\ r \in AppType /\ r.q = Q /\ r.t = s.t /\ r.ask = s.ask /\ r.trec = s.trec
            /\ r.bad = s.bad /\ (Player(s) => Player(r))
<1> DEFINE r == [s EXCEPT !.q = Q]
<1>1. /\ r \in AppType /\ r.q = Q /\ r.t = s.t /\ r.mp = s.mp /\ r.sys = s.sys /\ r.svc = s.svc
      /\ r.ask = s.ask /\ r.trec = s.trec /\ r.bad = s.bad
  BY DEF AppType
<1> HIDE DEF r
<1>2. Player(s) => Player(r)
  BY <1>1 DEF Player
<1> QED BY <1>1, <1>2 DEF r

\* Queue.clear
LEMMA ClearedSound ==
  ASSUME NEW s \in AppType, Player(s)
  PROVE  Sound(s, Cleared(s))
<1> DEFINE f == s.q.lists
           l == s.q.sel
           e1 == [f[l] EXCEPT !.items = <<>>]
           e == [e1 EXCEPT !.mod = TRUE]
           g == [f EXCEPT ![l] = e]
           P == [s.q EXCEPT !.lists = g]
           O == [P EXCEPT !.cur = -1]
           Q == [O EXCEPT !.idx = -1]
           r == [s EXCEPT !.q = Q]
<1>0. s.q \in QueueType /\ f \in Seq(List) /\ l \in Nat /\ Len(f) \in Nat
  BY DEF AppType, QueueType
<1>1. l \in 1..Len(f) => e \in List /\ e.mod /\ e.id = f[l].id
  <2> SUFFICES ASSUME l \in 1..Len(f)
               PROVE  e \in List /\ e.mod /\ e.id = f[l].id
    OBVIOUS
  <2>1. f[l] \in List
    BY <1>0, ElementOfSeq
  <2>2. e1 \in List /\ e1.id = f[l].id
    <3>1. <<>> \in Seq(Nat)
      OBVIOUS
    <3> QED BY <2>1, <3>1 DEF List
  <2> HIDE DEF e1
  <2> QED BY <2>2 DEF List
<1>2. Cleared(s) = r
  <2>1. Cleared(s) = [s EXCEPT !.q.lists[l] = e, !.q.cur = -1, !.q.idx = -1]
    BY DEF Cleared
  <2>2. [s EXCEPT !.q.lists[l] = e] = [s EXCEPT !.q = [s.q EXCEPT !.lists = g]]
    <3> HIDE DEF e
    <3> QED BY ListPut
  <2>3. Cleared(s) = [[s EXCEPT !.q.lists[l] = e] EXCEPT !.q.cur = -1, !.q.idx = -1]
    <3> HIDE DEF e
    <3> QED BY <2>1
  <2> HIDE DEF e, g
  <2> QED BY <2>2, <2>3 DEF AppType, QueueType
<1> HIDE DEF e
<1>3. /\ g \in Seq(List) /\ Len(g) = Len(f)
      /\ \A i \in 1..Len(f) :
           /\ g[i] = IF i = l THEN e ELSE f[i]
           /\ g[i].id = f[i].id
           /\ g[i].mod \/ g[i] = f[i]
  BY <1>0, <1>1, ListReplaced
<1> HIDE DEF g
<1>4. P \in QueueType /\ P.lists = g /\ P.active = s.q.active /\ P.act = s.q.act /\ P.sel = s.q.sel
  BY <1>0, <1>3 DEF QueueType
<1> HIDE DEF P
<1>5. O \in QueueType /\ O.lists = g /\ O.active = s.q.active /\ O.act = s.q.act /\ O.sel = s.q.sel
  BY <1>4 DEF QueueType
<1> HIDE DEF O
<1>6. /\ Q \in QueueType /\ Q.lists = g /\ Q.active = s.q.active /\ Q.act = s.q.act
      /\ Q.sel = s.q.sel /\ Q.idx = -1
  BY <1>5 DEF QueueType
<1> HIDE DEF Q
<1>7. /\ r \in AppType /\ r.q = Q /\ r.t = s.t /\ r.ask = s.ask /\ r.trec = s.trec
      /\ r.bad = s.bad /\ Player(r)
  BY <1>6, QueueChanged
<1> HIDE DEF r
<1>8. Keeps(s, r)
  BY <1>3, <1>6, <1>7 DEF Keeps, Marked
<1>9. Cursor(s) => Cursor(r)
  BY <1>3, <1>6, <1>7 DEF Cursor, HasList, IsId
<1> QED BY <1>2, <1>7, <1>8, <1>9 DEF Sound

\* new_list, switch_list: a new list is empty, has no file, and is shown.
LEMMA ListNewInv ==
  ASSUME AndroidInv, ListNew
  PROVE  AndroidInv'
<1> DEFINE f == app.q.lists
           e == [id |-> app.q.made + 1, items |-> <<>>, mod |-> FALSE]
           g == Append(f, e)
           P == [app.q EXCEPT !.lists = g]
           n == Len(f) + 1
           m == app.q.made + 1
           O == [P EXCEPT !.sel = n]
           Q == [O EXCEPT !.made = m]
           s == [app EXCEPT !.q = Q]
<1>0. /\ app \in AppType /\ Player(app) /\ app.q \in QueueType /\ f \in Seq(List)
      /\ Len(f) \in Nat /\ Len(f) < 3 /\ app.q.made \in Nat /\ app.ask = 0
  BY ConfIsOk DEF AppType, QueueType, ListNew, AndroidInv, Basic
<1>1. User(s, FALSE)
  <2>1. [app EXCEPT !.q.lists = Append(@, e), !.q.sel = Len(app.q.lists) + 1, !.q.made = @ + 1] = s
    <3> HIDE DEF e
    <3> QED BY <1>0 DEF AppType, QueueType
  <2> QED BY <2>1 DEF ListNew
<1>2. e \in List /\ e.items = <<>>
  <2>1. <<>> \in Seq(Nat)
    OBVIOUS
  <2> QED BY <1>0, <2>1 DEF List
<1> HIDE DEF e
<1>3. g \in Seq(List) /\ Len(g) = Len(f) + 1 /\ (\A i \in 1..Len(f) : g[i] = f[i]) /\ g[Len(f) + 1] = e
  BY <1>0, <1>2, AppendProperties
<1> HIDE DEF g
<1>3a. n \in Nat /\ m \in Nat
  BY <1>0
<1>4. /\ P \in QueueType /\ P.lists = g /\ P.active = app.q.active /\ P.act = app.q.act
      /\ P.idx = app.q.idx
  BY <1>0, <1>3 DEF QueueType
<1> HIDE DEF P, n, m
<1>5. /\ O \in QueueType /\ O.lists = g /\ O.active = app.q.active /\ O.act = app.q.act
      /\ O.idx = app.q.idx /\ O.sel = n
  BY <1>3a, <1>4 DEF QueueType
<1> HIDE DEF O
<1>6. /\ Q \in QueueType /\ Q.lists = g /\ Q.active = app.q.active /\ Q.act = app.q.act
      /\ Q.idx = app.q.idx /\ Q.sel = n
  BY <1>3a, <1>5 DEF QueueType
<1> HIDE DEF Q
<1>7. /\ s \in AppType /\ s.q = Q /\ s.t = app.t /\ s.ask = app.ask /\ s.trec = app.trec
      /\ s.bad = app.bad /\ Player(s)
  BY <1>0, <1>6, QueueChanged
<1> HIDE DEF s
<1>8. ASSUME ~ses.moved
      PROVE  Cursor(s) /\ (\A i \in Nat : IsId(app, i) => IsId(s, i)) /\ FilesHeld(s)
  <2>1. Cursor(app) /\ FilesHeld(app)
    BY <1>8 DEF AndroidInv, Kept
  <2>2. 1..Len(f) \subseteq 1..Len(g) /\ app.q.act \in 1..Len(f)
    BY <1>0, <1>3, <2>1 DEF Cursor, HasList
  <2>3. Cursor(s)
    <3>1. g[app.q.act] = f[app.q.act]
      BY <1>3, <2>2
    <3>2. app.q.idx >= 0 => InList(s, s.q.act, s.q.idx) /\ Items(s, s.q.act)[s.q.idx + 1] = s.t.url
      BY <1>6, <1>7, <2>1, <3>1 DEF Cursor, InList, Items
    <3>3. HasList(s, s.q.act)
      BY <1>6, <1>7, <2>2 DEF HasList
    <3>4. HasList(s, s.q.sel)
      <4>1. n \in 1..Len(g)
        BY <1>0, <1>3 DEF n
      <4> QED BY <1>6, <1>7, <4>1 DEF HasList
    <3>5. ~s.bad /\ s.ask = 0
      BY <1>0, <1>7, <2>1 DEF Cursor
    <3>6. s.q.idx = app.q.idx
      BY <1>6, <1>7
    <3> QED BY <3>2, <3>3, <3>4, <3>5, <3>6 DEF Cursor
  <2>4. \A i \in Nat : IsId(app, i) => IsId(s, i)
    BY <1>3, <1>6, <1>7, <2>2 DEF IsId
  <2>5. \A i \in 1..Len(g) : i \in 1..Len(f) \/ i = Len(f) + 1
    BY <1>0, <1>3
  <2>6. FilesHeld(s)
    <3>1. Len(g) \in 1..3
      BY <1>0, <1>3
    <3>2. ASSUME NEW i \in 1..Len(g) PROVE g[i].mod \/ g[i].items \in {<<>>, disk.files[i]}
      <4>1. CASE i \in 1..Len(f)
        BY <1>3, <2>1, <4>1 DEF FilesHeld
      <4>2. CASE i = Len(f) + 1
        BY <1>2, <1>3, <4>2
      <4> QED BY <2>5, <4>1, <4>2
    <3> QED BY <1>6, <1>7, <3>1, <3>2 DEF FilesHeld
  <2> QED BY <2>3, <2>4, <2>6
<1>9. s.q.sel \in 1..Len(s.q.lists)
  BY <1>0, <1>3, <1>6, <1>7 DEF n
<1>10. Leads(s, ses.moved \/ FALSE)
  BY <1>7, <1>8, <1>9 DEF Leads
<1> QED BY <1>1, <1>10, UserInv

\* close_current_list: another one is shown; nothing is said of the cursor then.
LEMMA ListCloseInv ==
  ASSUME AndroidInv, ListClose
  PROVE  AndroidInv'
<1> DEFINE f == app.q.lists
           l == app.q.sel
           n == IF l = 1 THEN 1 ELSE l - 1
           g == RemoveAt(f, l)
           P == [app.q EXCEPT !.lists = g]
           Q == [P EXCEPT !.sel = n]
           s == [app EXCEPT !.q = Q]
<1>0. /\ app \in AppType /\ Player(app) /\ app.q \in QueueType /\ f \in Seq(List)
      /\ Len(f) \in Nat /\ l \in 1..Len(f)
  BY ConfIsOk DEF AppType, QueueType, HasList
<1>1. CASE Len(f) = 1
  <2>1. User(Cleared(app), app.q.sel # app.q.act)
    BY <1>1 DEF ListClose
  <2> QED BY <1>0, <2>1, ClearedSound, CommandInv
<1>2. CASE Len(f) # 1
  <2>1. User(s, TRUE)
    <3>1. [app EXCEPT !.q.lists = RemoveAt(@, app.q.sel), !.q.sel = IF @ = 1 THEN 1 ELSE @ - 1] = s
      BY <1>0 DEF AppType, QueueType
    <3> QED BY <1>2, <3>1 DEF ListClose
  <2>2. g \in Seq(List) /\ Len(g) = Len(f) - 1
    BY <1>0, RemovedEntry
  <2> HIDE DEF g
  <2>3. n \in Nat /\ n \in 1..Len(g)
    <3> DEFINE m == Len(f)
    <3>0. m \in Nat /\ l \in 1..m /\ m # 1 /\ Len(g) = m - 1
      BY <1>0, <1>2, <2>2
    <3> HIDE DEF m, l
    <3>1. l \in Nat /\ l >= 1 /\ l <= m /\ m >= 2
      BY <3>0
    <3> QED BY <3>0, <3>1
  <2> HIDE DEF n
  <2>4. P \in QueueType /\ P.lists = g /\ P.active = app.q.active
    BY <1>0, <2>2 DEF QueueType
  <2> HIDE DEF P
  <2>5. Q \in QueueType /\ Q.lists = g /\ Q.active = app.q.active /\ Q.sel = n
    BY <2>3, <2>4 DEF QueueType
  <2> HIDE DEF Q
  <2>6. s \in AppType /\ s.q = Q /\ s.trec = app.trec /\ Player(s)
    BY <1>0, <2>5, QueueChanged
  <2> HIDE DEF s
  <2>7. Leads(s, ses.moved \/ TRUE)
    BY <2>3, <2>5, <2>6 DEF Leads
  <2> QED BY <2>1, <2>7, UserInv
<1> QED BY <1>1, <1>2

\* Queue.sort
LEMMA ListSortInv ==
  ASSUME AndroidInv, ListSort
  PROVE  AndroidInv'
<1> DEFINE f == app.q.lists
           l == app.q.sel
           d == Reverse(f[l].items)
           e == [f[l] EXCEPT !.items = d]
           g == [f EXCEPT ![l] = e]
           Q == [app.q EXCEPT !.lists = g]
           s == [app EXCEPT !.q = Q]
<1>0. /\ app \in AppType /\ Player(app) /\ app.q \in QueueType /\ f \in Seq(List)
      /\ Len(f) \in Nat /\ l \in 1..Len(f)
  BY ConfIsOk DEF AppType, QueueType, HasList
<1>1. User(s, TRUE)
  <2>1. [app EXCEPT !.q.lists[app.q.sel].items = Reverse(@)] = [app EXCEPT !.q.lists[l] = e]
    BY <1>0
  <2> HIDE DEF e
  <2>2. [app EXCEPT !.q.lists[l] = e] = s
    BY <1>0, ListPut
  <2> QED BY <2>1, <2>2 DEF ListSort
<1>2. f[l] \in List
  BY <1>0, ElementOfSeq
<1>3. d \in Seq(Nat)
  <2>1. f[l].items \in Seq(Nat)
    BY <1>2 DEF List
  <2>2. ASSUME NEW i \in 1..Len(f[l].items)
        PROVE  f[l].items[(Len(f[l].items) - i) + 1] \in Nat
    <3>1. Len(f[l].items) \in Nat
      BY <2>1, LenProperties
    <3>2. (Len(f[l].items) - i) + 1 \in 1..Len(f[l].items)
      BY <3>1
    <3> QED BY <2>1, <3>2, ElementOfSeq
  <2> QED BY <2>1, <2>2 DEF Reverse
<1> HIDE DEF d
<1>4. e \in List
  BY <1>2, <1>3 DEF List
<1> HIDE DEF e
<1>5. g \in Seq(List) /\ Len(g) = Len(f)
  BY <1>0, <1>4, ExceptSeq
<1> HIDE DEF g
<1>6. Q \in QueueType /\ Q.lists = g /\ Q.active = app.q.active /\ Q.sel = l
  BY <1>0, <1>5 DEF QueueType
<1> HIDE DEF Q
<1>7. s \in AppType /\ s.q = Q /\ s.trec = app.trec /\ Player(s)
  BY <1>0, <1>6, QueueChanged
<1> HIDE DEF s
<1>8. Leads(s, ses.moved \/ TRUE)
  BY <1>0, <1>5, <1>6, <1>7 DEF Leads
<1> QED BY <1>1, <1>8, UserInv

\* next_list_select
LEMMA ListSwitchInv ==
  ASSUME AndroidInv, ListSwitch
  PROVE  AndroidInv'
<1> DEFINE n == IndexNext(app, app.q.sel)
           Q == [app.q EXCEPT !.sel = n]
           s == [app EXCEPT !.q = Q]
<1>0. /\ app \in AppType /\ Player(app) /\ app.q \in QueueType /\ app.ask = 0
      /\ Len(app.q.lists) \in Nat /\ app.q.sel \in 1..Len(app.q.lists)
  BY ConfIsOk DEF AppType, QueueType, HasList, AndroidInv, Basic
<1>1. User(s, FALSE)
  <2>1. [app EXCEPT !.q.sel = IndexNext(app, @)] = s
    OBVIOUS
  <2> QED BY <2>1 DEF ListSwitch
<1>2. n \in Nat /\ n \in 1..Len(app.q.lists)
  BY <1>0 DEF IndexNext
<1> HIDE DEF n
<1>3. /\ Q \in QueueType /\ Q.lists = app.q.lists /\ Q.active = app.q.active /\ Q.act = app.q.act
      /\ Q.idx = app.q.idx /\ Q.sel = n
  BY <1>0, <1>2 DEF QueueType
<1> HIDE DEF Q
<1>4. /\ s \in AppType /\ s.q = Q /\ s.t = app.t /\ s.ask = app.ask /\ s.trec = app.trec
      /\ s.bad = app.bad /\ Player(s)
  BY <1>0, <1>3, QueueChanged
<1> HIDE DEF s
<1>5. Cursor(app) => Cursor(s)
  BY <1>0, <1>2, <1>3, <1>4 DEF Cursor, HasList, InList, Items
<1>6. FilesHeld(app) => FilesHeld(s)
  BY <1>3, <1>4 DEF FilesHeld
<1>7. \A i \in Nat : IsId(app, i) => IsId(s, i)
  BY <1>3, <1>4 DEF IsId
<1>8. Leads(s, ses.moved \/ FALSE)
  BY <1>2, <1>3, <1>4, <1>5, <1>6, <1>7 DEF Leads, AndroidInv, Kept
<1> QED BY <1>1, <1>8, UserInv

\* The other commands about lists.
LEMMA ListInv ==
  ASSUME AndroidInv,
         ListClear \/ ListNextAddCur \/ ListRm \/ FileDelCur \/ FileDel \/ ListAdd \/ AutoStop
  PROVE  AndroidInv'
<1>0. /\ app \in AppType /\ Player(app) /\ app.q.sel \in Nat /\ app.q \in QueueType
      /\ app.q.idx \in Int /\ app.dlg \in Int
  BY ConfIsOk DEF AppType, QueueType
<1>1. CASE ListClear
  <2>1. User(Cleared(app), app.q.sel # app.q.act)
    BY <1>1 DEF ListClear
  <2> QED BY <1>0, <2>1, ClearedSound, CommandInv
<1>2. CASE ListNextAddCur
  <2>1. User(NextListAddCur(app), FALSE)
    BY <1>2 DEF ListNextAddCur
  <2>2. Sound(app, NextListAddCur(app))
    BY <1>0, NextListAddCurFine, FineIsSound
  <2> QED BY <2>1, <2>2, CommandInv
<1>3. CASE ListRm
  <2>1. User(RemoveEntry(app, app.q.idx), FALSE) /\ app.q.idx >= 0
    BY <1>3 DEF ListRm
  <2>1a. app.q.idx \in Nat
    BY <1>0, <2>1
  <2>2. Sound(app, RemoveEntry(app, app.q.idx))
    BY <1>0, <2>1a, RemoveFine, FineIsSound
  <2> QED BY <2>1, <2>2, CommandInv
<1>4. CASE FileDelCur
  <2> DEFINE r == [app EXCEPT !.dlg = app.q.idx]
  <2>1. User(r, FALSE)
    BY <1>4 DEF FileDelCur
  <2>2. /\ r \in AppType /\ r.q = app.q /\ r.t = app.t /\ r.mp = app.mp /\ r.sys = app.sys
        /\ r.svc = app.svc /\ r.ask = app.ask /\ r.trec = app.trec /\ r.bad = app.bad
    BY <1>0 DEF AppType
  <2> HIDE DEF r
  <2>3. Sound(app, app)
    BY <1>0, FineSame, FineIsSound
  <2>4. Leads(app, ses.moved \/ FALSE)
    BY <2>3, SoundLeads
  <2>5. Leads(r, ses.moved \/ FALSE)
    BY <2>2, <2>4, LeadsToo
  <2> QED BY <2>1, <2>5, UserInv
<1>5. CASE FileDel
  <2> DEFINE x == RemoveEntry(app, app.dlg)
             r == [x EXCEPT !.dlg = -1]
  <2>1. User(r, FALSE) /\ app.dlg >= 0
    BY <1>5 DEF FileDel
  <2>1a. app.dlg \in Nat
    BY <1>0, <2>1
  <2>2. Sound(app, x)
    BY <1>0, <2>1a, RemoveFine, FineIsSound
  <2> HIDE DEF x
  <2>3. Leads(x, ses.moved \/ FALSE) /\ x \in AppType
    BY <2>2, SoundLeads DEF Leads
  <2>4. /\ r \in AppType /\ r.q = x.q /\ r.t = x.t /\ r.mp = x.mp /\ r.sys = x.sys
        /\ r.svc = x.svc /\ r.ask = x.ask /\ r.trec = x.trec /\ r.bad = x.bad
    BY <2>3 DEF AppType
  <2> HIDE DEF r
  <2>5. Leads(r, ses.moved \/ FALSE)
    BY <2>3, <2>4, LeadsToo
  <2> QED BY <2>1, <2>5, UserInv
<1>6. CASE ListAdd
  <2>1. PICK u \in Urls : User(AddTo(app, app.q.sel, u), FALSE)
    BY <1>6 DEF ListAdd
  <2>2. u \in Nat
    BY AndroidAssumption
  <2>3. Sound(app, AddTo(app, app.q.sel, u))
    BY <1>0, <2>2, AddToFine, FineIsSound
  <2> QED BY <2>1, <2>3, CommandInv
<1>7. CASE AutoStop
  <2> DEFINE a == IF app.q.astop = "off" THEN "armed" ELSE "off"
             Q == [app.q EXCEPT !.astop = a]
             s == [app EXCEPT !.q = Q]
  <2>1. User(s, FALSE)
    <3>1. [app EXCEPT !.q.astop = IF @ = "off" THEN "armed" ELSE "off"] = s
      OBVIOUS
    <3> QED BY <1>7, <3>1 DEF AutoStop
  <2>2. /\ Q \in QueueType /\ Q.lists = app.q.lists /\ Q.active = app.q.active /\ Q.act = app.q.act
        /\ Q.idx = app.q.idx /\ Q.sel = app.q.sel
    BY <1>0 DEF QueueType
  <2> HIDE DEF Q
  <2>3. /\ s \in AppType /\ s.q = Q /\ s.t = app.t /\ s.ask = app.ask /\ s.trec = app.trec
        /\ s.bad = app.bad /\ Player(s)
    BY <1>0, <2>2, QueueChanged
  <2> HIDE DEF s
  <2>4. Keeps(app, s)
    <3>1. Len(app.q.lists) \in Nat
      BY <1>0 DEF QueueType
    <3> QED BY <2>2, <2>3, <3>1 DEF Keeps, Marked
  <2>5. Cursor(app) => Cursor(s)
    BY <2>2, <2>3 DEF Cursor, HasList, InList, Items, IsId
  <2> QED BY <2>1, <2>3, <2>4, <2>5, CommandInv DEF Sound
<1> QED BY <1>1, <1>2, <1>3, <1>4, <1>5, <1>6, <1>7

-----------------------------------------------------------------------------
(* Saving the lists, and starting again.                                   *)

LEMMA NotAbsent ==
  Absent \notin Seq(Nat)
<1>1. Len(Absent) = 1 /\ Absent[1] = -1
  BY DEF Absent
<1>2. Absent \in Seq(Nat) => Absent[1] \in Nat
  BY <1>1, ElementOfSeq
<1> QED BY <1>1, <1>2

\* Queue.saveconf
LEMMA SaveConfInv ==
  ASSUME AndroidInv, SaveConf
  PROVE  AndroidInv'
<1> DEFINE f == app.q.lists
           n == Len(f)
           h == [i \in 1..n |-> [f[i] EXCEPT !.mod = FALSE]]
           Q == [app.q EXCEPT !.lists = h]
           F == [i \in DOMAIN disk.files |->
                   IF i <= n /\ f[i].mod THEN Saved(app)[i]
                   ELSE IF i = n + 1 THEN Absent ELSE disk.files[i]]
           d == [files |-> F, cur |-> app.q.cur, act |-> app.q.act]
           z1 == [ses EXCEPT !.goal = Saved(app)]
           z == [z1 EXCEPT !.saved = TRUE]
<1>0. /\ app \in AppType /\ Player(app) /\ app.q \in QueueType /\ f \in Seq(List) /\ n \in Nat
      /\ app.q.sel \in 1..n /\ app.q.act \in Nat \ {0} /\ app.q.cur \in Int
      /\ disk.files \in [1..4 -> Seq(Nat) \union {Absent}] /\ ses \in SesType
  <2>1. app \in AppType /\ Player(app) /\ app.q.sel \in 1..n
    BY ConfIsOk DEF HasList
  <2>2. disk \in DiskType /\ ses \in SesType
    BY DEF AndroidInv, Basic, Types
  <2>3. app.q \in QueueType
    BY <2>1 DEF AppType
  <2>4. f \in Seq(List) /\ app.q.act \in Nat \ {0} /\ app.q.cur \in Int
    BY <2>3 DEF QueueType
  <2>5. disk.files \in [1..4 -> Seq(Nat) \union {Absent}]
    BY <2>2 DEF DiskType
  <2>6. n \in Nat
    BY <2>4
  <2> QED BY <2>1, <2>2, <2>3, <2>4, <2>5, <2>6
<1>1. /\ disk' = d /\ jobs' = jobs
      /\ app' = [app EXCEPT !.q.lists = h] /\ ses' = [ses EXCEPT !.goal = Saved(app), !.saved = TRUE]
  BY Zenon DEF SaveConf
<1>2. \A i \in 1..n : f[i] \in List
  BY <1>0, ElementOfSeq
<1>3. h \in Seq(List) /\ Len(h) = n
      /\ \A i \in 1..n : h[i].id = f[i].id /\ h[i].items = f[i].items /\ ~h[i].mod
  <2>1. \A i \in 1..n : h[i] \in List /\ h[i].id = f[i].id /\ h[i].items = f[i].items /\ ~h[i].mod
    BY <1>2 DEF List
  <2>2. h \in [1..n -> List]
    BY <2>1
  <2> HIDE DEF h
  <2> DEFINE m == n
  <2>3. m \in Nat /\ h \in [1..m -> List]
    BY <1>0, <2>2
  <2> HIDE DEF m
  <2>4. h \in Seq(List) /\ DOMAIN h = 1..m
    BY <2>3, IsASeq
  <2>5. Len(h) = m
    BY <2>3, <2>4, LenProperties
  <2>6. Len(h) = n
    BY <2>5 DEF m
  <2> QED BY <2>1, <2>4, <2>6 DEF h
<1>4. /\ Saved(app) \in Seq(Seq(Nat)) /\ Len(Saved(app)) = n
      /\ \A i \in 1..n : Saved(app)[i] = f[i].items /\ f[i].items \in Seq(Nat)
  <2>1. \A i \in 1..n : f[i].items \in Seq(Nat)
    BY <1>2 DEF List
  <2> QED BY <1>0, <2>1 DEF Saved
<1>5. /\ F \in [1..4 -> Seq(Nat) \union {Absent}]
      /\ \A i \in 1..4 : F[i] = IF i <= n /\ f[i].mod THEN f[i].items
                                ELSE IF i = n + 1 THEN Absent ELSE disk.files[i]
  BY <1>0, <1>4
<1> HIDE DEF h, F
<1>6. Q \in QueueType /\ Q.lists = h /\ Q.active = app.q.active /\ Q.act = app.q.act
      /\ Q.sel = app.q.sel /\ Q.idx = app.q.idx
  BY <1>0, <1>3 DEF QueueType
<1>7. app' = [app EXCEPT !.q = Q]
  BY Zenon, <1>1
<1> HIDE DEF Q
<1>8. /\ app' \in AppType /\ app'.q = Q /\ app'.t = app.t /\ app'.ask = app.ask
      /\ app'.trec = app.trec /\ app'.bad = app.bad /\ Player(app')
      /\ app'.loop = app.loop /\ app'.mp = app.mp /\ app'.svc = app.svc /\ app'.sys = app.sys
  <2>1. /\ app' \in AppType /\ app'.q = Q /\ app'.t = app.t /\ app'.ask = app.ask
        /\ app'.trec = app.trec /\ app'.bad = app.bad /\ Player(app')
    BY <1>0, <1>6, <1>7, QueueChanged
  <2>2. app'.loop = app.loop /\ app'.mp = app.mp /\ app'.svc = app.svc /\ app'.sys = app.sys
    BY <1>0, <1>7 DEF AppType
  <2> QED BY <2>1, <2>2
<1>9. d \in DiskType /\ d.files = F /\ d.act = app.q.act
  BY <1>0, <1>5 DEF DiskType
<1> HIDE DEF d
<1>10. /\ ses' \in SesType /\ ses'.goal = Saved(app) /\ ses'.saved = TRUE
       /\ ses'.moved = ses.moved /\ ses'.fresh = ses.fresh
  <2>1. /\ z1 \in SesType /\ z1.goal = Saved(app) /\ z1.moved = ses.moved /\ z1.fresh = ses.fresh
    BY <1>0, <1>4 DEF SesType
  <2>2. ses' = z
    BY <1>0, <1>1 DEF SesType
  <2> HIDE DEF z1
  <2> QED BY <2>1, <2>2 DEF SesType
<1>11. Basic'
  <2>1. Types'
    BY <1>0, <1>1, <1>3, <1>6, <1>8, <1>9, <1>10 DEF AndroidInv, Basic, Types
  <2>2. RecordingsHeld' /\ CallsOnce'
    BY <1>1, <1>8 DEF AndroidInv, Basic, RecordingsHeld, CallsOnce
  <2> QED BY <1>8, <2>1, <2>2 DEF AndroidInv, Basic
<1>12. ASSUME ~ses.moved PROVE Kept' /\ GoalSaved' /\ Quiet' /\ ListsReloaded'
  <2>1. /\ Cursor(app) /\ n \in 1..3 /\ InfoLists /\ disk.files[4] = Absent
        /\ \A i \in 1..n : f[i].mod \/ f[i].items \in {<<>>, disk.files[i]}
    BY <1>12 DEF AndroidInv, Kept, FilesHeld
  <2>2. Cursor(app')
    <3>1. app.q.act \in 1..n
      BY <2>1 DEF Cursor, HasList
    <3>2. app.q.idx >= 0 => InList(app', app'.q.act, app'.q.idx)
                            /\ Items(app', app'.q.act)[app'.q.idx + 1] = app'.t.url
      BY <1>3, <1>6, <1>8, <2>1, <3>1 DEF Cursor, InList, Items
    <3>3. app.ask = 0
      BY DEF AndroidInv, Basic
    <3> QED BY <1>3, <1>6, <1>8, <2>1, <3>2, <3>3 DEF Cursor, HasList
  <2>3. InfoLists'
    <3>1. \A i : IsId(app, i) => IsId(app', i)
      BY <1>3, <1>6, <1>8 DEF IsId
    <3> QED BY <1>1, <2>1, <3>1 DEF InfoLists
  <2>4. \A i \in 1..n : i \in 1..4 /\ F[i] = IF f[i].mod THEN f[i].items ELSE disk.files[i]
    <3>1. n \in 1..3
      BY <2>1
    <3> HIDE DEF n, f
    <3>2. \A i \in 1..n : i \in 1..4 /\ i <= n
      BY <3>1
    <3>3. \A i \in 1..n : f[i].mod => F[i] = f[i].items
      BY <1>5, <3>2
    <3>4. \A i \in 1..n : i # n + 1
      BY <3>1
    <3>5. \A i \in 1..n : ~f[i].mod => F[i] = disk.files[i]
      BY <1>5, <3>2, <3>4
    <3> QED BY <3>2, <3>3, <3>5
  <2>5. F[n + 1] = Absent /\ F[4] = Absent
    <3>1. n \in 1..3 /\ disk.files[4] = Absent
      BY <2>1
    <3> HIDE DEF n, f
    <3>2. n + 1 \in 1..4 /\ ~(n + 1 <= n) /\ ~(4 <= n)
      BY <3>1
    <3> QED BY <1>5, <3>1, <3>2
  <2>6. FilesHeld(app)'
    BY <1>1, <1>3, <1>6, <1>8, <1>9, <2>1, <2>4 DEF FilesHeld
  <2>7. GoalSaved'
    <3>1. \A i \in 1..n : f[i].items # <<>> => F[i] = f[i].items
      BY <2>1, <2>4
    <3>2. \A i \in 1..n : f[i].items # Absent
      BY <1>4, NotAbsent
    <3>3. disk'.files = F /\ ses'.goal = Saved(app) /\ Len(Saved(app)) = n /\ n \in 1..3
      BY <1>1, <1>4, <1>9, <1>10, <2>1
    <3>4. \A i \in 1..n : Saved(app)[i] = f[i].items
      BY <1>4
    <3> HIDE DEF n, f
    <3>5. (\A i \in 1..n : Saved(app)[i] # <<>>)
            => \A i \in 1..n : F[i] = Saved(app)[i] /\ F[i] # Absent
      BY <3>1, <3>2, <3>4
    <3> QED BY <2>5, <3>3, <3>5 DEF GoalSaved
  <2>8. Quiet'
    BY <1>1, <1>8, <1>10, <1>12 DEF AndroidInv, Quiet
  <2>9. ListsReloaded'
    <3>1. Saved(app') = Saved(app)
      BY <1>3, <1>6, <1>8 DEF Saved
    <3> QED BY <1>10, <3>1 DEF ListsReloaded
  <2> QED BY <1>1, <1>9, <2>2, <2>3, <2>5, <2>6, <2>7, <2>8, <2>9 DEF Kept
<1> QED BY <1>10, <1>11, <1>12 DEF AndroidInv

\* How many lists have a file: those before the first that has none.
FilesBefore(f) ==
  CHOOSE k \in 0..Len(f) : /\ \A i \in 1..k : f[i] # Absent
                           /\ k = Len(f) \/ f[k + 1] = Absent

LEMMA FilesBeforeIs ==
  ASSUME NEW f \in [1..4 -> Seq(Nat) \union {Absent}]
  PROVE  /\ FilesBefore(f) \in 0..4 /\ f \in Seq(Seq(Nat) \union {Absent}) /\ Len(f) = 4
         /\ \A i \in 1..FilesBefore(f) : f[i] # Absent /\ f[i] \in Seq(Nat)
         /\ FilesBefore(f) = 4 \/ f[FilesBefore(f) + 1] = Absent
<1> DEFINE P(k) == (\A i \in 1..k : f[i] # Absent) /\ (k = 4 \/ f[k + 1] = Absent)
           n == FilesBefore(f)
<1>1. f \in Seq(Seq(Nat) \union {Absent}) /\ Len(f) = 4
  <2> DEFINE m == 4
             S == Seq(Nat) \union {Absent}
  <2>1. m \in Nat /\ f \in [1..m -> S]
    OBVIOUS
  <2> HIDE DEF m, S
  <2>2. f \in Seq(S) /\ DOMAIN f = 1..m
    BY <2>1
  <2>3. Len(f) = m
    BY <2>1, <2>2, LenProperties
  <2> QED BY <2>2, <2>3 DEF m, S
<1>2. \E k \in 0..4 : P(k)
  <2>1. CASE f[1] = Absent
    <3>1. P(0)
      BY <2>1
    <3> QED BY <3>1
  <2>2. CASE f[1] # Absent /\ f[2] = Absent
    <3>1. P(1)
      BY <2>2
    <3> QED BY <3>1
  <2>3. CASE f[1] # Absent /\ f[2] # Absent /\ f[3] = Absent
    <3>1. P(2)
      BY <2>3
    <3> QED BY <3>1
  <2>4. CASE f[1] # Absent /\ f[2] # Absent /\ f[3] # Absent /\ f[4] = Absent
    <3>1. P(3)
      BY <2>4
    <3> QED BY <3>1
  <2>5. CASE f[1] # Absent /\ f[2] # Absent /\ f[3] # Absent /\ f[4] # Absent
    <3>1. P(4)
      BY <2>5
    <3> QED BY <3>1
  <2> QED BY <2>1, <2>2, <2>3, <2>4, <2>5
<1>3. n \in 0..4 /\ P(n)
  <2>1. n = CHOOSE k \in 0..4 : P(k)
    BY <1>1 DEF FilesBefore
  <2> HIDE DEF n, P
  <2> QED BY <1>2, <2>1
<1> HIDE DEF n
<1>4. \A i \in 1..n : f[i] # Absent /\ f[i] \in Seq(Nat)
  BY <1>3
<1> QED BY <1>1, <1>3, <1>4 DEF n

\* Queue.load: the lists are those of the files, or one empty list.
LEMMA LoadedIs ==
  ASSUME NEW d \in DiskType
  PROVE  LET r == Loaded(d)
             L == r.q.lists
         IN /\ r \in AppType /\ Player(r) /\ Cursor(r) /\ r.trec = 0 /\ r.ask = 0 /\ ~r.bad
            /\ r.loop = <<>> /\ r.mp.st = "idle" /\ ~r.mp.tmr /\ ~r.mp.seeking
            /\ ~r.svc.later /\ ~r.sys.later
            /\ Len(L) \in 1..4 /\ (d.files[4] = Absent => Len(L) \in 1..3)
            /\ \A i \in 1..Len(L) : L[i].items \in {<<>>, d.files[i]}
            /\ \A m \in 1..3 :
                 (\A i \in 1..m : d.files[i] # Absent) /\ d.files[m + 1] = Absent
                   => Len(L) = m /\ \A i \in 1..m : L[i].items = d.files[i]
<1> DEFINE r == Loaded(d)
           f == d.files
           n == FilesBefore(f)
           K == IF n = 0 THEN <<<<>>>> ELSE SubSeq(f, 1, n)
           k == Len(K)
           a == IF d.act > k THEN 1 ELSE d.act
           L == [i \in 1..k |-> [id |-> i, items |-> K[i], mod |-> FALSE]]
           Q == [lists |-> L, made |-> k, act |-> a, sel |-> a, cur |-> d.cur, idx |-> -1,
                 active |-> FALSE, split |-> FALSE, astop |-> "off"]
           T == [state |-> "NONE", url |-> 0, stopped |-> FALSE, error |-> FALSE, seek |-> "none",
                 tail |-> FALSE, intail |-> FALSE]
           M == [st |-> "idle", src |-> 0, tmr |-> FALSE, seeking |-> FALSE]
           Y == [focus |-> FALSE, later |-> FALSE, transient |-> FALSE, busy |-> FALSE]
           V == [st |-> "STOPPED", fg |-> FALSE, later |-> FALSE, on |-> FALSE]
<1>1. r = [q |-> Q, t |-> T, mp |-> M, sys |-> Y, svc |-> V, loop |-> <<>>, ask |-> 0,
           ended |-> 0, dlg |-> -1, trec |-> 0, bad |-> FALSE]
  BY Zenon DEF Loaded, FilesBefore
<1>2. /\ f \in [1..4 -> Seq(Nat) \union {Absent}] /\ d.act \in Nat \ {0} /\ d.cur \in Int
  BY DEF DiskType
<1>3. /\ n \in 0..4 /\ f \in Seq(Seq(Nat) \union {Absent}) /\ Len(f) = 4
      /\ \A i \in 1..n : f[i] # Absent /\ f[i] \in Seq(Nat)
      /\ n = 4 \/ f[n + 1] = Absent
  BY <1>2, FilesBeforeIs
<1> HIDE DEF n, f, r
<1>4. /\ k = (IF n = 0 THEN 1 ELSE n)
      /\ \A i \in 1..k : K[i] = (IF n = 0 THEN <<>> ELSE f[i]) /\ K[i] \in Seq(Nat)
  <2>1. CASE n = 0
    <3>1. K = <<<<>>>>
      BY <2>1
    <3> HIDE DEF K
    <3>2. k = 1 /\ K[1] = <<>> /\ <<>> \in Seq(Nat)
      BY <3>1
    <3>3. \A i \in 1..1 : i = 1
      OBVIOUS
    <3> HIDE DEF k
    <3> QED BY <2>1, <3>2, <3>3
  <2>2. CASE n # 0
    <3>1. K = SubSeq(f, 1, n)
      BY <2>2
    <3> HIDE DEF K
    <3>2. n \in 1..4 /\ n \in 1..Len(f)
      BY <1>3, <2>2
    <3>3. Len(K) = n /\ \A i \in 1..n : K[i] = f[i]
      <4>1. /\ Len(K) = IF 1 <= n THEN n - 1 + 1 ELSE 0
            /\ \A i \in 1..(n - 1 + 1) : K[i] = f[1 + i - 1]
        BY <1>3, <3>1, <3>2, SubSeqProperties
      <4>2. n - 1 + 1 = n /\ 1 <= n /\ \A i \in 1..n : 1 + i - 1 = i
        BY <3>2
      <4> QED BY <4>1, <4>2
    <3> QED BY <1>3, <2>2, <3>3
  <2> QED BY <2>1, <2>2
<1> HIDE DEF K, k
<1>5. k \in 1..4 /\ a \in 1..k /\ a \in Nat \ {0} /\ k \in Nat
  BY <1>2, <1>3, <1>4
<1> HIDE DEF a
<1>6. /\ L \in Seq(List) /\ Len(L) = k
      /\ \A i \in 1..k : L[i].items = K[i]
  <2>1. \A i \in 1..k : L[i] \in List /\ L[i].items = K[i]
    BY <1>4, <1>5 DEF List
  <2>2. L \in [1..k -> List]
    BY <2>1
  <2> HIDE DEF L
  <2>3. L \in Seq(List) /\ DOMAIN L = 1..k
    BY <1>5, <2>2
  <2> QED BY <1>5, <2>1, <2>3, LenProperties
<1> HIDE DEF L
<1>7. Q \in QueueType
  BY <1>2, <1>5, <1>6 DEF QueueType
<1>8. T \in TrackType /\ M \in PlayerType /\ Y \in SysType /\ V \in SvcType
  BY DEF TrackType, PlayerType, SysType, SvcType
<1>9. /\ Q.lists = L /\ Q.act = a /\ Q.sel = a /\ Q.idx = -1 /\ ~Q.active
      /\ Q.active = FALSE /\ T.state = "NONE" /\ M.st = "idle" /\ M.tmr = FALSE /\ ~M.seeking
      /\ ~Y.later /\ ~Y.focus /\ V.st = "STOPPED" /\ V.later = FALSE /\ V.on = FALSE
  OBVIOUS
<1> HIDE DEF Q, T, M, Y, V
<1>10. <<>> \in Seq(Posts) /\ 0 \in Nat /\ -1 \in Int
  OBVIOUS
<1>11. /\ r \in AppType /\ r.q = Q /\ r.t = T /\ r.mp = M /\ r.sys = Y /\ r.svc = V
       /\ r.loop = <<>> /\ r.ask = 0 /\ r.trec = 0 /\ r.bad = FALSE
  BY <1>1, <1>7, <1>8, <1>10 DEF AppType
<1>12. Player(r)
  <2>1. /\ r.t.state = "NONE" /\ r.mp.st = "idle" /\ r.mp.tmr = FALSE /\ r.q.active = FALSE
        /\ r.svc.st = "STOPPED" /\ r.svc.later = FALSE /\ r.svc.on = FALSE
    BY <1>9, <1>11
  <2>2. r.mp.tmr = (r.mp.st \in {"started", "paused"}) /\ r.q.active = (r.t.state # "NONE")
    <3>1. ~(r.mp.st \in {"started", "paused"}) /\ ~(r.t.state # "NONE")
      BY <2>1
    <3>2. r.mp.tmr = (r.mp.st \in {"started", "paused"})
      BY <1>11, <2>1, <3>1 DEF AppType, PlayerType
    <3>3. r.q.active = (r.t.state # "NONE")
      BY <1>11, <2>1, <3>1 DEF AppType, QueueType
    <3> QED BY <3>2, <3>3
  <2>3. /\ (r.t.state = "NONE") = (r.mp.st = "idle")
        /\ (r.t.state = "OPENING") = (r.mp.st = "preparing")
        /\ (r.t.state = "PAUSED") = (r.mp.st = "paused")
    BY <2>1
  <2> QED BY <2>1, <2>2, <2>3 DEF Player
<1>13. Cursor(r)
  BY <1>5, <1>6, <1>9, <1>11 DEF Cursor, HasList
<1>14. f[4] = Absent => k \in 1..3
  BY <1>3, <1>4
<1>15. \A i \in 1..k : L[i].items \in {<<>>, f[i]}
  BY <1>4, <1>6
<1>16. ASSUME NEW m \in 1..3, \A i \in 1..m : f[i] # Absent, f[m + 1] = Absent
       PROVE  k = m /\ \A i \in 1..m : L[i].items = f[i]
  <2>1. m <= n
    <3>1. n + 1 \in 1..m => f[n + 1] # Absent
      BY <1>16
    <3> QED BY <1>3, <3>1
  <2>2. n <= m
    <3>1. m + 1 \in 1..n => f[m + 1] # Absent
      BY <1>3
    <3> QED BY <1>3, <1>16, <3>1
  <2>3. n = m /\ n # 0
    BY <1>3, <2>1, <2>2
  <2> QED BY <1>4, <1>6, <2>3
<1> QED BY <1>5, <1>6, <1>9, <1>11, <1>12, <1>13, <1>14, <1>15, <1>16 DEF r, f

\* No native track is left of the process that was killed.
LEMMA NoJobs ==
  ASSUME jobs' = [j \in 1..MaxJobs |-> Job0], app'.trec = 0
  PROVE  /\ jobs' \in [1..MaxJobs -> JobType] /\ RecordingsHeld' /\ CallsOnce' /\ InfoLists'
         /\ \A j \in 1..MaxJobs : jobs'[j].st \notin {"run", "stopping"}
<1>1. Job0 \in JobType /\ Job0.kind = "none" /\ Job0.st = "none" /\ Job0.calls = 0
  BY DEF Job0, JobType
<1>2. /\ jobs' \in [1..MaxJobs -> JobType] /\ DOMAIN jobs' = 1..MaxJobs
      /\ \A j \in 1..MaxJobs : jobs'[j] = Job0
  BY <1>1
<1>3. RecordingsHeld'
  BY <1>1, <1>2 DEF RecordingsHeld
<1> QED BY <1>1, <1>2, <1>3 DEF CallsOnce, InfoLists

\* What both the first start and a later one come to.
LEMMA StartedInv ==
  ASSUME app' = Loaded(disk'), disk' \in DiskType, ses' \in SesType,
         jobs' = [j \in 1..MaxJobs |-> Job0],
         ~ses'.moved => /\ disk'.files[4] = Absent /\ ~ses'.saved
                        /\ ListsReloaded'
  PROVE  AndroidInv'
<1> DEFINE L == app'.q.lists
<1>1. /\ app' \in AppType /\ Player(app') /\ Cursor(app') /\ app'.trec = 0 /\ app'.ask = 0
      /\ ~app'.bad /\ app'.loop = <<>> /\ app'.mp.st = "idle" /\ ~app'.mp.tmr /\ ~app'.mp.seeking
      /\ ~app'.svc.later /\ ~app'.sys.later
      /\ disk'.files[4] = Absent => Len(L) \in 1..3
      /\ \A i \in 1..Len(L) : L[i].items \in {<<>>, disk'.files[i]}
  BY LoadedIs
<1>2. /\ jobs' \in [1..MaxJobs -> JobType] /\ RecordingsHeld' /\ CallsOnce' /\ InfoLists'
      /\ \A j \in 1..MaxJobs : jobs'[j].st \notin {"run", "stopping"}
  BY <1>1, NoJobs
<1>3. app'.q.sel \in 1..Len(app'.q.lists)
  BY <1>1 DEF Cursor, HasList
<1>4. app'.trec \in 0..MaxJobs
  BY <1>1, AndroidAssumption
<1>5. Basic'
  BY <1>1, <1>2, <1>3, <1>4 DEF Basic, Types
<1>6. ASSUME ~ses'.moved
      PROVE  Kept' /\ GoalSaved' /\ Quiet' /\ ListsReloaded'
  <2>1. FilesHeld(app)'
    BY <1>1, <1>6 DEF FilesHeld
  <2>2. Kept'
    BY <1>1, <1>2, <1>6, <2>1 DEF Kept
  <2>3. GoalSaved'
    BY <1>6 DEF GoalSaved
  <2>4. Quiet'
    BY <1>1, <1>2 DEF Quiet
  <2> QED BY <1>6, <2>2, <2>3, <2>4
<1> QED BY <1>5, <1>6 DEF AndroidInv

LEMMA RestartInv ==
  ASSUME AndroidInv, Restart
  PROVE  AndroidInv'
<1> DEFINE L == app'.q.lists
           h == Saved(app) = ses.goal
           n == ses.starts + 1
           y == [ses EXCEPT !.starts = n]
           z == [y EXCEPT !.fresh = h]
           w == [z EXCEPT !.saved = FALSE]
<1>0. disk \in DiskType /\ ses \in SesType /\ jobs \in [1..MaxJobs -> JobType]
  BY DEF AndroidInv, Basic, Types
<1>1. /\ ses.saved /\ app' = Loaded(disk) /\ disk' = disk
      /\ jobs' = [j \in 1..MaxJobs |-> Job0]
      /\ ses' = [ses EXCEPT !.starts = @ + 1, !.fresh = Saved(app) = ses.goal, !.saved = FALSE]
  BY <1>0 DEF Restart
<1>2. h \in BOOLEAN /\ n \in Nat
  BY <1>0 DEF SesType
<1>3. /\ ses' \in SesType /\ ses'.moved = ses.moved /\ ses'.goal = ses.goal /\ ses'.saved = FALSE
  <2>1. ses' = w
    BY <1>0, <1>1 DEF SesType
  <2> HIDE DEF h, n
  <2>2. y \in SesType /\ y.moved = ses.moved /\ y.goal = ses.goal
    BY <1>0, <1>2 DEF SesType
  <2> HIDE DEF y
  <2>3. z \in SesType /\ z.moved = ses.moved /\ z.goal = ses.goal
    BY <1>2, <2>2 DEF SesType
  <2> HIDE DEF z
  <2> QED BY <2>1, <2>3 DEF SesType
<1>4. ASSUME ~ses'.moved
      PROVE  disk'.files[4] = Absent /\ ListsReloaded'
  <2>1. GoalSaved /\ disk.files[4] = Absent
    BY <1>3, <1>4 DEF AndroidInv, Kept
  <2>2. ASSUME \A i \in 1..Len(ses.goal) : ses.goal[i] # <<>>
        PROVE  Saved(app') = ses.goal
    <3> DEFINE m == Len(ses.goal)
    <3>1. /\ m \in 1..3 /\ disk.files[m + 1] = Absent
          /\ \A i \in 1..m : disk.files[i] = ses.goal[i] /\ disk.files[i] # Absent
      BY <1>1, <2>1, <2>2 DEF GoalSaved
    <3>2. Len(L) = m /\ \A i \in 1..m : L[i].items = disk.files[i]
      <4>1. disk \in DiskType /\ L = Loaded(disk).q.lists
        BY <1>0, <1>1
      <4>2. /\ m \in 1..3 /\ disk.files[m + 1] = Absent
            /\ \A i \in 1..m : disk.files[i] # Absent
        BY <3>1
      <4> HIDE DEF m, L
      <4> QED BY <4>1, <4>2, LoadedIs
    <3>3. Saved(app') = [i \in 1..m |-> ses.goal[i]]
      BY <3>1, <3>2 DEF Saved
    <3>4. ses.goal = [i \in 1..m |-> ses.goal[i]]
      <4>1. ses.goal \in Seq(Seq(Nat))
        BY <1>0 DEF SesType
      <4>2. ses.goal \in [1..m -> Seq(Nat)]
        BY <4>1, LenProperties
      <4> QED BY <4>2
    <3> QED BY <3>3, <3>4
  <2> QED BY <1>1, <1>3, <2>1, <2>2 DEF ListsReloaded
<1> QED BY <1>0, <1>1, <1>3, <1>4, StartedInv

-----------------------------------------------------------------------------
(* The first start, and all steps.                                         *)

LEMMA InitInv ==
  ASSUME AppInit
  PROVE  AndroidInv
<1> DEFINE f == [i \in 1..4 |-> IF i <= Len(Lists0) THEN Lists0[i] ELSE Absent]
           L == app.q.lists
<1>1. /\ disk = [files |-> f, cur |-> -1, act |-> 1] /\ app = Loaded(disk)
      /\ jobs = [j \in 1..MaxJobs |-> Job0]
  BY Zenon DEF AppInit
<1>2. PICK c \in Confs :
        ses = [conf |-> c, user |-> 0, moved |-> FALSE, crossed |-> ~InOrder(app), starts |-> 0,
               saved |-> FALSE, fresh |-> FALSE, goal |-> <<>>]
  BY Zenon DEF AppInit
<1>3. f \in [1..4 -> Seq(Nat) \union {Absent}] /\ f[4] = Absent
  <2> DEFINE m == Len(Lists0)
  <2>1. m \in Nat /\ m <= 3 /\ \A i \in 1..m : Lists0[i] \in Seq(Urls)
    BY AndroidAssumption
  <2>2. \A i \in 1..m : Lists0[i] \in Seq(Nat)
    <3>1. Urls \subseteq Nat
      BY AndroidAssumption
    <3> QED BY <2>1, <3>1, SeqMonotonic
  <2> HIDE DEF m
  <2>3. ASSUME NEW i \in 1..4
        PROVE  (IF i <= m THEN Lists0[i] ELSE Absent) \in Seq(Nat) \union {Absent}
    <3>1. i <= m => i \in 1..m
      BY <2>1
    <3> QED BY <2>2, <3>1
  <2>4. ~(4 <= m)
    BY <2>1
  <2> QED BY <2>3, <2>4 DEF m
<1> HIDE DEF f
<1>4. disk \in DiskType /\ disk.files = f
  BY <1>1, <1>3 DEF DiskType
<1>5. /\ ses \in SesType /\ ~ses.moved /\ ses.fresh = FALSE /\ ses.saved = FALSE
  <2>1. <<>> \in Seq(Seq(Nat))
    OBVIOUS
  <2> QED BY <1>2, <2>1 DEF SesType
<1>6. /\ app \in AppType /\ Player(app) /\ Cursor(app) /\ app.trec = 0 /\ app.ask = 0
      /\ Len(L) \in 1..3
      /\ \A i \in 1..Len(L) : L[i].items \in {<<>>, disk.files[i]}
  BY <1>1, <1>3, <1>4, LoadedIs
<1>7. /\ Job0 \in JobType /\ Job0.kind = "none" /\ Job0.st = "none" /\ Job0.calls = 0
  BY DEF Job0, JobType
<1>8. /\ jobs \in [1..MaxJobs -> JobType] /\ DOMAIN jobs = 1..MaxJobs
      /\ \A j \in 1..MaxJobs : jobs[j] = Job0
  BY <1>1, <1>7
<1>9. Types
  <2>1. app.trec \in 0..MaxJobs
    BY <1>6, AndroidAssumption
  <2>2. app.q.sel \in 1..Len(app.q.lists)
    BY <1>6 DEF Cursor, HasList
  <2> QED BY <1>4, <1>5, <1>6, <1>8, <2>1, <2>2 DEF Types
<1>10. RecordingsHeld /\ CallsOnce /\ InfoLists
  <2>1. RecordingsHeld
    BY <1>6, <1>7, <1>8 DEF RecordingsHeld
  <2> QED BY <1>7, <1>8, <2>1 DEF CallsOnce, InfoLists
<1>11. FilesHeld(app) /\ disk.files[4] = Absent
  BY <1>3, <1>4, <1>6 DEF FilesHeld
<1>12. GoalSaved /\ Quiet /\ ListsReloaded
  BY <1>5 DEF GoalSaved, Quiet, ListsReloaded
<1> QED BY <1>6, <1>9, <1>10, <1>11, <1>12 DEF AndroidInv, Basic, Kept

LEMMA NextInv ==
  ASSUME AndroidInv, [AppNext]_appVars
  PROVE  AndroidInv'
<1>1. CASE UserNext
  <2>1. ASSUME ListNew PROVE AndroidInv'
    BY <2>1, ListNewInv
  <2>2. ASSUME ListClose PROVE AndroidInv'
    BY <2>2, ListCloseInv
  <2>3. ASSUME ListSwitch PROVE AndroidInv'
    BY <2>3, ListSwitchInv
  <2>4. ASSUME ListSort PROVE AndroidInv'
    BY <2>4, ListSortInv
  <2>5. ASSUME UserRec PROVE AndroidInv'
    BY <2>5, UserRecInv
  <2>6. ASSUME UserConvert PROVE AndroidInv'
    BY <2>6, UserConvertInv
  <2> QED BY <1>1, <2>1, <2>2, <2>3, <2>4, <2>5, <2>6, PlayInv, ListInv DEF UserNext
<1>2. CASE SelfNext \/ Timer
  <2>1. ASSUME NEW j \in DOMAIN jobs, JobEnds(j) \/ JobStops(j) PROVE AndroidInv'
    BY <2>1, JobEndsInv, JobStopsInv
  <2> QED BY <1>2, <2>1, EventsInv, RunPostInv DEF SelfNext
<1>3. CASE AutoStopExpires
  BY <1>3, AutoStopExpiresInv
<1>4. CASE SaveConf
  BY <1>4, SaveConfInv
<1>5. CASE Restart
  BY <1>5, RestartInv
<1>6. CASE UNCHANGED appVars
  <2>1. Basic'
    BY <1>6 DEF AndroidInv, Basic, Types, RecordingsHeld, CallsOnce, appVars
  <2>2. ASSUME ~ses.moved PROVE Kept' /\ GoalSaved' /\ Quiet' /\ ListsReloaded'
    <3>1. Kept /\ GoalSaved /\ Quiet /\ ListsReloaded
      BY <2>2 DEF AndroidInv
    <3>2. Kept'
      BY <1>6, <3>1 DEF Kept, InfoLists, FilesHeld, appVars
    <3> QED BY <1>6, <3>1, <3>2 DEF GoalSaved, Quiet, ListsReloaded, appVars
  <2>3. ses' = ses
    BY <1>6 DEF appVars
  <2> QED BY <2>1, <2>2, <2>3 DEF AndroidInv
<1> QED BY <1>1, <1>2, <1>3, <1>4, <1>5, <1>6 DEF AppNext, AppOver

-----------------------------------------------------------------------------
(* Theorems.                                                               *)

\* Between two messages of the main looper the objects of the application fit
\* together, a recording that the button shows can be stopped, and, unless
\* lists were closed, sorted or cleared behind the player's back, the cursor,
\* the lists and their files agree: Track.java, Queue.java, Svc.java,
\* SysJobs.java, in whatever order the filters were added to the track.
THEOREM AndroidInvariant == AppSpec => []AndroidInv
<1>1. AppInit => AndroidInv
  BY InitInv
<1>2. AndroidInv /\ [AppNext]_appVars => AndroidInv'
  BY NextInv
<1> QED BY <1>1, <1>2, PTL DEF AppSpec

\* Track.start_3, trk_close, update: the player does what the track says, and
\* has the focus and the service as long as a track is open.
THEOREM PlayerIsHeld == AppSpec => []PlayerHeld
<1>1. AndroidInv => PlayerHeld
  <2>1. Player(app) => PlayerHeld
    BY DEF Player, PlayerHeld, PlayerFollowsTrack, HeldWhileOpen
  <2> QED BY <2>1 DEF AndroidInv, Basic
<1> QED BY <1>1, AndroidInvariant, PTL

\* rec_click, recStop, rectrk_close: a recording is stopped once and never
\* forgotten; a conversion calls back at most once.
THEOREM RecordingsAreHeld == AppSpec => []RecordingsHeld
<1>1. AndroidInv => RecordingsHeld
  BY DEF AndroidInv, Basic
<1> QED BY <1>1, AndroidInvariant, PTL

\* Queue.remove, add, clear, _play: the position of the active track points to it.
THEOREM CursorStaysOnTrack == AppSpec => []CursorOnTrack
<1>1. AndroidInv => CursorOnTrack
  BY DEF AndroidInv, Kept, Cursor, CursorOnTrack
<1> QED BY <1>1, AndroidInvariant, PTL

\* Queue.saveconf, load: what was saved is what is loaded.
THEOREM ListsAreReloaded == AppSpec => []ListsReloaded
<1>1. AndroidInv => ListsReloaded
  BY DEF AndroidInv, ListsReloaded
<1> QED BY <1>1, AndroidInvariant, PTL

-----------------------------------------------------------------------------
(* NextFollows of Android: what is played when a track has ended.  Between *)
(* two functions the position is that of the playing track or, if this was *)
(* removed, the place where it was: the entries in front of it were added  *)
(* earlier, the others later (Split).  Flow says what has been posted; a   *)
(* state in which nothing is going to be started is Calm.                  *)

Starters == {"next", "playcur", "start_2"}

\* What is posted: nothing that starts a track, or one message at most.
NoStarter(h) == \A i \in 1..Len(h) : h[i] \notin Starters
OneStarter(h) == \A i, j \in 1..Len(h) : h[i] \in Starters /\ h[j] \in Starters => i = j
NoStart2(h) == \A i \in 1..Len(h) : h[i] # "start_2"

Entries(s) == Items(s, s.q.act)

\* A track that is not in the list any more was added behind the entries in
\* front of position cur, and before the others.
SplitAt(l, cur, url) ==
  cur <= Len(l) /\ \A k \in 1..Len(l) : IF k <= cur THEN l[k] < url ELSE url < l[k]
Split(s) == SplitAt(Entries(s), s.q.cur, s.t.url)

\* The track that has ended is at the position or was there.
EndedHere(s) ==
  s.ended # 0 =>
    /\ s.loop # <<>> /\ s.t.url = s.ended
    /\ \/ Head(s.loop) = "next" /\ InList(s, s.q.act, s.q.cur) /\ Entries(s)[s.q.cur + 1] = s.t.url
       \/ Head(s.loop) = "playcur" /\ Split(s)

Flow(s) ==
  /\ s.q.idx >= 0 => s.q.cur = s.q.idx
  /\ s.q.active /\ s.q.idx < 0 => Split(s)
  /\ OneStarter(s.loop)
  /\ s.q.active \/ s.ask # 0 => NoStarter(s.loop)
  /\ s.q.active => s.ask = 0
  /\ s.ask # 0 \/ ~NoStart2(s.loop) => s.q.idx >= 0
  /\ EndedHere(s)

Calm(s) ==
  /\ s \in AppType /\ Cursor(s) /\ Ascending(Entries(s))
  /\ NoStarter(s.loop) /\ s.ask = 0 /\ s.ended = 0
  /\ s.q.idx >= 0 => s.q.cur = s.q.idx
  /\ s.q.active /\ s.q.idx < 0 => Split(s)

\* Each list keeps its order.
Orderly(s, r) ==
  /\ Len(r.q.lists) = Len(s.q.lists)
  /\ \A l \in 1..Len(s.q.lists) : Ascending(Items(s, l)) => Ascending(Items(r, l))

\* Nothing changes that matters here.
Alike(s, r) ==
  /\ r \in AppType
  /\ r.q.lists = s.q.lists /\ r.q.act = s.q.act /\ r.q.sel = s.q.sel /\ r.q.cur = s.q.cur
  /\ r.q.idx = s.q.idx /\ r.q.active = s.q.active
  /\ r.t.url = s.t.url /\ r.t.stopped = s.t.stopped
  /\ r.loop = s.loop /\ r.ask = s.ask /\ r.ended = s.ended /\ r.bad = s.bad

-----------------------------------------------------------------------------
(* Functions.                                                              *)

LEMMA AlikeSame ==
  ASSUME NEW s \in AppType
  PROVE  Alike(s, s)
BY DEF Alike

LEMMA AlikeType ==
  ASSUME NEW s, NEW r, Alike(s, r)
  PROVE  r \in AppType /\ r.t \in TrackType
BY DEF Alike, AppType

LEMMA AlikeTwice ==
  ASSUME NEW s, NEW r, NEW u, Alike(s, r), Alike(r, u)
  PROVE  Alike(s, u)
BY DEF Alike

LEMMA OrderlyTwice ==
  ASSUME NEW s, NEW r, NEW u, Orderly(s, r), Orderly(r, u)
  PROVE  Orderly(s, u)
BY DEF Orderly

LEMMA AlikeKeeps ==
  ASSUME NEW s, NEW r, Alike(s, r)
  PROVE  /\ Orderly(s, r)
         /\ Flow(s) => Flow(r)
         /\ Calm(s) => Calm(r)
<1>1. \A l : Items(r, l) = Items(s, l)
  BY DEF Alike, Items
<1>2. Entries(r) = Entries(s)
  BY <1>1 DEF Alike, Entries
<1>3. Orderly(s, r)
  BY <1>1 DEF Alike, Orderly
<1>4. Split(r) = Split(s)
  BY <1>2 DEF Alike, Split
<1>5. EndedHere(s) => EndedHere(r)
  BY <1>1, <1>2, <1>4 DEF Alike, EndedHere, InList
<1>6. Flow(s) => Flow(r)
  BY <1>4, <1>5 DEF Alike, Flow
<1>7. Cursor(s) => Cursor(r)
  BY <1>1 DEF Alike, Cursor, HasList, InList, IsId
<1>8. Calm(s) => Calm(r)
  BY <1>2, <1>4, <1>7 DEF Alike, Calm
<1> QED BY <1>3, <1>6, <1>8

LEMMA CalmFlows ==
  ASSUME NEW s, Calm(s)
  PROVE  Flow(s)
<1>1. OneStarter(s.loop) /\ NoStart2(s.loop)
  BY DEF Calm, NoStarter, OneStarter, NoStart2, Starters
<1> QED BY <1>1 DEF Calm, Flow, EndedHere

\* One message is posted.
LEMMA Posting ==
  ASSUME NEW h \in Seq(Posts), NoStarter(h), NEW p \in Posts
  PROVE  LET g == Append(h, p)
         IN /\ g # <<>> /\ OneStarter(g) /\ (p # "start_2" => NoStart2(g))
            /\ p \notin Starters => NoStarter(g)
            /\ h = <<>> => Head(g) = p
            /\ h # <<>> => Head(g) = Head(h)
<1> DEFINE g == Append(h, p)
           m == Len(h)
<1>1. m \in Nat
  OBVIOUS
<1>2. /\ g \in Seq(Posts) /\ Len(g) = m + 1 /\ g[m + 1] = p
      /\ \A i \in 1..m : g[i] = h[i]
  BY AppendProperties
<1>3. \A i \in 1..m : g[i] \notin Starters
  BY <1>2 DEF NoStarter
<1>4. g # <<>> /\ Head(g) = g[1]
  BY <1>1, <1>2
<1>4a. h # <<>> => m >= 1 /\ Head(h) = h[1]
  BY <1>1
<1>4b. h = <<>> => m = 0
  OBVIOUS
<1> HIDE DEF g, m
<1>5. \A i \in 1..Len(g) : i \in 1..m \/ i = m + 1
  BY <1>1, <1>2
<1>6. OneStarter(g)
  BY <1>3, <1>5 DEF OneStarter
<1>7. p \notin Starters => NoStarter(g)
  BY <1>2, <1>3, <1>5 DEF NoStarter
<1>8. p # "start_2" => NoStart2(g)
  BY <1>2, <1>3, <1>5 DEF NoStart2, Starters
<1>9. h = <<>> => Head(g) = p
  BY <1>2, <1>4, <1>4b
<1>10. h # <<>> => Head(g) = Head(h)
  <2>1. h # <<>> => 1 \in 1..m
    BY <1>1, <1>4a
  <2> QED BY <1>2, <1>4, <1>4a, <2>1
<1> QED BY <1>4, <1>6, <1>7, <1>8, <1>9, <1>10 DEF g

\* The looper takes the first message.
LEMMA Taking ==
  ASSUME NEW h \in Seq(Posts), h # <<>>, OneStarter(h)
  PROVE  /\ Tail(h) \in Seq(Posts) /\ OneStarter(Tail(h))
         /\ Head(h) \in Starters => NoStarter(Tail(h))
         /\ NoStarter(h) => NoStarter(Tail(h))
         /\ NoStart2(h) => NoStart2(Tail(h))
         /\ Head(h) = "start_2" => ~NoStart2(h)
<1> DEFINE g == Tail(h)
           m == Len(h)
<1>1. m \in Nat /\ m >= 1 /\ Head(h) = h[1]
  OBVIOUS
<1>2. g \in Seq(Posts) /\ Len(g) = m - 1 /\ \A i \in 1..(m - 1) : g[i] = h[i + 1]
  BY HeadTailProperties
<1> HIDE DEF g, m
<1>3. \A i \in 1..Len(g) : i + 1 \in 1..m /\ i + 1 # 1 /\ g[i] = h[i + 1]
  BY <1>1, <1>2
<1>4. 1 \in 1..m
  BY <1>1
<1>5. OneStarter(g)
  <2> SUFFICES ASSUME NEW i \in 1..Len(g), NEW j \in 1..Len(g), g[i] \in Starters, g[j] \in Starters
               PROVE  i = j
    BY DEF OneStarter
  <2>1. i + 1 = j + 1
    BY <1>3 DEF OneStarter, m
  <2> QED BY <2>1
<1>6. Head(h) \in Starters => NoStarter(g)
  BY <1>1, <1>3, <1>4 DEF OneStarter, NoStarter, m
<1>7. (NoStarter(h) => NoStarter(g)) /\ (NoStart2(h) => NoStart2(g))
  BY <1>3 DEF NoStarter, NoStart2, m
<1>8. Head(h) = "start_2" => ~NoStart2(h)
  BY <1>1, <1>4 DEF NoStart2, m
<1> QED BY <1>2, <1>5, <1>6, <1>7, <1>8 DEF g

-----------------------------------------------------------------------------
(* Removing an entry.                                                      *)

Short(h, pos) == IF pos \in 0..(Len(h) - 1) THEN RemoveAt(h, pos + 1) ELSE h

\* The order and the place are kept; an entry that is removed leaves a place.
LEMMA Shortened ==
  ASSUME NEW h \in Seq(Nat), NEW pos \in Nat
  PROVE  LET g == Short(h, pos)
         IN /\ g \in Seq(Nat)
            /\ Ascending(h) => Ascending(g)
            /\ \A cur \in Int, url \in Nat :
                 SplitAt(h, cur, url) => SplitAt(g, IF pos < cur THEN cur - 1 ELSE cur, url)
            /\ Ascending(h) /\ pos < Len(h) => SplitAt(g, pos, h[pos + 1])
<1> DEFINE g == Short(h, pos)
           m == Len(h)
           p == pos + 1
<1>0. m \in Nat
  OBVIOUS
<1>1. CASE pos \notin 0..(m - 1)
  <2>1. g = h /\ ~(pos < m)
    BY <1>0, <1>1 DEF Short
  <2>2. \A cur \in Int : cur <= m => ~(pos < cur)
    BY <1>0, <2>1
  <2> QED BY <2>1, <2>2 DEF SplitAt
<1>2. CASE pos \in 0..(m - 1)
  <2>1. p \in 1..m
    BY <1>0, <1>2
  <2>2. g = RemoveAt(h, p)
    BY <1>2 DEF Short
  <2>3. /\ g \in Seq(Nat) /\ Len(g) = m - 1
        /\ \A i \in 1..(p - 1) : g[i] = h[i]
        /\ \A i \in p..(m - 1) : g[i] = h[i + 1]
    BY <2>1, <2>2, RemovedEntry
  <2> HIDE DEF g, m
  <2>4. \A k \in 1..Len(g) : IF k <= pos THEN k \in 1..m /\ g[k] = h[k]
                             ELSE k + 1 \in 1..m /\ g[k] = h[k + 1]
    BY <1>0, <1>2, <2>3
  <2>5. ASSUME Ascending(h) PROVE Ascending(g)
    <3> SUFFICES ASSUME NEW i \in 1..Len(g), NEW j \in 1..Len(g), i < j PROVE g[i] < g[j]
      BY DEF Ascending
    <3>0. \A a, b \in 1..m : a < b => h[a] < h[b]
      BY <2>5 DEF Ascending, m
    <3>1. CASE j <= pos
      BY <2>4, <3>0, <3>1
    <3>2. CASE i <= pos /\ ~(j <= pos)
      BY <2>4, <3>0, <3>2
    <3>3. CASE ~(i <= pos) /\ ~(j <= pos)
      BY <2>4, <3>0, <3>3
    <3> QED BY <3>1, <3>2, <3>3
  <2>6. ASSUME NEW cur \in Int, NEW url \in Nat, SplitAt(h, cur, url)
        PROVE  SplitAt(g, IF pos < cur THEN cur - 1 ELSE cur, url)
    <3>1. cur <= m /\ \A k \in 1..m : IF k <= cur THEN h[k] < url ELSE url < h[k]
      BY <2>6 DEF SplitAt, m
    <3>2. CASE pos < cur
      <4>1. \A k \in 1..Len(g) : IF k <= cur - 1 THEN g[k] < url ELSE url < g[k]
        <5> SUFFICES ASSUME NEW k \in 1..Len(g) PROVE IF k <= cur - 1 THEN g[k] < url ELSE url < g[k]
          OBVIOUS
        <5>1. CASE k <= pos
          BY <2>4, <3>1, <3>2, <5>1
        <5>2. CASE ~(k <= pos)
          BY <2>4, <3>1, <3>2, <5>2
        <5> QED BY <5>1, <5>2
      <4> QED BY <1>0, <2>3, <3>1, <3>2, <4>1 DEF SplitAt
    <3>3. CASE ~(pos < cur)
      <4>1. \A k \in 1..Len(g) : IF k <= cur THEN g[k] < url ELSE url < g[k]
        <5> SUFFICES ASSUME NEW k \in 1..Len(g) PROVE IF k <= cur THEN g[k] < url ELSE url < g[k]
          OBVIOUS
        <5>1. CASE k <= pos
          BY <2>4, <3>1, <3>3, <5>1
        <5>2. CASE ~(k <= pos)
          BY <2>4, <3>1, <3>3, <5>2
        <5> QED BY <5>1, <5>2
      <4>2. cur <= m - 1
        BY <1>0, <1>2, <3>3
      <4> QED BY <2>3, <3>3, <4>1, <4>2 DEF SplitAt
    <3> QED BY <3>2, <3>3
  <2>7. ASSUME Ascending(h) PROVE SplitAt(g, pos, h[pos + 1])
    <3>0. \A a, b \in 1..m : a < b => h[a] < h[b]
      BY <2>7 DEF Ascending, m
    <3>1. \A k \in 1..Len(g) : IF k <= pos THEN g[k] < h[pos + 1] ELSE h[pos + 1] < g[k]
      <4> SUFFICES ASSUME NEW k \in 1..Len(g)
                   PROVE  IF k <= pos THEN g[k] < h[pos + 1] ELSE h[pos + 1] < g[k]
        OBVIOUS
      <4>1. CASE k <= pos
        BY <2>1, <2>4, <3>0, <4>1
      <4>2. CASE ~(k <= pos)
        <5>1. k + 1 \in 1..m /\ g[k] = h[k + 1] /\ p < k + 1
          BY <2>4, <4>2
        <5> QED BY <2>1, <3>0, <4>2, <5>1
      <4> QED BY <4>1, <4>2
    <3>2. pos <= m - 1
      BY <1>0, <1>2
    <3> QED BY <2>3, <3>1, <3>2 DEF SplitAt
  <2> QED BY <2>3, <2>5, <2>6, <2>7 DEF g
<1> QED BY <1>1, <1>2

\* Queue.remove: the list and the indices.
LEMMA RemoveIs ==
  ASSUME NEW s \in AppType, NEW pos \in Nat, HasList(s, s.q.act)
  PROVE  LET r == RemoveEntry(s, pos)
         IN /\ r \in AppType /\ Len(r.q.lists) = Len(s.q.lists)
            /\ \A l \in 1..Len(s.q.lists) :
                 Items(r, l) = IF l = s.q.act THEN Short(Items(s, l), pos) ELSE Items(s, l)
            /\ r.q.act = s.q.act /\ r.q.sel = s.q.sel /\ r.q.active = s.q.active
            /\ r.q.astop = s.q.astop
            /\ r.q.cur = IF pos < s.q.cur THEN s.q.cur - 1 ELSE s.q.cur
            /\ r.q.idx = IF pos = s.q.idx THEN -1 ELSE IF pos < s.q.idx THEN s.q.idx - 1 ELSE s.q.idx
            /\ r.t = s.t /\ r.loop = s.loop /\ r.ask = s.ask /\ r.ended = s.ended /\ r.bad = s.bad
<1> DEFINE r == RemoveEntry(s, pos)
           f == s.q.lists
           e == Without(f[s.q.act], pos)
           g == [f EXCEPT ![s.q.act] = e]
           cur == IF pos < s.q.cur THEN s.q.cur - 1 ELSE s.q.cur
           idx == IF pos = s.q.idx THEN -1 ELSE IF pos < s.q.idx THEN s.q.idx - 1 ELSE s.q.idx
<1>1. f \in Seq(List) /\ Len(f) \in Nat /\ s.q.act \in 1..Len(f) /\ s.q.act \in Nat
      /\ s.q.cur \in Int /\ s.q.idx \in Int /\ s.q \in QueueType
  BY DEF AppType, QueueType, HasList
<1>2. f[s.q.act] \in List
  BY <1>1, ElementOfSeq
<1>3. e \in List /\ e.mod /\ e.id = f[s.q.act].id
  <2> HIDE DEF e
  <2>1. e = Without(f[s.q.act], pos)
    BY DEF e
  <2> QED BY <1>2, <2>1, WithoutIs
<1>4. e.items = Short(f[s.q.act].items, pos)
  <2>1. e = [f[s.q.act] EXCEPT !.items = Short(f[s.q.act].items, pos), !.mod = TRUE]
    BY Zenon DEF Without, Short
  <2> HIDE DEF e
  <2> QED BY <1>2, <2>1 DEF List
<1>5. r = [s EXCEPT !.q.lists[s.q.act] = e, !.q.cur = cur, !.q.idx = idx]
  BY DEF RemoveEntry
<1> HIDE DEF e
<1>6. /\ g \in Seq(List) /\ Len(g) = Len(f)
      /\ \A i \in 1..Len(f) : g[i] = IF i = s.q.act THEN e ELSE f[i]
  BY <1>1, <1>3, ListReplaced
<1>7. cur \in Int /\ idx \in Int
  BY <1>1
<1> HIDE DEF cur, idx
<1> DEFINE P == [s.q EXCEPT !.lists = g]
           O == [P EXCEPT !.cur = cur]
           Q == [O EXCEPT !.idx = idx]
<1>8. r = [s EXCEPT !.q = Q]
  <2>1. [s EXCEPT !.q.lists[s.q.act] = e] = [s EXCEPT !.q = [s.q EXCEPT !.lists = g]]
    BY ListPut
  <2>2. r = [[s EXCEPT !.q.lists[s.q.act] = e] EXCEPT !.q.cur = cur, !.q.idx = idx]
    BY <1>5
  <2> QED BY <2>1, <2>2 DEF AppType, QueueType
<1> HIDE DEF g
<1>9. P \in QueueType /\ P.lists = g /\ P.act = s.q.act /\ P.sel = s.q.sel /\ P.active = s.q.active
      /\ P.astop = s.q.astop
  BY <1>1, <1>6 DEF QueueType
<1> HIDE DEF P
<1>10. O \in QueueType /\ O.lists = g /\ O.act = s.q.act /\ O.sel = s.q.sel /\ O.active = s.q.active
       /\ O.astop = s.q.astop /\ O.cur = cur
  BY <1>7, <1>9 DEF QueueType
<1> HIDE DEF O
<1>11. Q \in QueueType /\ Q.lists = g /\ Q.act = s.q.act /\ Q.sel = s.q.sel /\ Q.active = s.q.active
       /\ Q.astop = s.q.astop /\ Q.cur = cur /\ Q.idx = idx
  BY <1>7, <1>10 DEF QueueType
<1> HIDE DEF Q, r
<1>12. r \in AppType /\ r.q = Q /\ r.t = s.t /\ r.loop = s.loop /\ r.ask = s.ask
       /\ r.ended = s.ended /\ r.bad = s.bad
  BY <1>8, <1>11 DEF AppType
<1>13. \A l \in 1..Len(f) : Items(r, l) = IF l = s.q.act THEN Short(Items(s, l), pos) ELSE Items(s, l)
  BY <1>4, <1>6, <1>11, <1>12 DEF Items
<1> QED BY <1>6, <1>11, <1>12, <1>13 DEF r, cur, idx

LEMMA ItemsType ==
  ASSUME NEW s \in AppType, NEW l \in Nat, HasList(s, l)
  PROVE  Items(s, l) \in Seq(Nat) /\ Len(Items(s, l)) \in Nat
<1>1. s.q.lists[l] \in List
  BY ElementOfSeq DEF HasList, AppType, QueueType
<1> QED BY <1>1 DEF List, Items

\* It does not disturb what is calm.
LEMMA RemoveCalm ==
  ASSUME NEW s, Calm(s), NEW pos \in Nat
  PROVE  LET r == RemoveEntry(s, pos)
         IN /\ Calm(r) /\ Orderly(s, r) /\ r.t = s.t /\ r.q.astop = s.q.astop
            /\ r.q.active = s.q.active /\ r.loop = s.loop
            /\ pos = s.q.idx => r.q.idx = -1 /\ Split(r)
<1> DEFINE r == RemoveEntry(s, pos)
           h == Entries(s)
           g == Short(h, pos)
<1>1. s \in AppType /\ Cursor(s) /\ HasList(s, s.q.act) /\ s.q.act \in Nat
      /\ s.q.cur \in Int /\ s.q.idx \in Int /\ s.t.url \in Nat
  BY DEF Calm, Cursor, AppType, QueueType, TrackType
<1>2. h \in Seq(Nat) /\ Len(h) \in Nat
  BY <1>1, ItemsType DEF Entries
<1>3. /\ g \in Seq(Nat)
      /\ Ascending(h) => Ascending(g)
      /\ \A cur \in Int, url \in Nat :
           SplitAt(h, cur, url) => SplitAt(g, IF pos < cur THEN cur - 1 ELSE cur, url)
      /\ Ascending(h) /\ pos < Len(h) => SplitAt(g, pos, h[pos + 1])
  BY <1>2, Shortened
<1>4. /\ r \in AppType /\ Len(r.q.lists) = Len(s.q.lists)
      /\ \A l \in 1..Len(s.q.lists) :
           Items(r, l) = IF l = s.q.act THEN Short(Items(s, l), pos) ELSE Items(s, l)
      /\ r.q.act = s.q.act /\ r.q.sel = s.q.sel /\ r.q.active = s.q.active
      /\ r.q.astop = s.q.astop
      /\ r.q.cur = IF pos < s.q.cur THEN s.q.cur - 1 ELSE s.q.cur
      /\ r.q.idx = IF pos = s.q.idx THEN -1 ELSE IF pos < s.q.idx THEN s.q.idx - 1 ELSE s.q.idx
      /\ r.t = s.t /\ r.loop = s.loop /\ r.ask = s.ask /\ r.ended = s.ended /\ r.bad = s.bad
  BY <1>1, RemoveIs
<1>5. Cursor(r)
  BY <1>1, RemoveFine
<1> HIDE DEF r
<1>6. Entries(r) = g
  BY <1>1, <1>4 DEF Entries, HasList
<1> HIDE DEF h, g
<1>7. Orderly(s, r)
  <2>1. \A l \in 1..Len(s.q.lists) : Ascending(Items(s, l)) => Ascending(Items(r, l))
    BY <1>3, <1>4 DEF g, h, Entries
  <2> QED BY <1>4, <2>1 DEF Orderly
<1>8. pos = s.q.idx => r.q.idx = -1 /\ Split(r)
  <2> SUFFICES ASSUME pos = s.q.idx PROVE r.q.idx = -1 /\ Split(r)
    OBVIOUS
  <2>1. s.q.cur = pos /\ r.q.cur = pos /\ r.q.idx = -1
    BY <1>4 DEF Calm
  <2>2. pos < Len(h) /\ h[pos + 1] = s.t.url
    BY <1>1, <1>2 DEF Cursor, InList, Entries, h
  <2>3. SplitAt(g, pos, s.t.url)
    BY <1>3, <2>2 DEF Calm, h
  <2> QED BY <1>4, <1>6, <2>1, <2>3 DEF Split
<1>9. r.q.idx >= 0 => r.q.cur = r.q.idx
  BY <1>1, <1>4 DEF Calm
<1>10. r.q.active /\ r.q.idx < 0 => Split(r)
  <2> SUFFICES ASSUME r.q.active, r.q.idx < 0, pos # s.q.idx PROVE Split(r)
    BY <1>8
  <2>1. s.q.idx < 0
    BY <1>1, <1>4
  <2>2. SplitAt(h, s.q.cur, s.t.url)
    BY <1>4, <2>1 DEF Calm, Split, h
  <2> QED BY <1>1, <1>3, <1>4, <1>6, <2>2 DEF Split
<1>11. Calm(r)
  BY <1>3, <1>4, <1>5, <1>6, <1>9, <1>10 DEF Calm, h
<1> QED BY <1>4, <1>7, <1>8, <1>11 DEF r

-----------------------------------------------------------------------------
(* Closing a track.                                                        *)

\* Whatever is set in the player, the services or the state of the track.
LEMMA PartAlike ==
  ASSUME NEW s \in AppType, NEW m \in PlayerType, NEW y \in SysType, NEW v \in SvcType,
         NEW t \in TrackType, t.url = s.t.url, t.stopped = s.t.stopped
  PROVE  /\ Alike(s, [s EXCEPT !.mp = m]) /\ [s EXCEPT !.mp = m].t = s.t
         /\ Alike(s, [s EXCEPT !.sys = y]) /\ [s EXCEPT !.sys = y].t = s.t
         /\ Alike(s, [s EXCEPT !.svc = v]) /\ [s EXCEPT !.svc = v].t = s.t
         /\ Alike(s, [s EXCEPT !.t = t]) /\ [s EXCEPT !.t = t].t = t
<1>1. Alike(s, [s EXCEPT !.mp = m]) /\ [s EXCEPT !.mp = m].t = s.t
  <2> DEFINE r == [s EXCEPT !.mp = m]
  <2>1. r \in AppType /\ r.q = s.q /\ r.t = s.t /\ r.loop = s.loop /\ r.ask = s.ask
        /\ r.ended = s.ended /\ r.bad = s.bad
    BY DEF AppType
  <2> HIDE DEF r
  <2> QED BY <2>1 DEF Alike, r
<1>2. Alike(s, [s EXCEPT !.sys = y]) /\ [s EXCEPT !.sys = y].t = s.t
  <2> DEFINE r == [s EXCEPT !.sys = y]
  <2>1. r \in AppType /\ r.q = s.q /\ r.t = s.t /\ r.loop = s.loop /\ r.ask = s.ask
        /\ r.ended = s.ended /\ r.bad = s.bad
    BY DEF AppType
  <2> HIDE DEF r
  <2> QED BY <2>1 DEF Alike, r
<1>3. Alike(s, [s EXCEPT !.svc = v]) /\ [s EXCEPT !.svc = v].t = s.t
  <2> DEFINE r == [s EXCEPT !.svc = v]
  <2>1. r \in AppType /\ r.q = s.q /\ r.t = s.t /\ r.loop = s.loop /\ r.ask = s.ask
        /\ r.ended = s.ended /\ r.bad = s.bad
    BY DEF AppType
  <2> HIDE DEF r
  <2> QED BY <2>1 DEF Alike, r
<1>4. Alike(s, [s EXCEPT !.t = t]) /\ [s EXCEPT !.t = t].t = t
  <2> DEFINE r == [s EXCEPT !.t = t]
  <2>1. r \in AppType /\ r.q = s.q /\ r.t = t /\ r.loop = s.loop /\ r.ask = s.ask
        /\ r.ended = s.ended /\ r.bad = s.bad
    BY DEF AppType
  <2> HIDE DEF r
  <2> QED BY <2>1 DEF Alike, r
<1> QED BY <1>1, <1>2, <1>3, <1>4

LEMMA PartsType ==
  ASSUME NEW s \in AppType
  PROVE  /\ s.q \in QueueType /\ s.t \in TrackType /\ s.mp \in PlayerType /\ s.sys \in SysType
         /\ s.svc \in SvcType /\ s.loop \in Seq(Posts)
BY DEF AppType

\* The service's part alone is assigned.
LEMMA SvcAlike ==
  ASSUME NEW s \in AppType, NEW v \in SvcType, NEW r, r = [s EXCEPT !.svc = v]
  PROVE  Alike(s, r) /\ r.t = s.t
<1>1. s.mp \in PlayerType /\ s.sys \in SysType /\ s.t \in TrackType
  BY PartsType
<1> QED BY <1>1, PartAlike

\* What has become of s when Queue.on_close was called.
Closed(s, r) ==
  /\ r \in AppType /\ Flow(r) /\ Orderly(s, r)
  /\ ~r.q.active /\ r.q.idx = -1 /\ r.q.act = s.q.act /\ r.ask = 0
  /\ r.t.url = s.t.url /\ r.t.stopped = s.t.stopped
  /\ s.t.stopped => NoStarter(r.loop) /\ r.ended = 0

LEMMA AlikeClosed ==
  ASSUME NEW s, NEW r, NEW u, Alike(s, r), Closed(r, u)
  PROVE  Closed(s, u)
<1>1. Orderly(s, u)
  BY AlikeKeeps, OrderlyTwice DEF Closed
<1> QED BY <1>1 DEF Closed, Alike

LEMMA ClosedAlike ==
  ASSUME NEW s, NEW r, NEW u, Closed(s, r), Alike(r, u)
  PROVE  Closed(s, u)
<1>1. Orderly(s, u) /\ Flow(u)
  BY AlikeKeeps, OrderlyTwice DEF Closed
<1> QED BY <1>1 DEF Closed, Alike

\* Queue.on_close posts what starts the next track.  The cursor stays: it is
\* the position of the track, or the place where it was.
LEMMA QueueCloseFlow ==
  ASSUME NEW s, Calm(s), NEW c, s.t.stopped \/ s.q.active \/ s.q.idx >= 0
  PROVE  Closed(s, QueueClose(s, c))
<1> DEFINE looks == s.q.idx >= 0 /\ s.t.error /\ c.rmerr
           lost == looks /\ (~HasList(s, s.q.act) \/ ~InList(s, s.q.act, s.q.idx))
           hit == looks /\ ~lost /\ Items(s, s.q.act)[s.q.idx + 1] = s.t.url
           x == IF hit THEN RemoveEntry(s, s.q.idx) ELSE s
           goes == ~s.t.stopped /\ s.q.astop # "expired"
           astop == IF x.q.astop = "expired" THEN "off" ELSE x.q.astop
           ended == IF goes /\ s.loop = <<>> THEN s.t.url ELSE 0
           p == IF x.q.idx < 0 THEN "playcur" ELSE "next"
           loop == IF ~goes THEN x.loop ELSE Append(x.loop, p)
           y == [x EXCEPT !.q.active = FALSE, !.q.idx = -1, !.q.astop = astop,
                          !.ended = ended, !.loop = loop]
           r == QueueClose(s, c)
<1>0. ~lost /\ s \in AppType /\ s.q.idx \in Int /\ s.t.url \in Nat /\ s.loop \in Seq(Posts)
  BY DEF Calm, Cursor, AppType, QueueType, TrackType
<1>1. r = y
  BY <1>0 DEF QueueClose
<1>2. /\ Calm(x) /\ Orderly(s, x) /\ x.t = s.t /\ x.loop = s.loop
      /\ s.t.stopped \/ x.q.idx >= 0 \/ Split(x)
  <2>1. CASE hit
    <3>1. s.q.idx \in Nat
      BY <1>0, <2>1
    <3> QED BY <2>1, <3>1, RemoveCalm
  <2>2. CASE ~hit
    <3>1. x = s /\ Alike(s, s)
      BY <1>0, <2>2, AlikeSame
    <3> QED BY <1>0, <3>1, AlikeKeeps DEF Calm
  <2> QED BY <2>1, <2>2
<1>2a. x.q.act = s.q.act
  <2>1. HasList(s, s.q.act)
    BY DEF Calm, Cursor
  <2> QED BY <1>0, <2>1, RemoveIs
<1> HIDE DEF x
<1>3. x \in AppType /\ x.q \in QueueType /\ x.q.idx \in Int
  BY <1>2 DEF Calm, AppType, QueueType
<1>4. p \in Posts /\ p # "start_2"
  BY DEF Posts
<1>5. astop \in {"off", "armed", "expired"} /\ ended \in Nat
  BY <1>0, <1>3 DEF QueueType
<1>5a. Append(s.loop, p) \in Seq(Posts)
  BY <1>0, <1>4, AppendProperties
<1>5b. loop \in Seq(Posts)
  BY <1>0, <1>2, <1>5a
<1>6. LET g == Append(s.loop, p)
      IN g # <<>> /\ OneStarter(g) /\ NoStart2(g) /\ (s.loop = <<>> => Head(g) = p)
  BY <1>0, <1>4, Posting DEF Calm
<1>7. NoStarter(s.loop) /\ OneStarter(s.loop) /\ NoStart2(s.loop)
  BY CalmFlows DEF Calm, NoStarter, OneStarter, NoStart2, Starters
<1>8. OneStarter(loop) /\ NoStart2(loop) /\ (~goes => NoStarter(loop) /\ ended = 0)
  BY <1>2, <1>6, <1>7
<1>9. ended # 0 => goes /\ ended = s.t.url /\ loop # <<>> /\ Head(loop) = p
  BY <1>2, <1>6
<1>10. s.t.stopped => ~goes
  OBVIOUS
<1> HIDE DEF astop, ended, loop, goes
<1> DEFINE P == [x.q EXCEPT !.active = FALSE]
           O == [P EXCEPT !.idx = -1]
           Q == [O EXCEPT !.astop = astop]
           y1 == [x EXCEPT !.q = Q]
           y2 == [y1 EXCEPT !.ended = ended]
           y3 == [y2 EXCEPT !.loop = loop]
<1>11. y = y3
  BY <1>3 DEF AppType, QueueType
<1>12. P \in QueueType /\ P.lists = x.q.lists /\ P.active = FALSE /\ P.act = x.q.act /\ P.cur = x.q.cur
  BY <1>3 DEF QueueType
<1> HIDE DEF P
<1>13. O \in QueueType /\ O.lists = x.q.lists /\ O.active = FALSE /\ O.act = x.q.act /\ O.cur = x.q.cur
       /\ O.idx = -1
  BY <1>12 DEF QueueType
<1> HIDE DEF O
<1>14. Q \in QueueType /\ Q.lists = x.q.lists /\ Q.active = FALSE /\ Q.act = x.q.act /\ Q.cur = x.q.cur
       /\ Q.idx = -1
  BY <1>5, <1>13 DEF QueueType
<1> HIDE DEF Q
<1>15. y1 \in AppType /\ y1.q = Q /\ y1.t = x.t /\ y1.ask = x.ask
  BY <1>3, <1>14 DEF AppType
<1> HIDE DEF y1
<1>16. y2 \in AppType /\ y2.q = Q /\ y2.t = x.t /\ y2.ask = x.ask /\ y2.ended = ended
  BY <1>5, <1>15 DEF AppType
<1> HIDE DEF y2
<1>17. y3 \in AppType /\ y3.q = Q /\ y3.t = x.t /\ y3.ask = x.ask /\ y3.ended = ended /\ y3.loop = loop
  BY <1>5b, <1>16 DEF AppType
<1> HIDE DEF y, y3, r
<1>18. /\ r \in AppType /\ r.q.lists = x.q.lists /\ r.q.active = FALSE /\ r.q.act = x.q.act
       /\ r.q.cur = x.q.cur /\ r.q.idx = -1 /\ r.t = s.t /\ r.ask = 0 /\ r.ended = ended
       /\ r.loop = loop
  BY <1>1, <1>2, <1>11, <1>14, <1>17 DEF Calm
<1>19. /\ \A l : Items(r, l) = Items(x, l)
       /\ Entries(r) = Entries(x) /\ (Split(x) => Split(r))
  BY <1>2, <1>18 DEF Items, Entries, Split
<1>20. Orderly(s, r)
  BY <1>2, <1>18, <1>19 DEF Orderly
<1>21. EndedHere(r)
  <2> SUFFICES ASSUME ended # 0
               PROVE  \/ p = "next" /\ InList(r, r.q.act, r.q.cur) /\ Entries(r)[r.q.cur + 1] = r.t.url
                      \/ p = "playcur" /\ Split(r)
    BY <1>9, <1>18 DEF EndedHere
  <2>1. CASE x.q.idx >= 0
    <3>1. InList(x, x.q.act, x.q.idx) /\ Items(x, x.q.act)[x.q.idx + 1] = x.t.url /\ x.q.cur = x.q.idx
      BY <1>2, <2>1 DEF Calm, Cursor
    <3>2. p = "next"
      BY <1>3, <2>1
    <3> QED BY <1>2, <1>18, <1>19, <3>1, <3>2 DEF InList, Entries
  <2>2. CASE ~(x.q.idx >= 0)
    <3>1. p = "playcur"
      BY <1>3, <2>2
    <3> QED BY <1>2, <1>9, <1>10, <1>19, <2>2, <3>1
  <2> QED BY <2>1, <2>2
<1>22. Flow(r)
  BY <1>8, <1>18, <1>21 DEF Flow
<1> QED BY <1>2a, <1>8, <1>10, <1>18, <1>20, <1>22 DEF Closed, r

\* The other filters do not change what matters here.
LEMMA CloseAlike ==
  ASSUME NEW s \in AppType, NEW f \in Filters \ {"queue"}, NEW c
  PROVE  Alike(s, CloseFilter(s, f, c))
<1>1. CASE f = "mp"
  <2> DEFINE m == [st |-> "idle", src |-> 0, tmr |-> FALSE, seeking |-> FALSE]
  <2>1. CloseFilter(s, f, c) = [s EXCEPT !.mp = m]
    BY <1>1 DEF CloseFilter, MpClose
  <2>2. m \in PlayerType
    BY DEF PlayerType
  <2> HIDE DEF m
  <2>3. Alike(s, [s EXCEPT !.mp = m])
    BY <2>2, PartAlike, PartsType
  <2> QED BY Zenon, <2>1, <2>3
<1>2. CASE f = "sys"
  <2> DEFINE y == [s.sys EXCEPT !.later = TRUE]
  <2>1. CloseFilter(s, f, c) = [s EXCEPT !.sys = y] \/ CloseFilter(s, f, c) = s
    BY <1>2 DEF CloseFilter, SysClose
  <2>2. y \in SysType
    BY PartsType DEF SysType
  <2> HIDE DEF y
  <2>3. Alike(s, [s EXCEPT !.sys = y])
    BY <2>2, PartAlike, PartsType
  <2>4. Alike(s, s)
    BY AlikeSame
  <2> QED BY Zenon, <2>1, <2>3, <2>4
<1>3. CASE f = "svc"
  <2> DEFINE x == [s.svc EXCEPT !.st = "SKIPPING"]
             y == [x EXCEPT !.later = TRUE]
  <2>0. s.svc \in SvcType
    BY PartsType
  <2>1. CloseFilter(s, f, c) = [s EXCEPT !.svc = y]
    BY <1>3, <2>0 DEF CloseFilter, SvcClose, AppType, SvcType
  <2>2. x \in SvcType
    BY <2>0 DEF SvcType
  <2> HIDE DEF x
  <2>3. y \in SvcType
    BY <2>2 DEF SvcType
  <2> HIDE DEF y
  <2>4. Alike(s, [s EXCEPT !.svc = y])
    BY <2>3, PartAlike, PartsType
  <2> QED BY Zenon, <2>1, <2>4
<1> QED BY <1>1, <1>2, <1>3 DEF Filters

\* How far Track.trk_close has come.
ClosingFlow(s, x, D) ==
  x \in AppType /\ IF "queue" \in D THEN Closed(s, x) ELSE Alike(s, x)

LEMMA CloseOneFlow ==
  ASSUME NEW s, Calm(s), NEW x, NEW D, ClosingFlow(s, x, D), NEW f \in Filters \ D, NEW c,
         s.t.stopped \/ s.q.active \/ s.q.idx >= 0
  PROVE  ClosingFlow(s, CloseFilter(x, f, c), D \union {f})
<1>1. CASE f = "queue"
  <2>1. Alike(s, x)
    BY <1>1 DEF ClosingFlow
  <2>2. Calm(x) /\ (x.t.stopped \/ x.q.active \/ x.q.idx >= 0)
    BY <2>1, AlikeKeeps DEF Alike
  <2>3. CloseFilter(x, f, c) = QueueClose(x, c)
    BY <1>1 DEF CloseFilter
  <2>4. Closed(x, CloseFilter(x, f, c))
    BY <2>2, <2>3, QueueCloseFlow
  <2>5. Closed(s, CloseFilter(x, f, c))
    BY <2>1, <2>4, AlikeClosed
  <2> QED BY <1>1, <2>5 DEF ClosingFlow, Closed
<1>2. CASE f # "queue"
  <2>1. Alike(x, CloseFilter(x, f, c))
    BY <1>2, CloseAlike DEF ClosingFlow
  <2>2. CASE "queue" \in D
    <3>1. Closed(s, CloseFilter(x, f, c))
      BY <2>1, <2>2, ClosedAlike DEF ClosingFlow
    <3> QED BY <2>2, <3>1 DEF ClosingFlow, Closed
  <2>3. CASE "queue" \notin D
    <3>1. Alike(s, CloseFilter(x, f, c))
      BY <2>1, <2>3, AlikeTwice DEF ClosingFlow
    <3> QED BY <1>2, <2>3, <3>1 DEF ClosingFlow, Alike
  <2> QED BY <2>2, <2>3
<1> QED BY <1>1, <1>2

\* Each filter is in the order once.
LEMMA OrderDistinct ==
  ASSUME NEW c, ConfOk(c)
  PROVE  /\ c.order[1] \in Filters /\ c.order[2] \in Filters \ {c.order[1]}
         /\ c.order[3] \in Filters \ {c.order[1], c.order[2]}
         /\ c.order[4] \in Filters \ {c.order[1], c.order[2], c.order[3]}
         /\ Filters = {c.order[1], c.order[2], c.order[3], c.order[4]}
<1> DEFINE o == c.order
<1>1. o[1] \in Filters /\ o[2] \in Filters /\ o[3] \in Filters /\ o[4] \in Filters
  BY DEF ConfOk
<1>2. \A f \in Filters : f \in {o[1], o[2], o[3], o[4]}
  <2>1. \A i \in 1..4 : i = 1 \/ i = 2 \/ i = 3 \/ i = 4
    OBVIOUS
  <2> QED BY <2>1 DEF ConfOk
<1> HIDE DEF o
<1>3. \A a, b, d \in Filters : \E f \in Filters : f \notin {a, b, d}
  BY DEF Filters
<1>4. Filters = {o[1], o[2], o[3], o[4]}
  BY <1>1, <1>2
<1>5. o[1] # o[2] /\ o[1] # o[3] /\ o[1] # o[4]
  <2>1. \E f \in Filters : f \notin {o[2], o[3], o[4]}
    BY <1>1, <1>3
  <2> QED BY <1>2, <2>1
<1>6. o[2] # o[3] /\ o[2] # o[4]
  <2>1. \E f \in Filters : f \notin {o[1], o[3], o[4]}
    BY <1>1, <1>3
  <2> QED BY <1>2, <2>1
<1>7. o[3] # o[4]
  <2>1. \E f \in Filters : f \notin {o[1], o[2], o[4]}
    BY <1>1, <1>3
  <2> QED BY <1>2, <2>1
<1> QED BY <1>1, <1>4, <1>5, <1>6, <1>7 DEF o

\* Track.trk_close
LEMMA TrkCloseFlow ==
  ASSUME NEW s, Calm(s), NEW c, ConfOk(c), s.t.stopped \/ s.q.active \/ s.q.idx >= 0
  PROVE  Closed(s, TrkClose(s, c))
<1> DEFINE T0 == [s.t EXCEPT !.state = "NONE"]
           s0 == [s EXCEPT !.t = T0]
           s1 == CloseFilter(s0, c.order[1], c)
           s2 == CloseFilter(s1, c.order[2], c)
           s3 == CloseFilter(s2, c.order[3], c)
           s4 == CloseFilter(s3, c.order[4], c)
           T5 == [s4.t EXCEPT !.error = FALSE]
           r == [s4 EXCEPT !.t = T5]
           D1 == {} \union {c.order[1]}
           D2 == D1 \union {c.order[2]}
           D3 == D2 \union {c.order[3]}
           D4 == D3 \union {c.order[4]}
<1>1. TrkClose(s, c) = r
  BY Zenon DEF TrkClose
<1>2. /\ c.order[1] \in Filters \ {} /\ c.order[2] \in Filters \ D1 /\ c.order[3] \in Filters \ D2
      /\ c.order[4] \in Filters \ D3 /\ "queue" \in D4
  BY OrderDistinct DEF Filters
<1>3. s \in AppType /\ s.t \in TrackType
  BY PartsType DEF Calm
<1>4. T0 \in TrackType /\ T0.url = s.t.url /\ T0.stopped = s.t.stopped
  BY <1>3 DEF TrackType
<1> HIDE DEF T0
<1>5. Alike(s, s0)
  BY <1>3, <1>4, PartAlike, PartsType
<1> HIDE DEF s0
<1>6. ClosingFlow(s, s0, {})
  BY <1>5 DEF ClosingFlow, Alike
<1>7. ClosingFlow(s, s1, D1)
  BY <1>2, <1>6, CloseOneFlow
<1> HIDE DEF s1, D1
<1>8. ClosingFlow(s, s2, D2)
  BY <1>2, <1>7, CloseOneFlow
<1> HIDE DEF s2, D2
<1>9. ClosingFlow(s, s3, D3)
  BY <1>2, <1>8, CloseOneFlow
<1> HIDE DEF s3, D3
<1>10. ClosingFlow(s, s4, D4)
  BY <1>2, <1>9, CloseOneFlow
<1> HIDE DEF s4, D4
<1>11. Closed(s, s4) /\ s4 \in AppType /\ s4.t \in TrackType
  BY <1>2, <1>10, PartsType DEF ClosingFlow
<1>12. T5 \in TrackType /\ T5.url = s4.t.url /\ T5.stopped = s4.t.stopped
  BY <1>11 DEF TrackType
<1> HIDE DEF T5
<1>13. Alike(s4, r)
  BY <1>11, <1>12, PartAlike, PartsType
<1> QED BY <1>1, <1>11, <1>13, ClosedAlike

\* A change of the mark that the track was stopped is seen by nothing else.
LEMMA StoppedSet ==
  ASSUME NEW s, Calm(s), NEW b \in BOOLEAN
  PROVE  LET w == [s EXCEPT !.t.stopped = b]
         IN /\ Calm(w) /\ Orderly(s, w) /\ w.t.stopped = b /\ w.t.url = s.t.url
            /\ w.q = s.q
<1> DEFINE t == [s.t EXCEPT !.stopped = b]
           w == [s EXCEPT !.t = t]
<1>1. s \in AppType /\ s.t \in TrackType
  BY PartsType DEF Calm
<1>2. t.url = s.t.url /\ t.stopped = b /\ t \in TrackType
  BY <1>1 DEF TrackType
<1> HIDE DEF t
<1>3. /\ w \in AppType /\ w.q = s.q /\ w.t = t /\ w.loop = s.loop /\ w.ask = s.ask
      /\ w.ended = s.ended /\ w.bad = s.bad
  BY <1>1, <1>2 DEF AppType
<1>4. w = [s EXCEPT !.t.stopped = b]
  BY DEF t
<1> HIDE DEF w
<1>5. /\ Entries(w) = Entries(s) /\ (Split(s) => Split(w)) /\ Orderly(s, w)
      /\ Cursor(s) => Cursor(w)
  BY <1>2, <1>3 DEF Entries, Items, Split, Orderly, Cursor, HasList, InList, IsId
<1>6. Calm(w)
  BY <1>3, <1>5 DEF Calm
<1> QED BY <1>2, <1>3, <1>4, <1>5, <1>6

\* Track.stop: nothing is posted.
LEMMA TrackStopCalm ==
  ASSUME NEW s, Calm(s), NEW c, ConfOk(c)
  PROVE  LET r == TrackStop(s, c)
         IN Calm(r) /\ Orderly(s, r) /\ ~r.q.active /\ r.q.act = s.q.act /\ r.t.url = s.t.url
<1> DEFINE w == [s EXCEPT !.t.stopped = TRUE]
           r == TrackStop(s, c)
<1>1. r = TrkClose(w, c)
  BY Zenon DEF TrackStop
<1>2. Calm(w) /\ Orderly(s, w) /\ w.t.stopped = TRUE /\ w.t.url = s.t.url /\ w.q = s.q
  BY StoppedSet
<1> HIDE DEF w
<1>3. Closed(w, r)
  BY <1>1, <1>2, TrkCloseFlow
<1>4. Cursor(r)
  BY TrackStopSound DEF Calm, Leaves
<1> HIDE DEF r
<1>5. Orderly(s, r)
  BY <1>2, <1>3, OrderlyTwice DEF Closed
<1>6. Ascending(Entries(r))
  <2>1. s.q.act \in 1..Len(s.q.lists) /\ Ascending(Items(s, s.q.act))
    BY DEF Calm, Cursor, HasList, Entries
  <2> QED BY <1>2, <1>3, <1>5, <2>1 DEF Closed, Orderly, Entries
<1>7. Calm(r)
  BY <1>2, <1>3, <1>4, <1>6 DEF Calm, Closed
<1> QED BY <1>2, <1>3, <1>5, <1>7 DEF Closed, r

\* MP.on_complete
LEMMA OnCompleteFlow ==
  ASSUME NEW s, Calm(s), NEW c, ConfOk(c), s.t.state # "NONE" => s.q.active
  PROVE  LET r == OnComplete(s, c) IN r \in AppType /\ Flow(r) /\ Orderly(s, r)
<1> DEFINE w == [s EXCEPT !.t.stopped = FALSE]
<1>1. OnComplete(s, c) = IF s.t.state = "NONE" THEN s ELSE TrkClose(w, c)
  BY Zenon DEF OnComplete
<1>2. Calm(w) /\ Orderly(s, w) /\ w.q = s.q
  BY StoppedSet
<1> HIDE DEF w
<1>3. s.q.active => Closed(w, TrkClose(w, c))
  BY <1>2, TrkCloseFlow
<1>4. s.q.active => /\ Orderly(s, TrkClose(w, c)) /\ Flow(TrkClose(w, c))
                    /\ TrkClose(w, c) \in AppType
  BY <1>2, <1>3, OrderlyTwice DEF Closed
<1>5. s \in AppType /\ Flow(s) /\ Orderly(s, s)
  BY CalmFlows, AlikeSame, AlikeKeeps DEF Calm
<1> QED BY <1>1, <1>4, <1>5

-----------------------------------------------------------------------------
(* Opening a track.                                                        *)

\* A track is being opened that has an entry.
Underway(s, x) == Calm(x) /\ x.q.idx >= 0 /\ Orderly(s, x) /\ x.t.url = s.t.url

LEMMA QueueOpenFlow ==
  ASSUME NEW s, Calm(s), s.q.idx >= 0, NEW c, ConfOk(c)
  PROVE  Underway(s, QueueOpen(s, c))
<1> DEFINE T1 == [s.t EXCEPT !.seek = IF c.skip THEN "skip" ELSE "zero"]
           T2 == [T1 EXCEPT !.tail = c.tail]
           Q == [s.q EXCEPT !.active = TRUE]
           x1 == [s EXCEPT !.q = Q]
           x == [x1 EXCEPT !.t = T2]
           f == s.q.lists
           e == [f[s.q.act] EXCEPT !.mod = TRUE]
           g == [f EXCEPT ![s.q.act] = e]
           P == [Q EXCEPT !.lists = g]
           y == [x EXCEPT !.q.lists[s.q.act] = e]
           z == [x EXCEPT !.q = P]
           r == QueueOpen(s, c)
<1>0. s \in AppType /\ s.q \in QueueType /\ s.t \in TrackType /\ c.tail \in BOOLEAN
      /\ f \in Seq(List) /\ Len(f) \in Nat /\ s.q.act \in Nat /\ s.q.act \in 1..Len(f)
  BY PartsType DEF Calm, Cursor, HasList, QueueType, ConfOk
<1>1. T1 \in TrackType /\ T1.url = s.t.url
  BY <1>0 DEF TrackType
<1> HIDE DEF T1
<1>2. T2 \in TrackType /\ T2.url = s.t.url
  BY <1>0, <1>1 DEF TrackType
<1>3. /\ Q \in QueueType /\ Q.lists = f /\ Q.act = s.q.act /\ Q.sel = s.q.sel /\ Q.idx = s.q.idx
      /\ Q.cur = s.q.cur
  BY <1>0 DEF QueueType
<1> HIDE DEF T2, Q
<1>4. /\ x1 \in AppType /\ x1.q = Q /\ x1.t = s.t /\ x1.loop = s.loop /\ x1.ask = s.ask
      /\ x1.ended = s.ended /\ x1.bad = s.bad
  BY <1>0, <1>3 DEF AppType
<1> HIDE DEF x1
<1>5. /\ x \in AppType /\ x.q = Q /\ x.t = T2 /\ x.loop = s.loop /\ x.ask = s.ask
      /\ x.ended = s.ended /\ x.bad = s.bad
  BY <1>2, <1>4 DEF AppType
<1>6. r = IF c.notags THEN x ELSE y
  <2> DEFINE X == [s EXCEPT !.q.active = TRUE, !.t.seek = IF c.skip THEN "skip" ELSE "zero",
                            !.t.tail = c.tail]
  <2>1. X = x
    BY <1>0 DEF x, x1, T2, T1, Q, AppType
  <2>2. [x EXCEPT !.q.lists[s.q.act].mod = TRUE] = y
    BY <1>0, <1>3, <1>5
  <2>3. r = IF c.notags THEN X ELSE IF ~HasList(s, s.q.act) THEN Throws(X)
            ELSE [X EXCEPT !.q.lists[s.q.act].mod = TRUE]
    BY Zenon DEF QueueOpen
  <2> HIDE DEF x, y, X, r
  <2> QED BY <1>0, <2>1, <2>2, <2>3 DEF HasList
<1> HIDE DEF x
<1>7. f[s.q.act] \in List
  BY <1>0, ElementOfSeq
<1>8. e \in List /\ e.mod /\ e.id = f[s.q.act].id /\ e.items = f[s.q.act].items
  BY <1>7 DEF List
<1>9. y = z
  BY <1>3, <1>5, ListPut
<1> HIDE DEF e, y
<1>10. /\ g \in Seq(List) /\ Len(g) = Len(f)
       /\ \A i \in 1..Len(f) : g[i] = IF i = s.q.act THEN e ELSE f[i]
  BY <1>0, <1>8, ListReplaced
<1>11. \A i \in 1..Len(f) : g[i].items = f[i].items
  BY <1>8, <1>10
<1> HIDE DEF g
<1>12. /\ P \in QueueType /\ P.lists = g /\ P.act = s.q.act /\ P.sel = s.q.sel /\ P.idx = s.q.idx
       /\ P.cur = s.q.cur
  BY <1>3, <1>10 DEF QueueType
<1> HIDE DEF P
<1>13. /\ z \in AppType /\ z.q = P /\ z.t = x.t /\ z.loop = s.loop /\ z.ask = s.ask
       /\ z.ended = s.ended /\ z.bad = s.bad
  BY <1>5, <1>12 DEF AppType
<1> HIDE DEF z, r
<1>14. /\ r \in AppType /\ r.q.act = s.q.act /\ r.q.sel = s.q.sel /\ r.q.idx = s.q.idx
       /\ r.q.cur = s.q.cur /\ r.t.url = s.t.url /\ r.loop = s.loop /\ r.ask = s.ask
       /\ r.ended = s.ended /\ r.bad = s.bad
       /\ Len(r.q.lists) = Len(f) /\ \A i \in 1..Len(f) : r.q.lists[i].items = f[i].items
  BY <1>2, <1>3, <1>5, <1>6, <1>9, <1>10, <1>11, <1>12, <1>13
<1>15. \A i \in 1..Len(f) : Items(r, i) = Items(s, i)
  BY <1>14 DEF Items
<1>16. Entries(r) = Entries(s) /\ Orderly(s, r)
  BY <1>0, <1>14, <1>15 DEF Entries, Orderly
<1>17. Cursor(r)
  BY <1>0, QueueOpenLeaves DEF Calm, Leaves, r
<1>18. ~(r.q.idx < 0)
  BY <1>0, <1>14 DEF QueueType
<1>19. Calm(r)
  BY <1>14, <1>16, <1>17, <1>18 DEF Calm
<1> QED BY <1>14, <1>16, <1>19 DEF Underway, r

LEMMA OpenAlike ==
  ASSUME NEW s \in AppType, NEW f \in Filters \ {"queue"}, NEW c
  PROVE  Alike(s, OpenFilter(s, f, c))
<1>0. /\ s.t \in TrackType /\ s.mp \in PlayerType /\ s.sys \in SysType /\ s.svc \in SvcType
  BY PartsType
<1>1. CASE f = "mp"
  <2> DEFINE t == [s.t EXCEPT !.state = "OPENING"]
             m == [st |-> "preparing", src |-> s.t.url, tmr |-> FALSE, seeking |-> FALSE]
             x == [s EXCEPT !.t = t]
             y == [x EXCEPT !.mp = m]
  <2>1. OpenFilter(s, f, c) = IF MpFails(s) THEN x ELSE y
    <3>1. OpenFilter(s, f, c) = MpOpen(s)
      BY <1>1 DEF OpenFilter
    <3>2. MpOpen(s) = IF MpFails(s) THEN x ELSE y
      BY Zenon DEF MpOpen
    <3> QED BY <3>1, <3>2
  <2>2. t \in TrackType /\ t.url = s.t.url /\ t.stopped = s.t.stopped
    BY <1>0 DEF TrackType
  <2>3. m \in PlayerType
    BY <1>0 DEF PlayerType, TrackType
  <2> HIDE DEF m, t
  <2>4. Alike(s, x)
    BY <1>0, <2>2, PartAlike
  <2>5. x \in AppType /\ x.t \in TrackType
    BY <2>4, PartsType DEF Alike
  <2> HIDE DEF x
  <2>6. Alike(x, y)
    BY <1>0, <2>3, <2>5, PartAlike
  <2>7. Alike(s, y)
    BY <2>4, <2>6, AlikeTwice
  <2> QED BY <2>1, <2>4, <2>7
<1>2. CASE f = "sys"
  <2> DEFINE x == [s.sys EXCEPT !.later = FALSE]
             y == [x EXCEPT !.focus = s.sys.focus \/ ~s.sys.busy]
  <2>1. OpenFilter(s, f, c) = [s EXCEPT !.sys = y]
    <3>1. OpenFilter(s, f, c) = [s EXCEPT !.sys.later = FALSE, !.sys.focus = @ \/ ~s.sys.busy]
      <4>1. OpenFilter(s, f, c) = SysOpen(s)
        BY <1>2 DEF OpenFilter
      <4> QED BY Zenon, <4>1 DEF SysOpen
    <3>2. [s EXCEPT !.sys.later = FALSE, !.sys.focus = @ \/ ~s.sys.busy] = [s EXCEPT !.sys = y]
      BY <1>0 DEF AppType, SysType
    <3> QED BY <3>1, <3>2
  <2>2. x \in SysType
    BY <1>0 DEF SysType
  <2> HIDE DEF x
  <2>3. y \in SysType
    BY <1>0, <2>2 DEF SysType
  <2> HIDE DEF y
  <2>4. Alike(s, [s EXCEPT !.sys = y])
    BY <1>0, <2>3, PartAlike
  <2> QED BY Zenon, <2>1, <2>4
<1>3. CASE f = "svc"
  <2> DEFINE y == [st |-> "BUFFERING", fg |-> TRUE, later |-> FALSE,
                   on |-> s.svc.on \/ s.svc.st = "STOPPED"]
  <2>1. OpenFilter(s, f, c) = [s EXCEPT !.svc = y]
    <3>1. OpenFilter(s, f, c) = SvcOpen(s)
      BY <1>3 DEF OpenFilter
    <3>2. SvcOpen(s) = [s EXCEPT !.svc = y]
      BY Zenon DEF SvcOpen
    <3> QED BY <3>1, <3>2
  <2>2. y \in SvcType
    BY <1>0 DEF SvcType
  <2> HIDE DEF y
  <2>3. Alike(s, [s EXCEPT !.svc = y])
    BY <1>0, <2>2, PartAlike
  <2> QED BY Zenon, <2>1, <2>3
<1> QED BY <1>1, <1>2, <1>3 DEF Filters

LEMMA OpenOneFlow ==
  ASSUME NEW s, NEW a, Underway(s, a.s), NEW f \in Filters, NEW c, ConfOk(c)
  PROVE  Underway(s, (IF ~a.ok THEN a
                      ELSE [s |-> OpenFilter(a.s, f, c), ok |-> ~OpenFails(a.s, f)]).s)
<1> DEFINE r == OpenFilter(a.s, f, c)
<1>1. Underway(s, r)
  <2>1. CASE f = "queue"
    <3>1. r = QueueOpen(a.s, c)
      BY <2>1 DEF OpenFilter
    <3>2. Underway(a.s, r)
      BY <3>1, QueueOpenFlow DEF Underway
    <3> QED BY <3>2, OrderlyTwice DEF Underway
  <2>2. CASE f # "queue"
    <3>1. Alike(a.s, r)
      BY <2>2, OpenAlike DEF Underway, Calm
    <3>2. Calm(r) /\ Orderly(s, r)
      BY <3>1, AlikeKeeps, OrderlyTwice DEF Underway
    <3> QED BY <3>1, <3>2 DEF Underway, Alike
  <2> QED BY <2>1, <2>2
<1> HIDE DEF r
<1> QED BY <1>1 DEF r

\* Track.start_3: a track that cannot be opened is closed, which posts the next.
LEMMA Start3Flow ==
  ASSUME NEW s, Calm(s), s.q.idx >= 0, NEW c, ConfOk(c)
  PROVE  LET r == Start3(s, c) IN Flow(r) /\ Orderly(s, r) /\ r.t.url = s.t.url
<1> DEFINE a0 == [s |-> s, ok |-> TRUE]
           step(a, i) == IF ~a.ok THEN a
                         ELSE [s |-> OpenFilter(a.s, c.order[i], c),
                               ok |-> ~OpenFails(a.s, c.order[i])]
           a1 == step(a0, 1)
           a2 == step(a1, 2)
           a3 == step(a2, 3)
           a4 == step(a3, 4)
           v == [a4.s EXCEPT !.t.error = TRUE]
<1>1. Start3(s, c) = IF a4.ok THEN a4.s ELSE TrkClose(v, c)
  BY Zenon DEF Start3
<1>2. /\ c.order[1] \in Filters /\ c.order[2] \in Filters /\ c.order[3] \in Filters
      /\ c.order[4] \in Filters
  BY DEF ConfOk
<1>3. Underway(s, a0.s)
  <2>1. Orderly(s, s)
    BY AlikeSame, AlikeKeeps DEF Calm
  <2> QED BY <2>1 DEF Underway
<1> HIDE DEF a0
<1>4. Underway(s, a1.s)
  BY <1>2, <1>3, OpenOneFlow
<1> HIDE DEF a1
<1>5. Underway(s, a2.s)
  BY <1>2, <1>4, OpenOneFlow
<1> HIDE DEF a2
<1>6. Underway(s, a3.s)
  BY <1>2, <1>5, OpenOneFlow
<1> HIDE DEF a3
<1>7. Underway(s, a4.s)
  BY <1>2, <1>6, OpenOneFlow
<1> HIDE DEF a4
<1> DEFINE T == [a4.s.t EXCEPT !.error = TRUE]
           w == [a4.s EXCEPT !.t = T]
<1>8. a4.s \in AppType /\ a4.s.t \in TrackType
  BY <1>7, PartsType DEF Underway, Calm
<1>9. v = w
  OBVIOUS
<1>10. T \in TrackType /\ T.url = a4.s.t.url /\ T.stopped = a4.s.t.stopped
  BY <1>8 DEF TrackType
<1> HIDE DEF v, T
<1>11. Alike(a4.s, w)
  BY <1>8, <1>10, PartAlike, PartsType
<1> HIDE DEF w
<1>12. Calm(w) /\ Orderly(s, w) /\ w.q.idx >= 0 /\ w.t.url = s.t.url
  BY <1>7, <1>11, AlikeKeeps, OrderlyTwice DEF Underway, Alike
<1>13. Closed(w, TrkClose(w, c))
  BY <1>12, TrkCloseFlow
<1>14. /\ Flow(TrkClose(w, c)) /\ Orderly(s, TrkClose(w, c)) /\ TrkClose(w, c).t.url = s.t.url
  BY <1>12, <1>13, OrderlyTwice DEF Closed
<1>15. Flow(a4.s)
  BY <1>7, CalmFlows DEF Underway
<1> QED BY <1>1, <1>7, <1>9, <1>14, <1>15 DEF Underway

-----------------------------------------------------------------------------
(* Playing an entry of a list.                                             *)

\* Queue._play and Track.start: the new position, and the track that is there.
AtEntry(x, l, it) == [x EXCEPT !.q.act = l, !.q.idx = it, !.q.cur = it]
WithEntry(p, l, it) == [p EXCEPT !.t.url = Items(p, l)[it + 1], !.t.seek = "none"]

LEMMA PointedCalm ==
  ASSUME NEW x, Calm(x), ~x.q.active, NEW l \in Nat, HasList(x, l), NEW it \in Int, InList(x, l, it),
         Ascending(Items(x, l))
  PROVE  LET p == AtEntry(x, l, it)
             w == WithEntry(p, l, it)
         IN /\ p.t = x.t /\ p.q.lists = x.q.lists
            /\ Calm(w) /\ Orderly(x, w) /\ w.q.idx >= 0 /\ w.q.lists = x.q.lists
            /\ w.q.active = x.q.active /\ w.t.url = Items(x, l)[it + 1]
<1> DEFINE P == [x.q EXCEPT !.act = l]
           O == [P EXCEPT !.idx = it]
           Q == [O EXCEPT !.cur = it]
           u == Items(x, l)[it + 1]
           T == [x.t EXCEPT !.url = u]
           S == [T EXCEPT !.seek = "none"]
           p == [x EXCEPT !.q = Q]
           w == [p EXCEPT !.t = S]
           p0 == AtEntry(x, l, it)
           w0 == WithEntry(p0, l, it)
<1>0. x \in AppType /\ x.q \in QueueType /\ x.t \in TrackType /\ Len(x.q.lists) \in Nat
  BY PartsType DEF Calm, QueueType
<1>1. u \in Nat /\ it >= 0
  <2>1. Items(x, l) \in Seq(Nat) /\ it + 1 \in 1..Len(Items(x, l)) /\ it >= 0
    BY <1>0, ItemsType DEF InList
  <2> QED BY <2>1, ElementOfSeq
<1>2. P \in QueueType /\ P.act = l /\ P.lists = x.q.lists /\ P.active = x.q.active /\ P.sel = x.q.sel
  <2>1. l \in Nat \ {0}
    BY <1>0 DEF HasList
  <2> QED BY <1>0, <2>1, ActSet
<1> HIDE DEF P
<1>3. /\ O \in QueueType /\ O.act = l /\ O.idx = it /\ O.lists = x.q.lists
      /\ O.active = x.q.active /\ O.sel = x.q.sel
  BY <1>2 DEF QueueType
<1> HIDE DEF O
<1>4. /\ Q \in QueueType /\ Q.act = l /\ Q.idx = it /\ Q.cur = it /\ Q.lists = x.q.lists
      /\ Q.active = x.q.active /\ Q.sel = x.q.sel
  BY <1>3 DEF QueueType
<1> HIDE DEF Q, u
<1>5. T \in TrackType /\ T.url = u
  BY <1>0, <1>1 DEF TrackType
<1> HIDE DEF T
<1>6. S \in TrackType /\ S.url = u
  BY <1>5 DEF TrackType
<1> HIDE DEF S
<1>7. /\ p \in AppType /\ p.q = Q /\ p.t = x.t /\ p.loop = x.loop /\ p.ask = x.ask
      /\ p.ended = x.ended /\ p.bad = x.bad
  BY <1>0, <1>4 DEF AppType
<1>8. p = p0
  BY <1>0 DEF Q, O, P, AppType, QueueType, AtEntry
<1> HIDE DEF p, p0
<1>9. /\ w \in AppType /\ w.q = Q /\ w.t = S /\ w.loop = x.loop /\ w.ask = x.ask
      /\ w.ended = x.ended /\ w.bad = x.bad
  BY <1>6, <1>7 DEF AppType
<1>10. w = w0
  <2>1. Items(p, l)[it + 1] = u
    BY <1>4, <1>7 DEF Items, u
  <2>2. p.t = x.t
    BY <1>7
  <2> QED BY <1>7, <1>8, <2>1, <2>2 DEF S, T, AppType, TrackType, WithEntry
<1> HIDE DEF w, w0
<1>11. Entries(w) = Items(x, l) /\ Orderly(x, w)
  BY <1>4, <1>9 DEF Entries, Items, Orderly
<1>12. Cursor(w)
  <2>1. InList(w, w.q.act, w.q.idx) /\ Items(w, w.q.act)[w.q.idx + 1] = w.t.url
    BY <1>4, <1>6, <1>9 DEF InList, Items, u
  <2> QED BY <1>4, <1>9, <2>1 DEF Calm, Cursor, HasList
<1>13. Calm(w)
  BY <1>4, <1>9, <1>11, <1>12 DEF Calm
<1> QED BY <1>1, <1>4, <1>6, <1>7, <1>8, <1>9, <1>10, <1>11, <1>13 DEF u, p0, w0

\* Queue._play
LEMMA PlayFlow ==
  ASSUME NEW s, Calm(s), Player(s), NEW l \in Nat, HasList(s, l), NEW it \in Int,
         Ascending(Items(s, l)), NEW c, ConfOk(c)
  PROVE  LET r == Play(s, l, it, c)
         IN /\ Flow(r) /\ Orderly(s, r)
            /\ ~s.q.active => r.t.url = IF InList(s, l, it) THEN Items(s, l)[it + 1] ELSE s.t.url
<1> DEFINE x == IF s.q.active THEN TrackStop(s, c) ELSE s
           p == AtEntry(x, l, it)
           w == WithEntry(p, l, it)
           a == [w EXCEPT !.ask = p.q.lists[l].id]
           r == Play(s, l, it, c)
<1>0. s \in AppType /\ s.q.active \in BOOLEAN
  BY DEF Calm, AppType, QueueType
<1>1. Calm(x) /\ Orderly(s, x) /\ ~x.q.active /\ x.t.state = "NONE"
  <2>1. CASE s.q.active
    BY <1>0, <2>1, TrackStopCalm, TrackStopSound
  <2>2. CASE ~s.q.active
    <3>1. Orderly(s, s)
      BY <1>0, AlikeSame, AlikeKeeps
    <3> QED BY <1>0, <2>2, <3>1 DEF Player, Calm, Cursor
  <2> QED BY <2>1, <2>2
<1>2. r = IF ~HasList(x, l) THEN Throws(x) ELSE IF ~InList(x, l, it) THEN x
          ELSE IF p.t.state # "NONE" THEN p
          ELSE IF c.notags THEN Start3(w, c) ELSE a
  BY Zenon DEF Play, Start, AtEntry, WithEntry
<1>3. ~s.q.active => x = s
  OBVIOUS
<1> HIDE DEF x, r
<1>4. HasList(x, l) /\ Ascending(Items(x, l))
  BY <1>1 DEF Orderly, HasList
<1>5. CASE ~InList(x, l, it)
  BY <1>1, <1>2, <1>3, <1>4, <1>5, CalmFlows DEF r
<1>6. CASE InList(x, l, it)
  <2>1. /\ p.t = x.t /\ p.q.lists = x.q.lists
        /\ Calm(w) /\ Orderly(x, w) /\ w.q.idx >= 0 /\ w.q.lists = x.q.lists
        /\ w.q.active = x.q.active /\ w.t.url = Items(x, l)[it + 1]
    BY <1>1, <1>4, <1>6, PointedCalm
  <2> HIDE DEF p, w
  <2>2. CASE c.notags
    <3>1. r = Start3(w, c)
      BY <1>1, <1>2, <1>4, <1>6, <2>1, <2>2
    <3>2. Flow(r) /\ Orderly(w, r) /\ r.t.url = w.t.url
      BY <2>1, <3>1, Start3Flow
    <3>3. Orderly(s, r)
      BY <1>1, <2>1, <3>2, OrderlyTwice
    <3> QED BY <1>3, <1>6, <2>1, <3>2, <3>3 DEF r
  <2>3. CASE ~c.notags
    <3> DEFINE i == p.q.lists[l].id
    <3>1. r = a
      BY <1>1, <1>2, <1>4, <1>6, <2>1, <2>3
    <3>2. a = [w EXCEPT !.ask = i]
      OBVIOUS
    <3> HIDE DEF a, i
    <3>3. w \in AppType
      BY <2>1 DEF Calm
    <3>4. a.q = w.q /\ a.t = w.t /\ a.loop = w.loop /\ a.ended = w.ended
      BY <3>2, <3>3 DEF AppType
    <3>5. Flow(w) /\ NoStarter(w.loop) /\ w.ended = 0
      BY <2>1, CalmFlows DEF Calm
    <3>6. Flow(a)
      BY <1>1, <2>1, <3>4, <3>5 DEF Flow, EndedHere
    <3>7. Orderly(w, a)
      BY <3>4, AlikeSame DEF Orderly, Items
    <3>8. Orderly(s, a)
      BY <1>1, <2>1, <3>7, OrderlyTwice
    <3> QED BY <1>3, <1>6, <2>1, <3>1, <3>4, <3>6, <3>8 DEF r
  <2> QED BY <2>2, <2>3
<1> QED BY <1>5, <1>6 DEF r

\* Queue.playcur
LEMMA PlaycurFlow ==
  ASSUME NEW s, Calm(s), Player(s), NEW c, ConfOk(c)
  PROVE  LET r == Playcur(s, c)
         IN /\ Flow(r) /\ Orderly(s, r)
            /\ ~s.q.active =>
                 r.t.url = IF InList(s, s.q.act, s.q.cur) THEN Entries(s)[s.q.cur + 1]
                           ELSE IF InList(s, s.q.act, 0) THEN Entries(s)[1] ELSE s.t.url
<1> DEFINE it == IF InList(s, s.q.act, s.q.cur) THEN s.q.cur ELSE 0
<1>1. it \in Int /\ s.q.act \in Nat /\ HasList(s, s.q.act) /\ Ascending(Items(s, s.q.act))
  BY DEF Calm, Cursor, AppType, QueueType, Entries
<1>2. Playcur(s, c) = Play(s, s.q.act, it, c)
  BY <1>1 DEF Playcur
<1>3. InList(s, s.q.act, s.q.cur) => it = s.q.cur
  OBVIOUS
<1>4. ~InList(s, s.q.act, s.q.cur) => it = 0
  OBVIOUS
<1> HIDE DEF it
<1> DEFINE r == Play(s, s.q.act, it, c)
<1>5. /\ Flow(r) /\ Orderly(s, r)
      /\ ~s.q.active => r.t.url = IF InList(s, s.q.act, it) THEN Items(s, s.q.act)[it + 1] ELSE s.t.url
  BY <1>1, PlayFlow
<1> HIDE DEF r
<1> QED BY <1>2, <1>3, <1>4, <1>5 DEF Entries, r

\* play_delta
LEMMA PlayDeltaFlow ==
  ASSUME NEW s, Calm(s), Player(s), NEW delta \in Int, NEW rnd \in Int, NEW c, ConfOk(c)
  PROVE  LET r == PlayDelta(s, delta, rnd, c)
         IN /\ Flow(r) /\ Orderly(s, r)
            /\ ~s.q.active /\ ~c.repeat /\ ~c.random =>
                 r.t.url = IF InList(s, s.q.act, s.q.cur + delta) THEN Entries(s)[s.q.cur + delta + 1]
                           ELSE s.t.url
<1> DEFINE n == Len(Items(s, s.q.act))
           i == s.q.cur + delta
           j == IF ~c.repeat THEN i ELSE IF i > n THEN 0 ELSE IF i <= 0 THEN n - 1 ELSE i
           Q == [s.q EXCEPT !.split = IF n = 1 THEN s.q.split ELSE ~s.q.split]
           x == [s EXCEPT !.q = Q]
           r == PlayDelta(s, delta, rnd, c)
<1>0. /\ s \in AppType /\ s.q \in QueueType /\ s.q.act \in Nat /\ s.q.cur \in Int
      /\ HasList(s, s.q.act) /\ Ascending(Items(s, s.q.act))
  BY DEF Calm, Cursor, AppType, QueueType, Entries
<1>1. r = IF n = 0 THEN s ELSE IF c.random THEN Play(x, s.q.act, rnd, c) ELSE Play(s, s.q.act, j, c)
  <2>1. r = IF ~HasList(s, s.q.act) THEN Throws(s) ELSE IF n = 0 THEN s
            ELSE IF c.random THEN Play(x, s.q.act, rnd, c) ELSE Play(s, s.q.act, j, c)
    BY Zenon DEF PlayDelta
  <2> HIDE DEF r, x, j
  <2> QED BY <1>0, <2>1
<1> HIDE DEF r
<1>2. n \in Nat
  BY <1>0, ItemsType
<1>3. n = 0 => ~InList(s, s.q.act, i)
  BY <1>0, <1>2 DEF InList
<1> HIDE DEF n
<1>4. j \in Int /\ (~c.repeat => j = i)
  BY <1>0, <1>2
<1>5. /\ Q \in QueueType /\ Q.lists = s.q.lists /\ Q.active = s.q.active /\ Q.idx = s.q.idx
      /\ Q.act = s.q.act /\ Q.sel = s.q.sel /\ Q.cur = s.q.cur
  BY <1>0 DEF QueueType
<1> HIDE DEF Q, j
<1>6. /\ x \in AppType /\ x.q = Q /\ x.t = s.t /\ x.mp = s.mp /\ x.sys = s.sys /\ x.svc = s.svc
      /\ x.bad = s.bad /\ x.ask = s.ask /\ x.loop = s.loop /\ x.ended = s.ended
  BY <1>0, <1>5 DEF AppType
<1> HIDE DEF x
<1>7. Alike(s, x)
  BY <1>5, <1>6 DEF Alike
<1>8. Calm(x) /\ Player(x) /\ HasList(x, s.q.act) /\ Ascending(Items(x, s.q.act)) /\ Orderly(s, x)
  BY <1>0, <1>5, <1>6, <1>7, AlikeKeeps DEF Player, HasList, Items
<1>9. Flow(Play(x, s.q.act, rnd, c)) /\ Orderly(x, Play(x, s.q.act, rnd, c))
  BY <1>0, <1>8, PlayFlow
<1>10. Orderly(s, Play(x, s.q.act, rnd, c))
  BY <1>8, <1>9, OrderlyTwice
<1> DEFINE y == Play(s, s.q.act, j, c)
<1>11. /\ Flow(y) /\ Orderly(s, y)
       /\ ~s.q.active => y.t.url = IF InList(s, s.q.act, j) THEN Items(s, s.q.act)[j + 1] ELSE s.t.url
  BY <1>0, <1>4, PlayFlow
<1> HIDE DEF y
<1>12. Flow(s) /\ Orderly(s, s)
  BY <1>0, CalmFlows, AlikeSame, AlikeKeeps
<1>13. \/ r.t.url = IF InList(s, s.q.act, i) THEN Entries(s)[i + 1] ELSE s.t.url
       \/ s.q.active \/ c.repeat \/ c.random
  BY <1>1, <1>3, <1>4, <1>11 DEF Entries, y
<1> QED BY <1>1, <1>9, <1>10, <1>11, <1>12, <1>13 DEF r, y

\* The same with an entry that was added last.
LEMMA AddedLast ==
  ASSUME NEW h \in Seq(Nat), NEW u \in Nat
  PROVE  LET g == Append(h, u)
         IN /\ Ascending(h) /\ (\A i \in 1..Len(h) : h[i] < u) => Ascending(g)
            /\ \A cur \in Int, url \in Nat : SplitAt(h, cur, url) /\ url < u => SplitAt(g, cur, url)
<1> DEFINE g == Append(h, u)
           m == Len(h)
<1>1. m \in Nat
  OBVIOUS
<1>2. g \in Seq(Nat) /\ Len(g) = m + 1 /\ g[m + 1] = u /\ \A i \in 1..m : g[i] = h[i] /\ h[i] \in Nat
  BY AppendProperties, ElementOfSeq
<1> HIDE DEF g, m
<1>3. \A i \in 1..Len(g) : i \in 1..m \/ i = m + 1
  BY <1>1, <1>2
<1>4. Ascending(h) /\ (\A i \in 1..m : h[i] < u) => Ascending(g)
  <2> SUFFICES ASSUME Ascending(h), \A i \in 1..m : h[i] < u,
                      NEW i \in 1..Len(g), NEW j \in 1..Len(g), i < j
               PROVE  g[i] < g[j]
    BY DEF Ascending
  <2>1. i \in 1..m
    BY <1>1, <1>2
  <2>2. CASE j \in 1..m
    BY <1>2, <2>1, <2>2 DEF Ascending, m
  <2>3. CASE j = m + 1
    BY <1>2, <2>1, <2>3
  <2> QED BY <1>3, <2>2, <2>3
<1>5. ASSUME NEW cur \in Int, NEW url \in Nat, SplitAt(h, cur, url), url < u
      PROVE  SplitAt(g, cur, url)
  <2>1. cur <= m /\ \A k \in 1..m : IF k <= cur THEN h[k] < url ELSE url < h[k]
    BY <1>5 DEF SplitAt, m
  <2>2. ASSUME NEW k \in 1..Len(g) PROVE IF k <= cur THEN g[k] < url ELSE url < g[k]
    <3>1. CASE k \in 1..m
      BY <1>2, <2>1, <3>1
    <3>2. CASE k = m + 1
      BY <1>1, <1>2, <1>5, <2>1, <3>2
    <3> QED BY <1>3, <3>1, <3>2
  <2> QED BY <1>1, <1>2, <2>1, <2>2 DEF SplitAt
<1> QED BY <1>4, <1>5 DEF g, m

\* PhiolaQueue.add
LEMMA AddToCalm ==
  ASSUME NEW s, Calm(s), Player(s), NEW l \in Nat, HasList(s, l), NEW u \in Nat,
         l = s.q.act => s.t.url < u /\ \A i \in 1..Len(Entries(s)) : Entries(s)[i] < u
  PROVE  LET r == AddTo(s, l, u)
         IN /\ Calm(r) /\ Player(r)
            /\ r.q.active = s.q.active /\ r.q.idx = s.q.idx /\ r.q.act = s.q.act /\ r.t = s.t
<1> DEFINE r == AddTo(s, l, u)
           f == s.q.lists
           e == With(f[l], u)
           g == [f EXCEPT ![l] = e]
           Q == [s.q EXCEPT !.lists = g]
<1>0. /\ s \in AppType /\ s.q \in QueueType /\ f \in Seq(List) /\ Len(f) \in Nat /\ l \in 1..Len(f)
      /\ s.q.act \in 1..Len(f) /\ s.q.cur \in Int /\ s.t.url \in Nat
  BY PartsType DEF Calm, Cursor, HasList, QueueType, TrackType
<1>1. f[l] \in List
  BY <1>0, ElementOfSeq
<1>2. e \in List /\ e.mod /\ e.id = f[l].id /\ e.items = Append(f[l].items, u)
  BY <1>1, AppendProperties DEF List, With
<1>3. r = [s EXCEPT !.q = Q]
  BY <1>0, ListPut DEF AddTo
<1> HIDE DEF e
<1>4. g \in Seq(List) /\ Len(g) = Len(f) /\ \A i \in 1..Len(f) : g[i] = IF i = l THEN e ELSE f[i]
  BY <1>0, <1>2, ListReplaced
<1> HIDE DEF g
<1>5. /\ Q \in QueueType /\ Q.lists = g /\ Q.act = s.q.act /\ Q.sel = s.q.sel /\ Q.cur = s.q.cur
      /\ Q.idx = s.q.idx /\ Q.active = s.q.active
  BY <1>0, <1>4 DEF QueueType
<1> HIDE DEF Q
<1>6. /\ r \in AppType /\ r.q = Q /\ r.t = s.t /\ r.loop = s.loop /\ r.ask = s.ask
      /\ r.ended = s.ended
  <2> HIDE DEF r
  <2> QED BY <1>0, <1>3, <1>5 DEF AppType
<1>7. Cursor(r) /\ Player(r)
  BY <1>0, AddToFine DEF Fine, Calm
<1> HIDE DEF r
<1>8. Entries(r) = IF l = s.q.act THEN Append(Entries(s), u) ELSE Entries(s)
  BY <1>0, <1>2, <1>4, <1>5, <1>6 DEF Entries, Items
<1>9. Entries(s) \in Seq(Nat)
  BY <1>0, ItemsType DEF Entries, HasList
<1>10. /\ Ascending(Entries(r))
       /\ Split(s) => Split(r)
  <2>1. CASE l = s.q.act
    <3> DEFINE h == Entries(s)
    <3>1. /\ Ascending(h) /\ (\A i \in 1..Len(h) : h[i] < u) => Ascending(Append(h, u))
          /\ \A cur \in Int, url \in Nat :
               SplitAt(h, cur, url) /\ url < u => SplitAt(Append(h, u), cur, url)
      BY <1>9, AddedLast
    <3> QED BY <1>0, <1>5, <1>6, <1>8, <2>1, <3>1 DEF Calm, Split
  <2>2. CASE l # s.q.act
    BY <1>5, <1>6, <1>8, <2>2 DEF Calm, Split
  <2> QED BY <2>1, <2>2
<1>11. Calm(r)
  BY <1>5, <1>6, <1>7, <1>10 DEF Calm
<1> QED BY <1>5, <1>6, <1>7, <1>11 DEF r

\* next_list_add_cur: the next list is another one.
LEMMA NextListAddCurCalm ==
  ASSUME NEW s, Calm(s), Player(s)
  PROVE  LET r == NextListAddCur(s)
         IN /\ Calm(r) /\ Player(r)
            /\ r.q.active = s.q.active /\ r.q.idx = s.q.idx /\ r.q.act = s.q.act /\ r.t = s.t
<1> DEFINE l == IndexNext(s, s.q.act)
<1>1. /\ l \in Nat /\ s.t.url \in Nat /\ Len(s.q.lists) \in Nat /\ s.q.act \in Nat
      /\ s.q.act \in 1..Len(s.q.lists)
  BY DEF IndexNext, Calm, Cursor, HasList, AppType, QueueType, TrackType
<1>2. CASE Len(s.q.lists) = 1 \/ s.t.state = "NONE"
  <2>1. NextListAddCur(s) = s
    BY <1>2 DEF NextListAddCur
  <2> QED BY <2>1
<1>3. CASE ~(Len(s.q.lists) = 1 \/ s.t.state = "NONE")
  <2>0. l = IF s.q.act + 1 = Len(s.q.lists) + 1 THEN 1 ELSE s.q.act + 1
    BY DEF IndexNext
  <2>1. HasList(s, l) /\ l # s.q.act
    <3> DEFINE n == Len(s.q.lists)
               a == s.q.act
    <3>1. n \in Nat /\ a \in 1..n /\ n # 1 /\ l = IF a + 1 = n + 1 THEN 1 ELSE a + 1
      BY <1>1, <1>3, <2>0
    <3> HIDE DEF n, a, l
    <3>2. l \in 1..n /\ l # a
      BY <3>1
    <3> QED BY <3>2 DEF HasList, n, a
  <2>2. NextListAddCur(s) = AddTo(s, l, s.t.url)
    BY <1>3, <2>1 DEF NextListAddCur
  <2> QED BY <1>1, <2>1, <2>2, AddToCalm
<1> QED BY <1>2, <1>3

\* order_next
LEMMA OrderNextFlow ==
  ASSUME NEW s, Calm(s), Player(s), NEW rnd \in Int, NEW c, ConfOk(c)
  PROVE  Flow(OrderNext(s, rnd, c))
<1> DEFINE rm == s.q.active /\ s.q.idx >= 0 /\ (c.addnext \/ c.rmnext)
           x == IF rm /\ c.addnext THEN NextListAddCur(s) ELSE s
           y == IF rm /\ ~x.bad THEN RemoveEntry(x, x.q.idx) ELSE x
           delta == IF rm \/ (s.q.active /\ s.q.idx < 0) THEN 0 ELSE 1
<1>1. OrderNext(s, rnd, c) = IF y.bad THEN y ELSE PlayDelta(y, delta, rnd, c)
  BY DEF OrderNext
<1>2. delta \in Int
  OBVIOUS
<1>3. Calm(x) /\ Player(x) /\ x.q.idx = s.q.idx
  BY NextListAddCurCalm
<1>4. s.q.idx \in Int
  BY DEF Calm, AppType, QueueType
<1>5. rm => s.q.idx \in Nat
  BY <1>4
<1> HIDE DEF x, delta, rm
<1>6. Calm(y) /\ Player(y)
  <2>1. CASE rm /\ ~x.bad
    <3>1. y = RemoveEntry(x, x.q.idx) /\ x.q.idx \in Nat /\ x \in AppType
      BY <1>3, <1>5, <2>1 DEF Calm
    <3> QED BY <1>3, <3>1, RemoveCalm, RemoveFine DEF Fine
  <2>2. CASE ~(rm /\ ~x.bad)
    BY <1>3, <2>2
  <2> QED BY <2>1, <2>2
<1> HIDE DEF y
<1>7. Flow(PlayDelta(y, delta, rnd, c)) /\ ~y.bad
  BY <1>2, <1>6, PlayDeltaFlow DEF Calm, Cursor
<1> QED BY <1>1, <1>7

-----------------------------------------------------------------------------
(* The player's events.                                                    *)

\* What a function comes to.
Follows(s, r) == r \in AppType /\ Flow(r) /\ Orderly(s, r)

LEMMA FollowsLater ==
  ASSUME NEW s, NEW r, NEW u, Orderly(s, r), Follows(r, u)
  PROVE  Follows(s, u)
BY OrderlyTwice DEF Follows

LEMMA CalmFollows ==
  ASSUME NEW s, NEW r, Calm(s), Alike(s, r)
  PROVE  Follows(s, r) /\ Calm(r)
BY CalmFlows, AlikeKeeps DEF Follows, Alike

\* MP.on_process
LEMMA MpProcessFlow ==
  ASSUME NEW s, Calm(s), s.q.active, NEW c, ConfOk(c)
  PROVE  Follows(s, MpProcess(s, c))
<1> DEFINE T1 == [s.t EXCEPT !.state = IF s.t.state = "PLAYING" THEN "SEEKING" ELSE s.t.state]
           T2 == [T1 EXCEPT !.tail = s.t.tail /\ ~(s.t.seek = "user" /\ s.t.intail)]
           T3 == [T2 EXCEPT !.seek = "none"]
           m == [s.mp EXCEPT !.seeking = TRUE]
           v == [s EXCEPT !.t = T3]
           w == [v EXCEPT !.mp = m]
           x == IF s.t.seek = "none" THEN s ELSE w
           m1 == [x.mp EXCEPT !.st = "paused"]
           y == [x EXCEPT !.mp = m1]
           m2 == [x.mp EXCEPT !.st = "started"]
           T4 == [x.t EXCEPT !.state = "PLAYING"]
           z1 == [x EXCEPT !.t = T4]
           z == [z1 EXCEPT !.mp = m2]
<1>0. s \in AppType /\ s.t \in TrackType /\ s.mp \in PlayerType
  BY PartsType DEF Calm
<1>1. T1 \in TrackType /\ T1.url = s.t.url /\ T1.stopped = s.t.stopped
  BY <1>0 DEF TrackType
<1> HIDE DEF T1
<1>2. T2 \in TrackType /\ T2.url = s.t.url /\ T2.stopped = s.t.stopped
  BY <1>0, <1>1 DEF TrackType
<1> HIDE DEF T2
<1>3. T3 \in TrackType /\ T3.url = s.t.url /\ T3.stopped = s.t.stopped
  BY <1>2 DEF TrackType
<1> HIDE DEF T3
<1>4. m \in PlayerType
  BY <1>0 DEF PlayerType
<1> HIDE DEF m
<1>5. Alike(s, v)
  BY <1>0, <1>3, PartAlike, PartsType
<1>6. w = [s EXCEPT !.t.state = IF @ = "PLAYING" THEN "SEEKING" ELSE @,
                    !.t.tail = @ /\ ~(s.t.seek = "user" /\ s.t.intail), !.t.seek = "none",
                    !.mp.seeking = TRUE]
  BY <1>0 DEF w, v, m, T1, T2, T3, AppType
<1> HIDE DEF v
<1>7. Alike(v, w)
  BY <1>4, <1>5, PartAlike, PartsType, AlikeType
<1> HIDE DEF w
<1>8. Alike(s, x)
  BY <1>0, <1>5, <1>7, AlikeSame, AlikeTwice
<1>9. MpProcess(s, c) =
        IF x.t.tail /\ x.t.intail THEN OnComplete(x, c) ELSE IF x.t.state = "PAUSED" THEN y
        ELSE IF x.t.state = "UNPAUSE" THEN z ELSE x
  <2> DEFINE W == [s EXCEPT !.t.state = IF @ = "PLAYING" THEN "SEEKING" ELSE @,
                    !.t.tail = @ /\ ~(s.t.seek = "user" /\ s.t.intail), !.t.seek = "none",
                    !.mp.seeking = TRUE]
             X == IF s.t.seek = "none" THEN s ELSE W
  <2>1. MpProcess(s, c) =
        IF X.t.tail /\ X.t.intail THEN OnComplete(X, c)
        ELSE IF X.t.state = "PAUSED" THEN [X EXCEPT !.mp.st = "paused"]
        ELSE IF X.t.state = "UNPAUSE" THEN [X EXCEPT !.t.state = "PLAYING", !.mp.st = "started"]
        ELSE X
    BY Zenon DEF MpProcess
  <2>2. X = x
    BY <1>6
  <2> HIDE DEF X, x
  <2>3. [x EXCEPT !.mp.st = "paused"] = y
    OBVIOUS
  <2>4. [x EXCEPT !.t.state = "PLAYING", !.mp.st = "started"] = z
    BY <1>8 DEF Alike, AppType
  <2> QED BY <2>1, <2>2, <2>3, <2>4
<1> HIDE DEF x
<1>10. Calm(x) /\ Orderly(s, x) /\ x.q.active
  BY <1>8, AlikeKeeps DEF Alike
<1>11. x \in AppType /\ x.t \in TrackType /\ x.mp \in PlayerType
  BY <1>8, PartsType DEF Alike
<1>12. Follows(s, OnComplete(x, c))
  <2>1. Follows(x, OnComplete(x, c))
    BY <1>10, OnCompleteFlow DEF Follows
  <2> QED BY <1>10, <2>1, FollowsLater
<1>13. Alike(s, y)
  <2>1. m1 \in PlayerType
    BY <1>11 DEF PlayerType
  <2> HIDE DEF m1
  <2>2. Alike(x, y)
    BY <1>11, <2>1, PartAlike, PartsType
  <2> QED BY <1>8, <2>2, AlikeTwice
<1>14. Alike(s, z)
  <2>1. m2 \in PlayerType
    BY <1>11 DEF PlayerType
  <2>2. T4 \in TrackType /\ T4.url = x.t.url /\ T4.stopped = x.t.stopped
    BY <1>11 DEF TrackType
  <2> HIDE DEF m2, T4
  <2>3. Alike(x, z1)
    BY <1>11, <2>2, PartAlike, PartsType
  <2> HIDE DEF z1
  <2>4. Alike(z1, z)
    BY <2>1, <2>3, PartAlike, PartsType, AlikeType
  <2> QED BY <1>8, <2>3, <2>4, AlikeTwice
<1> HIDE DEF y, z
<1>15. Follows(s, y) /\ Follows(s, z) /\ Follows(s, x)
  BY <1>8, <1>13, <1>14, CalmFollows
<1> QED BY <1>9, <1>12, <1>15

LEMMA SvcProcessAlike ==
  ASSUME NEW s \in AppType
  PROVE  Alike(s, SvcProcess(s))
<1> DEFINE y == [s.svc EXCEPT !.st = "PLAYING"]
<1>1. SvcProcess(s) = IF s.t.state = "PLAYING" THEN [s EXCEPT !.svc = y] ELSE s
  BY DEF SvcProcess
<1>2. y \in SvcType
  BY PartsType DEF SvcType
<1> HIDE DEF y
<1>3. Alike(s, [s EXCEPT !.svc = y])
  BY <1>2, PartAlike, PartsType
<1>4. Alike(s, s)
  BY AlikeSame
<1> QED BY Zenon, <1>1, <1>3, <1>4

\* Track.update
LEMMA UpdateFlow ==
  ASSUME NEW s, Calm(s), s.q.active, NEW c, ConfOk(c)
  PROVE  Follows(s, Update(s, c))
<1>1. Update(s, c) \in {SvcProcess(MpProcess(s, c)), MpProcess(SvcProcess(s), c)}
  BY DEF Update
<1>2. Follows(s, SvcProcess(MpProcess(s, c)))
  <2> DEFINE x == MpProcess(s, c)
  <2>1. Follows(s, x)
    BY MpProcessFlow
  <2> HIDE DEF x
  <2>2. Alike(x, SvcProcess(x))
    BY <2>1, SvcProcessAlike DEF Follows
  <2>3. Follows(x, SvcProcess(x))
    BY <2>1, <2>2, AlikeKeeps DEF Follows, Alike
  <2> QED BY <2>1, <2>3, FollowsLater DEF Follows, x
<1>3. Follows(s, MpProcess(SvcProcess(s), c))
  <2> DEFINE x == SvcProcess(s)
  <2>1. Alike(s, x)
    BY SvcProcessAlike DEF Calm
  <2> HIDE DEF x
  <2>2. Calm(x) /\ Orderly(s, x) /\ x.q.active
    BY <2>1, AlikeKeeps DEF Alike
  <2>3. Follows(x, MpProcess(x, c))
    BY <2>2, MpProcessFlow
  <2> QED BY <2>2, <2>3, FollowsLater DEF x
<1> QED BY <1>1, <1>2, <1>3

\* A track that plays or is paused gets a new state or is to seek, and all are told.
LEMMA ToldFlow ==
  ASSUME NEW s, Calm(s), Player(s), NEW c, ConfOk(c), NEW t \in TrackType, t.url = s.t.url,
         t.stopped = s.t.stopped, s.t.state # "NONE"
  PROVE  Follows(s, Update([s EXCEPT !.t = t], c))
<1> DEFINE w == [s EXCEPT !.t = t]
<1>1. Alike(s, w) /\ s.q.active
  <2>1. s \in AppType /\ ~s.bad
    BY DEF Calm, Cursor
  <2>2. s.q.active
    BY <2>1 DEF Player, AppType, QueueType
  <2> QED BY <2>1, <2>2, PartAlike, PartsType
<1> HIDE DEF w
<1>2. Calm(w) /\ Orderly(s, w) /\ w.q.active
  BY <1>1, AlikeKeeps DEF Alike
<1>3. Follows(w, Update(w, c))
  BY <1>2, UpdateFlow
<1> QED BY <1>2, <1>3, FollowsLater DEF w

LEMMA SameFollows ==
  ASSUME NEW s, Calm(s)
  PROVE  Follows(s, s) /\ s.t \in TrackType
<1>1. Alike(s, s)
  BY AlikeSame DEF Calm
<1> QED BY <1>1, CalmFollows, PartsType DEF Calm

\* Track.pause
LEMMA PauseFlow ==
  ASSUME NEW s, Calm(s), Player(s), NEW c, ConfOk(c)
  PROVE  Follows(s, Pause(s, c))
<1> DEFINE t == [s.t EXCEPT !.state = "PAUSED"]
<1>1. t \in TrackType /\ t.url = s.t.url /\ t.stopped = s.t.stopped
  BY SameFollows DEF TrackType
<1>2. Pause(s, c) = IF s.t.state = "PLAYING" THEN Update([s EXCEPT !.t = t], c) ELSE s
  BY Zenon DEF Pause
<1> HIDE DEF t
<1>3. s.t.state = "PLAYING" => Follows(s, Update([s EXCEPT !.t = t], c))
  BY <1>1, ToldFlow
<1> QED BY <1>2, <1>3, SameFollows

\* Track.unpause
LEMMA UnpauseFlow ==
  ASSUME NEW s, Calm(s), Player(s), NEW c, ConfOk(c)
  PROVE  Follows(s, Unpause(s, c))
<1> DEFINE t == [s.t EXCEPT !.state = "UNPAUSE"]
<1>1. t \in TrackType /\ t.url = s.t.url /\ t.stopped = s.t.stopped
  BY SameFollows DEF TrackType
<1>2. Unpause(s, c) = IF s.t.state = "PAUSED" THEN Update([s EXCEPT !.t = t], c) ELSE s
  BY Zenon DEF Unpause
<1> HIDE DEF t
<1>3. s.t.state = "PAUSED" => Follows(s, Update([s EXCEPT !.t = t], c))
  BY <1>1, ToldFlow
<1> QED BY <1>2, <1>3, SameFollows

\* Track.seek
LEMMA SeekFlow ==
  ASSUME NEW s, Calm(s), Player(s), NEW c, ConfOk(c), NEW tail \in BOOLEAN
  PROVE  Follows(s, Seek(s, tail, c))
<1> DEFINE t1 == [s.t EXCEPT !.seek = "user"]
           t == [t1 EXCEPT !.intail = tail]
           w == [s EXCEPT !.t.seek = "user", !.t.intail = tail]
           v == [s EXCEPT !.t = t]
<1>0. s \in AppType /\ s.t \in TrackType
  BY SameFollows DEF Calm
<1>1. t1 \in TrackType /\ t1.url = s.t.url /\ t1.stopped = s.t.stopped
  BY <1>0 DEF TrackType
<1> HIDE DEF t1
<1>2. t \in TrackType /\ t.url = s.t.url /\ t.stopped = s.t.stopped
  BY <1>1 DEF TrackType
<1>3. w = v
  BY <1>0 DEF t, t1, AppType
<1> HIDE DEF t
<1>4. s.t.state \in {"PLAYING", "PAUSED"} => Follows(s, Update(v, c))
  BY <1>2, ToldFlow
<1>5. Seek(s, tail, c) = IF s.t.state \in {"PLAYING", "PAUSED"} THEN Update(w, c) ELSE s
  BY Zenon DEF Seek
<1> HIDE DEF v, w
<1> QED BY <1>3, <1>4, <1>5, SameFollows

\* MP.update
LEMMA TimerFlow ==
  ASSUME NEW s, Calm(s), Player(s), NEW c, ConfOk(c), NEW tail \in BOOLEAN, s.t.state = "PLAYING"
  PROVE  Follows(s, Update([s EXCEPT !.t.intail = tail], c))
<1> DEFINE t == [s.t EXCEPT !.intail = tail]
<1>1. t \in TrackType /\ t.url = s.t.url /\ t.stopped = s.t.stopped
  BY SameFollows DEF TrackType
<1>2. [s EXCEPT !.t.intail = tail] = [s EXCEPT !.t = t]
  BY Zenon
<1> HIDE DEF t
<1>3. Follows(s, Update([s EXCEPT !.t = t], c))
  BY <1>1, ToldFlow
<1> QED BY <1>2, <1>3

\* MP.on_start, MP.on_seek_complete, MP.on_error
LEMMA OnStartAlike ==
  ASSUME NEW s \in AppType
  PROVE  Alike(s, OnStart(s))
<1> DEFINE skips == s.t.seek = "skip"
           t1 == [s.t EXCEPT !.state = "PLAYING"]
           t == [t1 EXCEPT !.seek = IF skips THEN "none" ELSE s.t.seek]
           m1 == [s.mp EXCEPT !.st = "started"]
           m2 == [m1 EXCEPT !.tmr = TRUE]
           m == [m2 EXCEPT !.seeking = skips]
           v == [s EXCEPT !.t = t]
           r == [v EXCEPT !.mp = m]
<1>0. s.t \in TrackType /\ s.mp \in PlayerType
  BY PartsType
<1>1. t1 \in TrackType /\ t1.url = s.t.url /\ t1.stopped = s.t.stopped
  BY <1>0 DEF TrackType
<1>2. m1 \in PlayerType
  BY <1>0 DEF PlayerType
<1> HIDE DEF t1, m1
<1>3. t \in TrackType /\ t.url = s.t.url /\ t.stopped = s.t.stopped
  BY <1>0, <1>1 DEF TrackType
<1>4. m2 \in PlayerType
  BY <1>2 DEF PlayerType
<1> HIDE DEF t, m2
<1>5. m \in PlayerType
  BY <1>4 DEF PlayerType
<1> HIDE DEF m
<1>6. Alike(s, v)
  BY <1>0, <1>3, PartAlike, PartsType
<1>7. OnStart(s) = r
  BY DEF OnStart, r, v, m, m2, m1, t, t1, AppType
<1> HIDE DEF v
<1>8. Alike(v, r)
  BY <1>5, <1>6, PartAlike, PartsType, AlikeType
<1> QED BY <1>6, <1>7, <1>8, AlikeTwice

LEMMA SeekCompletedAlike ==
  ASSUME NEW s \in AppType
  PROVE  Alike(s, [s EXCEPT !.mp.seeking = FALSE,
                            !.t.state = IF @ = "SEEKING" THEN "PLAYING" ELSE @])
<1> DEFINE t == [s.t EXCEPT !.state = IF s.t.state = "SEEKING" THEN "PLAYING" ELSE s.t.state]
           m == [s.mp EXCEPT !.seeking = FALSE]
           v == [s EXCEPT !.mp = m]
           r == [v EXCEPT !.t = t]
           w == [s EXCEPT !.mp.seeking = FALSE,
                          !.t.state = IF @ = "SEEKING" THEN "PLAYING" ELSE @]
<1>0. s.t \in TrackType /\ s.mp \in PlayerType
  BY PartsType
<1>1. t \in TrackType /\ t.url = s.t.url /\ t.stopped = s.t.stopped
  BY <1>0 DEF TrackType
<1>2. m \in PlayerType
  BY <1>0 DEF PlayerType
<1>3. w = r
  BY DEF AppType
<1> HIDE DEF t, m
<1>4. Alike(s, v) /\ v.t = s.t
  BY <1>0, <1>2, PartAlike, PartsType
<1> HIDE DEF v
<1>5. Alike(v, r)
  BY <1>1, <1>4, PartAlike, PartsType, AlikeType
<1> HIDE DEF r, w
<1>6. Alike(s, r)
  BY <1>4, <1>5, AlikeTwice
<1> QED BY <1>3, <1>6 DEF w

LEMMA FailedFlow ==
  ASSUME NEW s, Calm(s), Player(s), NEW c, ConfOk(c)
  PROVE  Follows(s, OnComplete([s EXCEPT !.t.error = TRUE], c))
<1> DEFINE t == [s.t EXCEPT !.error = TRUE]
           v == [s EXCEPT !.t = t]
<1>1. t \in TrackType /\ t.url = s.t.url /\ t.stopped = s.t.stopped /\ t.state = s.t.state
  BY SameFollows DEF TrackType
<1>2. [s EXCEPT !.t.error = TRUE] = v
  BY Zenon
<1> HIDE DEF t
<1>3. Alike(s, v) /\ v.t = t
  BY <1>1, PartAlike, PartsType DEF Calm
<1>4. s.t.state # "NONE" => s.q.active
  BY DEF Calm, Cursor, Player, AppType, QueueType
<1> HIDE DEF v
<1>5. Calm(v) /\ Orderly(s, v) /\ (v.t.state # "NONE" => v.q.active)
  BY <1>1, <1>3, <1>4, AlikeKeeps DEF Alike
<1>6. Follows(v, OnComplete(v, c))
  BY <1>5, OnCompleteFlow DEF Follows
<1> QED BY <1>2, <1>5, <1>6, FollowsLater

-----------------------------------------------------------------------------
(* Steps.                                                                  *)

InfoRuns(j) == jobs[j].kind = "info" /\ jobs[j].st = "run"
Waits(s) == ~s.q.active /\ NoStarter(s.loop) /\ s.q.idx >= 0

\* What AndroidInv has to be strengthened by: at most one track is going to be
\* started, and if one is, none is open.
FollowInv ==
  ~ses.moved /\ ~ses.crossed =>
    /\ InOrder(app) /\ (\A i \in 1..4 : Ascending(disk.files[i]))
    /\ Flow(app)
    /\ \A j \in 1..MaxJobs : InfoRuns(j) => Waits(app)
    /\ \A i, j \in 1..MaxJobs : InfoRuns(i) /\ InfoRuns(j) => i = j

LEMMA JobsAre ==
  ASSUME AndroidInv
  PROVE  /\ DOMAIN jobs = 1..MaxJobs /\ jobs \in [1..MaxJobs -> JobType] /\ app \in AppType
         /\ app.ask = 0 /\ app.loop \in Seq(Posts) /\ Player(app) /\ ConfOk(Conf)
         /\ ~ses.moved => Cursor(app)
         /\ ~Coming => NoStarter(app.loop) /\ \A j \in 1..MaxJobs : ~InfoRuns(j)
<1>1. DOMAIN jobs = 1..MaxJobs
  BY DEF AndroidInv, Basic, Types
<1>2. ~Coming => NoStarter(app.loop) /\ \A j \in 1..MaxJobs : ~InfoRuns(j)
  BY <1>1 DEF Coming, InfoRuns, NoStarter, Starters
<1>3. app \in AppType /\ app.loop \in Seq(Posts)
  BY DEF AndroidInv, Basic, Types, AppType
<1> QED BY <1>1, <1>2, <1>3, ConfIsOk DEF AndroidInv, Basic, Types, Kept

LEMMA CalmApp ==
  ASSUME AndroidInv, FollowInv, ~ses.moved, ~ses.crossed, ~Coming
  PROVE  Calm(app)
<1>1. InOrder(app) /\ Flow(app)
  BY DEF FollowInv
<1>2. NoStarter(app.loop) /\ app.loop \in Seq(Posts)
  BY JobsAre
<1>3. app.ended = 0
  <2>1. app.loop # <<>> => Head(app.loop) \notin Starters
    <3> DEFINE h == app.loop
               m == Len(h)
    <3>1. h # <<>> => m \in Nat /\ m # 0 /\ Head(h) = h[1]
      BY <1>2
    <3>2. \A i \in 1..m : h[i] \notin Starters
      BY <1>2 DEF NoStarter
    <3> HIDE DEF h, m
    <3>3. h # <<>> => 1 \in 1..m
      BY <3>1
    <3>4. h # <<>> => Head(h) \notin Starters
      BY <3>1, <3>2, <3>3
    <3> QED BY <3>4 DEF h
  <2> QED BY <1>1, <2>1 DEF Flow, EndedHere, Starters
<1>4. Cursor(app) /\ app \in AppType /\ app.ask = 0
  BY JobsAre
<1>5. Ascending(Entries(app))
  BY <1>1, <1>4 DEF InOrder, Cursor, HasList, Entries
<1> QED BY <1>1, <1>2, <1>3, <1>4, <1>5 DEF Flow, Calm

\* While a track is open none is going to be started.
LEMMA ActiveCalm ==
  ASSUME AndroidInv, FollowInv, ~ses.moved, ~ses.crossed, app.q.active
  PROVE  ~Coming /\ Calm(app)
<1>1. \A j \in 1..MaxJobs : ~InfoRuns(j)
  BY DEF FollowInv, Waits
<1>2. NoStarter(app.loop)
  BY DEF FollowInv, Flow
<1>3. ~Coming
  BY <1>1, <1>2, JobsAre DEF Coming, InfoRuns, NoStarter, Starters
<1> QED BY <1>3, CalmApp

\* No tags are asked for.
LEMMA AsksNone ==
  ASSUME NEW s \in AppType, s.ask = 0, Asks(s)
  PROVE  app' = s /\ jobs' = jobs
<1>1. [s EXCEPT !.ask = 0] = s
  BY DEF AppType
<1> QED BY <1>1 DEF Asks

\* The tags of one track are read at a time.
LEMMA AsksFollow ==
  ASSUME AndroidInv, NEW s \in AppType, Flow(s), HasJob \/ s.ask = 0, Asks(s),
         \A j \in 1..MaxJobs : ~InfoRuns(j)
  PROVE  /\ Flow(app') /\ InOrder(app') = InOrder(s)
         /\ app'.t = s.t /\ app'.loop = s.loop /\ app'.ended = s.ended
         /\ \A j \in 1..MaxJobs : InfoRuns(j)' => Waits(app')
         /\ \A i, j \in 1..MaxJobs : InfoRuns(i)' /\ InfoRuns(j)' => i = j
<1> DEFINE r == [s EXCEPT !.ask = 0]
           j == CHOOSE k \in DOMAIN jobs : jobs[k].st = "none"
           w == [Job0 EXCEPT !.kind = "info", !.st = "run", !.list = s.ask]
<1>1. app' = r /\ jobs' = IF s.ask = 0 THEN jobs ELSE [jobs EXCEPT ![j] = w]
  BY Zenon DEF Asks
<1>2. s.ask # 0 => j \in 1..MaxJobs /\ jobs[j].st = "none"
  BY FreeJob
<1> HIDE DEF j, w
<1>3. /\ r.q = s.q /\ r.t = s.t /\ r.loop = s.loop /\ r.ask = 0 /\ r.ended = s.ended
  BY DEF AppType
<1> HIDE DEF r
<1>4. Entries(r) = Entries(s) /\ InOrder(r) = InOrder(s)
  BY <1>3 DEF Entries, Items, InOrder
<1>5. EndedHere(r) = EndedHere(s) /\ Split(r) = Split(s)
  BY <1>3, <1>4 DEF EndedHere, Split, InList, Items
<1>6. Flow(r)
  BY <1>3, <1>5 DEF Flow
<1>7. \A k \in 1..MaxJobs : InfoRuns(k)' => s.ask # 0 /\ k = j
  BY <1>1, <1>2, JobsAre DEF InfoRuns
<1>8. s.ask # 0 => Waits(r)
  BY <1>3 DEF Waits, Flow
<1> QED BY <1>1, <1>3, <1>4, <1>6, <1>7, <1>8

LEMMA SesUser ==
  ASSUME AndroidInv, NEW s, NEW moved \in BOOLEAN, User(s, moved)
  PROVE  /\ ses'.moved = (ses.moved \/ moved)
         /\ ses'.crossed = (ses.crossed \/ Coming \/ ~InOrder(s))
<1> DEFINE m == ses.moved \/ moved
           k == ses.crossed \/ Coming \/ ~InOrder(s)
           a == [ses EXCEPT !.user = ses.user + 1]
           b == [a EXCEPT !.moved = m]
           d == [b EXCEPT !.crossed = k]
           e == [d EXCEPT !.fresh = FALSE]
<1>1. ses \in SesType
  BY DEF AndroidInv, Basic, Types
<1>2. a \in SesType
  BY <1>1 DEF SesType
<1>3. ses' = e
  <2>1. ses' = [ses EXCEPT !.user = @ + 1, !.moved = @ \/ moved,
                           !.crossed = @ \/ Coming \/ ~InOrder(s), !.fresh = FALSE]
    BY DEF User
  <2> QED BY <1>1, <2>1 DEF SesType
<1>4. m \in BOOLEAN /\ k \in BOOLEAN
  OBVIOUS
<1> HIDE DEF a, m, k
<1>5. b \in SesType /\ b.moved = m
  BY <1>2, <1>4 DEF SesType
<1> HIDE DEF b
<1>6. d \in SesType /\ d.moved = m /\ d.crossed = k
  BY <1>4, <1>5 DEF SesType
<1> HIDE DEF d
<1>7. e.moved = m /\ e.crossed = k
  BY <1>6 DEF SesType
<1> QED BY <1>3, <1>7 DEF m, k

\* A command.  After it nothing is said of a track that has ended.
LEMMA UserFollow ==
  ASSUME AndroidInv, FollowInv, NEW s, NEW moved \in BOOLEAN, User(s, moved),
         ~ses.moved /\ ~moved /\ Calm(app) => s \in AppType /\ Flow(s)
  PROVE  FollowInv'
<1> DEFINE r == [s EXCEPT !.ended = 0]
<1>1. HasJob /\ Asks(r) /\ disk' = disk
  BY Zenon DEF User
<1>2. SUFFICES ASSUME ~ses.moved, ~ses.crossed, ~moved, ~Coming, InOrder(s)
               PROVE  /\ InOrder(app') /\ (\A i \in 1..4 : Ascending(disk'.files[i]))
                      /\ Flow(app')
                      /\ \A j \in 1..MaxJobs : InfoRuns(j)' => Waits(app')
                      /\ \A i, j \in 1..MaxJobs : InfoRuns(i)' /\ InfoRuns(j)' => i = j
  BY SesUser DEF FollowInv
<1>3. s \in AppType /\ Flow(s)
  BY <1>2, CalmApp
<1>4. r \in AppType /\ r.q = s.q /\ r.t = s.t /\ r.loop = s.loop /\ r.ask = s.ask /\ r.ended = 0
  BY <1>3 DEF AppType
<1> HIDE DEF r
<1>5. Entries(r) = Entries(s) /\ InOrder(r) = InOrder(s)
  BY <1>4 DEF Entries, Items, InOrder
<1>6. Split(r) = Split(s) /\ EndedHere(r)
  BY <1>4, <1>5 DEF EndedHere, Split
<1>7. Flow(r)
  BY <1>3, <1>4, <1>6 DEF Flow
<1>8. \A j \in 1..MaxJobs : ~InfoRuns(j)
  BY <1>2, JobsAre
<1>9. \A i \in 1..4 : Ascending(disk.files[i])
  BY <1>2 DEF FollowInv
<1> QED BY <1>1, <1>2, <1>4, <1>5, <1>7, <1>8, <1>9, AsksFollow

\* What comes from the player.  A track is open then.
LEMMA EventFollow ==
  ASSUME AndroidInv, FollowInv, NEW s, Event(s), HasJob \/ s.ask = 0, app.q.active,
         ~ses.moved /\ Calm(app) => Follows(app, s)
  PROVE  FollowInv'
<1>1. Asks(s) /\ disk' = disk /\ ses' = ses
  BY DEF Event
<1>2. SUFFICES ASSUME ~ses.moved, ~ses.crossed
               PROVE  /\ InOrder(app') /\ (\A i \in 1..4 : Ascending(disk'.files[i]))
                      /\ Flow(app')
                      /\ \A j \in 1..MaxJobs : InfoRuns(j)' => Waits(app')
                      /\ \A i, j \in 1..MaxJobs : InfoRuns(i)' /\ InfoRuns(j)' => i = j
  BY <1>1 DEF FollowInv
<1>3. Follows(app, s) /\ InOrder(app) /\ \A i \in 1..4 : Ascending(disk.files[i])
  BY <1>2, ActiveCalm DEF FollowInv
<1>4. InOrder(s)
  BY <1>3 DEF Follows, Orderly, InOrder
<1>5. \A j \in 1..MaxJobs : ~InfoRuns(j)
  BY <1>2, ActiveCalm, JobsAre
<1> QED BY <1>1, <1>3, <1>4, <1>5, AsksFollow DEF Follows

\* A step that changes nothing that matters here.
LEMMA AlikeFollow ==
  ASSUME AndroidInv, FollowInv, Alike(app, app'), disk' = disk, ses'.moved = ses.moved,
         ses'.crossed = ses.crossed,
         \A j \in 1..MaxJobs : InfoRuns(j)' => InfoRuns(j)
  PROVE  FollowInv'
<1> SUFFICES ASSUME ~ses.moved, ~ses.crossed
             PROVE  /\ InOrder(app') /\ (\A i \in 1..4 : Ascending(disk'.files[i]))
                    /\ Flow(app')
                    /\ \A j \in 1..MaxJobs : InfoRuns(j)' => Waits(app')
                    /\ \A i, j \in 1..MaxJobs : InfoRuns(i)' /\ InfoRuns(j)' => i = j
  BY DEF FollowInv
<1>1. /\ InOrder(app) /\ (\A i \in 1..4 : Ascending(disk.files[i])) /\ Flow(app)
      /\ \A j \in 1..MaxJobs : InfoRuns(j) => Waits(app)
      /\ \A i, j \in 1..MaxJobs : InfoRuns(i) /\ InfoRuns(j) => i = j
  BY DEF FollowInv
<1>2. Flow(app') /\ Orderly(app, app')
  BY <1>1, AlikeKeeps
<1>3. InOrder(app')
  BY <1>1, <1>2 DEF Orderly, InOrder
<1>4. Waits(app) => Waits(app')
  BY DEF Waits, Alike
<1> QED BY <1>1, <1>2, <1>3, <1>4

\* The commands that are about playing.
LEMMA PlayFollows ==
  ASSUME AndroidInv, FollowInv,
         \/ UserPlay \/ OnPlay \/ OnPause \/ OnStop \/ OnSkipToNext \/ OnSkipToPrevious \/ OnSeekTo
         \/ Noisy \/ FocusLoss \/ FocusLossTransient \/ FocusGain \/ Call
  PROVE  FollowInv'
<1>0. /\ ConfOk(Conf) /\ app \in AppType /\ Player(app)
      /\ HasList(app, app.q.sel) /\ app.q.sel \in Nat /\ app.q.act \in Nat
      /\ app.sys \in SysType
  BY ConfIsOk DEF AppType
<1>1. CASE UserPlay
  <2>1. PICK pos \in 0..2 : User(Play(app, app.q.sel, pos, Conf), FALSE)
    BY <1>1 DEF UserPlay
  <2> DEFINE s == Play(app, app.q.sel, pos, Conf)
  <2>2. s \in AppType
    BY <1>0, PlaySound DEF Sound, Keeps
  <2>3. CASE ~ses.moved /\ ~ses.crossed
    <3>1. Ascending(Items(app, app.q.sel))
      BY <1>0, <2>3 DEF FollowInv, InOrder, HasList
    <3>2. Calm(app) => Flow(s)
      <4>1. pos \in Int
        OBVIOUS
      <4> HIDE DEF s
      <4>2. Calm(app) => Flow(Play(app, app.q.sel, pos, Conf))
        BY <1>0, <3>1, <4>1, PlayFlow
      <4> QED BY <4>2 DEF s
    <3> HIDE DEF s
    <3> QED BY <2>1, <2>2, <3>2, UserFollow DEF s
  <2>4. CASE ses.moved \/ ses.crossed
    BY <2>1, <2>4, SesUser DEF FollowInv
  <2> QED BY <2>3, <2>4
<1>2. CASE OnPlay
  <2> DEFINE x == Unpause(app, Conf)
             v == [x.svc EXCEPT !.fg = TRUE]
             y == [x EXCEPT !.svc.fg = TRUE]
             s == IF app.t.state = "NONE" THEN Playcur(app, Conf) ELSE y
  <2>1. User(s, FALSE)
    BY <1>2 DEF OnPlay
  <2>2. Calm(app) => Playcur(app, Conf) \in AppType /\ Flow(Playcur(app, Conf))
    BY <1>0, PlaycurSound, PlaycurFlow DEF Sound, Keeps
  <2>3. Calm(app) => Follows(app, x)
    BY <1>0, UnpauseFlow
  <2>4. y = [x EXCEPT !.svc = v]
    BY Zenon
  <2> HIDE DEF x
  <2>5. Calm(app) => v \in SvcType
    BY <2>3, PartsType DEF SvcType, Follows
  <2> HIDE DEF v, y
  <2>6. Calm(app) => Alike(x, y)
    BY <2>3, <2>4, <2>5, SvcAlike DEF Follows
  <2>7. Calm(app) => y \in AppType /\ Flow(y)
    BY <2>3, <2>6, AlikeKeeps, AlikeType DEF Follows
  <2> QED BY <2>1, <2>2, <2>7, UserFollow
<1>3. CASE OnPause
  <2> DEFINE x == Pause(app, Conf)
             v1 == [x.svc EXCEPT !.st = "PAUSED"]
             v == [v1 EXCEPT !.fg = FALSE]
             y == [x EXCEPT !.svc.st = "PAUSED", !.svc.fg = FALSE]
  <2>1. User(y, FALSE)
    BY <1>3 DEF OnPause
  <2>3. Calm(app) => Follows(app, x)
    BY <1>0, PauseFlow
  <2> HIDE DEF x
  <2>4. Calm(app) => y = [x EXCEPT !.svc = v]
    BY <2>3 DEF Follows, AppType
  <2>5. Calm(app) => v1 \in SvcType
    BY <2>3, PartsType DEF SvcType, Follows
  <2> HIDE DEF v1
  <2>5a. Calm(app) => v \in SvcType
    BY <2>5 DEF SvcType
  <2> HIDE DEF v, y
  <2>6. Calm(app) => Alike(x, y)
    BY <2>3, <2>4, <2>5a, SvcAlike DEF Follows
  <2>7. Calm(app) => y \in AppType /\ Flow(y)
    BY <2>3, <2>6, AlikeKeeps, AlikeType DEF Follows
  <2> QED BY <2>1, <2>7, UserFollow
<1>4. CASE OnStop
  <2> DEFINE s == TrackStop(app, Conf)
  <2>1. Calm(app) => s \in AppType /\ Flow(s)
    <3>1. Calm(app) => Calm(s)
      BY <1>0, TrackStopCalm
    <3> QED BY <3>1, CalmFlows DEF Calm
  <2> QED BY <1>4, <2>1, UserFollow DEF OnStop
<1>5. CASE OnSkipToNext
  <2>1. PICK r \in Picks : User(OrderNext(app, r, Conf), FALSE)
    BY <1>5 DEF OnSkipToNext
  <2>2. OrderNext(app, r, Conf) \in AppType
    BY <1>0, PicksInt, OrderNextSound DEF Sound, Keeps
  <2>3. Calm(app) => Flow(OrderNext(app, r, Conf))
    BY <1>0, PicksInt, OrderNextFlow
  <2> QED BY <2>1, <2>2, <2>3, UserFollow
<1>6. CASE OnSkipToPrevious
  <2>1. PICK r \in Picks : User(PlayDelta(app, -1, r, Conf), FALSE)
    BY <1>6 DEF OnSkipToPrevious
  <2>2. PlayDelta(app, -1, r, Conf) \in AppType
    BY <1>0, PicksInt, PlayDeltaSound DEF Sound, Keeps
  <2>3. Calm(app) => Flow(PlayDelta(app, -1, r, Conf))
    <3>1. r \in Int /\ -1 \in Int
      BY PicksInt
    <3>2. \A d \in Int : Calm(app) => Flow(PlayDelta(app, d, r, Conf))
      BY <1>0, <3>1, PlayDeltaFlow
    <3> QED BY <3>1, <3>2
  <2> QED BY <2>1, <2>2, <2>3, UserFollow
<1>7. CASE OnSeekTo
  <2>1. PICK tail \in BOOLEAN : User(Seek(app, tail, Conf), FALSE)
    BY <1>7 DEF OnSeekTo
  <2>2. Calm(app) => Follows(app, Seek(app, tail, Conf))
    BY <1>0, SeekFlow
  <2> QED BY <2>1, <2>2, UserFollow DEF Follows
<1>8. CASE Noisy
  <2>1. Calm(app) => Follows(app, Pause(app, Conf))
    BY <1>0, PauseFlow
  <2> QED BY <1>8, <2>1, UserFollow DEF Noisy, Follows
<1>9. CASE FocusLoss
  <2> DEFINE y == [app.sys EXCEPT !.focus = FALSE]
             x == [app EXCEPT !.sys = y]
  <2>1. y \in SysType
    BY <1>0 DEF SysType
  <2>2. [app EXCEPT !.sys.focus = FALSE] = x
    BY Zenon
  <2>3. User(TrackStop(x, Conf), FALSE)
    BY <1>9, <2>2 DEF FocusLoss
  <2> HIDE DEF y
  <2>4. Alike(app, x)
    BY <1>0, <2>1, PartAlike, PartsType
  <2> HIDE DEF x
  <2>5. Calm(app) => Calm(TrackStop(x, Conf))
    BY <1>0, <2>4, AlikeKeeps, TrackStopCalm
  <2>6. Calm(app) => TrackStop(x, Conf) \in AppType /\ Flow(TrackStop(x, Conf))
    BY <2>5, CalmFlows DEF Calm
  <2> QED BY <2>3, <2>6, UserFollow
<1>10. CASE FocusLossTransient
  <2> DEFINE y == [app.sys EXCEPT !.transient = TRUE]
             x == [app EXCEPT !.sys = y]
  <2>1. y \in SysType /\ y.later = app.sys.later /\ y.focus = app.sys.focus
    BY <1>0 DEF SysType
  <2>2. [app EXCEPT !.sys.transient = TRUE] = x
    BY Zenon
  <2>3. User(Pause(x, Conf), FALSE)
    BY <1>10, <2>2 DEF FocusLossTransient
  <2> HIDE DEF y
  <2>4. Alike(app, x) /\ Player(x)
    BY <1>0, <2>1, SysChanged, PartAlike, PartsType
  <2> HIDE DEF x
  <2>5. Calm(app) => Follows(x, Pause(x, Conf))
    BY <1>0, <2>4, AlikeKeeps, PauseFlow
  <2> QED BY <2>3, <2>5, UserFollow DEF Follows
<1>11. CASE FocusGain
  <2> DEFINE y == [app.sys EXCEPT !.transient = FALSE]
             x == [app EXCEPT !.sys = y]
  <2>1. y \in SysType /\ y.later = app.sys.later /\ y.focus = app.sys.focus
    BY <1>0 DEF SysType
  <2>2. [app EXCEPT !.sys.transient = FALSE] = x
    BY Zenon
  <2>3. User(Unpause(x, Conf), FALSE)
    BY <1>11, <2>2 DEF FocusGain
  <2> HIDE DEF y
  <2>4. Alike(app, x) /\ Player(x)
    BY <1>0, <2>1, SysChanged, PartAlike, PartsType
  <2> HIDE DEF x
  <2>5. Calm(app) => Follows(x, Unpause(x, Conf))
    BY <1>0, <2>4, AlikeKeeps, UnpauseFlow
  <2> QED BY <2>3, <2>5, UserFollow DEF Follows
<1>12. CASE Call
  <2> DEFINE y == [app.sys EXCEPT !.busy = ~app.sys.busy]
             x == [app EXCEPT !.sys = y]
  <2>1. y \in SysType
    BY <1>0 DEF SysType
  <2>2. [app EXCEPT !.sys.busy = ~@] = x
    BY Zenon
  <2>3. User(x, FALSE)
    BY <1>12, <2>2 DEF Call
  <2> HIDE DEF y
  <2>4. Alike(app, x)
    BY <1>0, <2>1, PartAlike, PartsType
  <2> HIDE DEF x
  <2>5. Calm(app) => x \in AppType /\ Flow(x)
    BY <2>4, CalmFollows DEF Follows
  <2> QED BY <2>3, <2>5, UserFollow
<1> QED BY <1>1, <1>2, <1>3, <1>4, <1>5, <1>6, <1>7, <1>8, <1>9, <1>10, <1>11, <1>12

\* The events of the player and of the system, the delayed messages and the timer.
LEMMA EventsFollow ==
  ASSUME AndroidInv, FollowInv,
         \/ Prepared \/ Completed \/ Failed \/ SeekCompleted \/ StopDelayed \/ AfocusAbandon \/ Timer
  PROVE  FollowInv'
<1>0. ConfOk(Conf) /\ app \in AppType /\ Player(app) /\ app.ask = 0
  BY JobsAre
<1>1. ASSUME NEW s, Event(s), Alike(app, s) PROVE FollowInv'
  <2>1. Asks(s) /\ s.ask = 0 /\ s \in AppType /\ disk' = disk /\ ses' = ses
    BY <1>0, <1>1 DEF Event, Alike
  <2>2. app' = s /\ jobs' = jobs
    BY <2>1, AsksNone
  <2>3. \A j \in 1..MaxJobs : InfoRuns(j)' => InfoRuns(j)
    BY <2>2 DEF InfoRuns
  <2> QED BY <1>1, <2>1, <2>2, <2>3, AlikeFollow
<1>2. ASSUME NEW s, Event(s), Stays(app, s), app.mp.st # "idle",
             Calm(app) => Follows(app, s)
      PROVE  FollowInv'
  <2>1. app.q.active
    <3>1. ~app.bad /\ app.t.state # "NONE"
      BY <1>0, <1>2 DEF Player, Event, Up
    <3> QED BY <1>0, <3>1 DEF Player
  <2>2. s.ask = 0
    BY <1>0, <1>2 DEF Stays, Leaves
  <2> QED BY <1>2, <2>1, <2>2, EventFollow
<1>3. CASE Prepared
  BY <1>0, <1>1, <1>3, OnStartAlike DEF Prepared
<1>4. CASE Completed
  <2> DEFINE s == OnComplete(app, Conf)
  <2>1. Stays(app, s)
    BY <1>0, OnCompleteSound
  <2>2. app.t.state # "NONE" => app.q.active
    BY <1>0, <1>4 DEF Player, Completed, Event, Up
  <2>3. Calm(app) => Follows(app, s)
    BY <1>0, <2>2, OnCompleteFlow DEF Follows
  <2>4. Event(s) /\ app.mp.st # "idle"
    BY <1>4 DEF Completed
  <2> HIDE DEF s
  <2> QED BY <1>2, <2>1, <2>3, <2>4
<1>5. CASE Failed
  <2> DEFINE s == OnComplete([app EXCEPT !.t.error = TRUE], Conf)
  <2>1. Stays(app, s) /\ (Calm(app) => Follows(app, s))
    BY <1>0, FailedSound, FailedFlow
  <2>2. Event(s) /\ app.mp.st # "idle"
    BY <1>5 DEF Failed
  <2> HIDE DEF s
  <2> QED BY <1>2, <2>1, <2>2
<1>6. CASE SeekCompleted
  <2> DEFINE s == [app EXCEPT !.mp.seeking = FALSE,
                              !.t.state = IF @ = "SEEKING" THEN "PLAYING" ELSE @]
  <2>1. Alike(app, s)
    BY <1>0, SeekCompletedAlike
  <2>2. Event(s)
    BY <1>6 DEF SeekCompleted
  <2> HIDE DEF s
  <2> QED BY <1>1, <2>1, <2>2
<1>7. CASE StopDelayed
  <2> DEFINE v == [st |-> "STOPPED", fg |-> FALSE, later |-> FALSE, on |-> FALSE]
             u == [app.svc EXCEPT !.later = FALSE]
             r == [app EXCEPT !.svc = v]
             w == [app EXCEPT !.svc = u]
  <2>1. [app EXCEPT !.svc.later = FALSE] = w
    BY Zenon
  <2>2. Event(w) \/ Event(r)
    BY <1>7, <2>1 DEF StopDelayed
  <2>3. v \in SvcType /\ u \in SvcType
    BY <1>0 DEF SvcType, AppType
  <2> HIDE DEF v, u
  <2>4. Alike(app, r) /\ Alike(app, w)
    BY <1>0, <2>3, PartAlike, PartsType
  <2> HIDE DEF r, w
  <2> QED BY <1>1, <2>2, <2>4
<1>8. CASE AfocusAbandon
  <2> DEFINE y1 == [app.sys EXCEPT !.later = FALSE]
             y == [y1 EXCEPT !.focus = FALSE]
             r == [app EXCEPT !.sys = y]
  <2>1. [app EXCEPT !.sys.later = FALSE, !.sys.focus = FALSE] = r
    BY <1>0 DEF AppType
  <2>2. y1 \in SysType
    BY <1>0 DEF AppType, SysType
  <2> HIDE DEF y1
  <2>3. y \in SysType
    BY <2>2 DEF SysType
  <2> HIDE DEF y
  <2>4. Alike(app, r)
    BY <1>0, <2>3, PartAlike, PartsType
  <2>5. Event(r)
    BY <1>8, <2>1 DEF AfocusAbandon
  <2> HIDE DEF r
  <2> QED BY <1>1, <2>4, <2>5
<1>9. CASE Timer
  <2>1. PICK tail \in BOOLEAN : Event(Update([app EXCEPT !.t.intail = tail], Conf))
    BY <1>9 DEF Timer
  <2> DEFINE s == Update([app EXCEPT !.t.intail = tail], Conf)
  <2>2. Stays(app, s) /\ (Calm(app) => Follows(app, s))
    BY <1>0, <1>9, TimerSound, TimerFlow DEF Timer
  <2> HIDE DEF s
  <2>3. Event(s)
    BY <2>1 DEF s
  <2>4. app.mp.st # "idle"
    BY <1>0, <1>9, <2>1 DEF Timer, Player, Event, Up
  <2> QED BY <1>2, <2>2, <2>3, <2>4
<1> QED BY <1>3, <1>4, <1>5, <1>6, <1>7, <1>8, <1>9

\* A step that leaves the queue alone and starts nothing.
LEMMA KeptFollow ==
  ASSUME FollowInv, app'.q = app.q, Flow(app) => Flow(app'),
         NoStarter(app.loop) => NoStarter(app'.loop),
         disk' = disk, ses'.moved = ses.moved, ses'.crossed = ses.crossed,
         \A j \in 1..MaxJobs : InfoRuns(j)' => InfoRuns(j)
  PROVE  FollowInv'
<1> SUFFICES ASSUME ~ses.moved, ~ses.crossed
             PROVE  /\ InOrder(app') /\ (\A i \in 1..4 : Ascending(disk'.files[i]))
                    /\ Flow(app')
                    /\ \A j \in 1..MaxJobs : InfoRuns(j)' => Waits(app')
                    /\ \A i, j \in 1..MaxJobs : InfoRuns(i)' /\ InfoRuns(j)' => i = j
  BY DEF FollowInv
<1>1. /\ InOrder(app) /\ (\A i \in 1..4 : Ascending(disk.files[i])) /\ Flow(app)
      /\ \A j \in 1..MaxJobs : InfoRuns(j) => Waits(app)
      /\ \A i, j \in 1..MaxJobs : InfoRuns(i) /\ InfoRuns(j) => i = j
  BY DEF FollowInv
<1>2. InOrder(app')
  BY <1>1 DEF InOrder, Items
<1>3. Waits(app) => Waits(app')
  BY DEF Waits
<1> QED BY <1>1, <1>2, <1>3

\* A message is taken, or none; nothing is said of a track that has ended.
LEMMA TakenFlow ==
  ASSUME NEW s \in AppType, NEW r, r.q = s.q, r.t = s.t, r.ask = s.ask, r.ended = 0,
         r.loop = s.loop \/ (s.loop # <<>> /\ r.loop = Tail(s.loop))
  PROVE  /\ Flow(s) => Flow(r)
         /\ OneStarter(s.loop) /\ NoStarter(s.loop) => NoStarter(r.loop)
<1>1. OneStarter(s.loop) => /\ OneStarter(r.loop) /\ (NoStarter(s.loop) => NoStarter(r.loop))
                            /\ NoStart2(s.loop) => NoStart2(r.loop)
  BY Taking, PartsType
<1>2. Split(r) = Split(s) /\ EndedHere(r)
  BY DEF Split, Entries, Items, EndedHere
<1>3. Flow(s) => Flow(r)
  BY <1>1, <1>2 DEF Flow
<1> QED BY <1>1, <1>3

LEMMA NoneIsOne ==
  ASSUME NEW h, NoStarter(h)
  PROVE  OneStarter(h)
BY DEF NoStarter, OneStarter

\* rec_click concerns the recording only.
LEMMA RecClickFollow ==
  ASSUME AndroidInv, FollowInv, HasJob, NEW x \in AppType, x.q = app.q, x.t = app.t, x.ask = app.ask,
         x.trec = app.trec, x.ended = 0,
         x.loop = app.loop \/ (app.loop # <<>> /\ x.loop = Tail(app.loop)),
         RecClick(x), disk' = disk, ses'.moved = ses.moved, ses'.crossed = ses.crossed
  PROVE  FollowInv'
<1> DEFINE j == CHOOSE k \in DOMAIN jobs : jobs[k].st = "none"
           w == [Job0 EXCEPT !.kind = "rec", !.st = "run"]
           i == app.trec
           b == jobs[i].st = "freed"
           v == [jobs[i] EXCEPT !.st = IF jobs[i].st = "run" THEN "stopping" ELSE "freed"]
<1>1. \/ app' = [x EXCEPT !.trec = j] /\ jobs' = [jobs EXCEPT ![j] = w]
      \/ x.trec # 0 /\ app' = [x EXCEPT !.trec = 0, !.bad = b] /\ jobs' = [jobs EXCEPT ![i] = v]
  BY DEF RecClick, RecStart, RecStop
<1>2. /\ jobs \in [1..MaxJobs -> JobType] /\ app \in AppType
      /\ x.trec # 0 => i \in 1..MaxJobs /\ jobs[i].kind = "rec"
  BY DEF AndroidInv, Basic, Types, RecordingsHeld
<1>3. w.kind = "rec"
  BY DEF Job0
<1>4. x.trec # 0 => v.kind = "rec"
  BY <1>2 DEF JobType
<1>5. /\ app'.q = app.q /\ app'.t = app.t /\ app'.ask = app.ask /\ app'.loop = x.loop
      /\ app'.ended = 0
  <2> HIDE DEF j, b, i
  <2> QED BY <1>1 DEF AppType
<1>6. \A k \in 1..MaxJobs : InfoRuns(k)' => InfoRuns(k)
  <2> HIDE DEF j, w, i, v
  <2> QED BY <1>1, <1>2, <1>3, <1>4 DEF InfoRuns
<1>7. /\ Flow(app) => Flow(app')
      /\ OneStarter(app.loop) /\ NoStarter(app.loop) => NoStarter(app'.loop)
  BY <1>2, <1>5, TakenFlow
<1> QED BY <1>5, <1>6, <1>7, NoneIsOne, KeptFollow

LEMMA SesJob ==
  ASSUME AndroidInv, ses' = [ses EXCEPT !.user = @ + 1, !.fresh = FALSE]
  PROVE  ses'.moved = ses.moved /\ ses'.crossed = ses.crossed
BY DEF AndroidInv, Basic, Types, SesType

\* The native tracks.
LEMMA JobsFollow ==
  ASSUME AndroidInv, FollowInv,
         \/ UserRec \/ UserConvert \/ AutoStopExpires
         \/ \E j \in DOMAIN jobs : JobStops(j)
  PROVE  FollowInv'
<1>0. app \in AppType /\ app.q \in QueueType /\ DOMAIN jobs = 1..MaxJobs
      /\ jobs \in [1..MaxJobs -> JobType]
  BY JobsAre, PartsType
<1> DEFINE x == [app EXCEPT !.ended = 0]
<1>1. /\ x \in AppType /\ x.q = app.q /\ x.t = app.t /\ x.ask = app.ask /\ x.trec = app.trec
      /\ x.loop = app.loop /\ x.ended = 0
  BY <1>0 DEF AppType
<1>1a. x.loop = app.loop \/ (app.loop # <<>> /\ x.loop = Tail(app.loop))
  BY <1>1
<1> HIDE DEF x
<1>2. CASE UserRec
  <2>1. /\ HasJob /\ RecClick(x) /\ disk' = disk
        /\ ses' = [ses EXCEPT !.user = @ + 1, !.fresh = FALSE]
    BY <1>2 DEF UserRec, x
  <2>2. ses'.moved = ses.moved /\ ses'.crossed = ses.crossed
    BY <2>1, SesJob
  <2> QED BY <1>1, <1>1a, <2>1, <2>2, RecClickFollow
<1>3. CASE UserConvert
  <2> DEFINE j == CHOOSE k \in DOMAIN jobs : jobs[k].st = "none"
             w == [Job0 EXCEPT !.kind = "conv", !.st = "run"]
  <2>1. /\ app' = x /\ disk' = disk /\ ses' = [ses EXCEPT !.user = @ + 1, !.fresh = FALSE]
        /\ jobs' = [jobs EXCEPT ![j] = w]
    BY Zenon, <1>3 DEF UserConvert, x
  <2>2. w.kind = "conv"
    BY DEF Job0
  <2> HIDE DEF j, w
  <2>3. \A k \in 1..MaxJobs : InfoRuns(k)' => InfoRuns(k)
    BY <1>0, <2>1, <2>2 DEF InfoRuns
  <2>4. /\ Flow(app) => Flow(x)
        /\ OneStarter(app.loop) /\ NoStarter(app.loop) => NoStarter(x.loop)
    BY <1>0, <1>1, <1>1a, TakenFlow
  <2> QED BY <1>1, <2>1, <2>3, <2>4, NoneIsOne, KeptFollow, SesJob
<1>4. CASE AutoStopExpires
  <2> DEFINE Q == [app.q EXCEPT !.astop = "expired"]
             r == [app EXCEPT !.q = Q]
  <2>1. app' = [app EXCEPT !.q.astop = "expired"] /\ jobs' = jobs /\ disk' = disk /\ ses' = ses
    BY <1>4 DEF AutoStopExpires
  <2>2. app' = r
    BY Zenon, <2>1
  <2>3. /\ Q \in QueueType /\ Q.lists = app.q.lists /\ Q.act = app.q.act /\ Q.sel = app.q.sel
        /\ Q.cur = app.q.cur /\ Q.idx = app.q.idx /\ Q.active = app.q.active
    BY <1>0 DEF QueueType
  <2> HIDE DEF Q
  <2>4. Alike(app, r)
    BY <1>0, <2>3 DEF AppType, Alike
  <2>5. \A j \in 1..MaxJobs : InfoRuns(j)' => InfoRuns(j)
    BY <2>1 DEF InfoRuns
  <2> QED BY <2>1, <2>2, <2>4, <2>5, AlikeFollow
<1>5. CASE \E j \in DOMAIN jobs : JobStops(j)
  <2>1. PICK j \in DOMAIN jobs : JobStops(j)
    BY <1>5
  <2>2. /\ app' = app /\ disk' = disk /\ ses' = ses /\ jobs[j].st = "stopping"
        /\ jobs' = [jobs EXCEPT ![j].st = "freed"]
    BY <2>1 DEF JobStops
  <2>3. \A k \in 1..MaxJobs : InfoRuns(k)' => InfoRuns(k)
    BY <1>0, <2>2 DEF InfoRuns, JobType
  <2>4. Alike(app, app')
    BY <1>0, <2>2, AlikeSame
  <2> QED BY <2>2, <2>3, <2>4, AlikeFollow
<1> QED BY <1>2, <1>3, <1>4, <1>5

LEMMA NoneEnded ==
  ASSUME NEW s \in AppType, Flow(s), NoStarter(s.loop)
  PROVE  s.ended = 0
<1> DEFINE h == s.loop
           m == Len(h)
<1>1. h \in Seq(Posts)
  BY PartsType
<1>2. h # <<>> => m \in Nat /\ m # 0 /\ Head(h) = h[1]
  BY <1>1
<1>3. \A i \in 1..m : h[i] \notin Starters
  BY DEF NoStarter
<1> HIDE DEF h, m
<1>4. h # <<>> => 1 \in 1..m
  BY <1>2
<1>5. h # <<>> => Head(h) \notin Starters
  BY <1>2, <1>3, <1>4
<1> QED BY <1>5 DEF Flow, EndedHere, Starters, h

LEMMA ClickPosted ==
  ASSUME NEW h \in Seq(Posts), NEW g, g = h \/ g = Append(h, "rec_click")
  PROVE  /\ OneStarter(h) => OneStarter(g)
         /\ NoStarter(h) => NoStarter(g)
         /\ NoStart2(h) => NoStart2(g)
         /\ h # <<>> => g # <<>> /\ Head(g) = Head(h)
<1>1. CASE g = h
  BY <1>1
<1>2. CASE g = Append(h, "rec_click")
  <2> DEFINE m == Len(h)
  <2>1. m \in Nat
    OBVIOUS
  <2>2. /\ g \in Seq(Posts) /\ Len(g) = m + 1 /\ g[m + 1] = "rec_click"
        /\ \A i \in 1..m : g[i] = h[i]
    BY <1>2, AppendProperties DEF Posts
  <2>3. g # <<>> /\ Head(g) = g[1]
    BY <2>1, <2>2
  <2>4. h # <<>> => m >= 1 /\ Head(h) = h[1]
    BY <2>1
  <2> HIDE DEF m
  <2>5. \A i \in 1..Len(g) : (i \in 1..m /\ g[i] = h[i]) \/ g[i] = "rec_click"
    BY <2>1, <2>2
  <2>6. "rec_click" \notin Starters /\ "rec_click" # "start_2"
    BY DEF Starters
  <2>7. OneStarter(h) => OneStarter(g)
    BY <2>5, <2>6 DEF OneStarter, m
  <2>8. NoStarter(h) => NoStarter(g)
    BY <2>5, <2>6 DEF NoStarter, m
  <2>9. NoStart2(h) => NoStart2(g)
    BY <2>5, <2>6 DEF NoStart2, m
  <2>10. h # <<>> => Head(g) = Head(h)
    BY <2>1, <2>2, <2>3, <2>4
  <2> QED BY <2>3, <2>7, <2>8, <2>9, <2>10
<1> QED BY <1>1, <1>2

\* infotrk_close, rectrk_close, convtrk_close: when the tags were read, the
\* track is going to be started.
LEMMA JobEndsFollow ==
  ASSUME AndroidInv, FollowInv, NEW j \in DOMAIN jobs, JobEnds(j)
  PROVE  FollowInv'
<1> DEFINE k == jobs[j].kind
           gone == k = "info" /\ \A l \in 1..Len(app.q.lists) : app.q.lists[l].id # jobs[j].list
           loop == IF k = "conv" THEN app.loop
                   ELSE Append(app.loop, IF k = "info" THEN "start_2" ELSE "rec_click")
           st == IF k = "rec" THEN "finished" ELSE "freed"
           n == jobs[j].calls + 1
<1>0. /\ app \in AppType /\ jobs \in [1..MaxJobs -> JobType] /\ DOMAIN jobs = 1..MaxJobs
      /\ app.loop \in Seq(Posts) /\ app.ask = 0
  BY JobsAre
<1>1. /\ jobs[j].st = "run" /\ disk' = disk /\ ses' = ses
      /\ app' = [app EXCEPT !.bad = gone, !.loop = loop]
      /\ jobs' = [jobs EXCEPT ![j].st = st, ![j].calls = n]
  BY DEF JobEnds
<1> HIDE DEF gone, loop
<1>2. app'.q = app.q /\ app'.t = app.t /\ app'.ask = 0 /\ app'.loop = loop /\ app'.ended = app.ended
  BY <1>0, <1>1 DEF AppType
<1>3. \A i \in 1..MaxJobs : InfoRuns(i)' => InfoRuns(i) /\ i # j
  <2>1. ASSUME NEW i \in 1..MaxJobs, i # j PROVE jobs'[i] = jobs[i]
    BY <1>0, <1>1, <2>1
  <2>2. jobs'[j].st = st
    <3>1. jobs[j] \in [kind : {"none", "info", "rec", "conv"}, list : Nat, calls : Nat,
                       st : {"none", "run", "stopping", "finished", "freed"}]
      BY <1>0 DEF JobType
    <3>2. jobs'[j] = [[jobs[j] EXCEPT !.st = st] EXCEPT !.calls = n]
      BY <1>0, <1>1
    <3> HIDE DEF st, n
    <3> QED BY <3>1, <3>2
  <2> QED BY <2>1, <2>2 DEF InfoRuns
<1>4. CASE k # "info"
  <2>1. loop = app.loop \/ loop = Append(app.loop, "rec_click")
    BY <1>4 DEF loop
  <2>2. /\ OneStarter(app.loop) => OneStarter(loop)
        /\ NoStarter(app.loop) => NoStarter(loop)
        /\ NoStart2(app.loop) => NoStart2(loop)
        /\ app.loop # <<>> => loop # <<>> /\ Head(loop) = Head(app.loop)
    BY <1>0, <2>1, ClickPosted
  <2>3. Split(app') = Split(app) /\ InList(app', app'.q.act, app'.q.cur) = InList(app, app.q.act, app.q.cur)
        /\ Entries(app') = Entries(app)
    BY <1>2 DEF Split, Entries, Items, InList
  <2>4. EndedHere(app) => EndedHere(app')
    BY <1>2, <2>2, <2>3 DEF EndedHere
  <2>5. Flow(app) => Flow(app')
    BY <1>0, <1>2, <2>2, <2>3, <2>4 DEF Flow
  <2> QED BY <1>1, <1>2, <1>3, <2>2, <2>5, KeptFollow
<1>5. CASE k = "info"
  <2>1. loop = Append(app.loop, "start_2")
    BY <1>5 DEF loop
  <2> SUFFICES ASSUME ~ses.moved, ~ses.crossed
               PROVE  /\ InOrder(app') /\ (\A i \in 1..4 : Ascending(disk'.files[i]))
                      /\ Flow(app')
                      /\ \A i \in 1..MaxJobs : InfoRuns(i)' => Waits(app')
                      /\ \A i, l \in 1..MaxJobs : InfoRuns(i)' /\ InfoRuns(l)' => i = l
    BY <1>1 DEF FollowInv
  <2>2. /\ InOrder(app) /\ (\A i \in 1..4 : Ascending(disk.files[i])) /\ Flow(app)
        /\ Waits(app) /\ \A i \in 1..MaxJobs : InfoRuns(i) => i = j
    BY <1>0, <1>1, <1>5 DEF FollowInv, InfoRuns
  <2>3. app.ended = 0
    BY <1>0, <2>2, NoneEnded DEF Waits
  <2>4. OneStarter(loop)
    BY <1>0, <2>1, <2>2, Posting DEF Waits, Posts
  <2>5. Flow(app')
    <3>1. EndedHere(app') /\ ~app'.q.active /\ app'.q.idx >= 0
      BY <1>2, <2>2, <2>3 DEF EndedHere, Waits
    <3> QED BY <1>2, <2>2, <2>4, <3>1 DEF Flow
  <2>6. InOrder(app')
    BY <1>2, <2>2 DEF InOrder, Items
  <2> QED BY <1>1, <1>3, <2>2, <2>5, <2>6
<1> QED BY <1>4, <1>5

-----------------------------------------------------------------------------
(* What follows a track that has ended.                                    *)

LEMMA LeastIs ==
  ASSUME NEW S \in SUBSET Nat, NEW m \in S, \A y \in S : m <= y
  PROVE  Min(S) = m
<1>1. \E x \in S : \A y \in S : x <= y
  OBVIOUS
<1>2. Min(S) \in S /\ \A y \in S : Min(S) <= y
  BY <1>1 DEF Min
<1>3. Min(S) <= m /\ m <= Min(S)
  BY <1>2
<1>4. Min(S) \in Nat /\ m \in Nat
  BY <1>2
<1> DEFINE n == Min(S)
<1> HIDE DEF n
<1>5. n = m
  BY <1>3, <1>4 DEF n
<1> QED BY <1>5 DEF n

\* The entries behind position cur are those that were added later.
LEMMA LaterIs ==
  ASSUME NEW h \in Seq(Nat), Ascending(h), NEW cur \in Int, NEW url \in Nat, cur <= Len(h),
         \A k \in 1..Len(h) : IF k <= cur THEN h[k] <= url ELSE url < h[k]
  PROVE  LET later == { u \in ToSet(h) : u > url }
             i == IF cur >= 0 THEN cur + 1 ELSE 1
         IN IF i \in 1..Len(h) THEN later # {} /\ Min(later) = h[i] ELSE later = {}
<1> DEFINE later == { u \in ToSet(h) : u > url }
           i == IF cur >= 0 THEN cur + 1 ELSE 1
           m == Len(h)
<1>1. m \in Nat /\ (\A k \in 1..m : h[k] \in Nat) /\ ToSet(h) = { h[k] : k \in 1..m }
  BY ElementOfSeq DEF ToSet
<1>2. /\ cur <= m /\ (\A k \in 1..m : IF k <= cur THEN h[k] <= url ELSE url < h[k])
      /\ \A k, l \in 1..m : k < l => h[k] < h[l]
  BY DEF Ascending
<1>3. \A u : u \in later <=> (\E k \in 1..m : u = h[k]) /\ u > url
  BY <1>1
<1>4. i \in Nat /\ i >= 1 /\ (\A k \in 1..m : k <= cur <=> k < i)
  BY <1>1
<1> HIDE DEF m, i, later
<1>5. \A u \in later : \E k \in 1..m : u = h[k] /\ i <= k
  <2> SUFFICES ASSUME NEW u \in later
               PROVE  \E k \in 1..m : u = h[k] /\ i <= k
    OBVIOUS
  <2>1. PICK k \in 1..m : u = h[k]
    BY <1>3
  <2>2. h[k] > url /\ h[k] \in Nat
    BY <1>1, <1>3, <2>1
  <2>3. ~(k <= cur)
    BY <1>2, <2>2
  <2> QED BY <1>4, <2>1, <2>3
<1>6. CASE i \in 1..m
  <2>1. h[i] \in later
    <3>1. ~(i <= cur)
      BY <1>4, <1>6
    <3>2. url < h[i] /\ h[i] \in Nat
      BY <1>1, <1>2, <1>6, <3>1
    <3> QED BY <1>3, <1>6, <3>2
  <2>2. \A u \in later : h[i] <= u
    BY <1>1, <1>2, <1>4, <1>5, <1>6
  <2>3. later \subseteq Nat
    BY <1>1, <1>3
  <2>4. Min(later) = h[i]
    BY <2>1, <2>2, <2>3, LeastIs
  <2> QED BY <1>6, <2>1, <2>4 DEF m, i, later
<1>7. CASE i \notin 1..m
  <2>1. \A k \in 1..m : ~(i <= k)
    BY <1>1, <1>4, <1>7
  <2>2. later = {}
    BY <1>5, <2>1
  <2> QED BY <1>7, <2>2 DEF m, i, later
<1> QED BY <1>6, <1>7

LEMMA HeadNone ==
  ASSUME NEW h \in Seq(Posts), h # <<>>, NoStarter(h)
  PROVE  Head(h) \notin Starters
<1> DEFINE m == Len(h)
<1>1. m \in Nat /\ m # 0 /\ Head(h) = h[1]
  OBVIOUS
<1>2. \A i \in 1..m : h[i] \notin Starters
  BY DEF NoStarter
<1> HIDE DEF m
<1>3. 1 \in 1..m
  BY <1>1
<1> QED BY <1>1, <1>2, <1>3

Taken(s) == [s EXCEPT !.loop = Tail(@), !.ended = 0]

LEMMA TakenIs ==
  ASSUME NEW s \in AppType, s.loop # <<>>
  PROVE  LET x == Taken(s)
         IN /\ x \in AppType /\ x.q = s.q /\ x.t = s.t /\ x.mp = s.mp /\ x.sys = s.sys
            /\ x.svc = s.svc /\ x.ask = s.ask /\ x.trec = s.trec /\ x.bad = s.bad
            /\ x.loop = Tail(s.loop) /\ x.ended = 0
            /\ (Player(s) => Player(x)) /\ (Cursor(s) => Cursor(x))
            /\ Entries(x) = Entries(s) /\ \A l : Items(x, l) = Items(s, l)
<1> DEFINE p == Tail(s.loop)
           x == [s EXCEPT !.loop = p, !.ended = 0]
<1>1. Taken(s) = x
  BY DEF Taken
<1>2. p \in Seq(Posts)
  BY HeadTailProperties DEF AppType
<1>3. p = Tail(s.loop)
  OBVIOUS
<1> HIDE DEF p
<1>4. /\ x \in AppType /\ x.q = s.q /\ x.t = s.t /\ x.mp = s.mp /\ x.sys = s.sys
      /\ x.svc = s.svc /\ x.ask = s.ask /\ x.trec = s.trec /\ x.bad = s.bad
      /\ x.loop = p /\ x.ended = 0
  BY <1>2 DEF AppType
<1> HIDE DEF x
<1>5. Player(s) => Player(x)
  BY <1>4 DEF Player
<1>6. Cursor(s) => Cursor(x)
  BY <1>4 DEF Cursor, HasList, InList, Items, IsId
<1>7. Entries(x) = Entries(s) /\ \A l : Items(x, l) = Items(s, l)
  BY <1>4 DEF Entries, Items
<1> QED BY <1>1, <1>3, <1>4, <1>5, <1>6, <1>7

\* When the looper takes a message that starts a track, nothing else is posted
\* that does, and none is open.
LEMMA TakenCalm ==
  ASSUME AndroidInv, FollowInv, ~ses.moved, ~ses.crossed, app.loop # <<>>,
         Head(app.loop) \in Starters
  PROVE  /\ Calm(Taken(app)) /\ Player(Taken(app)) /\ ~app.q.active
         /\ \A j \in 1..MaxJobs : ~InfoRuns(j)
         /\ Head(app.loop) = "start_2" => app.q.idx >= 0
<1> DEFINE x == Taken(app)
<1>0. app \in AppType /\ app.loop \in Seq(Posts) /\ Cursor(app) /\ Player(app) /\ app.ask = 0
  BY JobsAre
<1>1. InOrder(app) /\ Flow(app) /\ (\A j \in 1..MaxJobs : InfoRuns(j) => Waits(app))
  BY DEF FollowInv
<1>2. ~NoStarter(app.loop)
  BY <1>0, HeadNone
<1>3. NoStarter(Tail(app.loop)) /\ (Head(app.loop) = "start_2" => ~NoStart2(app.loop))
  BY <1>0, <1>1, Taking DEF Flow
<1>4. ~app.q.active /\ \A j \in 1..MaxJobs : ~InfoRuns(j)
  BY <1>1, <1>2 DEF Flow, Waits
<1>5. Head(app.loop) = "start_2" => app.q.idx >= 0
  BY <1>1, <1>3 DEF Flow
<1>6. /\ x \in AppType /\ x.q = app.q /\ x.ask = 0 /\ x.loop = Tail(app.loop) /\ x.ended = 0
      /\ Player(x) /\ Cursor(x) /\ Entries(x) = Entries(app)
  BY <1>0, TakenIs
<1> HIDE DEF x
<1>7. Ascending(Entries(app))
  BY <1>0, <1>1 DEF InOrder, Cursor, HasList, Entries
<1>8. Calm(x)
  BY <1>1, <1>3, <1>4, <1>6, <1>7 DEF Calm, Flow
<1> QED BY <1>4, <1>5, <1>6, <1>8 DEF x

LEMMA RunPostIs ==
  ASSUME RunPost
  PROVE  LET h == Head(app.loop)
             x == Taken(app)
         IN /\ app.loop # <<>> /\ HasJob /\ disk' = disk /\ ses' = ses
            /\ \/ h = "next" /\ \E r \in Picks : Asks(PlayDelta(x, 1, r, Conf))
               \/ h = "playcur" /\ Asks(Playcur(x, Conf))
               \/ h = "start_2" /\ Asks(Start3(x, Conf))
               \/ h = "rec_click" /\ RecClick(x)
BY DEF RunPost, Taken

LEMMA StartedFollow ==
  ASSUME AndroidInv, FollowInv, ~ses.moved, ~ses.crossed, app.loop # <<>>, HasJob,
         Head(app.loop) \in Starters, NEW s \in AppType, Flow(s), Orderly(Taken(app), s), Asks(s),
         disk' = disk, ses' = ses
  PROVE  FollowInv' /\ app'.t = s.t
<1>1. \A j \in 1..MaxJobs : ~InfoRuns(j)
  BY TakenCalm
<1>2. /\ Flow(app') /\ InOrder(app') = InOrder(s) /\ app'.t = s.t
      /\ \A j \in 1..MaxJobs : InfoRuns(j)' => Waits(app')
      /\ \A i, j \in 1..MaxJobs : InfoRuns(i)' /\ InfoRuns(j)' => i = j
  BY <1>1, AsksFollow
<1>3. InOrder(app) /\ \A i \in 1..4 : Ascending(disk.files[i])
  BY DEF FollowInv
<1>4. InOrder(s)
  <2>1. Taken(app).q = app.q
    BY TakenIs, JobsAre
  <2>2. InOrder(Taken(app))
    BY <1>3, <2>1 DEF InOrder, Items
  <2> QED BY <2>2 DEF InOrder, Orderly
<1> QED BY <1>2, <1>3, <1>4 DEF FollowInv

\* The looper runs what was posted.
LEMMA RunPostFollow ==
  ASSUME AndroidInv, FollowInv, RunPost
  PROVE  FollowInv'
<1> DEFINE x == Taken(app)
<1>0. ConfOk(Conf) /\ app \in AppType /\ Player(app) /\ app.q.act \in Nat
  BY ConfIsOk
<1>1. /\ app.loop # <<>> /\ HasJob /\ disk' = disk /\ ses' = ses
  BY RunPostIs
<1>2. CASE ses.moved \/ ses.crossed
  BY <1>1, <1>2 DEF FollowInv
<1>3. CASE Head(app.loop) = "rec_click" /\ RecClick(x)
  <2>1. /\ x \in AppType /\ x.q = app.q /\ x.t = app.t /\ x.ask = app.ask /\ x.trec = app.trec
        /\ x.ended = 0 /\ x.loop = Tail(app.loop)
    BY <1>0, <1>1, TakenIs
  <2> HIDE DEF x
  <2> QED BY <1>1, <1>3, <2>1, RecClickFollow
<1>4. CASE ~ses.moved /\ ~ses.crossed /\ ~(Head(app.loop) = "rec_click" /\ RecClick(x))
  <2>1. Head(app.loop) \in Starters
    BY <1>4, RunPostIs DEF Starters
  <2>2. /\ Calm(x) /\ Player(x) /\ x \in AppType
        /\ Head(app.loop) = "start_2" => x.q.idx >= 0
    BY <1>0, <1>1, <1>4, <2>1, TakenCalm, TakenIs
  <2>3. \/ \E r \in Picks : Asks(PlayDelta(x, 1, r, Conf))
        \/ Asks(Playcur(x, Conf))
        \/ Head(app.loop) = "start_2" /\ Asks(Start3(x, Conf))
    BY <1>4, RunPostIs
  <2> HIDE DEF x
  <2>4. ASSUME NEW s \in AppType, Flow(s), Orderly(x, s), Asks(s) PROVE FollowInv'
    BY <1>1, <1>4, <2>1, <2>4, StartedFollow DEF x
  <2>5. ASSUME NEW r \in Picks, Asks(PlayDelta(x, 1, r, Conf)) PROVE FollowInv'
    <3>1. r \in Int /\ 1 \in Int
      BY PicksInt
    <3>2. PlayDelta(x, 1, r, Conf) \in AppType
      BY <1>0, <2>2, <3>1, PlayDeltaSound DEF Sound, Keeps
    <3>3. Flow(PlayDelta(x, 1, r, Conf)) /\ Orderly(x, PlayDelta(x, 1, r, Conf))
      BY <1>0, <2>2, <3>1, PlayDeltaFlow
    <3> QED BY <2>4, <2>5, <3>2, <3>3
  <2>6. ASSUME Asks(Playcur(x, Conf)) PROVE FollowInv'
    <3>1. Playcur(x, Conf) \in AppType
      BY <1>0, <2>2, PlaycurSound DEF Sound, Keeps
    <3>2. Flow(Playcur(x, Conf)) /\ Orderly(x, Playcur(x, Conf))
      BY <1>0, <2>2, PlaycurFlow
    <3> QED BY <2>4, <2>6, <3>1, <3>2
  <2>7. ASSUME Head(app.loop) = "start_2", Asks(Start3(x, Conf)) PROVE FollowInv'
    <3>1. Start3(x, Conf) \in AppType
      BY <1>0, <2>2, Start3Sound DEF Sound, Keeps
    <3>2. Flow(Start3(x, Conf)) /\ Orderly(x, Start3(x, Conf))
      BY <1>0, <2>2, <2>7, Start3Flow
    <3> QED BY <2>4, <2>7, <3>1, <3>2
  <2> QED BY <2>3, <2>5, <2>6, <2>7
<1> QED BY <1>2, <1>3, <1>4

\* Queue.play_next, playcur: without Repeat and Random the next entry is the
\* one that was added next.
LEMMA NextIs ==
  ASSUME AndroidInv, FollowInv, RunPost, Head(app.loop) \in {"next", "playcur"}, app.ended # 0,
         ~ses.moved, ~ses.crossed, ~Conf.repeat, ~Conf.random
  PROVE  LET l == Items(app, app.q.act)
             later == { u \in ToSet(l) : u > app.ended }
         IN IF later # {} THEN app'.t.url = Min(later)
            ELSE app'.t.url \in {app.ended}
                   \union (IF Head(app.loop) = "next" THEN {} ELSE ToSet(l))
<1> DEFINE x == Taken(app)
           l == Items(app, app.q.act)
           later == { u \in ToSet(l) : u > app.ended }
           cur == app.q.cur
           m == Len(l)
           h == Head(app.loop)
<1>0. ConfOk(Conf) /\ app \in AppType /\ Player(app) /\ app.q.act \in Nat
  BY ConfIsOk
<1>1. /\ app.loop # <<>> /\ HasJob /\ disk' = disk /\ ses' = ses
  BY RunPostIs
<1>2. h \in Starters /\ Flow(app) /\ Cursor(app)
  BY JobsAre DEF Starters, FollowInv
<1>3. /\ Calm(x) /\ Player(x) /\ x \in AppType /\ x.q = app.q /\ x.t = app.t
      /\ Entries(x) = l /\ ~x.q.active
      /\ \A i : Items(x, i) = Items(app, i)
  BY <1>0, <1>1, <1>2, TakenCalm, TakenIs DEF Entries
<1> HIDE DEF x
<1>4. /\ cur \in Int /\ app.ended \in Nat /\ app.t.url = app.ended
      /\ l \in Seq(Nat) /\ m \in Nat /\ Ascending(l)
      /\ \/ h = "next" /\ InList(app, app.q.act, cur) /\ l[cur + 1] = app.ended
         \/ h = "playcur" /\ SplitAt(l, cur, app.ended)
  <2>1. l \in Seq(Nat) /\ m \in Nat
    BY <1>0, <1>2, ItemsType DEF Cursor
  <2>2. Ascending(l)
    BY <1>3 DEF Calm
  <2>3. cur \in Int /\ app.ended \in Nat
    BY <1>0 DEF AppType, QueueType
  <2> QED BY <1>2, <2>1, <2>2, <2>3 DEF Flow, EndedHere, Entries, Split
<1>5. l = Items(app, app.q.act) /\ later = { u \in ToSet(l) : u > app.ended }
      /\ \A p \in Int : InList(app, app.q.act, p) = (p \in 0..(m - 1))
  BY DEF InList
<1>6. ASSUME NEW s \in AppType, Flow(s), Orderly(x, s), Asks(s) PROVE app'.t = s.t
  BY <1>1, <1>2, <1>6, StartedFollow DEF x
<1>7. CASE h = "next"
  <2>1. PICK r \in Picks : Asks(PlayDelta(x, 1, r, Conf))
    BY <1>7, RunPostIs DEF x
  <2> DEFINE s == PlayDelta(x, 1, r, Conf)
  <2>2. r \in Int /\ 1 \in Int
    BY PicksInt
  <2>3. s \in AppType
    BY <1>0, <1>3, <2>2, PlayDeltaSound DEF Sound, Keeps
  <2>4. Flow(s) /\ Orderly(x, s)
    BY <1>0, <1>3, <2>2, PlayDeltaFlow
  <2>5. s.t.url = IF InList(x, x.q.act, x.q.cur + 1) THEN Entries(x)[x.q.cur + 1 + 1] ELSE x.t.url
    BY <1>0, <1>3, <2>2, PlayDeltaFlow
  <2>6. s.t.url = IF cur + 1 \in 0..(m - 1) THEN l[cur + 1 + 1] ELSE app.ended
    BY <1>3, <1>4, <2>5 DEF InList
  <2> HIDE DEF s
  <2>7. app'.t.url = s.t.url
    BY <1>6, <2>1, <2>3, <2>4 DEF s
  <2>8. cur \in 0..(m - 1) /\ l[cur + 1] = app.ended
    BY <1>4, <1>5, <1>7
  <2> DEFINE p == cur + 1
  <2>9. p \in Int /\ p <= m /\ p >= 0 /\ p \in 1..m /\ l[p] = app.ended
    BY <1>4, <2>8
  <2>10. \A k \in 1..m : IF k <= p THEN l[k] <= app.ended ELSE app.ended < l[k]
    <3>1. \A i, j \in 1..m : i < j => l[i] < l[j]
      BY <1>4 DEF Ascending
    <3>2. \A i \in 1..m : l[i] \in Nat
      BY <1>4, ElementOfSeq
    <3> HIDE DEF p, m, l
    <3> QED BY <1>4, <2>9, <3>1, <3>2
  <2>11. IF p + 1 \in 1..m THEN later # {} /\ Min(later) = l[p + 1] ELSE later = {}
    <3> HIDE DEF p, l
    <3> QED BY <1>4, <2>9, <2>10, LaterIs DEF m
  <2>12. (p + 1 \in 1..m) = (p \in 0..(m - 1))
    <3> HIDE DEF p, m
    <3> QED BY <1>4, <2>9
  <2>13. IF later # {} THEN app'.t.url = Min(later) ELSE app'.t.url = app.ended
    <3> HIDE DEF later, l, m
    <3> QED BY <2>6, <2>7, <2>11, <2>12
  <2> HIDE DEF later, l
  <2> QED BY <2>13 DEF later, l
<1>8. CASE h = "playcur"
  <2> DEFINE s == Playcur(x, Conf)
  <2>1. Asks(s)
    BY <1>8, RunPostIs DEF x
  <2>3. s \in AppType
    BY <1>0, <1>3, PlaycurSound DEF Sound, Keeps
  <2>4. Flow(s) /\ Orderly(x, s)
    BY <1>0, <1>3, PlaycurFlow
  <2>5. s.t.url = IF InList(x, x.q.act, x.q.cur) THEN Entries(x)[x.q.cur + 1]
                  ELSE IF InList(x, x.q.act, 0) THEN Entries(x)[1] ELSE x.t.url
    BY <1>0, <1>3, PlaycurFlow
  <2>6. s.t.url = IF cur \in 0..(m - 1) THEN l[cur + 1] ELSE IF 0 \in 0..(m - 1) THEN l[1] ELSE app.ended
    BY <1>3, <1>4, <2>5 DEF InList
  <2> HIDE DEF s
  <2>7. app'.t.url = s.t.url
    BY <1>6, <2>1, <2>3, <2>4
  <2>8. cur <= m /\ \A k \in 1..m : IF k <= cur THEN l[k] < app.ended ELSE app.ended < l[k]
    BY <1>4, <1>8 DEF SplitAt
  <2> DEFINE i == IF cur >= 0 THEN cur + 1 ELSE 1
  <2>9. \A k \in 1..m : l[k] \in Nat
    BY <1>4, ElementOfSeq
  <2>10. \A k \in 1..m : IF k <= cur THEN l[k] <= app.ended ELSE app.ended < l[k]
    <3> HIDE DEF l, m, cur
    <3> QED BY <1>4, <2>8, <2>9
  <2>11. IF i \in 1..m THEN later # {} /\ Min(later) = l[i] ELSE later = {}
    <3> HIDE DEF l, cur
    <3> QED BY <1>4, <2>8, <2>10, LaterIs DEF m
  <2>12. ToSet(l) = { l[k] : k \in 1..m }
    <3> HIDE DEF l
    <3>1. DOMAIN l = 1..m
      BY <1>4
    <3> QED BY <3>1 DEF ToSet
  <2>13. IF i \in 1..m THEN s.t.url = l[i] ELSE s.t.url \in {app.ended} \union ToSet(l)
    <3> HIDE DEF l, m, cur
    <3> QED BY <1>4, <2>6, <2>8, <2>12
  <2>14. IF later # {} THEN app'.t.url = Min(later) ELSE app'.t.url \in {app.ended} \union ToSet(l)
    <3> HIDE DEF l, m, i, later
    <3> QED BY <2>7, <2>11, <2>13
  <2> HIDE DEF later, l
  <2> QED BY <1>8, <2>14 DEF later, l, h
<1> QED BY <1>7, <1>8

-----------------------------------------------------------------------------
(* Commands about lists.                                                   *)

\* The active list and the position stay as they are.
LEMMA OtherFlow ==
  ASSUME NEW s, Calm(s), NEW r, Entries(r) = Entries(s), r.q.cur = s.q.cur, r.q.idx = s.q.idx,
         r.q.active = s.q.active, r.t = s.t, r.loop = s.loop, r.ask = s.ask, r.ended = s.ended
  PROVE  Flow(r)
<1>1. Split(r) = Split(s)
  BY DEF Split
<1>2. OneStarter(s.loop) /\ NoStart2(s.loop)
  BY CalmFlows, NoneIsOne DEF Calm, NoStarter, NoStart2, Starters
<1> QED BY <1>1, <1>2 DEF Calm, Flow, EndedHere

\* Queue.clear: in an empty list every position will do.
LEMMA ClearedFlow ==
  ASSUME NEW s, Calm(s), s.q.sel = s.q.act
  PROVE  Cleared(s) \in AppType /\ Flow(Cleared(s))
<1> DEFINE f == s.q.lists
           l == s.q.sel
           e1 == [f[l] EXCEPT !.items = <<>>]
           e == [e1 EXCEPT !.mod = TRUE]
           g == [f EXCEPT ![l] = e]
           P == [s.q EXCEPT !.lists = g]
           O == [P EXCEPT !.cur = -1]
           Q == [O EXCEPT !.idx = -1]
           r == [s EXCEPT !.q = Q]
<1>0. s \in AppType /\ s.q \in QueueType /\ f \in Seq(List) /\ l \in 1..Len(f) /\ l = s.q.act
  BY DEF Calm, Cursor, HasList, AppType, QueueType
<1>1. e \in List /\ e.items = <<>>
  <2>1. f[l] \in List /\ <<>> \in Seq(Nat)
    BY <1>0, ElementOfSeq
  <2>2. e1 \in List /\ e1.items = <<>>
    BY <2>1 DEF List
  <2> HIDE DEF e1
  <2> QED BY <2>2 DEF List
<1>2. Cleared(s) = r
  <2>1. Cleared(s) = [s EXCEPT !.q.lists[l] = e, !.q.cur = -1, !.q.idx = -1]
    BY DEF Cleared
  <2>2. [s EXCEPT !.q.lists[l] = e] = [s EXCEPT !.q = [s.q EXCEPT !.lists = g]]
    <3> HIDE DEF e
    <3> QED BY <1>0, ListPut
  <2>3. Cleared(s) = [[s EXCEPT !.q.lists[l] = e] EXCEPT !.q.cur = -1, !.q.idx = -1]
    <3> HIDE DEF e
    <3> QED BY <2>1
  <2> HIDE DEF e, g
  <2> QED BY <1>0, <2>2, <2>3 DEF AppType, QueueType
<1> HIDE DEF e
<1>3. g \in Seq(List) /\ g[l] = e
  <2>1. g \in Seq(List)
    BY <1>0, <1>1, ExceptSeq
  <2> QED BY <1>0, <2>1
<1> HIDE DEF g
<1>4. P \in QueueType /\ P.lists = g /\ P.active = s.q.active /\ P.act = l
  BY <1>0, <1>3 DEF QueueType
<1> HIDE DEF P
<1>5. O \in QueueType /\ O.lists = g /\ O.active = s.q.active /\ O.act = l /\ O.cur = -1
  BY <1>4 DEF QueueType
<1> HIDE DEF O
<1>6. /\ Q \in QueueType /\ Q.lists = g /\ Q.active = s.q.active /\ Q.act = l /\ Q.cur = -1
      /\ Q.idx = -1
  BY <1>5 DEF QueueType
<1> HIDE DEF Q
<1>7. /\ r \in AppType /\ r.q = Q /\ r.t = s.t /\ r.ask = s.ask /\ r.loop = s.loop
      /\ r.ended = s.ended
  BY <1>0, <1>6 DEF AppType
<1> HIDE DEF r
<1>8. Entries(r) = <<>> /\ r.q.cur = -1
  BY <1>1, <1>3, <1>6, <1>7 DEF Entries, Items
<1>9. Split(r)
  BY <1>8 DEF Split, SplitAt
<1>10. OneStarter(s.loop) /\ NoStart2(s.loop)
  BY NoneIsOne DEF Calm, NoStarter, NoStart2, Starters
<1>11. Flow(r)
  BY <1>6, <1>7, <1>9, <1>10 DEF Calm, Flow, EndedHere
<1> QED BY <1>2, <1>7, <1>11

\* The commands about lists.
LEMMA ListsFollow ==
  ASSUME AndroidInv, FollowInv,
         \/ ListNew \/ ListClear \/ ListClose \/ ListSwitch \/ ListNextAddCur \/ ListRm
         \/ FileDelCur \/ FileDel \/ ListAdd \/ ListSort \/ AutoStop
  PROVE  FollowInv'
<1>0. /\ app \in AppType /\ Player(app) /\ HasList(app, app.q.sel) /\ app.q.sel \in Nat
      /\ app.q \in QueueType /\ app.q.idx \in Int /\ app.dlg \in Int /\ app.q.made \in Nat
      /\ app.q.lists \in Seq(List) /\ Len(app.q.lists) \in Nat
  BY ConfIsOk DEF AppType, QueueType
<1>1. ASSUME NEW Q \in QueueType, Q.cur = app.q.cur, Q.idx = app.q.idx, Q.active = app.q.active,
             Q.act = app.q.act, HasList(app, app.q.act) => Q.lists[Q.act] = app.q.lists[Q.act],
             User([app EXCEPT !.q = Q], FALSE)
      PROVE  FollowInv'
  <2> DEFINE s == [app EXCEPT !.q = Q]
  <2>1. /\ s \in AppType /\ s.q = Q /\ s.t = app.t /\ s.loop = app.loop /\ s.ask = app.ask
        /\ s.ended = app.ended
    BY <1>0, <1>1 DEF AppType
  <2>2. User(s, FALSE)
    BY <1>1
  <2> HIDE DEF s
  <2>3. ASSUME Calm(app) PROVE Flow(s)
    <3>1. HasList(app, app.q.act)
      BY <2>3 DEF Calm, Cursor
    <3>2. Entries(s) = Entries(app)
      BY <1>1, <2>1, <3>1 DEF Entries, Items
    <3> QED BY <1>1, <2>1, <2>3, <3>2, OtherFlow
  <2> QED BY <2>1, <2>2, <2>3, UserFollow
<1>2. CASE ListNew
  <2> DEFINE f == app.q.lists
             e == [id |-> app.q.made + 1, items |-> <<>>, mod |-> FALSE]
             g == Append(f, e)
             P == [app.q EXCEPT !.lists = g]
             n == Len(f) + 1
             m == app.q.made + 1
             O == [P EXCEPT !.sel = n]
             Q == [O EXCEPT !.made = m]
  <2>1. User([app EXCEPT !.q = Q], FALSE)
    <3>1. [app EXCEPT !.q.lists = Append(@, e), !.q.sel = Len(app.q.lists) + 1, !.q.made = @ + 1]
            = [app EXCEPT !.q = Q]
      <4> HIDE DEF e
      <4> QED BY <1>0 DEF AppType, QueueType
    <3> QED BY <1>2, <3>1 DEF ListNew
  <2>2. e \in List
    <3>1. <<>> \in Seq(Nat)
      OBVIOUS
    <3> QED BY <1>0, <3>1 DEF List
  <2> HIDE DEF e
  <2>3. g \in Seq(List) /\ \A i \in 1..Len(f) : g[i] = f[i]
    BY <1>0, <2>2, AppendProperties
  <2> HIDE DEF g
  <2>4. n \in Nat /\ m \in Nat
    BY <1>0
  <2>5. /\ P \in QueueType /\ P.lists = g /\ P.active = app.q.active /\ P.act = app.q.act
        /\ P.idx = app.q.idx /\ P.cur = app.q.cur
    BY <1>0, <2>3 DEF QueueType
  <2> HIDE DEF P, n, m
  <2>6. /\ O \in QueueType /\ O.lists = g /\ O.active = app.q.active /\ O.act = app.q.act
        /\ O.idx = app.q.idx /\ O.cur = app.q.cur
    BY <2>4, <2>5 DEF QueueType
  <2> HIDE DEF O
  <2>7. /\ Q \in QueueType /\ Q.lists = g /\ Q.active = app.q.active /\ Q.act = app.q.act
        /\ Q.idx = app.q.idx /\ Q.cur = app.q.cur
    BY <2>4, <2>6 DEF QueueType
  <2> HIDE DEF Q
  <2>8. HasList(app, app.q.act) => Q.lists[Q.act] = app.q.lists[Q.act]
    BY <2>3, <2>7 DEF HasList
  <2> QED BY <1>1, <2>1, <2>7, <2>8
<1>3. CASE ListSwitch
  <2> DEFINE n == IndexNext(app, app.q.sel)
             Q == [app.q EXCEPT !.sel = n]
  <2>1. User([app EXCEPT !.q = Q], FALSE)
    <3>1. [app EXCEPT !.q.sel = IndexNext(app, @)] = [app EXCEPT !.q = Q]
      OBVIOUS
    <3> QED BY <1>3, <3>1 DEF ListSwitch
  <2>2. n \in Nat
    BY <1>0 DEF IndexNext
  <2> HIDE DEF n
  <2>3. /\ Q \in QueueType /\ Q.lists = app.q.lists /\ Q.active = app.q.active /\ Q.act = app.q.act
        /\ Q.idx = app.q.idx /\ Q.cur = app.q.cur
    BY <1>0, <2>2 DEF QueueType
  <2> HIDE DEF Q
  <2> QED BY <1>1, <2>1, <2>3
<1>4. CASE AutoStop
  <2> DEFINE a == IF app.q.astop = "off" THEN "armed" ELSE "off"
             Q == [app.q EXCEPT !.astop = a]
  <2>1. User([app EXCEPT !.q = Q], FALSE)
    <3>1. [app EXCEPT !.q.astop = IF @ = "off" THEN "armed" ELSE "off"] = [app EXCEPT !.q = Q]
      OBVIOUS
    <3> QED BY <1>4, <3>1 DEF AutoStop
  <2>2. /\ Q \in QueueType /\ Q.lists = app.q.lists /\ Q.active = app.q.active /\ Q.act = app.q.act
        /\ Q.idx = app.q.idx /\ Q.cur = app.q.cur
    BY <1>0 DEF QueueType
  <2> HIDE DEF Q
  <2> QED BY <1>1, <2>1, <2>2
<1>5. CASE ListSort
  <2>1. User([app EXCEPT !.q.lists[app.q.sel].items = Reverse(@)], TRUE)
    BY <1>5 DEF ListSort
  <2> QED BY <2>1, UserFollow
<1>6. ASSUME User(Cleared(app), app.q.sel # app.q.act) PROVE FollowInv'
  <2>1. (app.q.sel # app.q.act) \in BOOLEAN
    OBVIOUS
  <2> QED BY <1>6, <2>1, ClearedFlow, UserFollow
<1>7. CASE ListClear
  BY <1>6, <1>7 DEF ListClear
<1>8. CASE ListClose
  <2>1. CASE Len(app.q.lists) = 1
    BY <1>6, <1>8, <2>1 DEF ListClose
  <2>2. CASE Len(app.q.lists) # 1
    <3>1. PICK s : User(s, TRUE)
      BY <1>8, <2>2 DEF ListClose
    <3> QED BY <3>1, UserFollow
  <2> QED BY <2>1, <2>2
<1>9. ASSUME NEW s, User(s, FALSE), Calm(app) => Calm(s) PROVE FollowInv'
  <2>1. Calm(s) => s \in AppType /\ Flow(s)
    BY CalmFlows DEF Calm
  <2> QED BY <1>9, <2>1, UserFollow
<1>10. CASE ListNextAddCur
  <2>1. Calm(app) => Calm(NextListAddCur(app))
    BY <1>0, NextListAddCurCalm
  <2> QED BY <1>9, <1>10, <2>1 DEF ListNextAddCur
<1>11. CASE ListRm
  <2>1. User(RemoveEntry(app, app.q.idx), FALSE) /\ app.q.idx >= 0
    BY <1>11 DEF ListRm
  <2>1a. app.q.idx \in Nat
    BY <1>0, <2>1
  <2>2. Calm(app) => Calm(RemoveEntry(app, app.q.idx))
    BY <2>1a, RemoveCalm
  <2> QED BY <1>9, <2>1, <2>2
<1>12. CASE FileDelCur
  <2> DEFINE r == [app EXCEPT !.dlg = app.q.idx]
  <2>1. User(r, FALSE)
    BY <1>12 DEF FileDelCur
  <2>2. Alike(app, r)
    BY <1>0 DEF Alike, AppType
  <2> HIDE DEF r
  <2> QED BY <1>9, <2>1, <2>2, AlikeKeeps
<1>13. CASE FileDel
  <2> DEFINE x == RemoveEntry(app, app.dlg)
             r == [x EXCEPT !.dlg = -1]
  <2>1. User(r, FALSE) /\ app.dlg >= 0
    BY <1>13 DEF FileDel
  <2>1a. app.dlg \in Nat
    BY <1>0, <2>1
  <2>2. Calm(app) => Calm(x)
    BY <2>1a, RemoveCalm
  <2> HIDE DEF x
  <2>3. Calm(x) => Alike(x, r)
    BY DEF Calm, Alike, AppType
  <2> HIDE DEF r
  <2> QED BY <1>9, <2>1, <2>2, <2>3, AlikeKeeps
<1>14. CASE ListAdd
  <2>1. PICK u \in Urls : /\ app.t.url < u
                          /\ \A l \in 1..Len(app.q.lists) : \A v \in ToSet(Items(app, l)) : v < u
                          /\ User(AddTo(app, app.q.sel, u), FALSE)
    BY <1>14 DEF ListAdd
  <2>2. u \in Nat
    BY AndroidAssumption
  <2>3. ASSUME Calm(app) PROVE Calm(AddTo(app, app.q.sel, u))
    <3>1. HasList(app, app.q.act) /\ app.q.act \in Nat
      BY <2>3, ConfIsOk DEF Calm, Cursor
    <3>2. Entries(app) \in Seq(Nat)
      BY <1>0, <3>1, ItemsType DEF Entries
    <3>3. \A v \in ToSet(Entries(app)) : v < u
      BY <2>1, <3>1 DEF Entries, HasList
    <3>4. \A i \in 1..Len(Entries(app)) : Entries(app)[i] < u
      BY <3>2, <3>3 DEF ToSet
    <3> QED BY <1>0, <2>1, <2>2, <2>3, <3>4, AddToCalm
  <2> QED BY <1>9, <2>1, <2>3
<1> QED BY <1>2, <1>3, <1>4, <1>5, <1>7, <1>8, <1>10, <1>11, <1>12, <1>13, <1>14

-----------------------------------------------------------------------------
(* Saving the lists, and starting again.                                   *)

LEMMA ShortAscends ==
  /\ Ascending(<<>>) /\ Ascending(Absent)
BY DEF Ascending, Absent

\* Queue.saveconf
LEMMA SaveConfFollow ==
  ASSUME AndroidInv, FollowInv, SaveConf
  PROVE  FollowInv'
<1> DEFINE f == app.q.lists
           n == Len(f)
           h == [i \in 1..n |-> [f[i] EXCEPT !.mod = FALSE]]
           Q == [app.q EXCEPT !.lists = h]
           F == [i \in DOMAIN disk.files |->
                   IF i <= n /\ f[i].mod THEN Saved(app)[i]
                   ELSE IF i = n + 1 THEN Absent ELSE disk.files[i]]
           r == [app EXCEPT !.q = Q]
<1>0. /\ app \in AppType /\ app.q \in QueueType /\ f \in Seq(List) /\ n \in Nat
      /\ DOMAIN disk.files = 1..4 /\ ses \in SesType
  <2>1. app \in AppType /\ disk \in DiskType /\ ses \in SesType
    BY DEF AndroidInv, Basic, Types
  <2>2. app.q \in QueueType
    BY <2>1, PartsType
  <2>3. f \in Seq(List)
    BY <2>2 DEF QueueType
  <2>4. n \in Nat
    BY <2>3
  <2>5. DOMAIN disk.files = 1..4
    BY <2>1 DEF DiskType
  <2> QED BY <2>1, <2>2, <2>3, <2>4, <2>5
<1>1. /\ disk'.files = F /\ jobs' = jobs /\ app' = [app EXCEPT !.q.lists = h]
      /\ ses'.moved = ses.moved /\ ses'.crossed = ses.crossed
  <2>1. /\ disk' = [files |-> F, cur |-> app.q.cur, act |-> app.q.act] /\ jobs' = jobs
        /\ app' = [app EXCEPT !.q.lists = h] /\ ses' = [ses EXCEPT !.goal = Saved(app), !.saved = TRUE]
    BY Zenon DEF SaveConf
  <2> HIDE DEF F, h
  <2>2. ses'.moved = ses.moved /\ ses'.crossed = ses.crossed
    BY <1>0, <2>1 DEF SesType
  <2> QED BY <2>1, <2>2
<1>2. \A i \in 1..n : f[i] \in List
  BY <1>0, ElementOfSeq
<1>3. h \in Seq(List) /\ Len(h) = n /\ \A i \in 1..n : h[i].items = f[i].items
  <2>1. \A i \in 1..n : h[i] \in List /\ h[i].items = f[i].items
    BY <1>2 DEF List
  <2>2. h \in [1..n -> List]
    BY <2>1
  <2> HIDE DEF h
  <2> DEFINE m == n
  <2>3. m \in Nat /\ h \in [1..m -> List]
    BY <1>0, <2>2
  <2> HIDE DEF m
  <2>4. h \in Seq(List) /\ DOMAIN h = 1..m
    BY <2>3, IsASeq
  <2>5. Len(h) = m
    BY <2>3, <2>4, LenProperties
  <2>6. Len(h) = n
    BY <2>5 DEF m
  <2> QED BY <2>1, <2>4, <2>6 DEF h
<1>4. \A i \in 1..4 : /\ F[i] = IF i <= n /\ f[i].mod THEN Saved(app)[i]
                                ELSE IF i = n + 1 THEN Absent ELSE disk.files[i]
                      /\ i <= n => Saved(app)[i] = Items(app, i)
  BY <1>0 DEF Saved, Items
<1> HIDE DEF h, F
<1>5. app' = r
  BY Zenon, <1>1
<1>6. /\ Q \in QueueType /\ Q.lists = h /\ Q.active = app.q.active /\ Q.act = app.q.act
      /\ Q.cur = app.q.cur /\ Q.idx = app.q.idx
  BY <1>0, <1>3 DEF QueueType
<1> HIDE DEF Q
<1>7. /\ r.q = Q /\ r.t = app.t /\ r.loop = app.loop /\ r.ask = app.ask /\ r.ended = app.ended
  BY <1>0, <1>6 DEF AppType
<1> HIDE DEF r
<1> SUFFICES ASSUME ~ses.moved, ~ses.crossed
             PROVE  /\ InOrder(r) /\ (\A i \in 1..4 : Ascending(F[i]))
                    /\ Flow(r)
                    /\ \A j \in 1..MaxJobs : InfoRuns(j) => Waits(r)
                    /\ \A i, j \in 1..MaxJobs : InfoRuns(i) /\ InfoRuns(j) => i = j
  BY <1>1, <1>5 DEF FollowInv, InfoRuns
<1>8. /\ InOrder(app) /\ (\A i \in 1..4 : Ascending(disk.files[i])) /\ Flow(app)
      /\ \A j \in 1..MaxJobs : InfoRuns(j) => Waits(app)
      /\ \A i, j \in 1..MaxJobs : InfoRuns(i) /\ InfoRuns(j) => i = j
  BY DEF FollowInv
<1>9. \A i \in 1..n : Items(r, i) = Items(app, i)
  BY <1>3, <1>6, <1>7 DEF Items
<1>10. InOrder(r)
  BY <1>3, <1>6, <1>7, <1>8, <1>9 DEF InOrder
<1>11. \A i \in 1..4 : Ascending(F[i])
  <2> SUFFICES ASSUME NEW i \in 1..4 PROVE Ascending(F[i])
    OBVIOUS
  <2>1. i <= n => Ascending(Items(app, i))
    BY <1>0, <1>8 DEF InOrder
  <2> QED BY <1>4, <1>8, <2>1, ShortAscends
<1>12. Entries(r) = Entries(app) /\ InList(r, r.q.act, r.q.cur) = InList(app, app.q.act, app.q.cur)
  <2>1. app.q.act \in 1..n
    BY JobsAre DEF Cursor, HasList
  <2>2. Items(r, app.q.act) = Items(app, app.q.act)
    BY <1>9, <2>1
  <2> QED BY <1>6, <1>7, <2>2 DEF Entries, InList
<1>13. Split(r) = Split(app)
  BY <1>6, <1>7, <1>12 DEF Split
<1>14. EndedHere(app) => EndedHere(r)
  BY <1>6, <1>7, <1>12, <1>13 DEF EndedHere
<1>15. Flow(r)
  BY <1>6, <1>7, <1>8, <1>13, <1>14 DEF Flow
<1>16. Waits(app) => Waits(r)
  BY <1>6, <1>7 DEF Waits
<1> QED BY <1>8, <1>10, <1>11, <1>15, <1>16

\* Queue.load: after a start nothing is posted and no track is open.
LEMMA LoadedFlow ==
  ASSUME NEW d \in DiskType
  PROVE  /\ Flow(Loaded(d))
         /\ (\A i \in 1..4 : Ascending(d.files[i])) => InOrder(Loaded(d))
<1> DEFINE r == Loaded(d)
           L == r.q.lists
<1>1. /\ r.q.active = FALSE /\ r.q.idx = -1 /\ r.loop = <<>> /\ r.ask = 0 /\ r.ended = 0
  BY DEF Loaded
<1>2. Len(L) \in 1..4 /\ \A i \in 1..Len(L) : L[i].items \in {<<>>, d.files[i]}
  BY LoadedIs
<1> HIDE DEF r
<1>3. Flow(r)
  BY <1>1 DEF Flow, EndedHere, OneStarter, NoStart2
<1>4. ASSUME \A i \in 1..4 : Ascending(d.files[i]) PROVE InOrder(r)
  <2>1. \A i \in 1..Len(L) : i \in 1..4
    BY <1>2
  <2>2. \A i \in 1..Len(L) : Ascending(L[i].items)
    BY <1>2, <1>4, <2>1, ShortAscends
  <2> QED BY <2>2 DEF InOrder, Items
<1> QED BY <1>3, <1>4 DEF r

LEMMA RestartFollow ==
  ASSUME AndroidInv, FollowInv, Restart
  PROVE  FollowInv'
<1>1. /\ app' = Loaded(disk) /\ disk' = disk /\ jobs' = [j \in DOMAIN jobs |-> Job0]
      /\ ses' = [ses EXCEPT !.starts = @ + 1, !.fresh = Saved(app) = ses.goal, !.saved = FALSE]
  BY DEF Restart
<1>2. disk \in DiskType /\ ses \in SesType /\ DOMAIN jobs = 1..MaxJobs
  BY DEF AndroidInv, Basic, Types
<1>3. ses'.moved = ses.moved /\ ses'.crossed = ses.crossed
  BY <1>1, <1>2 DEF SesType
<1>4. \A j \in 1..MaxJobs : ~InfoRuns(j)'
  BY <1>1, <1>2 DEF InfoRuns, Job0
<1> QED BY <1>1, <1>2, <1>3, <1>4, LoadedFlow DEF FollowInv

LEMMA InitFollow ==
  ASSUME AppInit
  PROVE  FollowInv
<1> DEFINE f == [i \in 1..4 |-> IF i <= Len(Lists0) THEN Lists0[i] ELSE Absent]
           L == app.q.lists
           m == Len(Lists0)
<1>1. /\ disk = [files |-> f, cur |-> -1, act |-> 1] /\ app = Loaded(disk)
      /\ jobs = [j \in 1..MaxJobs |-> Job0] /\ ses.crossed = ~InOrder(app)
  BY DEF AppInit
<1>2. disk \in DiskType
  BY InitInv DEF AndroidInv, Basic, Types
<1>3. /\ m \in 0..3 /\ \A i \in 1..m : Lists0[i] # Absent
      /\ \A i \in 1..4 : f[i] = IF i <= m THEN Lists0[i] ELSE Absent
  <2>1. m \in Nat /\ m <= 3 /\ \A i \in 1..m : Lists0[i] \in Seq(Urls)
    BY AndroidAssumption
  <2>2. \A i \in 1..m : Lists0[i] \in Seq(Nat)
    <3>1. Urls \subseteq Nat
      BY AndroidAssumption
    <3> QED BY <2>1, <3>1, SeqMonotonic
  <2>3. \A i \in 1..m : Lists0[i] # Absent
    BY <2>2, NotAbsent
  <2>4. \A i \in 1..4 : f[i] = IF i <= m THEN Lists0[i] ELSE Absent
    OBVIOUS
  <2> HIDE DEF f, m
  <2>5. m \in 0..3
    BY <2>1
  <2> QED BY <2>3, <2>4, <2>5
<1> HIDE DEF m, f
<1>4. disk.files = f
  BY <1>1
<1>5. ASSUME ~ses.crossed
      PROVE  InOrder(app) /\ \A i \in 1..4 : Ascending(disk.files[i])
  <2>1. InOrder(app)
    BY <1>1, <1>5 DEF InOrder
  <2>2. ASSUME NEW i \in 1..4 PROVE Ascending(f[i])
    <3>1. CASE i <= m
      <4>1. m \in 1..3 /\ i \in 1..m
        BY <1>3, <3>1
      <4>2. f[m + 1] = Absent /\ \A k \in 1..m : f[k] # Absent
        BY <1>3, <4>1
      <4>3. Len(L) = m /\ L[i].items = f[i]
        BY <1>1, <1>2, <1>4, <4>1, <4>2, LoadedIs
      <4> QED BY <2>1, <4>1, <4>3 DEF InOrder, Items
    <3>2. CASE ~(i <= m)
      BY <1>3, <3>2, ShortAscends
    <3> QED BY <3>1, <3>2
  <2> QED BY <1>4, <2>1, <2>2
<1>6. Flow(app)
  BY <1>1, <1>2, LoadedFlow
<1>7. \A j \in 1..MaxJobs : ~InfoRuns(j)
  BY <1>1 DEF InfoRuns, Job0
<1> QED BY <1>5, <1>6, <1>7 DEF FollowInv

LEMMA NextFollow ==
  ASSUME AndroidInv, FollowInv, [AppNext]_appVars
  PROVE  FollowInv'
<1>1. CASE UserNext
  BY <1>1, PlayFollows, ListsFollow, JobsFollow DEF UserNext
<1>2. CASE SelfNext \/ Timer
  <2>1. ASSUME NEW j \in DOMAIN jobs, JobEnds(j) \/ JobStops(j) PROVE FollowInv'
    BY <2>1, JobEndsFollow, JobsFollow
  <2> QED BY <1>2, <2>1, EventsFollow, RunPostFollow DEF SelfNext
<1>3. CASE AutoStopExpires
  BY <1>3, JobsFollow
<1>4. CASE SaveConf
  BY <1>4, SaveConfFollow
<1>5. CASE Restart
  BY <1>5, RestartFollow
<1>6. CASE UNCHANGED appVars
  <2>1. app' = app /\ jobs' = jobs /\ disk' = disk /\ ses' = ses
    BY <1>6 DEF appVars
  <2>2. \A j \in 1..MaxJobs : InfoRuns(j)' => InfoRuns(j)
    BY <2>1 DEF InfoRuns
  <2> QED BY <2>1, <2>2, KeptFollow
<1> QED BY <1>1, <1>2, <1>3, <1>4, <1>5, <1>6 DEF AppNext, AppOver

-----------------------------------------------------------------------------
(* The theorems.                                                           *)

\* The invariant: at most one message or native track is going to start a
\* track, the lists and their files are in order, and the position is that of
\* the track that plays or has ended, or the place where it was.
THEOREM FollowInvariant == AppSpec => [](AndroidInv /\ FollowInv)
<1>1. AppInit => AndroidInv /\ FollowInv
  BY InitInv, InitFollow
<1>2. AndroidInv /\ FollowInv /\ [AppNext]_appVars => (AndroidInv /\ FollowInv)'
  BY NextInv, NextFollow
<1> QED BY <1>1, <1>2, PTL DEF AppSpec

\* Queue.on_close, play_next, playcur, play_delta: without Repeat and Random a
\* track that has ended or failed is followed by the entry that was added next,
\* though it may have been removed from the list; behind the last one the
\* playing ends, or begins anew if the last one was removed.
THEOREM NextIsFollowed == AppSpec => NextFollows
<1> DEFINE A == LET l == Items(app, app.q.act)
                    later == { u \in ToSet(l) : u > app.ended }
                    head == Head(app.loop)
                IN /\ RunPost /\ head \in {"next", "playcur"}
                   /\ app.ended # 0 /\ ~ses.moved /\ ~ses.crossed /\ ~Conf.repeat /\ ~Conf.random
                   => IF later # {} THEN app'.t.url = Min(later)
                      ELSE app'.t.url \in {app.ended}
                             \union (IF head = "next" THEN {} ELSE ToSet(l))
<1>1. AndroidInv /\ FollowInv => A
  BY NextIs
<1>2. NextFollows <=> [][A]_appVars
  BY PTL DEF NextFollows
<1> HIDE DEF A
<1>3. AndroidInv /\ FollowInv /\ [AppNext]_appVars => [A]_appVars
  BY <1>1
<1> QED BY <1>2, <1>3, FollowInvariant, PTL DEF AppSpec

=============================================================================
