----------------------------- MODULE JobProofs -----------------------------
(* The job table for any number of children, pids and jobs: what makejob(),  *)
(* forkparent(), dowait(), freejob() and getjob() do to it, and that a       *)
(* status goes to the entry of its own child.                                *)
EXTENDS JobTable, TLAPS

Proc  == [state : {"none", "running", "zombie"}, id : Nat]

(* The list from curjob holds the jobs in use, each once. *)
Listed(t) ==
    /\ \A i \in DOMAIN t.cur : t.cur[i] \in DOMAIN t.tab /\ t.tab[t.cur[i]].used
    /\ \A j \in DOMAIN t.tab :
         /\ t.tab[j].used => \E i \in DOMAIN t.cur : t.cur[i] = j
         /\ ~t.tab[j].used => t.tab[j].ps = << >>
    /\ \A i, k \in DOMAIN t.cur : t.cur[i] = t.cur[k] => i = k

(* Jobs further down the list are older; in a job, the processes are in the  *)
(* order of their forks and have different pids.                             *)
Above(a, b) == \A m \in DOMAIN a, n \in DOMAIN b : b[n].id < a[m].id

Ordered(s, n) ==
    \A m \in DOMAIN s :
        /\ s[m].id <= n
        /\ \A l \in DOMAIN s : l < m => s[l].id < s[m].id /\ s[l].pid # s[m].pid

Numbered(t, n) ==
    /\ \A i, k \in DOMAIN t.cur : i < k => Above(t.tab[t.cur[i]].ps, t.tab[t.cur[k]].ps)
    /\ \A j \in DOMAIN t.tab : Ordered(t.tab[j].ps, n)

(* An entry without a status is that of a child; one with a status may have  *)
(* a pid that a younger child has now.                                       *)
EntryOK(e, state, pr, str) ==
    /\ e.id \notin str /\ e.status \in {Unset, e.id} \cup str
    /\ e.status = Unset => state = "running" /\ pr[e.pid].state # "none" /\ pr[e.pid].id = e.id
    /\ pr[e.pid].state # "none" => e.id <= pr[e.pid].id

AllOK(s, state, pr, str) == \A m \in DOMAIN s : EntryOK(s[m], state, pr, str)

Expected(s, p, id) ==
    \E m \in DOMAIN s : s[m].pid = p /\ s[m].status = Unset /\ s[m].id = id

Known(t, p, id) == \E j \in DOMAIN t.tab : Expected(t.tab[j].ps, p, id)

Credits(t, pr, str) ==
    /\ \A j \in DOMAIN t.tab : AllOK(t.tab[j].ps, t.tab[j].state, pr, str)
    /\ \A p \in Pids : pr[p].state # "none" => pr[p].id \in str \/ Known(t, p, pr[p].id)

Sound(t, pr, n, str) ==
    /\ t \in Table /\ pr \in [Pids -> Proc] /\ n \in Nat /\ str \subseteq 0..n
    /\ \A p \in Pids : pr[p].id <= n
    /\ Listed(t) /\ Numbered(t, n) /\ Credits(t, pr, str)

(* A background job is owed a message when "ow" has its last process; it has *)
(* not been marked then, and is still there.                                 *)
LastIs(s, id) == s # << >> /\ s[Len(s)].id = id

Owes(t, ow) ==
    /\ \A id \in ow : \E j \in DOMAIN t.tab : LastIs(t.tab[j].ps, id)
    /\ \A j \in DOMAIN t.tab : \A id \in ow : t.tab[j].waited => ~LastIs(t.tab[j].ps, id)

(* The job that the frame above main() works on. *)
Unowed(s, ow) == \A m \in DOMAIN s : s[m].id \notin ow

Unwaited(s) == \A m \in DOMAIN s : s[m].status = Unset

Kept(g, f) == g.op = f.op /\ g.j = f.j /\ g.st = f.st

FrameJob(f, t, ow) ==
    /\ f.op = "launch" =>
         /\ t.cur # << >> /\ f.j = t.cur[1] /\ t.tab[f.j].state = "running"
         /\ ~t.tab[f.j].waited /\ Unowed(t.tab[f.j].ps, ow) /\ Unwaited(t.tab[f.j].ps)
         /\ f.st \in Nat /\ Len(t.tab[f.j].ps) + f.st > 0
    /\ f.op = "waitforjob" =>
         /\ f.j \in DOMAIN t.tab /\ t.tab[f.j].used
         /\ ~t.tab[f.j].waited /\ Unowed(t.tab[f.j].ps, ow)
    /\ f.op \in {"waitcmd", "showjobs"} =>
         f.j = 0 \/ (f.j \in DOMAIN t.tab /\ t.tab[f.j].used)

-----------------------------------------------------------------------------
(* The list of jobs. *)
LEMMA PlaceOf ==
  ASSUME NEW t \in Table, NEW js, NEW i, i = Place(t, js)
  PROVE  \/ i = 0 /\ ~\E b \in DOMAIN t.cur : t.cur[b] \in js /\ \A k \in 1 .. b - 1 : t.cur[k] \notin js
         \/ i \in DOMAIN t.cur /\ t.cur[i] \in js /\ \A k \in 1 .. i - 1 : t.cur[k] \notin js
BY Zenon DEF Place

(* A job that only later ones of the set follow in the list. *)
LEMMA PlaceIs ==
  ASSUME NEW t \in Table, NEW js, NEW b \in DOMAIN t.cur, t.cur[b] \in js,
         \A k \in DOMAIN t.cur : k < b => t.cur[k] \notin js
  PROVE  Place(t, js) = b
<1> DEFINE i == Place(t, js)
<1>1. t.cur \in Seq(Nat) /\ DOMAIN t.cur = 1..Len(t.cur) /\ Len(t.cur) \in Nat
  BY DEF Table
<1>2. ASSUME NEW k \in 1 .. b - 1 PROVE t.cur[k] \notin js
  <2>1. k \in DOMAIN t.cur /\ k < b
    BY <1>1, SMTT(60)
  <2> QED BY <2>1
<1>3. i \in DOMAIN t.cur /\ t.cur[i] \in js /\ \A k \in 1 .. i - 1 : t.cur[k] \notin js
  BY <1>2, PlaceOf
<1> HIDE DEF i
<1>4. i \in Nat /\ b \in Nat /\ ~(i < b) /\ ~(b < i)
  BY <1>1, <1>3, SMTT(60)
<1> QED BY <1>4 DEF i

(* A job is found at the one place it has in the list from curjob. *)
LEMMA PlaceFound ==
  ASSUME NEW t \in Table, Listed(t), NEW j, NEW b \in DOMAIN t.cur, t.cur[b] = j
  PROVE  Place(t, {j}) = b
<1>1. \A k \in DOMAIN t.cur : k < b => t.cur[k] \notin {j}
  <2>1. DOMAIN t.cur \subseteq Nat
    BY DEF Table
  <2> QED BY <2>1 DEF Listed
<1>2. t.cur[b] \in {j}
  OBVIOUS
<1> QED BY <1>1, <1>2, PlaceIs

(* Where a job of the list is found once the job j is gone. *)
Back(k, at) == IF k < at THEN k ELSE k + 1

(* The list without one job. *)
LEMMA RestOf ==
  ASSUME NEW t \in Table, Listed(t), NEW j, \E i \in DOMAIN t.cur : t.cur[i] = j
  PROVE  LET r  == Rest(t, j)
             at == Place(t, {j})
         IN /\ r \in Seq(Nat) /\ Len(r) = Len(t.cur) - 1
            /\ at \in DOMAIN t.cur /\ t.cur[at] = j
            /\ \A k \in DOMAIN r : Back(k, at) \in DOMAIN t.cur /\ r[k] = t.cur[Back(k, at)]
<1> DEFINE at == Place(t, {j})
           c == t.cur
           a == SubSeq(c, 1, at - 1)
           b == SubSeq(c, at + 1, Len(c))
<1>1. at \in DOMAIN c /\ c[at] = j
  BY PlaceFound
<1>2. c \in Seq(Nat)
  BY DEF Table
<1>3. Rest(t, j) = a \o b
  BY DEF Rest
<1> HIDE DEF at, c
<1>4. at \in 1..Len(c) /\ Len(c) \in Nat
  BY <1>1, <1>2
<1>5. a \in Seq(Nat) /\ Len(a) = at - 1 /\ \A k \in 1..(at - 1) : a[k] = c[k]
  BY <1>2, <1>4
<1>6. b \in Seq(Nat) /\ Len(b) = Len(c) - at /\ \A k \in 1..(Len(c) - at) : b[k] = c[at + k]
  <2>1. b \in Seq(Nat) /\ Len(b) = Len(c) - at
    BY ONLY <1>2, <1>4
  <2>2. \A k \in 1..(Len(c) - at) : b[k] = c[at + k]
    BY ONLY <1>2, <1>4
  <2> QED BY <2>1, <2>2
<1> HIDE DEF a, b
<1> DEFINE r == a \o b
<1>7. r \in Seq(Nat) /\ Len(r) = Len(c) - 1
  BY <1>4, <1>5, <1>6
<1>8. ASSUME NEW k \in DOMAIN r PROVE Back(k, at) \in DOMAIN c /\ r[k] = c[Back(k, at)]
  <2>1. k \in 1..(Len(c) - 1) /\ DOMAIN c = 1..Len(c)
    BY <1>2, <1>7
  <2>2. CASE k < at
    BY <1>4, <1>5, <1>6, <2>1, <2>2 DEF Back
  <2>3. CASE ~(k < at)
    <3>1. r[k] = b[k - (at - 1)]
      BY <1>4, <1>5, <1>6, <2>1, <2>3, SMTT(60)
    <3>2. k - (at - 1) \in 1..(Len(c) - at) /\ at + (k - (at - 1)) = k + 1
      BY <1>4, <2>1, <2>3
    <3> DEFINE q == k - (at - 1)
    <3> HIDE DEF q
    <3>3. b[q] = c[at + q]
      BY <1>6, <3>2 DEF q
    <3>4. r[k] = c[k + 1]
      BY <3>1, <3>2, <3>3 DEF q
    <3> HIDE DEF r
    <3> QED BY <1>4, <2>1, <2>3, <3>4 DEF Back
  <2> QED BY <2>2, <2>3
<1> HIDE DEF r
<1> QED BY <1>1, <1>3, <1>7, <1>8, Zenon DEF r, at, c

(* What freejob() changes. *)
LEMMA FreeView ==
  ASSUME NEW t \in Table, Listed(t), NEW j \in DOMAIN t.tab, t.tab[j].used, NEW u, u = freejob(t, j)
  PROVE  /\ u \in Table /\ u.cur = Rest(t, j) /\ DOMAIN u.tab = DOMAIN t.tab
         /\ \A i \in DOMAIN t.tab : u.tab[i] = IF i = j THEN FreeSlot ELSE t.tab[i]
<1> DEFINE v == [t EXCEPT !.tab[j] = FreeSlot]
<1>1. FreeSlot \in Job
  BY DEF FreeSlot, Job
<1>2. /\ v \in Table /\ v.cur = t.cur /\ DOMAIN v.tab = DOMAIN t.tab
      /\ \A i \in DOMAIN t.tab : v.tab[i] = IF i = j THEN FreeSlot ELSE t.tab[i]
  <2> DEFINE x == [t.tab EXCEPT ![j] = FreeSlot]
  <2>1. t.tab \in Seq(Job)
    BY DEF Table
  <2>2. /\ x \in Seq(Job) /\ DOMAIN x = DOMAIN t.tab
        /\ \A i \in DOMAIN t.tab : x[i] = IF i = j THEN FreeSlot ELSE t.tab[i]
    BY <1>1, <2>1
  <2>3. v = [t EXCEPT !.tab = x]
    OBVIOUS
  <2> HIDE DEF v, x
  <2> QED BY <2>2, <2>3 DEF Table
<1>4. u = [v EXCEPT !.cur = Rest(v, j)]
  BY DEF freejob, set_curjob
<1> HIDE DEF v
<1>3. Rest(v, j) = Rest(t, j)
  BY <1>2 DEF Rest, Place
<1>5. Rest(t, j) \in Seq(Nat)
  BY RestOf, Zenon DEF Listed
<1> QED BY <1>2, <1>3, <1>4, <1>5, Zenon DEF Table

(* What remains of the list, in the same order. *)
LEMMA Thinned ==
  ASSUME NEW t \in Table, Listed(t), NEW j \in DOMAIN t.tab, t.tab[j].used, NEW r, r = Rest(t, j)
  PROVE  /\ r \in Seq(Nat)
         /\ \A k \in DOMAIN r : \E i \in DOMAIN t.cur : r[k] = t.cur[i] /\ t.cur[i] # j
         /\ \A i \in DOMAIN t.cur : t.cur[i] # j => \E k \in DOMAIN r : r[k] = t.cur[i]
         /\ \A k, l \in DOMAIN r : k < l =>
              \E i, m \in DOMAIN t.cur : i < m /\ r[k] = t.cur[i] /\ r[l] = t.cur[m]
         /\ \A k, l \in DOMAIN r : r[k] = r[l] => k = l
<1> DEFINE at == Place(t, {j})
           c == t.cur
<1>1. /\ r \in Seq(Nat) /\ Len(r) = Len(c) - 1
      /\ at \in DOMAIN c /\ c[at] = j
      /\ \A k \in DOMAIN r : Back(k, at) \in DOMAIN c /\ r[k] = c[Back(k, at)]
  <2>1. \E i \in DOMAIN t.cur : t.cur[i] = j
    BY DEF Listed
  <2>2. /\ Rest(t, j) \in Seq(Nat) /\ Len(Rest(t, j)) = Len(c) - 1
        /\ at \in DOMAIN c /\ c[at] = j
        /\ \A k \in DOMAIN Rest(t, j) : Back(k, at) \in DOMAIN c /\ Rest(t, j)[k] = c[Back(k, at)]
    BY <2>1, RestOf, Zenon
  <2> HIDE DEF at, c
  <2> QED BY <2>2
<1>2. \A i, k \in DOMAIN c : c[i] = c[k] => i = k
  BY DEF Listed
<1>3. c \in Seq(Nat)
  BY DEF Table
<1> HIDE DEF at, c
<1>4. DOMAIN r = 1..(Len(c) - 1) /\ DOMAIN c = 1..Len(c) /\ at \in 1..Len(c) /\ Len(c) \in Nat
  BY <1>1, <1>3
<1>5. ASSUME NEW k \in DOMAIN r PROVE \E i \in DOMAIN c : r[k] = c[i] /\ c[i] # j
  <2>1. Back(k, at) # at
    BY <1>4 DEF Back
  <2> QED BY <1>1, <1>2, <2>1
<1>6. ASSUME NEW i \in DOMAIN c, c[i] # j PROVE \E k \in DOMAIN r : r[k] = c[i]
  <2>1. i # at
    BY <1>1, <1>6
  <2>2. CASE i < at
    <3>1. i \in DOMAIN r /\ Back(i, at) = i
      BY <1>4, <2>2 DEF Back
    <3> QED BY <1>1, <3>1
  <2>3. CASE i > at
    <3>1. i - 1 \in DOMAIN r /\ Back(i - 1, at) = i
      BY <1>4, <2>3 DEF Back
    <3> QED BY <1>1, <3>1
  <2> QED BY <1>4, <2>1, <2>2, <2>3
<1>7. ASSUME NEW k \in DOMAIN r, NEW l \in DOMAIN r, k < l
      PROVE  \E i, m \in DOMAIN c : i < m /\ r[k] = c[i] /\ r[l] = c[m]
  <2>1. Back(k, at) < Back(l, at)
    BY <1>4, <1>7 DEF Back
  <2> QED BY <1>1, <2>1
<1>8. ASSUME NEW k \in DOMAIN r, NEW l \in DOMAIN r, r[k] = r[l] PROVE k = l
  <2>1. Back(k, at) = Back(l, at)
    BY <1>1, <1>2, <1>8
  <2> QED BY <1>4, <2>1 DEF Back
<1> QED BY <1>1, <1>5, <1>6, <1>7, <1>8 DEF c

(* Freeing a job: its children that have not been waited for become strays. *)
LEMMA FreeSound ==
  ASSUME NEW t, NEW pr, NEW n, NEW str, Sound(t, pr, n, str),
         NEW j \in DOMAIN t.tab, t.tab[j].used, NEW S, str \subseteq S, S \subseteq 0..n,
         \A p \in Pids, id \in Nat : Expected(t.tab[j].ps, p, id) => id \in S,
         \A i \in DOMAIN t.tab : i # j => AllOK(t.tab[i].ps, t.tab[i].state, pr, S),
         NEW u, u = freejob(t, j)
  PROVE  Sound(u, pr, n, S)
<1> DEFINE r == Rest(t, j)
<1>0. /\ t \in Table /\ Listed(t) /\ Numbered(t, n) /\ Credits(t, pr, str)
      /\ pr \in [Pids -> Proc] /\ n \in Nat /\ \A p \in Pids : pr[p].id <= n
  BY DEF Sound
<1>1. /\ u \in Table /\ u.cur = r /\ DOMAIN u.tab = DOMAIN t.tab
      /\ \A i \in DOMAIN t.tab : u.tab[i] = IF i = j THEN FreeSlot ELSE t.tab[i]
  BY <1>0, FreeView
<1>2. /\ \A k \in DOMAIN r : \E i \in DOMAIN t.cur : r[k] = t.cur[i] /\ t.cur[i] # j
      /\ \A i \in DOMAIN t.cur : t.cur[i] # j => \E k \in DOMAIN r : r[k] = t.cur[i]
      /\ \A k, l \in DOMAIN r : k < l =>
           \E i, m \in DOMAIN t.cur : i < m /\ r[k] = t.cur[i] /\ r[l] = t.cur[m]
      /\ \A k, l \in DOMAIN r : r[k] = r[l] => k = l
  BY <1>0, Thinned, SMTT(60)
<1>3. FreeSlot.used = FALSE /\ FreeSlot.ps = << >> /\ DOMAIN FreeSlot.ps = {}
  BY DEF FreeSlot
<1> HIDE DEF r
<1>4. Listed(u)
  <2>1. \A k \in DOMAIN r : r[k] \in DOMAIN u.tab /\ u.tab[r[k]].used
    BY <1>0, <1>1, <1>2 DEF Listed
  <2>2. ASSUME NEW i \in DOMAIN u.tab
        PROVE  (u.tab[i].used => \E k \in DOMAIN r : r[k] = i) /\ (~u.tab[i].used => u.tab[i].ps = << >>)
    BY <1>0, <1>1, <1>2, <1>3 DEF Listed
  <2> QED BY <1>1, <1>2, <2>1, <2>2 DEF Listed
<1>5. Numbered(u, n)
  <2>1. ASSUME NEW k \in DOMAIN r, NEW l \in DOMAIN r, k < l
        PROVE  Above(u.tab[r[k]].ps, u.tab[r[l]].ps)
    <3>1. PICK i, m \in DOMAIN t.cur : i < m /\ r[k] = t.cur[i] /\ r[l] = t.cur[m]
      BY <1>2, <2>1
    <3>2. Above(t.tab[t.cur[i]].ps, t.tab[t.cur[m]].ps)
      BY <1>0, <3>1, Zenon DEF Numbered
    <3>3. r[k] # j /\ r[l] # j /\ r[k] \in DOMAIN t.tab /\ r[l] \in DOMAIN t.tab
      BY <1>0, <1>2, <3>1 DEF Listed
    <3> QED BY <1>1, <3>1, <3>2, <3>3, SMTT(60)
  <2>2. Ordered(FreeSlot.ps, n)
    BY <1>3 DEF Ordered
  <2> QED BY <1>0, <1>1, <2>1, <2>2 DEF Numbered
<1>6. Credits(u, pr, S)
  <2>1. AllOK(FreeSlot.ps, FreeSlot.state, pr, S)
    BY <1>3 DEF AllOK
  <2>2. ASSUME NEW p \in Pids, pr[p].state # "none" PROVE pr[p].id \in S \/ Known(u, p, pr[p].id)
    <3>1. pr[p].id \in Nat
      BY <1>0 DEF Proc
    <3> QED BY <1>0, <1>1, <2>2, <3>1 DEF Credits, Known
  <2> QED BY <1>1, <2>1, <2>2 DEF Credits
<1> QED BY <1>0, <1>1, <1>4, <1>5, <1>6 DEF Sound

-----------------------------------------------------------------------------
(* makejob(). *)
LEMMA GrowSound ==
  ASSUME NEW t, NEW pr, NEW n, NEW str, Sound(t, pr, n, str), NEW u, u = growjobtab(t)
  PROVE  /\ Sound(u, pr, n, str) /\ u.cur = t.cur /\ Len(t.tab) \in Nat
         /\ DOMAIN u.tab = 1..(Len(t.tab) + Grow)
         /\ \A i \in DOMAIN u.tab : u.tab[i] = IF i <= Len(t.tab) THEN t.tab[i] ELSE FreeSlot
<1> DEFINE e == [i \in 1 .. Grow |-> FreeSlot]
           l == Len(t.tab)
<1>0. t \in Table /\ Listed(t) /\ Numbered(t, n) /\ Credits(t, pr, str)
  BY DEF Sound
<1>1. FreeSlot \in Job /\ ~FreeSlot.used /\ FreeSlot.ps = << >> /\ DOMAIN FreeSlot.ps = {}
  BY DEF FreeSlot, Job
<1>2. Grow \in Nat \ {0} /\ t.tab \in Seq(Job)
  BY <1>0, GrowAssumption DEF Table
<1>3. e \in Seq(Job) /\ Len(e) = Grow /\ \A i \in 1..Grow : e[i] = FreeSlot
  BY <1>1, <1>2
<1>4. u = [t EXCEPT !.tab = t.tab \o e]
  BY DEF growjobtab
<1> HIDE DEF e
<1>5. /\ t.tab \o e \in Seq(Job) /\ Len(t.tab \o e) = l + Grow /\ l \in Nat
      /\ \A i \in 1..(l + Grow) : (t.tab \o e)[i] = IF i <= l THEN t.tab[i] ELSE FreeSlot
  BY <1>2, <1>3
<1>6. /\ u \in Table /\ u.cur = t.cur /\ DOMAIN u.tab = 1..(l + Grow) /\ DOMAIN t.tab = 1..l
      /\ \A i \in DOMAIN u.tab : u.tab[i] = IF i <= l THEN t.tab[i] ELSE FreeSlot
  <2> DEFINE x == t.tab \o e
  <2> HIDE DEF x, l
  <2>1. u \in Table /\ u.cur = t.cur /\ u.tab = x
    BY <1>0, <1>4, <1>5, Zenon DEF Table, x
  <2>2. DOMAIN t.tab = 1..l /\ DOMAIN x = 1..(l + Grow)
    BY <1>2, <1>5 DEF l, x
  <2> QED BY <1>5, <2>1, <2>2, Zenon DEF x
<1> HIDE DEF l
<1>7. /\ \A i \in DOMAIN t.tab : i \in DOMAIN u.tab /\ u.tab[i] = t.tab[i]
      /\ \A i \in DOMAIN u.tab : i \notin DOMAIN t.tab => u.tab[i] = FreeSlot
  BY <1>2, <1>5, <1>6
<1>8. Listed(u)
  BY <1>0, <1>1, <1>6, <1>7, SMTT(60) DEF Listed
<1>9. Ordered(FreeSlot.ps, n) /\ AllOK(FreeSlot.ps, FreeSlot.state, pr, str)
  BY <1>1 DEF Ordered, AllOK
<1>10. Numbered(u, n)
  <2>1. \A i \in DOMAIN t.cur : u.tab[u.cur[i]] = t.tab[t.cur[i]]
    BY <1>0, <1>6, <1>7 DEF Listed
  <2> QED BY <1>0, <1>6, <1>7, <1>9, <2>1, SMTT(60) DEF Numbered
<1>11. Credits(u, pr, str)
  BY <1>0, <1>7, <1>9, Zenon DEF Credits, Known
<1> QED BY <1>5, <1>6, <1>8, <1>10, <1>11, Zenon DEF Sound, l

NewSlot == [FreeSlot EXCEPT !.used = TRUE]

TakeSlot(t, j) == [t EXCEPT !.tab[j] = NewSlot, !.cur = <<j>> \o @]

(* Taking a free slot keeps the table sound. *)
LEMMA TakeSound ==
  ASSUME NEW t, NEW pr, NEW n, NEW str, Sound(t, pr, n, str),
         NEW j \in DOMAIN t.tab, ~t.tab[j].used,
         NEW u, u = TakeSlot(t, j)
  PROVE  /\ Sound(u, pr, n, str) /\ u.cur # << >> /\ u.cur[1] = j
         /\ DOMAIN u.tab = DOMAIN t.tab
         /\ \A i \in DOMAIN t.tab : u.tab[i] = IF i = j THEN NewSlot ELSE t.tab[i]
<1> DEFINE c == <<j>> \o t.cur
           x == [t.tab EXCEPT ![j] = NewSlot]
<1>0. t \in Table /\ Listed(t) /\ Numbered(t, n) /\ Credits(t, pr, str)
  BY DEF Sound
<1>1. NewSlot \in Job /\ NewSlot.used /\ NewSlot.ps = << >> /\ DOMAIN NewSlot.ps = {}
  <2>1. FreeSlot \in Job /\ FreeSlot.ps = << >>
    BY DEF FreeSlot, Job
  <2>2. NewSlot \in Job /\ NewSlot.ps = << >>
    BY <2>1, Zenon DEF NewSlot, Job
  <2>3. NewSlot.used = TRUE
    BY <2>1, Zenon DEF NewSlot, Job
  <2> QED BY <2>2, <2>3
<1>2. t.tab \in Seq(Job) /\ t.cur \in Seq(Nat) /\ j \in Nat
  BY <1>0 DEF Table
<1>3. /\ x \in Seq(Job) /\ DOMAIN x = DOMAIN t.tab
      /\ \A i \in DOMAIN t.tab : x[i] = IF i = j THEN NewSlot ELSE t.tab[i]
  BY <1>1, <1>2
<1>4. c \in Seq(Nat) /\ Len(c) = Len(t.cur) + 1 /\ c[1] = j /\ \A k \in 1..Len(t.cur) : c[k + 1] = t.cur[k]
  BY <1>2, SMTT(60)
<1>5. u = [t EXCEPT !.tab = x, !.cur = c]
  BY <1>0 DEF Table, TakeSlot
<1> HIDE DEF c, x
<1>6. /\ u \in Table /\ u.cur = c /\ DOMAIN u.tab = DOMAIN t.tab
      /\ \A i \in DOMAIN t.tab : u.tab[i] = IF i = j THEN NewSlot ELSE t.tab[i]
  BY <1>0, <1>3, <1>4, <1>5, Zenon DEF Table
<1>7. /\ DOMAIN c = 1..(Len(t.cur) + 1) /\ DOMAIN t.cur = 1..Len(t.cur) /\ Len(t.cur) \in Nat
      /\ \A k \in DOMAIN c : k # 1 => k - 1 \in DOMAIN t.cur /\ c[k] = t.cur[k - 1]
  <2>1. DOMAIN c = 1..(Len(t.cur) + 1) /\ DOMAIN t.cur = 1..Len(t.cur) /\ Len(t.cur) \in Nat
    BY <1>2, <1>4
  <2>2. ASSUME NEW k \in DOMAIN c, k # 1 PROVE k - 1 \in DOMAIN t.cur /\ c[k] = t.cur[k - 1]
    <3>1. k - 1 \in 1..Len(t.cur) /\ (k - 1) + 1 = k
      BY <2>1, <2>2
    <3> QED BY <1>4, <2>1, <3>1, Zenon
  <2> QED BY <2>1, <2>2
<1>8. \A i \in DOMAIN t.cur : t.cur[i] # j /\ t.cur[i] \in DOMAIN t.tab
  BY <1>0 DEF Listed
<1>9. Listed(u)
  <2>1. \A k \in DOMAIN c : c[k] \in DOMAIN u.tab /\ u.tab[c[k]].used
    <3>1. \A k \in DOMAIN t.cur : t.cur[k] \in DOMAIN u.tab /\ u.tab[t.cur[k]].used
      BY <1>0, <1>6, <1>8 DEF Listed
    <3>2. j \in DOMAIN u.tab /\ u.tab[j].used
      BY <1>1, <1>6, Zenon
    <3> QED BY <1>4, <1>7, <3>1, <3>2, Zenon
  <2>2. ASSUME NEW i \in DOMAIN u.tab
        PROVE  (u.tab[i].used => \E k \in DOMAIN c : c[k] = i) /\ (~u.tab[i].used => u.tab[i].ps = << >>)
    <3>1. CASE i = j
      <4>1. 1 \in DOMAIN c /\ c[1] = i
        BY <1>4, <1>7, <3>1
      <4> QED BY <1>1, <1>6, <3>1, <4>1, Zenon
    <3>2. CASE i # j /\ t.tab[i].used
      <4>1. PICK k \in DOMAIN t.cur : t.cur[k] = i
        BY <1>0, <1>6, <3>2 DEF Listed
      <4>2. k + 1 \in DOMAIN c /\ c[k + 1] = i
        BY <1>4, <1>7, <4>1, SMTT(60)
      <4> QED BY <1>6, <3>2, <4>2
    <3>3. CASE i # j /\ ~t.tab[i].used
      BY <1>0, <1>6, <3>3 DEF Listed
    <3> QED BY <3>1, <3>2, <3>3
  <2>3. ASSUME NEW i \in DOMAIN c, NEW k \in DOMAIN c, c[i] = c[k] PROVE i = k
    <3>1. i = 1 <=> k = 1
      BY <1>4, <1>7, <1>8, <2>3, Zenon
    <3>2. CASE i # 1
      <4>1. i - 1 = k - 1
        BY <1>0, <1>7, <2>3, <3>1, <3>2, SMTT(60) DEF Listed
      <4> QED BY <1>7, <4>1
    <3> QED BY <3>1, <3>2
  <2>4. u.cur = c
    BY <1>6
  <2> QED BY <2>1, <2>2, <2>3, <2>4 DEF Listed
<1>10. Ordered(NewSlot.ps, n) /\ AllOK(NewSlot.ps, NewSlot.state, pr, str)
  BY <1>1 DEF Ordered, AllOK
<1>11. Numbered(u, n)
  <2>1. ASSUME NEW k \in DOMAIN c, NEW l \in DOMAIN c, k < l
        PROVE  Above(u.tab[c[k]].ps, u.tab[c[l]].ps)
    <3>1. CASE k = 1
      BY <1>1, <1>4, <1>6, <3>1, Zenon DEF Above
    <3>2. CASE k # 1
      <4>1. /\ k - 1 \in DOMAIN t.cur /\ c[k] = t.cur[k - 1]
            /\ l - 1 \in DOMAIN t.cur /\ c[l] = t.cur[l - 1] /\ k - 1 < l - 1
        BY <1>7, <2>1, <3>2
      <4>2. Above(t.tab[c[k]].ps, t.tab[c[l]].ps)
        BY <1>0, <4>1, Zenon DEF Numbered
      <4> QED BY <1>6, <1>8, <4>1, <4>2, Zenon
    <3> QED BY <3>1, <3>2
  <2> QED BY <1>0, <1>6, <1>10, <2>1 DEF Numbered
<1>12. Credits(u, pr, str)
  <2>2. \A p, id : ~Expected(t.tab[j].ps, p, id)
    BY <1>0, SMTT(60) DEF Listed, Expected
  <2> QED BY <1>0, <1>6, <1>10, <2>2, Zenon DEF Credits, Known
<1> QED BY <1>4, <1>6, <1>7, <1>9, <1>11, <1>12 DEF Sound

(* What makejob() does to the slots: it takes none of a job that is owed a   *)
(* message.                                                                  *)
Took(t, u, j) ==
    /\ u.cur # << >> /\ u.cur[1] = j
    /\ j \in DOMAIN u.tab /\ u.tab[j] = NewSlot
    /\ j \in DOMAIN t.tab => Takes(t.tab[j])
    /\ \A i \in DOMAIN t.tab : i # j => i \in DOMAIN u.tab /\ u.tab[i] = t.tab[i]
    /\ \A i \in DOMAIN u.tab : i # j =>
         (u.tab[i].ps # << >> => i \in DOMAIN t.tab /\ u.tab[i] = t.tab[i])

(* makejob() keeps the table sound, also when growjobtab() moves it. *)
LEMMA MakeSound ==
  ASSUME NEW t, NEW pr, NEW n, NEW str, Sound(t, pr, n, str),
         NEW u, u = makejob(t), NEW j, j = MakeSlot(t)
  PROVE  Sound(u, pr, n, str) /\ Took(t, u, j)
<1> DEFINE g == IF j > Len(t.tab) THEN growjobtab(t) ELSE t
           v == IF g.tab[j].used THEN freejob(g, j) ELSE g
<1>1. t \in Table /\ t.tab \in Seq(Job) /\ DOMAIN t.tab = 1..Len(t.tab) /\ Len(t.tab) \in Nat
  BY DEF Sound, Table
<1>2. j = Len(t.tab) + 1 \/ (j \in DOMAIN t.tab /\ Takes(t.tab[j]))
  BY DEF MakeSlot
<1>3. u = TakeSlot(v, j)
  BY DEF makejob, NewSlot, TakeSlot
<1>4. /\ Sound(g, pr, n, str) /\ j \in DOMAIN g.tab
      /\ j \notin DOMAIN t.tab => ~g.tab[j].used
      /\ \A i \in DOMAIN t.tab : i \in DOMAIN g.tab /\ g.tab[i] = t.tab[i]
      /\ \A i \in DOMAIN g.tab : i \notin DOMAIN t.tab => g.tab[i] = FreeSlot
  <2>1. CASE j = Len(t.tab) + 1
    <3>1. g = growjobtab(t)
      BY <1>1, <2>1
    <3>2. /\ Sound(g, pr, n, str)
          /\ DOMAIN g.tab = 1..(Len(t.tab) + Grow)
          /\ \A i \in DOMAIN g.tab : g.tab[i] = IF i <= Len(t.tab) THEN t.tab[i] ELSE FreeSlot
      BY <3>1, GrowSound
    <3>3. j \in DOMAIN g.tab /\ g.tab[j] = FreeSlot /\ ~FreeSlot.used
      <4> HIDE DEF g
      <4>1. ~FreeSlot.used
        BY DEF FreeSlot
      <4> QED BY <1>1, <2>1, <3>2, <4>1, GrowAssumption
    <3> HIDE DEF g
    <3> QED BY <1>1, <3>2, <3>3, GrowAssumption
  <2>2. CASE j \in DOMAIN t.tab
    <3>1. g = t
      BY <1>1, <2>2
    <3> QED BY <2>2, <3>1
  <2> QED BY <1>2, <2>1, <2>2, Zenon
<1> HIDE DEF g
<1>5. /\ Sound(v, pr, n, str) /\ DOMAIN v.tab = DOMAIN g.tab /\ ~v.tab[j].used
      /\ \A i \in DOMAIN g.tab : i # j => v.tab[i] = g.tab[i]
  <2>1. CASE g.tab[j].used
    <3>1. j \in DOMAIN t.tab /\ Takes(t.tab[j]) /\ g.tab[j] = t.tab[j]
      BY <1>1, <1>2, <1>4, <2>1
    <3>2. g.tab[j].state = "done"
      BY <2>1, <3>1 DEF Takes
    <3>3. v = freejob(g, j)
      BY <2>1
    <3> HIDE DEF v
    <3>4. Listed(g) /\ g \in Table /\ Credits(g, pr, str) /\ str \subseteq 0..n
      BY <1>4 DEF Sound
    <3>5. AllOK(g.tab[j].ps, g.tab[j].state, pr, str)
      BY <1>4, <3>4 DEF Credits
    <3>6. /\ \A p \in Pids, id \in Nat : Expected(g.tab[j].ps, p, id) => id \in str
          /\ \A i \in DOMAIN g.tab : i # j => AllOK(g.tab[i].ps, g.tab[i].state, pr, str)
          /\ str \subseteq str
      BY <3>2, <3>4, <3>5, Zenon DEF Credits, Expected, AllOK, EntryOK
    <3>7. Sound(v, pr, n, str)
      BY <1>4, <2>1, <3>3, <3>4, <3>6, FreeSound, Zenon
    <3>8. /\ DOMAIN v.tab = DOMAIN g.tab
          /\ \A i \in DOMAIN g.tab : v.tab[i] = IF i = j THEN FreeSlot ELSE g.tab[i]
      BY <1>4, <2>1, <3>3, <3>4, FreeView
    <3>9. ~FreeSlot.used
      BY DEF FreeSlot
    <3> QED BY <1>4, <3>7, <3>8, <3>9
  <2>2. CASE ~g.tab[j].used
    BY <1>4, <2>2
  <2> QED BY <2>1, <2>2
<1> HIDE DEF v
<1>6. j \in DOMAIN v.tab
  BY <1>4, <1>5
<1>7. /\ Sound(u, pr, n, str) /\ u.cur # << >> /\ u.cur[1] = j
      /\ DOMAIN u.tab = DOMAIN v.tab
      /\ \A i \in DOMAIN v.tab : u.tab[i] = IF i = j THEN NewSlot ELSE v.tab[i]
  BY <1>3, <1>5, <1>6, TakeSound
<1>8. \A i \in DOMAIN t.tab : i # j => i \in DOMAIN u.tab /\ u.tab[i] = t.tab[i]
  BY <1>4, <1>5, <1>7
<1>9. \A i \in DOMAIN u.tab : i # j =>
        (u.tab[i].ps # << >> => i \in DOMAIN t.tab /\ u.tab[i] = t.tab[i])
  <2>1. FreeSlot.ps = << >>
    BY DEF FreeSlot
  <2> QED BY <1>4, <1>5, <1>7, <2>1
<1> QED BY <1>1, <1>2, <1>6, <1>7, <1>8, <1>9 DEF Took

-----------------------------------------------------------------------------
(* forkparent() and the child that it is called for.  The job that is being  *)
(* started is the first of the list, so that set_curjob() leaves it there.   *)
NewEntry(p, id) == [pid |-> p, status |-> Unset, id |-> id]

Longer(s, p, id) == Append(s, NewEntry(p, id))

(* set_curjob() of the current job changes nothing. *)
LEMMA AlreadyFirst ==
  ASSUME NEW t \in Table, Listed(t), t.cur # << >>, NEW j, j = t.cur[1]
  PROVE  set_curjob(t, j, "running") = t
<1> DEFINE c == t.cur
           r == Rest(t, j)
           at == Place(t, {j})
<1>1. c \in Seq(Nat) /\ 1 \in DOMAIN c /\ DOMAIN c = 1..Len(c) /\ Len(c) \in Nat \ {0}
  BY DEF Table
<1>2. /\ r \in Seq(Nat) /\ Len(r) = Len(c) - 1
      /\ at \in DOMAIN c /\ c[at] = j
      /\ \A k \in DOMAIN r : Back(k, at) \in DOMAIN c /\ r[k] = c[Back(k, at)]
  <2>1. \E i \in DOMAIN t.cur : t.cur[i] = j
    BY <1>1
  <2> QED BY <2>1, RestOf, ZenonT(60)
<1>3. at = 1
  BY <1>1, <1>2, Zenon DEF Listed
<1>4. [t EXCEPT !.cur = c] = t
  BY DEF Table
<1>5. set_curjob(t, j, "running") = [t EXCEPT !.cur = <<j>> \o r]
  BY DEF set_curjob
<1>6. j \in Nat /\ c[1] = j
  BY <1>1
<1> HIDE DEF c, r, at
<1>7. \A k \in 1..(Len(c) - 1) : r[k] = c[k + 1]
  <2>1. ASSUME NEW k \in 1..(Len(c) - 1) PROVE k \in DOMAIN r /\ Back(k, at) = k + 1
    BY <1>1, <1>2, <1>3, <2>1 DEF Back
  <2> QED BY <1>2, <2>1
<1>8. <<j>> \o r = c
  <2> DEFINE d == <<j>> \o r
  <2>1. d \in Seq(Nat) /\ Len(d) = Len(c) /\ d[1] = j /\ \A k \in 1..(Len(c) - 1) : d[k + 1] = r[k]
    <3>1. r \in Seq(Nat) /\ j \in Nat
      BY <1>2, <1>6
    <3>2. d \in Seq(Nat) /\ Len(d) = Len(r) + 1 /\ d[1] = j /\ \A k \in 1..Len(r) : d[k + 1] = r[k]
      BY ONLY <3>1, SMTT(60)
    <3>3. Len(r) = Len(c) - 1 /\ Len(c) \in Nat
      BY <1>1, <1>2
    <3> HIDE DEF d
    <3> QED BY <3>2, <3>3
  <2> HIDE DEF d
  <2>2. ASSUME NEW k \in 1..Len(c) PROVE d[k] = c[k]
    <3>1. CASE k = 1
      BY <1>6, <2>1, <3>1
    <3>2. CASE k # 1
      <4>1. k - 1 \in 1..(Len(c) - 1) /\ (k - 1) + 1 = k
        BY <1>1, <3>2
      <4> QED BY <1>7, <2>1, <4>1, Zenon
    <3> QED BY <3>1, <3>2
  <2>3. d = c
    BY <1>1, <2>1, <2>2
  <2> QED BY <2>3 DEF d
<1> QED BY <1>4, <1>5, <1>8

(* What forkparent() changes. *)
LEMMA ForkView ==
  ASSUME NEW t \in Table, Listed(t), t.cur # << >>, NEW j, j = t.cur[1],
         NEW id \in Nat, NEW p \in Pids, NEW bg \in BOOLEAN,
         NEW u, u = forkparent(t, j, id, p, bg)
  PROVE  /\ u \in Table /\ u.cur = t.cur /\ DOMAIN u.tab = DOMAIN t.tab /\ j \in DOMAIN t.tab
         /\ u.tab[j].ps = Longer(t.tab[j].ps, p, id) /\ u.tab[j].used = t.tab[j].used
         /\ u.tab[j].state = t.tab[j].state /\ u.tab[j].waited = t.tab[j].waited
         /\ \A i \in DOMAIN t.tab : i # j => u.tab[i] = t.tab[i]
<1>1. set_curjob(t, j, "running") = t
  BY AlreadyFirst
<1> DEFINE q == Append(t.tab[j].ps, NewEntry(p, id))
           w == [t.tab[j] EXCEPT !.ps = q]
           x == [t.tab EXCEPT ![j] = w]
<1>2. u = [t EXCEPT !.tab[j].ps = q]
  BY <1>1, Zenon DEF forkparent, NewEntry
<1>3. t.tab \in Seq(Job) /\ j \in DOMAIN t.tab /\ t.tab[j] \in Job
  BY DEF Table, Listed
<1>4. NewEntry(p, id) \in Entry
  BY DEF NewEntry, Entry
<1>5. q \in Seq(Entry)
  BY <1>3, <1>4 DEF Job
<1> HIDE DEF q
<1>6. w \in Job
  BY <1>3, <1>5, Zenon DEF Job
<1>7. u = [t EXCEPT !.tab = x]
  BY <1>2
<1> HIDE DEF w
<1>8. /\ x \in Seq(Job) /\ DOMAIN x = DOMAIN t.tab
      /\ \A i \in DOMAIN t.tab : x[i] = IF i = j THEN w ELSE t.tab[i]
  BY <1>3, <1>6
<1> HIDE DEF x
<1>9. /\ u \in Table /\ u.cur = t.cur /\ u.tab = x
  BY <1>7, <1>8, Zenon DEF Table
<1>10. w.ps = q /\ w.used = t.tab[j].used /\ w.state = t.tab[j].state /\ w.waited = t.tab[j].waited
  BY <1>3 DEF w, Job
<1> QED BY <1>3, <1>8, <1>9, <1>10, Zenon DEF q, Longer

-----------------------------------------------------------------------------
(* What a step may do to one job and to the children. *)
LEMMA EntryOf ==
  ASSUME NEW t \in Table, NEW j \in DOMAIN t.tab
  PROVE  /\ t.tab[j].ps \in Seq(Entry) /\ t.tab[j].state \in {"running", "done"}
         /\ t.tab[j].used \in BOOLEAN /\ t.tab[j].waited \in BOOLEAN
<1>1. t.tab[j] \in Job
  BY DEF Table
<1> QED BY <1>1 DEF Job

(* The types of an entry. *)
LEMMA Fields ==
  ASSUME NEW s \in Seq(Entry), NEW m \in DOMAIN s
  PROVE  s[m].id \in Nat /\ s[m].pid \in Pids /\ s[m].status \in Nat \cup {Unset} /\ m \in Nat
<1>1. s[m] \in Entry /\ m \in Nat
  OBVIOUS
<1> QED BY <1>1 DEF Entry

(* The bound on the numbers of processes may be raised. *)
LEMMA Later ==
  ASSUME NEW s \in Seq(Entry), NEW n \in Nat, NEW k \in Nat, n <= k, Ordered(s, n)
  PROVE  Ordered(s, k)
<1>1. \A m \in DOMAIN s : s[m].id \in Nat /\ s[m].id <= n
  BY Fields DEF Ordered
<1>2. \A m \in DOMAIN s : s[m].id <= k
  BY <1>1
<1> QED BY <1>2 DEF Ordered

(* A change of the entries of one job keeps the table sound, if the order by *)
(* age is kept.                                                              *)
LEMMA OneChanged ==
  ASSUME NEW t, NEW pr, NEW n, NEW str, Sound(t, pr, n, str),
         NEW u \in Table, u.cur = t.cur, DOMAIN u.tab = DOMAIN t.tab,
         NEW j \in DOMAIN t.tab, t.tab[j].used, u.tab[j].used = t.tab[j].used,
         \A i \in DOMAIN t.tab : i # j => u.tab[i] = t.tab[i],
         \A i \in DOMAIN t.tab : i # j /\ Above(t.tab[i].ps, t.tab[j].ps)
            => Above(t.tab[i].ps, u.tab[j].ps) \/ t.cur[1] = j,
         \A i \in DOMAIN t.tab : i # j /\ Above(t.tab[j].ps, t.tab[i].ps) => Above(u.tab[j].ps, t.tab[i].ps),
         NEW k \in Nat, n <= k, Ordered(u.tab[j].ps, k),
         NEW qr \in [Pids -> Proc], \A p \in Pids : qr[p].id <= k, Credits(u, qr, str)
  PROVE  Sound(u, qr, k, str)
<1>1. /\ t \in Table /\ n \in Nat /\ str \subseteq 0..n /\ Listed(t) /\ Numbered(t, n)
  BY Zenon DEF Sound
<1>2. Listed(u)
  <2>1. \A i \in DOMAIN u.tab : u.tab[i].used = t.tab[i].used
    BY Zenon
  <2>2. \A i \in DOMAIN u.tab : ~u.tab[i].used => u.tab[i].ps = << >>
    BY <1>1, ZenonT(60) DEF Listed
  <2> QED BY <1>1, <2>1, <2>2, SMTT(60) DEF Listed
<1>3. \A i \in DOMAIN u.tab : Ordered(u.tab[i].ps, k)
  <2> SUFFICES ASSUME NEW i \in DOMAIN u.tab, i # j PROVE Ordered(u.tab[i].ps, k)
    BY Zenon
  <2>1. Ordered(t.tab[i].ps, n) /\ u.tab[i] = t.tab[i] /\ t.tab[i].ps \in Seq(Entry)
    BY <1>1, EntryOf, Zenon DEF Numbered
  <2> QED BY <1>1, <2>1, Later, Zenon
<1>4. ASSUME NEW a \in DOMAIN t.cur, NEW b \in DOMAIN t.cur, a < b
      PROVE  Above(u.tab[t.cur[a]].ps, u.tab[t.cur[b]].ps)
  <2>1. /\ Above(t.tab[t.cur[a]].ps, t.tab[t.cur[b]].ps) /\ t.cur[a] # t.cur[b]
        /\ t.cur[a] \in DOMAIN t.tab /\ t.cur[b] \in DOMAIN t.tab
    <3>1. a # b
      BY <1>1, <1>4 DEF Table
    <3>2. Above(t.tab[t.cur[a]].ps, t.tab[t.cur[b]].ps)
      BY <1>1, <1>4, Zenon DEF Numbered
    <3> QED BY <1>1, <3>1, <3>2, Zenon DEF Listed
  <2>2. CASE t.cur[b] = j
    <3>1. t.cur[1] # j
      <4>1. 1 \in DOMAIN t.cur /\ b # 1
        BY <1>1, <1>4, SMTT(60) DEF Table
      <4> QED BY <1>1, <2>2, <4>1, Zenon DEF Listed
    <3> QED BY <2>1, <2>2, <3>1, Zenon
  <2>3. CASE t.cur[b] # j
    BY <2>1, <2>3, Zenon
  <2> QED BY <2>2, <2>3, Zenon
<1>5. str \subseteq 0..k
  BY <1>1
<1> QED BY <1>1, <1>2, <1>3, <1>4, <1>5, Zenon DEF Sound, Numbered

-----------------------------------------------------------------------------
(* forkparent() and the child that it is called for. *)
Spawned(pr, p, id) == [pr EXCEPT ![p] = [state |-> "running", id |-> id]]

(* The children after a fork. *)
LEMMA SpawnedProcs ==
  ASSUME NEW pr \in [Pids -> Proc], NEW n \in Nat, \A x \in Pids : pr[x].id <= n, NEW p \in Pids
  PROVE  LET qr == Spawned(pr, p, n + 1)
         IN /\ qr \in [Pids -> Proc] /\ \A x \in Pids : qr[x].id <= n + 1
            /\ \A x \in Pids : x # p => qr[x] = pr[x]
            /\ qr[p].id = n + 1 /\ qr[p].state = "running"
<1> DEFINE c == [state |-> "running", id |-> n + 1]
           qr == Spawned(pr, p, n + 1)
<1>1. c \in Proc /\ c.id = n + 1 /\ c.state = "running"
  BY DEF Proc
<1>2. qr = [pr EXCEPT ![p] = c]
  BY DEF Spawned
<1> HIDE DEF c, qr
<1>3. qr \in [Pids -> Proc] /\ qr[p] = c /\ \A x \in Pids : x # p => qr[x] = pr[x]
  BY <1>1, <1>2
<1>4. \A x \in Pids : pr[x].id \in Nat
  BY DEF Proc
<1> QED BY <1>1, <1>3, <1>4 DEF qr

(* A fork that uses a pid again disturbs no entry that has it. *)
LEMMA SpawnOK ==
  ASSUME NEW pr \in [Pids -> Proc], NEW n \in Nat, \A x \in Pids : pr[x].id <= n,
         NEW p \in Pids, pr[p].state = "none",
         NEW s \in Seq(Entry), Ordered(s, n), NEW state, NEW str, AllOK(s, state, pr, str)
  PROVE  AllOK(s, state, Spawned(pr, p, n + 1), str)
<1> DEFINE qr == Spawned(pr, p, n + 1)
<1>1. /\ \A x \in Pids : x # p => qr[x] = pr[x]
      /\ qr[p].id = n + 1 /\ qr[p].state = "running"
  BY SpawnedProcs
<1> HIDE DEF qr
<1>2. ASSUME NEW m \in DOMAIN s PROVE EntryOK(s[m], state, qr, str)
  <2>1. EntryOK(s[m], state, pr, str) /\ s[m].id <= n
    BY DEF AllOK, Ordered
  <2>2. s[m].id \in Nat /\ s[m].pid \in Pids
    BY Fields
  <2> QED BY <1>1, <2>1, <2>2 DEF EntryOK
<1> QED BY <1>2 DEF AllOK, qr

(* A job with one more process. *)
LEMMA Appended ==
  ASSUME NEW s \in Seq(Entry), NEW n \in Nat, Ordered(s, n), NEW p \in Pids,
         \A m \in DOMAIN s : s[m].pid # p
  PROVE  LET q == Longer(s, p, n + 1)
         IN /\ Ordered(q, n + 1)
            /\ q # << >> /\ q[Len(q)].id = n + 1 /\ Len(q) = Len(s) + 1
            /\ \A b \in Seq(Entry) : Above(s, b) /\ Ordered(b, n) => Above(q, b)
            /\ \A m \in DOMAIN q : q[m] = NewEntry(p, n + 1) \/ \E l \in DOMAIN s : q[m] = s[l]
            /\ \A x, id : Expected(s, x, id) => Expected(q, x, id)
            /\ Expected(q, p, n + 1)
<1> DEFINE e == NewEntry(p, n + 1)
           q == Longer(s, p, n + 1)
<1>1. e \in Entry /\ e.id = n + 1 /\ e.pid = p /\ e.status = Unset
  BY DEF NewEntry, Entry
<1>9. q = Append(s, e)
  BY DEF Longer
<1> HIDE DEF e, q
<1>2. /\ Len(s) \in Nat /\ DOMAIN s = 1..Len(s) /\ DOMAIN q = 1..(Len(s) + 1) /\ Len(q) = Len(s) + 1
      /\ \A m \in 1..Len(s) : q[m] = s[m]
      /\ q[Len(s) + 1] = e /\ q # << >>
  BY ONLY s \in Seq(Entry), <1>1, <1>9
<1>3. \A m \in DOMAIN s : s[m].id \in Nat /\ s[m].id <= n
  BY Fields DEF Ordered
<1>4. \A m \in DOMAIN q : q[m] = e \/ \E l \in DOMAIN s : q[m] = s[l]
  BY <1>2
<1>5. Ordered(q, n + 1)
  <2> SUFFICES ASSUME NEW m \in DOMAIN q
               PROVE  /\ q[m].id <= n + 1
                      /\ \A l \in DOMAIN q : l < m => q[l].id < q[m].id /\ q[l].pid # q[m].pid
    BY DEF Ordered
  <2>1. CASE m = Len(s) + 1
    BY <1>1, <1>2, <1>3, <2>1
  <2>2. CASE m # Len(s) + 1
    BY <1>2, <1>3, <2>2, SMTT(60) DEF Ordered
  <2> QED BY <2>1, <2>2
<1>6. ASSUME NEW b \in Seq(Entry), Above(s, b), Ordered(b, n) PROVE Above(q, b)
  <2>1. \A m \in DOMAIN b : b[m].id \in Nat /\ b[m].id <= n
    BY <1>6, Fields, Zenon DEF Ordered
  <2> QED BY <1>1, <1>4, <1>6, <2>1 DEF Above
<1>7. \A x, id : Expected(s, x, id) => Expected(q, x, id)
  BY <1>2 DEF Expected
<1>8. Expected(q, p, n + 1)
  BY <1>1, <1>2 DEF Expected
<1> QED BY <1>1, <1>2, <1>4, <1>5, <1>6, <1>7, <1>8, Zenon DEF q, e

(* forkparent() keeps the table sound. *)
LEMMA ForkSound ==
  ASSUME NEW t, NEW pr, NEW n, NEW str, Sound(t, pr, n, str),
         t.cur # << >>, NEW j, j = t.cur[1], t.tab[j].state = "running",
         \A m \in DOMAIN t.tab[j].ps : t.tab[j].ps[m].status = Unset,
         NEW p \in Pids, pr[p].state = "none", NEW bg \in BOOLEAN,
         NEW u, u = forkparent(t, j, n + 1, p, bg)
  PROVE  Sound(u, Spawned(pr, p, n + 1), n + 1, str)
<1> DEFINE qr == Spawned(pr, p, n + 1)
           s == t.tab[j].ps
           q == u.tab[j].ps
<1>1. /\ t \in Table /\ pr \in [Pids -> Proc] /\ n \in Nat /\ n + 1 \in Nat /\ str \subseteq 0..n
      /\ Listed(t) /\ Numbered(t, n) /\ Credits(t, pr, str) /\ \A x \in Pids : pr[x].id <= n
  BY SMTT(60) DEF Sound
<1>2. /\ qr \in [Pids -> Proc] /\ \A x \in Pids : qr[x].id <= n + 1
      /\ \A x \in Pids : x # p => qr[x] = pr[x]
      /\ qr[p].id = n + 1 /\ qr[p].state = "running"
  BY <1>1, SpawnedProcs, Zenon
<1>3. /\ u \in Table /\ u.cur = t.cur /\ DOMAIN u.tab = DOMAIN t.tab /\ j \in DOMAIN t.tab
      /\ q = Longer(s, p, n + 1) /\ u.tab[j].used = t.tab[j].used
      /\ u.tab[j].state = t.tab[j].state
      /\ \A i \in DOMAIN t.tab : i # j => u.tab[i] = t.tab[i]
  <2>0. PICK k : k = n + 1
    BY Zenon
  <2>1. /\ t \in Table /\ Listed(t) /\ t.cur # << >> /\ j = t.cur[1] /\ k \in Nat /\ p \in Pids
        /\ bg \in BOOLEAN /\ u = forkparent(t, j, k, p, bg)
    BY <1>1, <2>0, Zenon
  <2>2. /\ u \in Table /\ u.cur = t.cur /\ DOMAIN u.tab = DOMAIN t.tab /\ j \in DOMAIN t.tab
        /\ u.tab[j].ps = Longer(t.tab[j].ps, p, k) /\ u.tab[j].used = t.tab[j].used
        /\ u.tab[j].state = t.tab[j].state
        /\ \A i \in DOMAIN t.tab : i # j => u.tab[i] = t.tab[i]
    BY ONLY <2>1, ForkView, SMTT(60)
  <2> QED BY <2>0, <2>2, Zenon
<1>4. s \in Seq(Entry) /\ Ordered(s, n) /\ AllOK(s, "running", pr, str)
  BY <1>1, <1>3, EntryOf, Zenon DEF Numbered, Credits
<1>5. \A m \in DOMAIN s : s[m].pid # p
  BY <1>4, Zenon DEF AllOK, EntryOK
<1>6. t.tab[j].used
  BY <1>1, SMTT(60) DEF Listed, Table
<1> HIDE DEF qr, s, q
<1>7. /\ Ordered(q, n + 1)
      /\ \A b \in Seq(Entry) : Above(s, b) /\ Ordered(b, n) => Above(q, b)
      /\ \A m \in DOMAIN q : q[m] = NewEntry(p, n + 1) \/ \E l \in DOMAIN s : q[m] = s[l]
      /\ \A x, id : Expected(s, x, id) => Expected(q, x, id)
      /\ Expected(q, p, n + 1)
  <2>1. n \in Nat /\ p \in Pids /\ q = Longer(s, p, n + 1)
    BY <1>1, <1>3, Zenon
  <2> QED BY ONLY <1>4, <1>5, <2>1, Appended
<1>8. \A i \in DOMAIN t.tab : t.tab[i].ps \in Seq(Entry) /\ AllOK(t.tab[i].ps, t.tab[i].state, qr, str)
  <2> SUFFICES ASSUME NEW i \in DOMAIN t.tab
               PROVE  t.tab[i].ps \in Seq(Entry) /\ AllOK(t.tab[i].ps, t.tab[i].state, qr, str)
    BY Zenon
  <2>1. /\ t.tab[i].ps \in Seq(Entry) /\ Ordered(t.tab[i].ps, n)
        /\ AllOK(t.tab[i].ps, t.tab[i].state, pr, str)
    BY <1>1, EntryOf, Zenon DEF Numbered, Credits
  <2> QED BY <1>1, <2>1, SpawnOK, Zenon DEF qr
<1>9. AllOK(q, "running", qr, str)
  <2>1. EntryOK(NewEntry(p, n + 1), "running", qr, str)
    BY <1>1, <1>2, SMTT(60) DEF NewEntry, EntryOK
  <2>2. AllOK(s, "running", qr, str)
    BY <1>3, <1>8, Zenon DEF s
  <2> QED BY <1>7, <2>1, <2>2, Zenon DEF AllOK
<1>10. Credits(u, qr, str)
  <2>1. \A i \in DOMAIN u.tab : AllOK(u.tab[i].ps, u.tab[i].state, qr, str)
    <3>1. u.tab[j].state = "running"
      BY <1>3, Zenon
    <3>2. AllOK(u.tab[j].ps, u.tab[j].state, qr, str)
      BY <1>9, <3>1, Zenon DEF q
    <3> QED BY <1>3, <1>8, <3>2, ZenonT(60)
  <2>2. ASSUME NEW x \in Pids, NEW id, Known(t, x, id) PROVE Known(u, x, id)
    BY <1>3, <1>7, <2>2, Zenon DEF Known, q, s
  <2>3. ASSUME NEW x \in Pids, qr[x].state # "none" PROVE qr[x].id \in str \/ Known(u, x, qr[x].id)
    <3>1. CASE x = p
      BY <1>2, <1>3, <1>7, <3>1, Zenon DEF Known, q
    <3>2. CASE x # p
      BY <1>1, <1>2, <2>2, <2>3, <3>2, Zenon DEF Credits
    <3> QED BY <3>1, <3>2, Zenon
  <2> QED BY <2>1, <2>3, Zenon DEF Credits
<1>11. /\ \A i \in DOMAIN t.tab : i # j /\ Above(t.tab[j].ps, t.tab[i].ps) => Above(u.tab[j].ps, t.tab[i].ps)
       /\ Ordered(u.tab[j].ps, n + 1)
       /\ \A i \in DOMAIN t.tab : i # j /\ Above(t.tab[i].ps, t.tab[j].ps)
            => Above(t.tab[i].ps, u.tab[j].ps) \/ t.cur[1] = j
  BY <1>1, <1>7, <1>8, Zenon DEF q, s, Numbered
<1>12. n <= n + 1
  BY <1>1, SMTT(60)
<1>13. Sound(u, qr, n + 1, str)
  <2>0. PICK k : k = n + 1
    BY Zenon
  <2>1. /\ Sound(t, pr, n, str) /\ u \in Table /\ u.cur = t.cur /\ DOMAIN u.tab = DOMAIN t.tab
        /\ j \in DOMAIN t.tab /\ t.tab[j].used /\ u.tab[j].used = t.tab[j].used
        /\ k \in Nat /\ n <= k /\ Ordered(u.tab[j].ps, k)
        /\ qr \in [Pids -> Proc] /\ \A x \in Pids : qr[x].id <= k
    BY <1>1, <1>2, <1>3, <1>6, <1>11, <1>12, <2>0, Zenon
  <2>2. \A i \in DOMAIN t.tab : i # j => u.tab[i] = t.tab[i]
    BY <1>3, Zenon
  <2>3. Sound(u, qr, k, str)
    BY ONLY <1>10, <1>11, <2>1, <2>2, OneChanged, Zenon
  <2> QED BY <2>0, <2>3, Zenon
<1> QED BY <1>13, Zenon DEF qr

-----------------------------------------------------------------------------
(* dowait() and the status of a child.  The job it credits is the first of   *)
(* the list that expects the pid.  A child's own job is one of those, and    *)
(* all above it have younger processes only: so it is the first.             *)
LEMMA CreditedOf ==
  ASSUME NEW t \in Table, Listed(t), NEW p, NEW c, c = Credited(t, p), c # 0
  PROVE  c \in DOMAIN t.tab /\ t.tab[c].used
<1>1. PICK js : c = FirstOf(t, js)
  BY DEF Credited
<1>2. Place(t, js) \in DOMAIN t.cur /\ c = t.cur[Place(t, js)]
  BY <1>1, PlaceOf, Zenon DEF FirstOf
<1> QED BY <1>2 DEF Listed

(* dowait() finds the job of the child and not an older one that had its pid. *)
LEMMA Home ==
  ASSUME NEW t, NEW pr, NEW n, NEW str, Sound(t, pr, n, str),
         NEW p \in Pids, pr[p].state # "none",
         NEW i \in DOMAIN t.tab, NEW m \in DOMAIN t.tab[i].ps,
         t.tab[i].ps[m].pid = p, t.tab[i].ps[m].status = Unset
  PROVE  Credited(t, p) = i
<1> DEFINE js == {j \in Range(t.cur) : Expects(t.tab[j], p)}
<1>1. /\ t \in Table /\ pr \in [Pids -> Proc] /\ Listed(t) /\ Numbered(t, n) /\ Credits(t, pr, str)
  BY DEF Sound
<1>2. EntryOK(t.tab[i].ps[m], t.tab[i].state, pr, str) /\ t.tab[i].ps \in Seq(Entry)
  BY <1>1, EntryOf, Zenon DEF Credits, AllOK
<1>3. t.tab[i].state = "running" /\ pr[p].id = t.tab[i].ps[m].id
  BY <1>2, Zenon DEF EntryOK
<1>4. Expects(t.tab[i], p)
  BY <1>3, Zenon DEF Expects, Range
<1>5. t.tab[i].used
  BY <1>1, <1>2, SMTT(60) DEF Listed
<1>6. PICK b \in DOMAIN t.cur : t.cur[b] = i
  BY <1>1, <1>5, Zenon DEF Listed
<1>7. ASSUME NEW a \in DOMAIN t.cur, a < b, Expects(t.tab[t.cur[a]], p) PROVE FALSE
  <2> DEFINE c == t.cur[a]
  <2>1. Above(t.tab[c].ps, t.tab[i].ps) /\ c \in DOMAIN t.tab /\ t.tab[c].ps \in Seq(Entry)
    BY <1>1, <1>6, <1>7, EntryOf, Zenon DEF Numbered, Listed
  <2>2. PICK l \in DOMAIN t.tab[c].ps : t.tab[c].ps[l].pid = p
    BY <1>7, Zenon DEF Expects, Range
  <2> HIDE DEF c
  <2>3. t.tab[i].ps[m].id < t.tab[c].ps[l].id
    BY <2>1, Zenon DEF Above
  <2>4. EntryOK(t.tab[c].ps[l], t.tab[c].state, pr, str)
    BY <1>1, <2>1, Zenon DEF Credits, AllOK
  <2>5. t.tab[c].ps[l].id <= pr[p].id
    BY <2>2, <2>4, Zenon DEF EntryOK
  <2>6. t.tab[c].ps[l].id \in Nat /\ t.tab[i].ps[m].id \in Nat
    BY <1>2, <2>1, Fields, Zenon
  <2> QED BY <1>3, <2>3, <2>5, <2>6, SMTT(60)
<1>8. t.cur[b] \in js /\ \A k \in DOMAIN t.cur : k < b => t.cur[k] \notin js
  BY <1>4, <1>6, <1>7, Zenon DEF Range
<1>9. Credited(t, p) = FirstOf(t, js)
  BY Zenon DEF Credited
<1> HIDE DEF js
<1>10. Place(t, js) = b
  BY <1>1, <1>8, PlaceIs, Zenon
<1>11. b # 0
  BY <1>1 DEF Table
<1> QED BY <1>6, <1>9, <1>10, <1>11, Zenon DEF FirstOf

Marked(s, p, id) ==
    [i \in DOMAIN s |-> IF s[i].pid = p THEN [s[i] EXCEPT !.status = id] ELSE s[i]]

Over(s) == \A m \in DOMAIN s : s[m].status # Unset

(* The entries of a job with a status filled in. *)
LEMMA MarkedOf ==
  ASSUME NEW s \in Seq(Entry), NEW p, NEW id \in Nat, NEW q, q = Marked(s, p, id)
  PROVE  /\ q \in Seq(Entry) /\ DOMAIN q = DOMAIN s /\ Len(q) = Len(s)
         /\ \A m \in DOMAIN s : /\ q[m].id = s[m].id /\ q[m].pid = s[m].pid
                                /\ s[m].pid = p => q[m].status = id
                                /\ s[m].pid # p => q[m] = s[m]
<1>1. Len(s) \in Nat /\ DOMAIN s = 1..Len(s) /\ \A m \in DOMAIN s : s[m] \in Entry
  OBVIOUS
<1>2. ASSUME NEW m \in DOMAIN s
      PROVE  /\ q[m] \in Entry /\ q[m].id = s[m].id /\ q[m].pid = s[m].pid
             /\ s[m].pid = p => q[m].status = id
             /\ s[m].pid # p => q[m] = s[m]
  <2>1. s[m] \in Entry /\ q[m] = IF s[m].pid = p THEN [s[m] EXCEPT !.status = id] ELSE s[m]
    BY <1>1 DEF Marked
  <2> QED BY <2>1, Zenon DEF Entry
<1>3. q \in [1..Len(s) -> Entry] /\ DOMAIN q = DOMAIN s
  <2>1. q = [m \in DOMAIN s |-> q[m]] /\ DOMAIN q = DOMAIN s
    BY DEF Marked
  <2> QED BY <1>1, <1>2, <2>1
<1>4. q \in Seq(Entry) /\ Len(q) = Len(s)
  BY ONLY <1>1, <1>3
<1> QED BY <1>2, <1>3, <1>4, Zenon

(* Filling in a status keeps the order by age. *)
LEMMA MarkedOrder ==
  ASSUME NEW s \in Seq(Entry), NEW p, NEW id \in Nat, NEW q, q = Marked(s, p, id), NEW n, Ordered(s, n)
  PROVE  /\ Ordered(q, n)
         /\ \A b : (Above(s, b) => Above(q, b)) /\ (Above(b, s) => Above(b, q))
         /\ \A x, k : x # p /\ Expected(s, x, k) => Expected(q, x, k)
<1>1. /\ DOMAIN q = DOMAIN s
      /\ \A m \in DOMAIN s : /\ q[m].id = s[m].id /\ q[m].pid = s[m].pid
                             /\ s[m].pid # p => q[m] = s[m]
  BY MarkedOf
<1>2. Ordered(q, n)
  BY ONLY <1>1, Ordered(s, n) DEF Ordered
<1>3. \A b : (Above(s, b) => Above(q, b)) /\ (Above(b, s) => Above(b, q))
  BY ONLY <1>1 DEF Above
<1>4. \A x, k : x # p /\ Expected(s, x, k) => Expected(q, x, k)
  BY ONLY <1>1 DEF Expected
<1> QED BY <1>2, <1>3, <1>4

(* What dowait() changes. *)
LEMMA ReapView ==
  ASSUME NEW t \in Table, NEW p, NEW id \in Nat, NEW u, u = Reaped(t, p, id),
         NEW c, c = Credited(t, p), c = 0 \/ c \in DOMAIN t.tab
  PROVE  /\ u \in Table /\ u.cur = t.cur /\ DOMAIN u.tab = DOMAIN t.tab
         /\ c = 0 => u.tab = t.tab
         /\ c # 0 => /\ u.tab[c].ps = Marked(t.tab[c].ps, p, id) /\ u.tab[c].used = t.tab[c].used
                     /\ u.tab[c].waited = t.tab[c].waited
                     /\ Over(u.tab[c].ps) => u.tab[c].state = "done"
                     /\ ~Over(u.tab[c].ps) => u.tab[c].state = t.tab[c].state
                     /\ \A i \in DOMAIN t.tab : i # c => u.tab[i] = t.tab[i]
<1>1. CASE c = 0
  <2>1. u = [t EXCEPT !.jobless = @ - 1]
    BY <1>1 DEF Reaped
  <2> QED BY <1>1, <2>1, SMTT(60) DEF Table
<1>2. CASE c # 0
  <2> DEFINE q == Marked(t.tab[c].ps, p, id)
             s == IF Over(q) THEN "done" ELSE t.tab[c].state
             w == [t.tab[c] EXCEPT !.ps = q, !.state = s]
             x == [t.tab EXCEPT ![c] = w]
  <2>1. u = [t EXCEPT !.tab[c] = w]
    <3> DEFINE m(i) == Marked(t.tab[i].ps, p, id)
               F(i) == [t EXCEPT !.tab[i] = [t.tab[i] EXCEPT
                          !.ps = m(i), !.state = IF Over(m(i)) THEN "done" ELSE t.tab[i].state]]
    <3>1. Credited(t, p) # 0 => Reaped(t, p, id) = F(Credited(t, p))
      BY Zenon DEF Reaped, Marked, Over
    <3>2. F(c) = [t EXCEPT !.tab[c] = w]
      BY Zenon
    <3> HIDE DEF F
    <3>3. u = F(c)
      BY <1>2, <3>1
    <3> QED BY <3>2, <3>3
  <2>2. t.tab \in Seq(Job) /\ c \in DOMAIN t.tab /\ t.tab[c] \in Job /\ t.tab[c].ps \in Seq(Entry)
    BY <1>2, EntryOf DEF Table
  <2>3. q \in Seq(Entry)
    BY <2>2, MarkedOf
  <2>4. s \in {"running", "done"} /\ (Over(q) => s = "done") /\ (~Over(q) => s = t.tab[c].state)
    BY <2>2, Zenon DEF Job
  <2> HIDE DEF q, s
  <2>5. w \in Job /\ w.ps = q /\ w.state = s /\ w.used = t.tab[c].used /\ w.waited = t.tab[c].waited
    BY <2>2, <2>3, <2>4, Zenon DEF Job
  <2>6. u = [t EXCEPT !.tab = x]
    BY <2>1, Zenon
  <2> HIDE DEF w
  <2>7. x \in Seq(Job) /\ DOMAIN x = DOMAIN t.tab /\ x[c] = w /\ \A i \in DOMAIN t.tab : i # c => x[i] = t.tab[i]
    BY <2>2, <2>5
  <2> HIDE DEF x
  <2>8. u \in Table /\ u.cur = t.cur /\ u.tab = x
    BY <2>6, <2>7, Zenon DEF Table
  <2> QED BY <1>2, <2>4, <2>5, <2>7, <2>8, Zenon DEF q
<1> QED BY <1>1, <1>2, Zenon

GoneProc == [state |-> "none", id |-> 0]

Gone(pr, p) == [pr EXCEPT ![p] = GoneProc]

(* The children after one has been waited for. *)
LEMMA GoneProcs ==
  ASSUME NEW pr \in [Pids -> Proc], NEW n \in Nat, \A x \in Pids : pr[x].id <= n, NEW p \in Pids,
         NEW qr, qr = Gone(pr, p)
  PROVE  /\ qr \in [Pids -> Proc] /\ \A x \in Pids : qr[x].id <= n
         /\ \A x \in Pids : x # p => qr[x] = pr[x]
         /\ qr[p].state = "none"
<1>1. GoneProc \in Proc /\ GoneProc.id = 0 /\ GoneProc.state = "none"
  BY DEF GoneProc, Proc
<1>2. qr \in [Pids -> Proc] /\ qr[p] = GoneProc /\ \A x \in Pids : x # p => qr[x] = pr[x]
  BY <1>1 DEF Gone
<1> QED BY <1>1, <1>2

(* The entries of a job that is not credited. *)
LEMMA GoneOK ==
  ASSUME NEW pr \in [Pids -> Proc], NEW n \in Nat, \A x \in Pids : pr[x].id <= n, NEW p \in Pids,
         NEW s \in Seq(Entry), NEW state, NEW str, AllOK(s, state, pr, str),
         \A m \in DOMAIN s : s[m].pid = p => s[m].status # Unset
  PROVE  AllOK(s, state, Gone(pr, p), str)
<1> DEFINE qr == Gone(pr, p)
<1>1. (\A x \in Pids : x # p => qr[x] = pr[x]) /\ qr[p].state = "none"
  BY GoneProcs
<1> HIDE DEF qr
<1>2. ASSUME NEW m \in DOMAIN s PROVE EntryOK(s[m], state, qr, str)
  <2>1. EntryOK(s[m], state, pr, str) /\ s[m].pid \in Pids
    BY Fields, Zenon DEF AllOK
  <2> QED BY <1>1, <2>1, Zenon DEF EntryOK
<1> QED BY <1>2 DEF AllOK, qr

(* The entries of the job that is. *)
LEMMA MarkedOK ==
  ASSUME NEW pr \in [Pids -> Proc], NEW n \in Nat, \A x \in Pids : pr[x].id <= n, NEW p \in Pids,
         NEW s \in Seq(Entry), NEW state, NEW str, AllOK(s, state, pr, str),
         NEW id \in Nat, \A m \in DOMAIN s : s[m].pid = p => s[m].id = id \/ id \in str,
         NEW q, q = Marked(s, p, id), NEW new, Over(q) \/ new = state
  PROVE  AllOK(q, new, Gone(pr, p), str)
<1> DEFINE qr == Gone(pr, p)
<1>1. (\A x \in Pids : x # p => qr[x] = pr[x]) /\ qr[p].state = "none"
  BY GoneProcs
<1> HIDE DEF qr
<1>2. /\ DOMAIN q = DOMAIN s
      /\ \A m \in DOMAIN s : /\ q[m].id = s[m].id /\ q[m].pid = s[m].pid
                             /\ s[m].pid = p => q[m].status = id
                             /\ s[m].pid # p => q[m] = s[m]
  BY MarkedOf
<1>3. Unset \notin Nat
  BY DEF Unset
<1>4. ASSUME NEW m \in DOMAIN s PROVE EntryOK(q[m], new, qr, str)
  <2>1. EntryOK(s[m], state, pr, str) /\ s[m].pid \in Pids
    BY Fields, Zenon DEF AllOK
  <2>2. CASE s[m].pid = p
    BY <1>1, <1>2, <1>3, <2>1, <2>2, SMTT(60) DEF EntryOK
  <2>3. CASE s[m].pid # p
    <3>1. q[m] = s[m] /\ (q[m].status = Unset => new = state)
      BY <1>2, <2>3, Zenon DEF Over
    <3> QED BY <1>1, <2>1, <2>3, <3>1, Zenon DEF EntryOK
  <2> QED BY <2>2, <2>3, Zenon
<1> QED BY <1>2, <1>4, Zenon DEF AllOK, qr

(* dowait() keeps the table sound. *)
LEMMA ReapSound ==
  ASSUME NEW t, NEW pr, NEW n, NEW str, Sound(t, pr, n, str),
         NEW p \in Pids, pr[p].state # "none", NEW u, u = Reaped(t, p, pr[p].id)
  PROVE  Sound(u, Gone(pr, p), n, str)
<1> DEFINE qr == Gone(pr, p)
           c == Credited(t, p)
           id == pr[p].id
<1>1. /\ t \in Table /\ pr \in [Pids -> Proc] /\ n \in Nat /\ str \subseteq 0..n
      /\ Listed(t) /\ Numbered(t, n) /\ Credits(t, pr, str) /\ \A x \in Pids : pr[x].id <= n
  BY DEF Sound
<1>2. id \in Nat /\ (c = 0 \/ c \in DOMAIN t.tab)
  <2>1. c = 0 \/ c \in DOMAIN t.tab
    BY <1>1, CreditedOf, Zenon
  <2> QED BY <1>1, <2>1, Zenon DEF Proc
<1>3. /\ qr \in [Pids -> Proc] /\ \A x \in Pids : qr[x].id <= n
      /\ \A x \in Pids : x # p => qr[x] = pr[x]
      /\ qr[p].state = "none"
  BY <1>1, GoneProcs
<1>4. /\ u \in Table /\ u.cur = t.cur /\ DOMAIN u.tab = DOMAIN t.tab
      /\ c = 0 => u.tab = t.tab
      /\ c # 0 => /\ u.tab[c].ps = Marked(t.tab[c].ps, p, id) /\ u.tab[c].used = t.tab[c].used
                  /\ Over(u.tab[c].ps) \/ u.tab[c].state = t.tab[c].state
                  /\ \A i \in DOMAIN t.tab : i # c => u.tab[i] = t.tab[i]
  BY <1>1, <1>2, ReapView, SMTT(60)
<1>5. \A i \in DOMAIN t.tab : \A m \in DOMAIN t.tab[i].ps :
        t.tab[i].ps[m].pid = p /\ t.tab[i].ps[m].status = Unset => i = c
  BY Home, SMTT(60)
<1> HIDE DEF qr, c, id
<1>6. \A i \in DOMAIN t.tab : /\ t.tab[i].ps \in Seq(Entry) /\ Ordered(t.tab[i].ps, n)
                              /\ AllOK(t.tab[i].ps, t.tab[i].state, pr, str)
  BY <1>1, EntryOf, Zenon DEF Numbered, Credits
<1>7. ASSUME NEW i \in DOMAIN t.tab, i # c PROVE AllOK(t.tab[i].ps, t.tab[i].state, qr, str)
  <2>1. \A m \in DOMAIN t.tab[i].ps : t.tab[i].ps[m].pid = p => t.tab[i].ps[m].status # Unset
    BY <1>5, <1>7, Zenon
  <2> QED BY <1>1, <1>6, <2>1, GoneOK, Zenon DEF qr
<1>8. CASE c = 0
  <2>1. 0 \notin DOMAIN t.tab /\ u.tab = t.tab
    BY <1>1, <1>4, <1>8 DEF Table
  <2>2. Listed(u) /\ Numbered(u, n)
    <3>1. Listed(t) /\ Numbered(t, n) /\ u.cur = t.cur BY <1>1, <1>4, Zenon
    <3> QED BY ONLY <2>1, <3>1, Zenon DEF Listed, Numbered
  <2>3. Credits(u, qr, str)
    <3>1. \A x, k : Known(u, x, k) <=> Known(t, x, k)
      BY <2>1, Zenon DEF Known
    <3>2. \A i \in DOMAIN u.tab : AllOK(u.tab[i].ps, u.tab[i].state, qr, str)
      BY <1>7, <1>8, <2>1, Zenon
    <3> QED BY <1>1, <1>3, <3>1, <3>2, Zenon DEF Credits
  <2> QED BY <1>1, <1>3, <1>4, <2>2, <2>3, Zenon DEF Sound, qr
<1>9. CASE c # 0
  <2> DEFINE s == t.tab[c].ps
             q == u.tab[c].ps
  <2>1. c \in DOMAIN t.tab /\ s \in Seq(Entry) /\ Ordered(s, n) /\ q = Marked(s, p, id)
    BY <1>2, <1>4, <1>6, <1>9, Zenon
  <2>2. t.tab[c].used
    BY <1>1, <1>9, CreditedOf, Zenon DEF c
  <2> HIDE DEF s, q
  <2>3. /\ Ordered(q, n)
        /\ \A b : (Above(s, b) => Above(q, b)) /\ (Above(b, s) => Above(b, q))
        /\ \A x, k : x # p /\ Expected(s, x, k) => Expected(q, x, k)
    BY <1>2, <2>1, MarkedOrder, Zenon
  <2>4. ASSUME NEW m \in DOMAIN s, s[m].pid = p, id \notin str PROVE s[m].id = id
    <3>1. Known(t, p, id)
      BY <1>1, <2>4 DEF Credits, id
    <3>2. Expected(s, p, id)
      BY <1>5, <3>1, Zenon DEF Known, Expected, s
    <3>3. PICK l \in DOMAIN s : s[l].pid = p /\ s[l].id = id
      BY <3>2, Zenon DEF Expected
    <3>4. l \in Nat /\ m \in Nat
      BY <2>1, SMTT(60)
    <3>5. l = m
      BY <2>1, <2>4, <3>3, <3>4, SMTT(60) DEF Ordered
    <3> QED BY <3>3, <3>5
  <2>5. AllOK(q, u.tab[c].state, qr, str)
    <3>1. AllOK(s, t.tab[c].state, pr, str) /\ (Over(q) \/ u.tab[c].state = t.tab[c].state)
      BY <1>4, <1>6, <1>9, <2>1, Zenon DEF s, q
    <3>2. \A m \in DOMAIN s : s[m].pid = p => s[m].id = id \/ id \in str
      BY <2>4, Zenon
    <3> QED BY <1>1, <1>2, <2>1, <3>1, <3>2, MarkedOK, Zenon DEF qr
  <2>6. Credits(u, qr, str)
    <3>1. \A i \in DOMAIN u.tab : AllOK(u.tab[i].ps, u.tab[i].state, qr, str)
      BY <1>4, <1>7, <1>9, <2>5, Zenon DEF q
    <3>2. ASSUME NEW x \in Pids, NEW k, x # p, Known(t, x, k) PROVE Known(u, x, k)
      BY <1>4, <1>9, <2>1, <2>3, <3>2, Zenon DEF Known, s, q
    <3> QED BY <1>1, <1>3, <3>1, <3>2, Zenon DEF Credits
  <2>7. /\ Sound(t, pr, n, str) /\ u \in Table /\ u.cur = t.cur /\ DOMAIN u.tab = DOMAIN t.tab
        /\ c \in DOMAIN t.tab /\ t.tab[c].used /\ u.tab[c].used = t.tab[c].used
        /\ n \in Nat /\ n <= n /\ Ordered(u.tab[c].ps, n)
        /\ qr \in [Pids -> Proc] /\ \A x \in Pids : qr[x].id <= n
    <3>1. u.tab[c].used = t.tab[c].used
      BY <1>4, <1>9, Zenon
    <3>2. n <= n
      BY <1>1
    <3> QED BY <1>1, <1>3, <1>4, <2>1, <2>2, <2>3, <3>1, <3>2, Zenon DEF q
  <2>8. \A i \in DOMAIN t.tab : i # c => u.tab[i] = t.tab[i]
    BY <1>4, <1>9, Zenon
  <2>9. /\ \A i \in DOMAIN t.tab : i # c /\ Above(t.tab[i].ps, t.tab[c].ps)
             => Above(t.tab[i].ps, u.tab[c].ps) \/ t.cur[1] = c
        /\ \A i \in DOMAIN t.tab : i # c /\ Above(t.tab[c].ps, t.tab[i].ps) => Above(u.tab[c].ps, t.tab[i].ps)
    BY <2>3, Zenon DEF s, q
  <2>10. Sound(u, qr, n, str)
    BY ONLY <2>6, <2>7, <2>8, <2>9, OneChanged, Zenon
  <2> QED BY <2>10 DEF qr
<1> QED BY <1>8, <1>9, Zenon

-----------------------------------------------------------------------------
(* Steps that change no list and no entry. *)
LEMMA SameSound ==
  ASSUME NEW t, NEW pr, NEW n, NEW str, Sound(t, pr, n, str),
         NEW u \in Table, u.cur = t.cur, DOMAIN u.tab = DOMAIN t.tab,
         \A i \in DOMAIN t.tab : /\ u.tab[i].ps = t.tab[i].ps /\ u.tab[i].used = t.tab[i].used
                                 /\ u.tab[i].state = t.tab[i].state
  PROVE  Sound(u, pr, n, str)
<1>1. /\ t \in Table /\ Listed(t) /\ Numbered(t, n) /\ Credits(t, pr, str)
  BY DEF Sound
<1>2. Listed(u)
  <2>1. \A i \in DOMAIN t.tab : (u.tab[i].used <=> t.tab[i].used) /\ u.tab[i].ps = t.tab[i].ps
    BY Zenon
  <2> QED BY <1>1, <2>1, SMTT(60) DEF Listed
<1>3. Numbered(u, n)
  <2>1. \A i \in DOMAIN t.cur : t.cur[i] \in DOMAIN t.tab
    BY <1>1, Zenon DEF Listed
  <2> QED BY <1>1, <2>1, SMTT(60) DEF Numbered
<1>4. Credits(u, pr, str)
  BY <1>1, Zenon DEF Credits, Known
<1> QED BY <1>2, <1>3, <1>4, Zenon DEF Sound

(* So does a child that ends and has not been waited for. *)
LEMMA ExitSound ==
  ASSUME NEW t, NEW pr, NEW n, NEW str, Sound(t, pr, n, str),
         NEW p \in Pids, pr[p].state = "running", NEW qr, qr = [pr EXCEPT ![p].state = "zombie"]
  PROVE  Sound(t, qr, n, str)
<1>1. /\ t \in Table /\ pr \in [Pids -> Proc] /\ Credits(t, pr, str) /\ \A x \in Pids : pr[x].id <= n
  BY DEF Sound
<1>2. /\ qr \in [Pids -> Proc] /\ \A x \in Pids : qr[x].id = pr[x].id
      /\ \A x \in Pids : qr[x].state = "none" <=> pr[x].state = "none"
  BY <1>1 DEF Proc
<1>3. ASSUME NEW i \in DOMAIN t.tab PROVE AllOK(t.tab[i].ps, t.tab[i].state, qr, str)
  <2>1. \A m \in DOMAIN t.tab[i].ps : t.tab[i].ps[m].pid \in Pids
    BY <1>1, EntryOf, Fields
  <2>2. AllOK(t.tab[i].ps, t.tab[i].state, pr, str)
    BY <1>1 DEF Credits
  <2> QED BY <1>2, <2>1, <2>2, Zenon DEF AllOK, EntryOK
<1>4. Credits(t, qr, str)
  BY <1>1, <1>2, <1>3, Zenon DEF Credits
<1> QED BY <1>2, <1>4 DEF Sound

(* The child that writes a here document is of no job. *)
LEMMA HereSound ==
  ASSUME NEW t, NEW pr, NEW n, NEW str, Sound(t, pr, n, str),
         NEW p \in Pids, pr[p].state = "none"
  PROVE  Sound(t, Spawned(pr, p, n + 1), n + 1, str \cup {n + 1})
<1> DEFINE qr == Spawned(pr, p, n + 1)
           S == str \cup {n + 1}
<1>1. /\ t \in Table /\ pr \in [Pids -> Proc] /\ n \in Nat /\ n + 1 \in Nat /\ str \subseteq 0..n
      /\ Listed(t) /\ Numbered(t, n) /\ Credits(t, pr, str) /\ \A x \in Pids : pr[x].id <= n
  BY DEF Sound
<1>2. /\ qr \in [Pids -> Proc] /\ \A x \in Pids : qr[x].id <= n + 1
      /\ \A x \in Pids : x # p => qr[x] = pr[x]
      /\ qr[p].id = n + 1 /\ qr[p].state = "running"
  BY <1>1, SpawnedProcs, Zenon
<1> HIDE DEF qr
<1>3. ASSUME NEW i \in DOMAIN t.tab
      PROVE  AllOK(t.tab[i].ps, t.tab[i].state, qr, S) /\ Ordered(t.tab[i].ps, n + 1)
  <2> DEFINE s == t.tab[i].ps
  <2>1. s \in Seq(Entry) /\ Ordered(s, n) /\ AllOK(s, t.tab[i].state, pr, str)
    BY <1>1, EntryOf, Zenon DEF Numbered, Credits
  <2>2. AllOK(s, t.tab[i].state, qr, str)
    BY <1>1, <2>1, SpawnOK, Zenon DEF qr
  <2>3. Ordered(s, n + 1)
    BY <1>1, <2>1, Later
  <2>4. \A m \in DOMAIN s : s[m].id \in Nat /\ s[m].id <= n
    BY <2>1, Fields, Zenon DEF Ordered
  <2> HIDE DEF s
  <2>5. AllOK(s, t.tab[i].state, qr, S)
    BY <1>1, <2>2, <2>4, SMTT(60) DEF AllOK, EntryOK
  <2> QED BY <2>3, <2>5, Zenon DEF s
<1>4. Credits(t, qr, S)
  <2>1. ASSUME NEW x \in Pids, qr[x].state # "none" PROVE qr[x].id \in S \/ Known(t, x, qr[x].id)
    BY <1>1, <1>2, <2>1, Zenon DEF Credits
  <2> QED BY <1>3, <2>1, Zenon DEF Credits
<1>5. Numbered(t, n + 1) /\ S \subseteq 0..(n + 1)
  BY <1>1, <1>3, SMTT(60) DEF Numbered
<1> QED BY <1>1, <1>2, <1>4, <1>5, Zenon DEF Sound, qr

-----------------------------------------------------------------------------
(* A job is freed that is done, or that could not be started. *)
LEMMA FreeDone ==
  ASSUME NEW t, NEW pr, NEW n, NEW str, Sound(t, pr, n, str),
         NEW j \in DOMAIN t.tab, t.tab[j].used, t.tab[j].state = "done", NEW u, u = freejob(t, j)
  PROVE  Sound(u, pr, n, str)
<1>1. Credits(t, pr, str) /\ str \subseteq 0..n
  BY Zenon DEF Sound
<1>2. AllOK(t.tab[j].ps, t.tab[j].state, pr, str)
  BY <1>1, Zenon DEF Credits
<1>3. /\ \A p \in Pids, id \in Nat : Expected(t.tab[j].ps, p, id) => id \in str
      /\ \A i \in DOMAIN t.tab : i # j => AllOK(t.tab[i].ps, t.tab[i].state, pr, str)
      /\ str \subseteq str
  BY <1>1, <1>2, Zenon DEF Credits, Expected, AllOK, EntryOK
<1> QED BY <1>1, <1>3, FreeSound, Zenon

(* Two jobs never share a process. *)
LEMMA Distinct ==
  ASSUME NEW t, NEW pr, NEW n, NEW str, Sound(t, pr, n, str),
         NEW i \in DOMAIN t.tab, NEW m \in DOMAIN t.tab[i].ps,
         NEW k \in DOMAIN t.tab, NEW l \in DOMAIN t.tab[k].ps, i # k
  PROVE  t.tab[i].ps[m].id # t.tab[k].ps[l].id
<1>1. t \in Table /\ Listed(t) /\ Numbered(t, n)
  BY DEF Sound
<1>2. t.tab[i].ps \in Seq(Entry) /\ t.tab[k].ps \in Seq(Entry)
  BY <1>1, EntryOf, Zenon
<1>3. t.tab[i].ps[m].id \in Nat /\ t.tab[k].ps[l].id \in Nat
  BY <1>2, Fields, Zenon
<1>4. t.tab[i].used /\ t.tab[k].used
  BY <1>1, <1>2, SMTT(60) DEF Listed
<1>5. PICK a, b \in DOMAIN t.cur : t.cur[a] = i /\ t.cur[b] = k
  BY <1>1, <1>4, SMTT(60) DEF Listed
<1>6. a \in Nat /\ b \in Nat /\ a # b
  BY <1>1, <1>5, SMTT(60) DEF Table
<1>7. Above(t.tab[i].ps, t.tab[k].ps) \/ Above(t.tab[k].ps, t.tab[i].ps)
  BY <1>1, <1>5, <1>6, SMTT(60) DEF Numbered
<1> QED BY <1>3, <1>7, SMTT(60) DEF Above

(* freejob() of a job whose children still run turns these into strays. *)
LEMMA FreeStrays ==
  ASSUME NEW t, NEW pr, NEW n, NEW str, Sound(t, pr, n, str),
         NEW j \in DOMAIN t.tab, t.tab[j].used, NEW u, u = freejob(t, j),
         NEW S, S = str \cup {e.id : e \in Range(t.tab[j].ps)}
  PROVE  Sound(u, pr, n, S)
<1> DEFINE s == t.tab[j].ps
<1>1. t \in Table /\ n \in Nat /\ Numbered(t, n) /\ Credits(t, pr, str) /\ str \subseteq 0..n
  BY Zenon DEF Sound
<1>2. S = str \cup {s[m].id : m \in DOMAIN s}
  BY Zenon DEF Range
<1>3. s \in Seq(Entry) /\ Ordered(s, n)
  BY <1>1, EntryOf, Zenon DEF Numbered
<1>4. \A m \in DOMAIN s : s[m].id \in 0..n
  BY <1>1, <1>3, Fields, SMTT(60) DEF Ordered
<1>5. str \subseteq S /\ S \subseteq 0..n
  BY <1>1, <1>2, <1>4, Zenon
<1>6. \A p \in Pids, id \in Nat : Expected(t.tab[j].ps, p, id) => id \in S
  BY <1>2, Zenon DEF Expected
<1>7. ASSUME NEW i \in DOMAIN t.tab, i # j PROVE AllOK(t.tab[i].ps, t.tab[i].state, pr, S)
  <2>1. AllOK(t.tab[i].ps, t.tab[i].state, pr, str)
    BY <1>1, Zenon DEF Credits
  <2>2. \A m \in DOMAIN t.tab[i].ps, l \in DOMAIN s : t.tab[i].ps[m].id # s[l].id
    BY <1>7, Distinct, ZenonT(60)
  <2>3. \A m \in DOMAIN t.tab[i].ps : t.tab[i].ps[m].id \notin str => t.tab[i].ps[m].id \notin S
    BY <1>2, <2>2, Zenon
  <2> QED BY <1>5, <2>1, <2>3, Zenon DEF AllOK, EntryOK
<1> QED BY <1>5, <1>6, <1>7, FreeSound, Zenon

-----------------------------------------------------------------------------
(* What is owed. *)
LEMMA LastHeld ==
  ASSUME NEW s \in Seq(Entry), NEW id, LastIs(s, id)
  PROVE  \E m \in DOMAIN s : s[m].id = id
<1>1. Len(s) \in DOMAIN s
  BY DEF LastIs
<1> QED BY <1>1 DEF LastIs

(* Only processes that were forked are owed a report. *)
LEMMA OwedBelow ==
  ASSUME NEW t, NEW pr, NEW n, NEW str, Sound(t, pr, n, str), NEW ow, Owes(t, ow)
  PROVE  ow \subseteq 0..n
<1>1. t \in Table /\ Numbered(t, n) /\ n \in Nat
  BY DEF Sound
<1>2. ASSUME NEW id \in ow PROVE id \in 0..n
  <2>1. PICK j \in DOMAIN t.tab : LastIs(t.tab[j].ps, id)
    BY DEF Owes
  <2>2. t.tab[j].ps \in Seq(Entry) /\ Ordered(t.tab[j].ps, n)
    BY <1>1, EntryOf, Zenon DEF Numbered
  <2>3. PICK m \in DOMAIN t.tab[j].ps : t.tab[j].ps[m].id = id
    BY <2>1, <2>2, LastHeld, Zenon
  <2> QED BY <1>1, <2>2, <2>3, Fields, SMTT(60) DEF Ordered
<1> QED BY <1>2

(* A job without such a process is owed none. *)
LEMMA UnownedLast ==
  ASSUME NEW s \in Seq(Entry), NEW ow, Unowed(s, ow), NEW id \in ow
  PROVE  ~LastIs(s, id)
BY LastHeld DEF Unowed

(* makejob() drops no job that is owed a report. *)
LEMMA MakeOwes ==
  ASSUME NEW t, NEW pr, NEW n, NEW str, Sound(t, pr, n, str), NEW ow, Owes(t, ow),
         NEW u, u = makejob(t), NEW j, j = MakeSlot(t), NEW f, f.op = "launch", f.j = j, f.st \in Nat \ {0}
  PROVE  Owes(u, ow) /\ FrameJob(f, u, ow)
<1>1. /\ u.cur # << >> /\ u.cur[1] = j
      /\ j \in DOMAIN u.tab /\ u.tab[j] = NewSlot
      /\ j \in DOMAIN t.tab => Takes(t.tab[j])
      /\ \A i \in DOMAIN t.tab : i # j => i \in DOMAIN u.tab /\ u.tab[i] = t.tab[i]
      /\ \A i \in DOMAIN u.tab : i # j =>
           (u.tab[i].ps # << >> => i \in DOMAIN t.tab /\ u.tab[i] = t.tab[i])
  <2>1. Took(t, u, j)
    BY MakeSound
  <2> QED BY ONLY <2>1, Zenon DEF Took
<1>2. /\ NewSlot.ps = << >> /\ DOMAIN NewSlot.ps = {} /\ Len(NewSlot.ps) = 0
      /\ NewSlot.state = "running" /\ NewSlot.waited = FALSE
  BY DEF NewSlot, FreeSlot
<1>3. ASSUME NEW id \in ow PROVE \E i \in DOMAIN u.tab : LastIs(u.tab[i].ps, id)
  <2>1. PICK i \in DOMAIN t.tab : LastIs(t.tab[i].ps, id)
    BY DEF Owes
  <2>2. ~t.tab[i].waited
    BY <2>1, Zenon DEF Owes
  <2>3. t.tab[i].used
    BY <2>1, Zenon DEF LastIs, Sound, Listed
  <2>4. i # j
    BY <1>1, <2>2, <2>3, Zenon DEF Takes
  <2> QED BY <1>1, <2>1, <2>4, Zenon
<1>4. ASSUME NEW i \in DOMAIN u.tab, NEW id \in ow, u.tab[i].waited PROVE ~LastIs(u.tab[i].ps, id)
  <2>1. CASE i = j
    BY <1>1, <1>2, <2>1, Zenon DEF LastIs
  <2>2. CASE i # j
    <3>1. CASE u.tab[i].ps = << >>
      BY <3>1, Zenon DEF LastIs
    <3>2. CASE u.tab[i].ps # << >>
      BY <1>1, <1>4, <2>2, <3>2, Zenon DEF Owes
    <3> QED BY <3>1, <3>2, Zenon
  <2> QED BY <2>1, <2>2, Zenon
<1>5. FrameJob(f, u, ow)
  <2>1. Unowed(u.tab[j].ps, ow) /\ Unwaited(u.tab[j].ps)
    BY <1>1, <1>2, Zenon DEF Unowed, Unwaited
  <2>2. u.tab[j].state = "running" /\ ~u.tab[j].waited /\ Len(u.tab[j].ps) = 0
    BY <1>1, <1>2, Zenon
  <2> QED BY <1>1, <2>1, <2>2, SMTT(60) DEF FrameJob
<1> QED BY <1>3, <1>4, <1>5, Zenon DEF Owes

(* Nor does forkparent(), which leaves the older jobs alone. *)
LEMMA ForkOwes ==
  ASSUME NEW t, NEW pr, NEW n, NEW str, Sound(t, pr, n, str), NEW ow, Owes(t, ow),
         NEW f, f.op = "launch", FrameJob(f, t, ow), f.st > 0,
         NEW p \in Pids, NEW bg \in BOOLEAN, NEW k, k = n + 1,
         NEW u, u = forkparent(t, f.j, k, p, bg),
         NEW g, g.op = f.op, g.j = f.j, g.st = f.st - 1
  PROVE  Owes(u, ow) /\ FrameJob(g, u, ow)
<1> DEFINE j == f.j
<1>1. /\ t \in Table /\ n \in Nat /\ k \in Nat /\ Listed(t)
  BY SMTT(60) DEF Sound
<1>2. /\ t.cur # << >> /\ j = t.cur[1] /\ t.tab[j].state = "running"
      /\ ~t.tab[j].waited /\ Unowed(t.tab[j].ps, ow) /\ Unwaited(t.tab[j].ps)
      /\ f.st \in Nat /\ Len(t.tab[j].ps) + f.st > 0
  BY Zenon DEF FrameJob
<1>3. u = forkparent(t, j, k, p, bg)
  BY Zenon
<1> HIDE DEF j
<1>4. /\ u.cur = t.cur /\ DOMAIN u.tab = DOMAIN t.tab /\ j \in DOMAIN t.tab
      /\ u.tab[j].ps = Longer(t.tab[j].ps, p, k)
      /\ u.tab[j].state = t.tab[j].state /\ u.tab[j].waited = t.tab[j].waited
      /\ \A i \in DOMAIN t.tab : i # j => u.tab[i] = t.tab[i]
  <2>1. t.cur # << >> /\ j = t.cur[1]
    BY <1>2, Zenon
  <2>2. u.cur = t.cur /\ DOMAIN u.tab = DOMAIN t.tab /\ j \in DOMAIN t.tab
    BY ONLY <1>1, <1>3, <2>1, p \in Pids, bg \in BOOLEAN, ForkView, SMTT(60)
  <2>3. u.tab[j].ps = Longer(t.tab[j].ps, p, k)
    BY ONLY <1>1, <1>3, <2>1, p \in Pids, bg \in BOOLEAN, ForkView, SMTT(60)
  <2>4. u.tab[j].state = t.tab[j].state
    BY ONLY <1>1, <1>3, <2>1, p \in Pids, bg \in BOOLEAN, ForkView, SMTT(60)
  <2>5. u.tab[j].waited = t.tab[j].waited
    BY ONLY <1>1, <1>3, <2>1, p \in Pids, bg \in BOOLEAN, ForkView, SMTT(60)
  <2>6. \A i \in DOMAIN t.tab : i # j => u.tab[i] = t.tab[i]
    BY ONLY <1>1, <1>3, <2>1, p \in Pids, bg \in BOOLEAN, ForkView, SMTT(60)
  <2> QED BY <2>2, <2>3, <2>4, <2>5, <2>6, Zenon
<1> DEFINE s == t.tab[j].ps
           q == u.tab[j].ps
<1>5. s \in Seq(Entry)
  BY <1>1, <1>4, EntryOf, Zenon
<1>6. q = Append(s, NewEntry(p, k))
  BY <1>4, Zenon DEF Longer
<1> HIDE DEF s, q
<1>7. NewEntry(p, k) \in Entry /\ NewEntry(p, k).id = k /\ NewEntry(p, k).status = Unset
  BY <1>1, Zenon DEF NewEntry, Entry
<1>8. Len(q) = Len(s) + 1 /\ Len(s) \in Nat /\ \A m \in DOMAIN q : q[m] = NewEntry(p, k) \/ \E l \in DOMAIN s : q[m] = s[l]
  <2>1. /\ DOMAIN s = 1..Len(s) /\ Len(s) \in Nat /\ DOMAIN q = 1..(Len(s) + 1) /\ Len(q) = Len(s) + 1
        /\ \A m \in 1..Len(s) : q[m] = s[m]
        /\ q[Len(s) + 1] = NewEntry(p, k)
    BY ONLY <1>5, <1>6, <1>7
  <2> QED BY <2>1, SMTT(60)
<1>9. k \notin ow
  BY <1>1, OwedBelow, SMTT(60)
<1>10. Unowed(q, ow) /\ Unwaited(q)
  <2>1. Unowed(s, ow) /\ Unwaited(s)
    BY <1>2, Zenon DEF s
  <2>2. \A m \in DOMAIN q : q[m].id \notin ow /\ q[m].status = Unset
    BY <1>7, <1>8, <1>9, <2>1, Zenon DEF Unowed, Unwaited
  <2> QED BY <2>2, Zenon DEF Unowed, Unwaited
<1>11. ~u.tab[j].waited
  BY <1>2, <1>4, Zenon
<1>12. ASSUME NEW id \in ow PROVE \E i \in DOMAIN u.tab : LastIs(u.tab[i].ps, id)
  <2>1. PICK i \in DOMAIN t.tab : LastIs(t.tab[i].ps, id)
    BY Zenon DEF Owes
  <2>2. i # j
    BY <1>2, <1>5, <2>1, UnownedLast, Zenon DEF s
  <2> QED BY <1>4, <2>1, <2>2, Zenon
<1>13. Owes(u, ow)
  BY <1>4, <1>11, <1>12, SMTT(60) DEF Owes
<1>14. g.st \in Nat /\ Len(q) + g.st > 0
  <2>1. g.st = f.st - 1 /\ f.st > 0 BY Zenon
  <2>2. f.st \in Nat BY <1>2, Zenon
  <2> QED BY ONLY <1>8, <2>1, <2>2, SMT
<1>15. u.tab[j].state = "running" /\ u.cur # << >> /\ g.j = u.cur[1] /\ g.j = j
  BY <1>2, <1>4, Zenon DEF j
<1> QED BY <1>10, <1>11, <1>13, <1>14, <1>15, Zenon DEF FrameJob, q

(* Nor does freejob() of a job that is owed none. *)
LEMMA FreeOwes ==
  ASSUME NEW t \in Table, Listed(t), NEW j \in DOMAIN t.tab, t.tab[j].used, NEW u, u = freejob(t, j),
         NEW ow, Owes(t, ow), NEW less \in SUBSET ow, \A id \in less : ~LastIs(t.tab[j].ps, id)
  PROVE  Owes(u, less)
<1>1. /\ DOMAIN u.tab = DOMAIN t.tab
      /\ \A i \in DOMAIN t.tab : u.tab[i] = IF i = j THEN FreeSlot ELSE t.tab[i]
  BY FreeView
<1>2. FreeSlot.ps = << >>
  BY Zenon DEF FreeSlot
<1>3. \A id : ~LastIs(FreeSlot.ps, id)
  BY <1>2 DEF LastIs
<1>4. \A id \in less : \E i \in DOMAIN u.tab : LastIs(u.tab[i].ps, id)
  BY <1>1, Zenon DEF Owes
<1>5. \A i \in DOMAIN u.tab : \A id \in less : u.tab[i].waited => ~LastIs(u.tab[i].ps, id)
  BY <1>1, <1>3, Zenon DEF Owes
<1> QED BY <1>4, <1>5, Zenon DEF Owes

(* A background job has been started. *)
LEMMA LaunchedOwes ==
  ASSUME NEW t, NEW pr, NEW n, NEW str, Sound(t, pr, n, str), NEW ow, Owes(t, ow),
         NEW f, f.op = "launch", FrameJob(f, t, ow), f.st = 0,
         NEW more, more = ow \cup {lastproc(t.tab[f.j]).id}
  PROVE  Owes(t, more)
<1> DEFINE j == f.j
           s == t.tab[j].ps
           id == lastproc(t.tab[j]).id
<1>1. t \in Table /\ Listed(t)
  BY Zenon DEF Sound
<1>2. /\ t.cur # << >> /\ j = t.cur[1] /\ ~t.tab[j].waited /\ Len(s) + f.st > 0
  BY Zenon DEF FrameJob
<1>3. j \in DOMAIN t.tab
  BY <1>1, <1>2, SMTT(60) DEF Listed, Table
<1>4. s \in Seq(Entry)
  BY <1>1, <1>3, EntryOf, Zenon
<1>5. LastIs(s, id)
  <2>1. s # << >>
    BY <1>2, <1>4, SMTT(60)
  <2> QED BY <2>1, Zenon DEF LastIs, lastproc
<1> HIDE DEF j, s, id
<1>6. ASSUME NEW i \in DOMAIN t.tab, t.tab[i].waited PROVE ~LastIs(t.tab[i].ps, id)
  <2>1. i # j /\ t.tab[i].ps \in Seq(Entry)
    BY <1>1, <1>2, <1>6, EntryOf, Zenon
  <2>2. PICK m \in DOMAIN s : s[m].id = id
    BY <1>4, <1>5, LastHeld, Zenon
  <2>3. \A l \in DOMAIN t.tab[i].ps : t.tab[i].ps[l].id # s[m].id
    BY <1>3, <2>1, <2>2, Distinct, SMTT(60) DEF s
  <2> QED BY <2>1, <2>2, <2>3, LastHeld, Zenon
<1>7. more = ow \cup {id}
  BY Zenon DEF id, j
<1>8. \A x \in more : \E i \in DOMAIN t.tab : LastIs(t.tab[i].ps, x)
  BY <1>3, <1>5, <1>7, SMTT(60) DEF Owes, s
<1>9. \A i \in DOMAIN t.tab : \A x \in more : t.tab[i].waited => ~LastIs(t.tab[i].ps, x)
  BY <1>6, <1>7, Zenon DEF Owes
<1> QED BY <1>8, <1>9, Zenon DEF Owes

(* The frame of a foreground job that is waited for after it has been started. *)
LEMMA LaunchedFrame ==
  ASSUME NEW t, NEW pr, NEW n, NEW str, Sound(t, pr, n, str), NEW ow,
         NEW f, f.op = "launch", FrameJob(f, t, ow),
         NEW g, g.op = "waitforjob", g.j = f.j
  PROVE  FrameJob(g, t, ow)
<1>1. t \in Table /\ Listed(t)
  BY Zenon DEF Sound
<1>2. t.cur # << >> /\ f.j = t.cur[1] /\ ~t.tab[f.j].waited /\ Unowed(t.tab[f.j].ps, ow)
  BY Zenon DEF FrameJob
<1>3. f.j \in DOMAIN t.tab /\ t.tab[f.j].used
  BY <1>1, <1>2, SMTT(60) DEF Listed, Table
<1> QED BY <1>2, <1>3, Zenon DEF FrameJob

(* dowait() changes no number. *)
LEMMA ReapOwes ==
  ASSUME NEW t, NEW pr, NEW n, NEW str, Sound(t, pr, n, str), NEW ow, Owes(t, ow),
         NEW p \in Pids, NEW id \in Nat, NEW u, u = Reaped(t, p, id),
         NEW f, FrameJob(f, t, ow), NEW g, Kept(g, f), f.op # "launch"
  PROVE  Owes(u, ow) /\ FrameJob(g, u, ow)
<1> DEFINE c == Credited(t, p)
<1>1. t \in Table /\ Listed(t)
  BY DEF Sound
<1>2. c = 0 \/ c \in DOMAIN t.tab
  BY <1>1, CreditedOf, Zenon
<1>3. /\ DOMAIN u.tab = DOMAIN t.tab
      /\ c = 0 => u.tab = t.tab
      /\ c # 0 => /\ u.tab[c].ps = Marked(t.tab[c].ps, p, id) /\ u.tab[c].used = t.tab[c].used
                  /\ u.tab[c].waited = t.tab[c].waited
                  /\ \A i \in DOMAIN t.tab : i # c => u.tab[i] = t.tab[i]
  <2>1. u = Reaped(t, p, id) /\ id \in Nat /\ c = Credited(t, p)
    OBVIOUS
  <2> HIDE DEF c
  <2> QED BY ONLY <1>1, <1>2, <2>1, ReapView, SMTT(60)
<1> HIDE DEF c
<1>4. ASSUME NEW i \in DOMAIN t.tab
      PROVE  /\ (u.tab[i].used <=> t.tab[i].used) /\ (u.tab[i].waited <=> t.tab[i].waited)
             /\ \A x : LastIs(u.tab[i].ps, x) <=> LastIs(t.tab[i].ps, x)
             /\ Unowed(t.tab[i].ps, ow) => Unowed(u.tab[i].ps, ow)
  <2>1. CASE c = 0 \/ i # c
    BY <1>3, <2>1, Zenon
  <2>2. CASE c # 0 /\ i = c
    <3> DEFINE s == t.tab[c].ps
               q == u.tab[c].ps
    <3>1. s \in Seq(Entry) /\ q = Marked(s, p, id)
      BY <1>1, <1>3, <2>2, EntryOf, Zenon
    <3> HIDE DEF s, q
    <3>2. /\ q \in Seq(Entry) /\ DOMAIN q = DOMAIN s /\ Len(q) = Len(s)
          /\ \A m \in DOMAIN s : q[m].id = s[m].id
      BY ONLY <3>1, id \in Nat, MarkedOf, SMTT(60)
    <3>3. (q = << >> <=> s = << >>) /\ (s # << >> => Len(s) \in DOMAIN s)
      BY <3>1, <3>2
    <3>4. \A x : LastIs(q, x) <=> LastIs(s, x)
      BY <3>2, <3>3 DEF LastIs
    <3>5. Unowed(s, ow) => Unowed(q, ow)
      BY <3>2, Zenon DEF Unowed
    <3>6. (u.tab[c].used <=> t.tab[c].used) /\ (u.tab[c].waited <=> t.tab[c].waited)
      BY <1>3, <2>2, Zenon
    <3> QED BY <2>2, <3>4, <3>5, <3>6, Zenon DEF s, q
  <2> QED BY <2>1, <2>2, Zenon
<1>5. Owes(u, ow)
  BY <1>3, <1>4, Zenon DEF Owes
<1>6. FrameJob(g, u, ow)
  BY <1>3, <1>4, Zenon DEF FrameJob, Kept
<1> QED BY <1>5, <1>6

(* "wait" marks jobs, and who is marked is told about. *)
Marks(t, u) ==
    /\ u \in Table /\ u.cur = t.cur /\ DOMAIN u.tab = DOMAIN t.tab
    /\ \A i \in DOMAIN t.tab : /\ u.tab[i].ps = t.tab[i].ps /\ u.tab[i].used = t.tab[i].used
                               /\ u.tab[i].state = t.tab[i].state

(* Marking a job as waited for changes nothing else. *)
LEMMA MarkedJob ==
  ASSUME NEW w \in Job, NEW v, v = [w EXCEPT !.waited = TRUE]
  PROVE  v \in Job /\ v.ps = w.ps /\ v.used = w.used /\ v.state = w.state
BY Zenon DEF Job

(* wait with an operand marks one job ... *)
LEMMA MarkOne ==
  ASSUME NEW t \in Table, NEW j \in DOMAIN t.tab, NEW u, u = [t EXCEPT !.tab[j].waited = TRUE]
  PROVE  Marks(t, u)
<1> DEFINE v == [t.tab[j] EXCEPT !.waited = TRUE]
           x == [t.tab EXCEPT ![j] = v]
<1>1. t.tab \in Seq(Job) /\ t.tab[j] \in Job
  BY DEF Table
<1>2. v \in Job /\ v.ps = t.tab[j].ps /\ v.used = t.tab[j].used /\ v.state = t.tab[j].state
  BY <1>1, MarkedJob
<1>3. u = [t EXCEPT !.tab = x]
  OBVIOUS
<1> HIDE DEF v
<1>4. x \in Seq(Job) /\ DOMAIN x = DOMAIN t.tab /\ x[j] = v /\ \A i \in DOMAIN t.tab : i # j => x[i] = t.tab[i]
  BY <1>1, <1>2
<1> HIDE DEF x
<1>5. u \in Table /\ u.cur = t.cur /\ u.tab = x
  BY <1>3, <1>4, Zenon DEF Table
<1>6. ASSUME NEW i \in DOMAIN t.tab
      PROVE  u.tab[i].ps = t.tab[i].ps /\ u.tab[i].used = t.tab[i].used /\ u.tab[i].state = t.tab[i].state
  BY <1>2, <1>4, <1>5
<1> QED BY <1>4, <1>5, <1>6 DEF Marks

(* ... and without one those before the first that runs. *)
LEMMA MarkAll ==
  ASSUME NEW t \in Table, NEW u, u = MarkWaited(t)
  PROVE  Marks(t, u)
<1> DEFINE n == FirstRunning(t)
           seen == {t.cur[i] : i \in {i \in DOMAIN t.cur : n = 0 \/ i < n}}
           x == [j \in DOMAIN t.tab |-> IF j \in seen THEN [t.tab[j] EXCEPT !.waited = TRUE] ELSE t.tab[j]]
<1>1. u = [t EXCEPT !.tab = x]
  BY DEF MarkWaited
<1> HIDE DEF seen
<1>2. t.tab \in Seq(Job) /\ DOMAIN t.tab = 1..Len(t.tab) /\ Len(t.tab) \in Nat
  BY DEF Table
<1>3. ASSUME NEW i \in DOMAIN t.tab
      PROVE  /\ x[i] \in Job /\ x[i].ps = t.tab[i].ps /\ x[i].used = t.tab[i].used
             /\ x[i].state = t.tab[i].state
  <2>1. t.tab[i] \in Job /\ x[i] = IF i \in seen THEN [t.tab[i] EXCEPT !.waited = TRUE] ELSE t.tab[i]
    BY <1>2
  <2> HIDE DEF x
  <2> QED BY <2>1, MarkedJob
<1>4. DOMAIN x = DOMAIN t.tab /\ x = [i \in DOMAIN t.tab |-> x[i]]
  OBVIOUS
<1> HIDE DEF x
<1>5. x \in [1..Len(t.tab) -> Job]
  BY <1>2, <1>3, <1>4, Zenon
<1>6. x \in Seq(Job)
  BY ONLY <1>2, <1>5
<1>7. u \in Table /\ u.cur = t.cur /\ u.tab = x
  BY <1>1, <1>6, Zenon DEF Table
<1> QED BY <1>3, <1>4, <1>7, Zenon DEF Marks

(* Marking keeps the table sound, and the jobs that are still owed a report *)
(* in it.                                                                   *)
LEMMA MarkSound ==
  ASSUME NEW t, NEW pr, NEW n, NEW str, Sound(t, pr, n, str), NEW ow, Owes(t, ow),
         NEW u, Marks(t, u),
         NEW less, less = ow \ {e \in ow : \E j \in Range(u.cur) : u.tab[j].waited /\ lastproc(u.tab[j]).id = e},
         NEW f, f.op = "waitcmd", FrameJob(f, t, ow), NEW g, Kept(g, f)
  PROVE  Sound(u, pr, n, str) /\ Owes(u, less) /\ FrameJob(g, u, less)
<1>1. /\ u \in Table /\ u.cur = t.cur /\ DOMAIN u.tab = DOMAIN t.tab
      /\ \A i \in DOMAIN t.tab : /\ u.tab[i].ps = t.tab[i].ps /\ u.tab[i].used = t.tab[i].used
                                 /\ u.tab[i].state = t.tab[i].state
  BY Zenon DEF Marks
<1>2. Sound(u, pr, n, str)
  BY <1>1, SameSound, Zenon
<1>3. \A id \in less : \E i \in DOMAIN u.tab : LastIs(u.tab[i].ps, id)
  BY <1>1, Zenon DEF Owes
<1>4. ASSUME NEW i \in DOMAIN u.tab, NEW id \in less, u.tab[i].waited PROVE ~LastIs(u.tab[i].ps, id)
  <2> SUFFICES ASSUME LastIs(u.tab[i].ps, id) PROVE FALSE
    OBVIOUS
  <2>1. Listed(u)
    BY <1>2, Zenon DEF Sound
  <2>2. u.tab[i].used
    BY <2>1, Zenon DEF Listed, LastIs
  <2>3. i \in Range(u.cur)
    BY <2>1, <2>2, Zenon DEF Listed, Range
  <2>4. lastproc(u.tab[i]).id = id
    BY Zenon DEF LastIs, lastproc
  <2> QED BY <1>4, <2>3, <2>4, Zenon
<1>5. FrameJob(g, u, less)
  <2>1. g.op = "waitcmd" /\ g.j = f.j
    BY Zenon DEF Kept
  <2>2. f.j = 0 \/ (f.j \in DOMAIN t.tab /\ t.tab[f.j].used)
    BY Zenon DEF FrameJob
  <2>3. f.j = 0 \/ (f.j \in DOMAIN u.tab /\ u.tab[f.j].used)
    BY <1>1, <2>2, Zenon
  <2> QED BY <2>1, <2>3, Zenon DEF FrameJob
<1> QED BY <1>2, <1>3, <1>4, <1>5, Zenon DEF Owes

-----------------------------------------------------------------------------
(* The jobs that operands and the list name. *)
LEMMA Named ==
  ASSUME NEW t \in Table, Listed(t), NEW j, j # 0,
         j \in Operands(t) \/ \E p \in Pids : j = JobOfPid(t, p)
  PROVE  j \in DOMAIN t.tab /\ t.tab[j].used
<1>1. \A k \in DOMAIN t.cur : t.cur[k] \in DOMAIN t.tab /\ t.tab[t.cur[k]].used
  BY Zenon DEF Listed
<1>2. t.cur \in Seq(Nat) /\ t.tab \in Seq(Job)
  BY DEF Table
<1>3. CASE j \in Operands(t)
  <2>1. CASE \E n \in 1..Len(t.tab) + 1 : j = getjob(t, n)
    BY <1>2, <2>1, SMTT(60) DEF getjob
  <2>2. CASE j = CurrentJob(t) \/ j = PreviousJob(t)
    BY <1>1, <1>2, <2>2, SMTT(60) DEF CurrentJob, PreviousJob
  <2> QED BY <1>3, <2>1, <2>2, Zenon DEF Operands
<1>4. CASE \E p \in Pids : j = JobOfPid(t, p)
  <2>1. PICK js : j = FirstOf(t, js)
    BY <1>4, Zenon DEF JobOfPid
  <2>2. Place(t, js) \in DOMAIN t.cur
    BY <2>1, PlaceOf, Zenon DEF FirstOf
  <2> QED BY <1>1, <2>1, <2>2, Zenon DEF FirstOf
<1> QED BY <1>3, <1>4, Zenon

(* The next job of the list is another job in use. *)
LEMMA Following ==
  ASSUME NEW t \in Table, Listed(t), NEW j \in DOMAIN t.tab, t.tab[j].used, NEW k, k = prev_job(t, j), k # 0
  PROVE  k \in DOMAIN t.tab /\ t.tab[k].used /\ k # j
<1> DEFINE at == Place(t, {j})
<1>1. t.cur \in Seq(Nat) /\ DOMAIN t.cur = 1..Len(t.cur) /\ Len(t.cur) \in Nat
  BY DEF Table
<1>2. \E i \in DOMAIN t.cur : t.cur[i] = j
  BY Zenon DEF Listed
<1>3. at \in DOMAIN t.cur /\ t.cur[at] = j
  BY <1>2, PlaceFound, Zenon
<1>4. at # Len(t.cur) /\ k = t.cur[at + 1]
  BY Zenon DEF prev_job
<1> HIDE DEF at
<1>5. at + 1 \in DOMAIN t.cur /\ at + 1 # at
  BY <1>1, <1>3, <1>4, SMTT(60)
<1> QED BY <1>3, <1>4, <1>5, SMTT(60) DEF Listed

(* "jobs" has shown job j of table t, which is done: u is the table then, and *)
(* less the statuses that are still owed.                                     *)
Showed(t, ow, j, u, less) ==
    /\ Owes(t, ow) /\ j \in DOMAIN t.tab /\ t.tab[j].used /\ t.tab[j].state = "done"
    /\ u = freejob(t, j) /\ less = ow \ {lastproc(t.tab[j]).id}

NextShown(t, j, u, less) ==
    \A f : f.op = "showjobs" /\ f.j = prev_job(t, j) => FrameJob(f, u, less)

(* The table after a job is shown, and the frame that goes on with the next.  *)
LEMMA ShowSound ==
  ASSUME NEW t, NEW pr, NEW n, NEW str, Sound(t, pr, n, str), NEW ow, NEW j, NEW u, NEW less,
         Showed(t, ow, j, u, less)
  PROVE  Sound(u, pr, n, str) /\ Owes(u, less) /\ NextShown(t, j, u, less)
<1>0. /\ Owes(t, ow) /\ j \in DOMAIN t.tab /\ t.tab[j].used /\ t.tab[j].state = "done"
      /\ u = freejob(t, j) /\ less = ow \ {lastproc(t.tab[j]).id}
  BY DEF Showed
<1>1. t \in Table /\ Listed(t)
  BY Zenon DEF Sound
<1>2. Sound(u, pr, n, str)
  BY <1>0, FreeDone, Zenon
<1>3. \A id \in less : ~LastIs(t.tab[j].ps, id)
  BY <1>0, Zenon DEF LastIs, lastproc
<1>4. Owes(u, less)
  BY <1>0, <1>1, <1>3, FreeOwes, SMTT(60)
<1>5. ASSUME NEW f, f.op = "showjobs", f.j = prev_job(t, j) PROVE FrameJob(f, u, less)
  <2>1. CASE f.j = 0
    BY <1>5, <2>1, Zenon DEF FrameJob
  <2>2. CASE f.j # 0
    <3>1. f.j \in DOMAIN t.tab /\ t.tab[f.j].used /\ f.j # j
      BY <1>0, <1>1, <1>5, <2>2, Following, Zenon
    <3>2. f.j \in DOMAIN u.tab /\ u.tab[f.j] = t.tab[f.j]
      BY <1>0, <1>1, <3>1, FreeView, SMTT(60)
    <3> QED BY <1>5, <3>1, <3>2, Zenon DEF FrameJob
  <2> QED BY <2>1, <2>2, Zenon
<1> QED BY <1>2, <1>4, <1>5, Zenon DEF NextShown

=============================================================================
