------------------------------ MODULE EnvProofs ------------------------------
(* The environment functions, for any names, values and initial environment  *)
(* and however many calls.                                                   *)
EXTENDS Env, FiniteSetTheorems, SequenceTheorems, TLAPS

(* What Min is for, of places in an array. *)
LEMMA Least ==
  ASSUME NEW H \in SUBSET Nat, H # {}
  PROVE  Min(H) \in H /\ \A i \in H : Min(H) <= i
<1> DEFINE T == {0..h : h \in H}
<1>1. T \subseteq FiniteSubsetsOf(Nat)
  <2>1. \A h \in H : IsFiniteSet(0..h)
    BY FS_Interval
  <2> QED BY <2>1 DEF FiniteSubsetsOf
<1>2. PICK I \in T : \A J \in T : ~ (<<J, I>> \in StrictSubsetOrdering(Nat))
  <2>1. T # {}
    BY Zenon
  <2> HIDE DEF T
  <2> QED BY <1>1, <2>1, FS_StrictSubsetOrderingWellFounded, WFMin
<1>3. PICK m \in H : I = 0..m
  OBVIOUS
<1>4. \A i \in H : m <= i
  <2> SUFFICES ASSUME NEW i \in H, i < m
               PROVE  FALSE
    OBVIOUS
  <2>1. 0..i \subseteq 0..m /\ m \notin 0..i /\ m \in 0..m
    OBVIOUS
  <2>2. <<0..i, 0..m>> \in StrictSubsetOrdering(Nat)
    BY <2>1 DEF StrictSubsetOrdering
  <2> QED BY <1>2, <1>3, <2>2, Zenon
<1> QED BY <1>4, Zenon DEF Min

(* RemoveAt closes the gap, as the loop of unsetenv() does. *)
LEMMA Removed ==
  ASSUME NEW S, NEW s \in Seq(S), NEW i \in 1..Len(s)
  PROVE  /\ RemoveAt(s, i) \in Seq(S) /\ Len(RemoveAt(s, i)) = Len(s) - 1
         /\ \A k \in 1..(Len(s) - 1) : RemoveAt(s, i)[k] = IF k < i THEN s[k] ELSE s[k + 1]
<1> DEFINE a == SubSeq(s, 1, i - 1)
           b == SubSeq(s, i + 1, Len(s))
<1>1. Len(s) \in Nat /\ \A k \in 1..Len(s) : s[k] \in S
  OBVIOUS
<1>2. /\ a \in Seq(S) /\ Len(a) = i - 1
      /\ \A k \in 1..(i - 1) : a[k] = s[k]
  BY <1>1, SubSeqProperties
<1>3. /\ b \in Seq(S) /\ Len(b) = Len(s) - i
      /\ \A k \in 1..(Len(s) - i) : b[k] = s[i + k]
  <2>1. /\ b \in Seq(S)
        /\ Len(b) = IF i + 1 <= Len(s) THEN Len(s) - (i + 1) + 1 ELSE 0
        /\ \A k \in 1..(Len(s) - (i + 1) + 1) : b[k] = s[i + 1 + k - 1]
    BY <1>1, SubSeqProperties
  <2> QED BY <2>1
<1> HIDE DEF a, b
<1>4. /\ a \o b \in Seq(S) /\ Len(a \o b) = Len(a) + Len(b)
      /\ \A k \in 1..(Len(a) + Len(b)) : (a \o b)[k] =
           IF k <= Len(a) THEN a[k] ELSE b[k - Len(a)]
  BY <1>2, <1>3, ConcatProperties, Zenon
<1>5. RemoveAt(s, i) = a \o b
  BY DEF RemoveAt, a, b
<1>6. Len(a) + Len(b) = Len(s) - 1
  BY <1>1, <1>2, <1>3
<1>7. ASSUME NEW k \in 1..(Len(s) - 1)
      PROVE  (a \o b)[k] = IF k < i THEN s[k] ELSE s[k + 1]
  <2>1. CASE k < i
    BY <1>1, <1>2, <1>4, <1>6, <2>1
  <2>2. CASE ~(k < i)
    <3>1. k - (i - 1) \in 1..(Len(s) - i) /\ i + (k - (i - 1)) = k + 1
      BY <1>1, <2>2
    <3>2. (a \o b)[k] = b[k - (i - 1)]
      BY <1>1, <1>2, <1>4, <1>6, <2>2
    <3> QED BY <1>3, <2>2, <3>1, <3>2
  <2> QED BY <2>1, <2>2, Zenon
<1> QED BY <1>4, <1>5, <1>6, <1>7, Zenon

-----------------------------------------------------------------------------
(* Inductive: the array is as large as __environ_size says where __put_env has *)
(* allocated it; the kernel's array never has a size.                          *)
Inv ==
  /\ environ \in [place : Places, slots : Nat, strings : Seq(Entry)]
  /\ Len(environ.strings) < environ.slots
  /\ environ_size \in Nat /\ crashed \in BOOLEAN
  /\ environ.place = "heap" => environ.slots = environ_size
  /\ environ.place = "stack" => environ_size = 0
  /\ crashed => environ.place = "null"

(* The environment a process starts with. *)
LEMMA InitInv == Init => Inv
<1>1. Len(Initial) \in Nat /\ Len(Initial) + 1 \in Nat
  BY EnvAssumption
<1>2. Init => environ \in [place : Places, slots : Nat, strings : Seq(Entry)]
  BY <1>1, EnvAssumption DEF Init, Places
<1>3. Init => environ_size \in Nat /\ environ_size = 0 /\ environ.place = "stack"
              /\ Len(environ.strings) < environ.slots
  BY <1>1 DEF Init
<1>4. Init => crashed = FALSE
  BY DEF Init
<1> QED BY Zenon, <1>2, <1>3, <1>4 DEF Inv

(* The strings after a call of __put_env that changes them. *)
LEMMA Extended ==
  ASSUME Inv, ~crashed, NEW e \in Entry, Extends(e)
  PROVE  /\ Inv'
         /\ environ' # environ => environ'.strings = Append(environ.strings, e)
<1> DEFINE n == Len(environ.strings) + 1
<1>1. CASE HasRoom(n) /\ environ.place # "null" /\ n < environ.slots
  BY <1>1, SMTT(30) DEF Extends, Inv, HasRoom, Places
<1>2. CASE HasRoom(n) /\ ~(environ.place # "null" /\ n < environ.slots)
  <2>1. environ.place = "null" /\ UNCHANGED <<environ, environ_size>> /\ crashed' = TRUE
    BY <1>2, SMTT(30) DEF Extends, Inv, HasRoom, Places
  <2> QED BY <2>1 DEF Inv
<1>3. CASE ~HasRoom(n)
  <2>1. CASE UNCHANGED vars
    BY <2>1 DEF Inv, vars
  <2>2. CASE ~UNCHANGED vars
    <3>1. /\ environ' = [place |-> "heap", slots |-> NewSize(n),
                         strings |-> Append(environ.strings, e)]
          /\ environ_size' = NewSize(n) /\ UNCHANGED crashed
      BY <1>3, <2>2 DEF Extends
    <3>2. /\ Append(environ.strings, e) \in Seq(Entry)
          /\ Len(Append(environ.strings, e)) = n /\ NewSize(n) \in Nat /\ n < NewSize(n)
      BY EnvAssumption DEF Inv, NewSize
    <3> QED BY <3>1, <3>2 DEF Inv, Places
  <2> QED BY <2>1, <2>2
<1> QED BY <1>1, <1>2, <1>3, Zenon

(* A call that finds the key replaces the string at the first place. *)
LEMMA Replaced ==
  ASSUME Inv, NEW e \in Entry, NEW i \in DOMAIN environ.strings,
         environ' = [environ EXCEPT !.strings[i] = e],
         UNCHANGED <<environ_size, crashed>>
  PROVE  Inv' /\ environ'.strings = [environ.strings EXCEPT ![i] = e]
BY SMTT(30) DEF Inv

(* __put_env() adds an entry or replaces one, and moves the array if it is *)
(* full.                                                                   *)
LEMMA PutInv ==
  ASSUME Inv, NEW e \in Entry, NEW H \in SUBSET DOMAIN environ.strings,
         NEW o \in BOOLEAN, put_env(e, H, o)
  PROVE  Inv'
<1>1. CASE H = {}
  BY <1>1, Extended DEF put_env
<1>2. CASE H # {} /\ o
  <2>1. FirstHit(H) \in DOMAIN environ.strings
    BY <1>2, Least DEF FirstHit, Inv
  <2> QED BY <1>2, <2>1, Replaced, Zenon DEF put_env
<1>3. CASE H # {} /\ ~o
  BY <1>3 DEF put_env, Inv
<1> QED BY <1>1, <1>2, <1>3

(* unsetenv() shortens the array in place. *)
LEMMA UnsetInv ==
  ASSUME Inv, NEW n \in Names, unsetenv(n)
  PROVE  Inv'
<1> DEFINE H == {i \in DOMAIN Strings : UnsetKey(Strings[i], n)}
<1>1. Min(H) \in 1..Len(Strings)
  <2>1. H \in SUBSET Nat /\ H # {} /\ H \subseteq 1..Len(Strings)
    BY DEF Inv, unsetenv, Strings
  <2> HIDE DEF H
  <2> QED BY <2>1, Least, Zenon
<1>2. environ' = [environ EXCEPT !.strings = RemoveAt(Strings, Min(H))]
  BY DEF unsetenv
<1>3. RemoveAt(Strings, Min(H)) \in Seq(Entry)
      /\ Len(RemoveAt(Strings, Min(H))) = Len(Strings) - 1
  BY <1>1, Removed DEF Inv, Strings
<1> HIDE DEF H
<1> QED BY <1>2, <1>3, SMTT(60) DEF Inv, unsetenv, Strings

(* Every call keeps Inv. *)
LEMMA NextInv == Inv /\ [Next]_vars => Inv'
<1> SUFFICES ASSUME Inv, [Next]_vars
             PROVE  Inv'
  OBVIOUS
<1>1. ASSUME NEW n \in Names, NEW v \in Values, NEW o \in BOOLEAN, setenv(n, v, o)
      PROVE  Inv'
  BY <1>1, PutInv DEF setenv, Entry, Strings
<1>2. ASSUME NEW n \in Names, NEW v \in Values, putenv(n, v)
      PROVE  Inv'
  BY <1>2, PutInv, Zenon DEF putenv, Entry, Strings
<1>3. ASSUME NEW n \in Names, unsetenv(n)
      PROVE  Inv'
  BY <1>3, UnsetInv
<1>4. CASE clearenv
  <2>1. /\ environ' \in [place : Places, slots : Nat, strings : Seq(Entry)]
        /\ environ'.place = "null" /\ Len(environ'.strings) < environ'.slots
    BY <1>4 DEF clearenv, Places
  <2> QED BY <1>4, <2>1 DEF clearenv, Inv
<1>5. CASE UNCHANGED vars
  BY <1>5 DEF vars, Inv
<1> QED BY <1>1, <1>2, <1>3, <1>4, <1>5 DEF Next

(* Every sequence of setenv(), putenv(), unsetenv() and clearenv() keeps the *)
(* array and the size that is kept for it (__put_env.c) in step.             *)
THEOREM Invariant == Spec => []Inv
BY InitInv, NextInv, PTL DEF Spec

(* The strings and the NULL that ends them always fit in the array, however    *)
(* the calls of setenv(), putenv(), unsetenv() and clearenv() follow.          *)
THEOREM EnvTypes == Spec => []TypeOK
<1>1. Inv => TypeOK
  BY DEF Inv, TypeOK
<1> QED BY <1>1, Invariant, PTL

(* __put_env (__put_env.c:45-70) stays inside the array unless clearenv() has  *)
(* left the size of an array behind that is gone.                              *)
THEOREM GrowthSafe == Spec => []GrowthInBounds
<1>1. Inv => GrowthInBounds
  BY DEF Inv, GrowthInBounds
<1> QED BY <1>1, Invariant, PTL

-----------------------------------------------------------------------------
(* What getenv() finds. *)
Places_of(n, s) == {i \in DOMAIN s : s[i][1] = n}
Found(n, s) == IF Places_of(n, s) = {} THEN NULL ELSE s[Min(Places_of(n, s))][2]

(* The place that getenv() takes is the one before which there is no other. *)
LEMMA FindsFirst ==
  ASSUME NEW n, NEW s \in Seq(Entry), NEW i \in 1..Len(s), s[i][1] = n,
         \A k \in 1..(i - 1) : s[k][1] # n
  PROVE  Found(n, s) = s[i][2]
<1>1. Places_of(n, s) \in SUBSET Nat /\ i \in Places_of(n, s) /\ DOMAIN s = 1..Len(s)
  BY DEF Places_of
<1>2. Min(Places_of(n, s)) \in Places_of(n, s) /\ Min(Places_of(n, s)) <= i
  BY <1>1, Least, Zenon
<1>3. Min(Places_of(n, s)) = i
  BY <1>1, <1>2 DEF Places_of
<1> QED BY <1>1, <1>3, Zenon DEF Found

(* getenv() returns NULL for a name that no entry has. *)
LEMMA FindsNone ==
  ASSUME NEW n, NEW s \in Seq(Entry), \A k \in 1..Len(s) : s[k][1] # n
  PROVE  Found(n, s) = NULL
BY DEF Found, Places_of

(* The first hit of setenv() and unsetenv() is what getenv() finds. *)
LEMMA FirstOf ==
  ASSUME NEW n, NEW s \in Seq(Entry), Places_of(n, s) # {}
  PROVE  /\ Min(Places_of(n, s)) \in 1..Len(s) /\ s[Min(Places_of(n, s))][1] = n
         /\ \A k \in 1..(Min(Places_of(n, s)) - 1) : s[k][1] # n
<1> DEFINE i == Min(Places_of(n, s))
<1>1. i \in Places_of(n, s) /\ \A k \in Places_of(n, s) : i <= k
  <2>1. Places_of(n, s) \in SUBSET Nat
    BY DEF Places_of
  <2> QED BY <2>1, Least
<1> HIDE DEF i
<1>2. i \in 1..Len(s) /\ s[i][1] = n
  BY <1>1 DEF Places_of
<1>3. ASSUME NEW k \in 1..(i - 1) PROVE s[k][1] # n
  BY <1>1, <1>2 DEF Places_of
<1> QED BY <1>2, <1>3 DEF i

(* A name is at no place of the array, or it has a first one. *)
LEMMA NoneOrFirst ==
  ASSUME NEW n, NEW s \in Seq(Entry)
  PROVE  \/ \A k \in 1..Len(s) : s[k][1] # n
         \/ \E i \in 1..Len(s) : s[i][1] = n /\ \A k \in 1..(i - 1) : s[k][1] # n
<1>1. CASE Places_of(n, s) = {}
  BY <1>1 DEF Places_of
<1>2. CASE Places_of(n, s) # {}
  BY <1>2, FirstOf
<1> QED BY <1>1, <1>2

(* A string at the end is found if its name was not there, and hides nothing. *)
LEMMA FoundAppended ==
  ASSUME NEW s \in Seq(Entry), NEW e \in Entry, NEW n
  PROVE  /\ n # e[1] => Found(n, Append(s, e)) = Found(n, s)
         /\ Found(e[1], s) = NULL => Found(e[1], Append(s, e)) = e[2]
<1> DEFINE t == Append(s, e)
<1>1. /\ t \in Seq(Entry) /\ Len(t) = Len(s) + 1 /\ t[Len(t)] = e /\ Len(s) \in Nat
      /\ \A k \in 1..Len(s) : t[k] = s[k]
  BY AppendProperties
<1> HIDE DEF t
<1>2. ASSUME n # e[1] PROVE Found(n, t) = Found(n, s)
  <2>1. CASE \A k \in 1..Len(s) : s[k][1] # n
    <3>1. \A k \in 1..Len(t) : t[k][1] # n
      BY <1>1, <1>2, <2>1
    <3> QED BY <1>1, <2>1, <3>1, FindsNone
  <2>2. ASSUME NEW i \in 1..Len(s), s[i][1] = n, \A k \in 1..(i - 1) : s[k][1] # n
        PROVE  Found(n, t) = Found(n, s)
    <3>1. i \in 1..Len(t) /\ t[i] = s[i] /\ \A k \in 1..(i - 1) : t[k][1] # n
      BY <1>1, <2>2, SMTT(60)
    <3> QED BY <1>1, <2>2, <3>1, FindsFirst, SMTT(60)
  <2> QED BY <2>1, <2>2, NoneOrFirst, Zenon
<1>3. ASSUME Found(e[1], s) = NULL PROVE Found(e[1], t) = e[2]
  <2>1. \A k \in 1..Len(s) : s[k][1] # e[1]
    <3> SUFFICES ASSUME NEW i \in 1..Len(s), s[i][1] = e[1],
                        \A k \in 1..(i - 1) : s[k][1] # e[1]
                 PROVE  FALSE
      BY NoneOrFirst, Zenon
    <3>1. s[i] \in Entry /\ s[i][2] = NULL
      BY <1>3, FindsFirst
    <3> QED BY <3>1, EnvAssumption DEF Entry
  <2>2. Len(t) \in 1..Len(t) /\ t[Len(t)] = e /\ \A k \in 1..(Len(t) - 1) : t[k][1] # e[1]
    BY <1>1, <2>1
  <2> QED BY <1>1, <2>2, FindsFirst, SMTT(60)
<1> QED BY <1>2, <1>3 DEF t

(* A string in the place of one with its name is found if that was the first, *)
(* and hides nothing.                                                         *)
LEMMA FoundReplaced ==
  ASSUME NEW s \in Seq(Entry), NEW e \in Entry, NEW i \in 1..Len(s), s[i][1] = e[1],
         \A k \in 1..(i - 1) : s[k][1] # e[1], NEW n
  PROVE  Found(n, [s EXCEPT ![i] = e]) = IF n = e[1] THEN e[2] ELSE Found(n, s)
<1> DEFINE t == [s EXCEPT ![i] = e]
<1>1. /\ t \in Seq(Entry) /\ Len(t) = Len(s) /\ t[i] = e
      /\ \A k \in 1..Len(s) : t[k] = IF k = i THEN e ELSE s[k]
  BY ExceptSeq
<1> HIDE DEF t
<1>2. CASE n = e[1]
  <2>1. i \in 1..Len(t) /\ \A k \in 1..(i - 1) : t[k][1] # e[1]
    BY <1>1
  <2>2. Found(e[1], t) = t[i][2]
    BY <1>1, <2>1, FindsFirst
  <2> QED BY <1>1, <1>2, <2>2 DEF t
<1>3. CASE n # e[1]
  <2>1. CASE \A k \in 1..Len(s) : s[k][1] # n
    <3>1. \A k \in 1..Len(t) : t[k][1] # n
      BY <1>1, <1>3, <2>1, Zenon
    <3> QED BY <1>1, <1>3, <2>1, <3>1, FindsNone, Zenon DEF t
  <2>2. ASSUME NEW j \in 1..Len(s), s[j][1] = n, \A k \in 1..(j - 1) : s[k][1] # n
        PROVE  Found(n, t) = Found(n, s)
    <3>1. j \in 1..Len(t) /\ t[j] = s[j]
      BY <1>1, <1>3, <2>2, Zenon
    <3>2. \A k \in 1..(j - 1) : t[k][1] # n
      BY <1>1, <1>3, <2>2
    <3> QED BY <1>1, <2>2, <3>1, <3>2, FindsFirst
  <2> QED BY <1>3, <2>1, <2>2, NoneOrFirst, Zenon DEF t
<1> QED BY <1>2, <1>3

(* Taking away a string hides nothing of another name. *)
LEMMA FoundRemoved ==
  ASSUME NEW s \in Seq(Entry), NEW i \in 1..Len(s), NEW n, s[i][1] # n
  PROVE  Found(n, RemoveAt(s, i)) = Found(n, s)
<1> DEFINE t == RemoveAt(s, i)
<1>1. /\ t \in Seq(Entry) /\ Len(t) = Len(s) - 1 /\ Len(s) \in Nat
      /\ \A k \in 1..(Len(s) - 1) : t[k] = IF k < i THEN s[k] ELSE s[k + 1]
  BY Removed
<1> HIDE DEF t
<1>2. CASE \A k \in 1..Len(s) : s[k][1] # n
  <2>1. \A k \in 1..Len(t) : t[k][1] # n
    BY <1>1, <1>2
  <2> QED BY <1>1, <1>2, <2>1, FindsNone, Zenon DEF t
<1>3. ASSUME NEW j \in 1..Len(s), s[j][1] = n, \A k \in 1..(j - 1) : s[k][1] # n
      PROVE  Found(n, t) = Found(n, s)
  <2> DEFINE m == IF j < i THEN j ELSE j - 1
  <2>1. i # j
    BY <1>3, Zenon
  <2>2. m \in 1..Len(t) /\ t[m] = s[j]
    BY <1>1, <2>1
  <2>3. \A k \in 1..(m - 1) : t[k][1] # n
    BY <1>1, <1>3, <2>1
  <2> HIDE DEF m
  <2>4. Found(n, t) = t[m][2]
    BY <1>1, <1>3, <2>2, <2>3, FindsFirst, Zenon
  <2>5. Found(n, s) = s[j][2]
    BY <1>3, FindsFirst, Zenon
  <2> QED BY <2>2, <2>4, <2>5, Zenon
<1> QED BY <1>2, <1>3, NoneOrFirst, Zenon DEF t

(* getenv() depends on the strings alone. *)
LEMMA GetenvFinds == ASSUME NEW n PROVE /\ getenv(n) = Found(n, environ.strings)
                                        /\ getenv(n)' = Found(n, environ'.strings)
BY DEF getenv, Found, Places_of, Strings

(* All that a step of setenv() does to what getenv() finds. *)
LEMMA SetenvFinds ==
  ASSUME Inv, NEW n \in Names, NEW v \in Values, NEW o \in BOOLEAN, setenv(n, v, o),
         environ' # environ, NEW m
  PROVE  getenv(m)' = IF m = n THEN v ELSE getenv(m)
<1> DEFINE s == environ.strings
           e == <<n, v>>
<1>1. s \in Seq(Entry) /\ e \in Entry /\ e[1] = n /\ e[2] = v
  BY DEF Inv, Entry
<1>2. ~crashed /\ put_env(e, Places_of(n, s), o)
  BY DEF setenv, put_env, SetKey, Places_of, Strings
<1>3. CASE Places_of(n, s) = {}
  <2>1. environ'.strings = Append(s, e)
    BY <1>1, <1>2, <1>3, Extended, Zenon DEF put_env
  <2>2. Found(n, s) = NULL
    BY <1>3 DEF Found
  <2> HIDE DEF e, s
  <2>3. Found(m, Append(s, e)) = IF m = n THEN v ELSE Found(m, s)
    BY <1>1, <2>2, FoundAppended
  <2> QED BY <2>1, <2>3, GetenvFinds, Zenon DEF s
<1>4. CASE Places_of(n, s) # {}
  <2> DEFINE i == Min(Places_of(n, s))
  <2>1. i \in 1..Len(s) /\ s[i][1] = n /\ \A k \in 1..(i - 1) : s[k][1] # n
    BY <1>1, <1>4, FirstOf, Zenon
  <2>2. environ' = [environ EXCEPT !.strings[i] = e] /\ UNCHANGED <<environ_size, crashed>>
    BY <1>2, <1>4 DEF put_env, FirstHit
  <2> HIDE DEF i
  <2>3. environ'.strings = [s EXCEPT ![i] = e]
    BY <1>1, <2>1, <2>2, Replaced
  <2> HIDE DEF e, s
  <2>4. Found(m, [s EXCEPT ![i] = e]) = IF m = n THEN v ELSE Found(m, s)
    BY <1>1, <2>1, FoundReplaced
  <2> QED BY <2>3, <2>4, GetenvFinds, Zenon DEF s
<1> QED BY <1>3, <1>4

(* unsetenv() does not change what getenv() finds for another name. *)
LEMMA UnsetenvFinds ==
  ASSUME Inv, NEW n \in Names, unsetenv(n), NEW m, m # n
  PROVE  getenv(m)' = getenv(m)
<1> DEFINE s == environ.strings
           i == Min(Places_of(n, s))
<1>1. s \in Seq(Entry)
  BY DEF Inv
<1>2. /\ Places_of(n, s) # {}
      /\ environ' = [environ EXCEPT !.strings = RemoveAt(s, i)]
  BY DEF unsetenv, UnsetKey, Places_of, Strings
<1>3. i \in 1..Len(s) /\ s[i][1] = n
  BY <1>1, <1>2, FirstOf
<1>4. environ'.strings = RemoveAt(s, i)
  BY <1>2 DEF Inv
<1> HIDE DEF s, i
<1>5. Found(m, RemoveAt(s, i)) = Found(m, s)
  BY <1>1, <1>3, FoundRemoved
<1> QED BY <1>4, <1>5, GetenvFinds, Zenon DEF s

(* After a setenv() that changed the environment, getenv() returns the value,  *)
(* also when the name is there twice (setenv.c, __put_env.c:28-42).            *)
THEOREM SetenvWorks == Spec => SetenvTakesEffect
<1>1. ASSUME Inv
      PROVE  \A n \in Names, v \in Values, o \in BOOLEAN :
               setenv(n, v, o) /\ environ' # environ => getenv(n)' = v
  BY <1>1, SetenvFinds
<1>2. Inv /\ [Next]_vars =>
        [\A n \in Names, v \in Values, o \in BOOLEAN :
           setenv(n, v, o) /\ environ' # environ => getenv(n)' = v]_vars
  BY <1>1
<1> QED BY <1>2, Invariant, PTL DEF Spec, SetenvTakesEffect

(* setenv() and unsetenv() leave the value of every other name as it was,      *)
(* whatever the names begin with, wherever the strings move.                   *)
THEOREM OthersUntouched == Spec => OthersKept
<1> DEFINE A == \A n \in Names :
                  unsetenv(n) \/ (\E v \in Values, o \in BOOLEAN : setenv(n, v, o)) =>
                    \A m \in Names \ {n} : getenv(m)' = getenv(m)
<1>1. ASSUME Inv PROVE A
  <2>1. ASSUME NEW n \in Names, NEW v \in Values, NEW o \in BOOLEAN, setenv(n, v, o),
               NEW m \in Names \ {n}
        PROVE  getenv(m)' = getenv(m)
    <3>1. CASE environ' # environ
      BY <1>1, <2>1, <3>1, SetenvFinds
    <3>2. CASE environ' = environ
      BY <3>2, GetenvFinds
    <3> QED BY <3>1, <3>2
  <2> QED BY <1>1, <2>1, UnsetenvFinds
<1>2. Inv /\ [Next]_vars => [A]_vars
  BY <1>1
<1> QED BY <1>2, Invariant, PTL DEF Spec, OthersKept
=============================================================================
