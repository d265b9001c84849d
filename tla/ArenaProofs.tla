----------------------------- MODULE ArenaProofs ----------------------------
(* The two chains of Arena: rings, whatever is linked, and what each list  *)
(* operation does to them; then free(): inserting a region and joining it  *)
(* with its neighbours; then the splitting of blocks and the cutting of    *)
(* pages.                                                                  *)
EXTENDS Arena, TLAPS

(* Rings, whatever is linked. *)

(* Linking around a removes it from its chain. *)
LEMMA LinkedRemove ==
  ASSUME NEW S, NEW nx, NEW pv, Linked(S, nx, pv),
         NEW a \in S, a # Head, NEW nx2, NEW pv2,
         \A b \in (S \ {a}) \cup {Head} :
            /\ nx2[b] = IF b = pv[a] THEN nx[a] ELSE nx[b]
            /\ pv2[b] = IF b = nx[a] THEN pv[a] ELSE pv[b]
  PROVE  Linked(S \ {a}, nx2, pv2)
BY DEF Linked

(* What is left after a removal is still one ring, not two. *)
LEMMA OneRingRemove ==
  ASSUME NEW S, NEW nx, NEW pv, Linked(S, nx, pv), OneRing(S, nx),
         NEW a \in S, a # Head, NEW nx2,
         \A b \in (S \ {a}) \cup {Head} : nx2[b] = IF b = pv[a] THEN nx[a] ELSE nx[b]
  PROVE  OneRing(S \ {a}, nx2)
<1> SUFFICES ASSUME NEW T \in SUBSET (S \ {a}), \A b \in T : nx2[b] \in T, T # {}
             PROVE  FALSE
  BY DEF OneRing
<1>1. CASE pv[a] \in T
  <2>1. \A b \in T \cup {a} : nx[b] \in T \cup {a}
    BY <1>1 DEF Linked
  <2>2. T \cup {a} \in SUBSET S /\ T \cup {a} # {}
    OBVIOUS
  <2> QED BY ZenonT(30), <2>1, <2>2 DEF OneRing
<1>2. CASE pv[a] \notin T
  <2>1. \A b \in T : nx[b] \in T
    BY <1>2
  <2> QED BY <2>1 DEF OneRing
<1> QED BY <1>1, <1>2

(* A chain in address order stays in order when a block is removed. *)
LEMMA SortedRemove ==
  ASSUME NEW S \in SUBSET Addr, NEW nx, NEW pv, Linked(S, nx, pv), Sorted(S, nx),
         NEW a \in S, NEW nx2,
         \A b \in (S \ {a}) \cup {Head} : nx2[b] = IF b = pv[a] THEN nx[a] ELSE nx[b]
  PROVE  Sorted(S \ {a}, nx2)
<1> USE ArenaAssumption DEF Addr, Head
<1>1. \A b \in S \cup {0} : b \in Nat /\ nx[b] \in S \cup {0} /\ (b \in S => b # 0)
  BY DEF Linked
<1>0. pv[a] \in S \cup {0} /\ nx[pv[a]] = a
  BY DEF Linked
<1>2. ASSUME NEW b \in (S \ {a}) \cup {Head}
      PROVE  nx2[b] # Head => b < nx2[b]
  <2>1. CASE b = pv[a]
    <3>1. b < a /\ nx2[b] = nx[a] /\ (nx[a] # 0 => a < nx[a])
      BY <1>0, <1>1, <2>1 DEF Sorted
    <3>2. a \in Nat /\ b \in Nat /\ nx[a] \in Nat
      BY ZenonT(30), <1>1
    <3> QED BY <3>1, <3>2
  <2>2. CASE b # pv[a]
    BY <2>2 DEF Sorted
  <2> QED BY <2>1, <2>2
<1>3. ASSUME NEW b \in (S \ {a}) \cup {Head}, NEW c \in S \ {a}, c > b
      PROVE  nx2[b] # Head /\ nx2[b] <= c
  <2>1. CASE b = pv[a]
    <3>1. a <= c /\ nx2[b] = nx[a]
      BY <1>0, <1>1, <1>3, <2>1 DEF Sorted
    <3>2. c > a
      BY <1>1, <3>1
    <3> QED BY <1>1, <3>1, <3>2 DEF Sorted
  <2>2. CASE b # pv[a]
    BY <1>3, <2>2 DEF Sorted
  <2> QED BY <2>1, <2>2
<1> QED BY <1>2, <1>3 DEF Sorted

(* Linking x in after p adds it to p's chain. *)
LEMMA LinkedInsert ==
  ASSUME NEW S, NEW nx, NEW pv, Linked(S, nx, pv),
         NEW p \in S \cup {Head}, NEW x, x \notin S \cup {Head}, NEW nx2, NEW pv2,
         \A b \in S \cup {Head, x} :
            /\ nx2[b] = IF b = x THEN nx[p] ELSE IF b = p THEN x ELSE nx[b]
            /\ pv2[b] = IF b = x THEN p ELSE IF b = nx[p] THEN x ELSE pv[b]
  PROVE  Linked(S \cup {x}, nx2, pv2)
BY DEF Linked

(* A chain that is one ring is one ring after an insertion. *)
LEMMA OneRingInsert ==
  ASSUME NEW S, NEW nx, NEW pv, Linked(S, nx, pv), OneRing(S, nx),
         NEW p \in S \cup {Head}, NEW x, x \notin S \cup {Head}, NEW nx2,
         \A b \in S \cup {Head, x} :
            nx2[b] = IF b = x THEN nx[p] ELSE IF b = p THEN x ELSE nx[b]
  PROVE  OneRing(S \cup {x}, nx2)
<1> SUFFICES ASSUME NEW T \in SUBSET (S \cup {x}), \A b \in T : nx2[b] \in T, T # {},
                    Head \notin S
             PROVE  FALSE
  BY DEF OneRing, Linked
<1>1. \A b \in T \ {x} : nx[b] \in T \ {x}
  BY DEF Linked
<1>2. T \ {x} = {}
  BY ZenonT(30), <1>1 DEF OneRing
<1>3. nx2[x] \in {x}
  BY <1>2
<1> QED BY <1>3 DEF Linked

(* A chain stays in address order when a block is put at its place. *)
LEMMA SortedInsert ==
  ASSUME NEW S \in SUBSET Addr, NEW nx, NEW pv, Linked(S, nx, pv), Sorted(S, nx),
         NEW p \in S \cup {Head}, NEW x \in Addr, p < x, nx[p] = Head \/ x < nx[p],
         x \notin S, NEW nx2,
         \A b \in S \cup {Head, x} :
            nx2[b] = IF b = x THEN nx[p] ELSE IF b = p THEN x ELSE nx[b]
  PROVE  Sorted(S \cup {x}, nx2)
<1> USE ArenaAssumption DEF Addr, Head
<1>1. \A b \in S \cup {0, x} : b \in Nat /\ (b \in S \cup {x} => b # 0)
  OBVIOUS
<1>0. nx[p] \in S \cup {0}
  BY DEF Linked
<1>2. ASSUME NEW b \in (S \cup {x}) \cup {Head}
      PROVE  nx2[b] # Head => b < nx2[b]
  BY <1>0, <1>1, <1>2 DEF Sorted
<1>3. ASSUME NEW b \in (S \cup {x}) \cup {Head}, NEW c \in S \cup {x}, c > b
      PROVE  nx2[b] # Head /\ nx2[b] <= c
  <2>1. CASE b = x
    <3>1. c \in S /\ c > p
      BY <1>1, <1>3, <2>1
    <3> QED BY <2>1, <3>1 DEF Sorted
  <2>2. CASE b = p
    <3>1. CASE c = x
      BY <1>1, <2>2, <3>1
    <3>2. CASE c # x
      <4>1. nx[p] # Head /\ nx[p] <= c
        BY <1>3, <2>2, <3>2 DEF Sorted
      <4>2. nx2[b] = x /\ x < nx[p] /\ x \in Nat /\ nx[p] \in Nat /\ c \in Nat
        BY ZenonT(30), <1>0, <1>1, <1>3, <2>2, <4>1
      <4> QED BY <1>1, <4>1, <4>2
    <3> QED BY <3>1, <3>2
  <2>3. CASE b # x /\ b # p
    <3>1. nx2[b] = nx[b] /\ b \in S \cup {Head}
      BY <2>3
    <3>2. CASE c = x
      <4>1. p > b => nx[b] # Head /\ nx[b] <= p
        BY <3>1 DEF Sorted, Linked
      <4>2. b > p => nx[p] # Head /\ nx[p] <= b
        BY <3>1 DEF Sorted, Linked
      <4>3. b \in Nat /\ p \in Nat /\ x \in Nat /\ nx[b] \in Nat /\ nx[p] \in Nat
        BY ZenonT(30), <1>0, <1>1, <3>1 DEF Linked
      <4>4. CASE b < p
        BY <3>1, <3>2, <4>1, <4>3, <4>4
      <4>5. CASE b > p
        <5>1. nx[p] # Head /\ nx[p] <= b /\ x < nx[p] /\ x > b
          BY <1>3, <3>2, <4>2, <4>5
        <5> QED BY <4>3, <5>1
      <4> QED BY <2>3, <4>3, <4>4, <4>5
    <3>3. CASE c # x
      BY <1>3, <3>1, <3>3 DEF Sorted
    <3> QED BY <3>2, <3>3
  <2> QED BY <2>1, <2>2, <2>3
<1> QED BY <1>2, <1>3 DEF Sorted

(* x takes a's place. *)
LEMMA LinkedReplace ==
  ASSUME NEW S, NEW nx, NEW pv, Linked(S, nx, pv),
         NEW a \in S, a # Head, nx[a] # a, NEW x, x \notin S \cup {Head}, NEW nx2, NEW pv2,
         \A b \in (S \ {a}) \cup {Head, x} :
            /\ nx2[b] = IF b = x THEN nx[a] ELSE IF b = pv[a] THEN x ELSE nx[b]
            /\ pv2[b] = IF b = x THEN pv[a] ELSE IF b = nx[a] THEN x ELSE pv[b]
  PROVE  Linked((S \ {a}) \cup {x}, nx2, pv2)
BY DEF Linked

(* A chain that is one ring is one ring after x takes a's place. *)
LEMMA OneRingReplace ==
  ASSUME NEW S, NEW nx, NEW pv, Linked(S, nx, pv), OneRing(S, nx),
         NEW a \in S, a # Head, NEW x, x \notin S \cup {Head}, NEW nx2,
         \A b \in (S \ {a}) \cup {Head, x} :
            nx2[b] = IF b = x THEN nx[a] ELSE IF b = pv[a] THEN x ELSE nx[b]
  PROVE  OneRing((S \ {a}) \cup {x}, nx2)
<1> SUFFICES ASSUME NEW T \in SUBSET ((S \ {a}) \cup {x}), \A b \in T : nx2[b] \in T, T # {}
             PROVE  FALSE
  BY DEF OneRing
<1>1. CASE x \in T
  <2> DEFINE U == (T \ {x}) \cup {a}
  <2>1. nx[a] \in U
    BY <1>1 DEF Linked
  <2>2. \A b \in T \ {x} : nx[b] \in U
    BY <1>1 DEF Linked
  <2>3. U \in SUBSET S /\ U # {}
    OBVIOUS
  <2> QED BY ZenonT(30), <2>1, <2>2, <2>3 DEF OneRing
<1>2. CASE x \notin T
  <2>1. \A b \in T : nx[b] \in T
    BY <1>2
  <2>2. T \in SUBSET S
    BY <1>2
  <2> QED BY <2>1, <2>2 DEF OneRing
<1> QED BY <1>1, <1>2

-----------------------------------------------------------------------------
(* The list operations of malloc.c. *)

(* A heap is any record of its six fields. *)
LEMMA HeapRecord ==
  ASSUME NEW ty \in [Node -> Types], NEW sz \in [Node -> Nat],
         NEW nx \in [Node -> Node \cup {Wild}], NEW pv \in [Node -> Node \cup {Wild}],
         NEW nf \in [Node -> Node \cup {Wild}], NEW pf \in [Node -> Node \cup {Wild}]
  PROVE  [type |-> ty, size |-> sz, next |-> nx, prev |-> pv,
          next_free |-> nf, prev_free |-> pf] \in Heaps
  BY DEF Heaps

(* The fields of a heap are functions on nodes, and its blocks are addresses. *)
LEMMA HeapTypes ==
  ASSUME NEW h \in Heaps
  PROVE  /\ h.type \in [Node -> Types] /\ h.size \in [Node -> Nat]
         /\ h.next \in [Node -> Node \cup {Wild}]
         /\ h.prev \in [Node -> Node \cup {Wild}]
         /\ h.next_free \in [Node -> Node \cup {Wild}]
         /\ h.prev_free \in [Node -> Node \cup {Wild}]
         /\ Blocks(h) \subseteq Addr /\ Free(h) \subseteq Blocks(h)
         /\ Addr \subseteq Node /\ Addr \subseteq Int /\ Head \in Node /\ Head \notin Addr
         /\ Blocks(h) = Used(h) \cup Free(h) /\ Used(h) \cap Free(h) = {}
<1>1. /\ h.type \in [Node -> Types] /\ h.size \in [Node -> Nat]
      /\ h.next \in [Node -> Node \cup {Wild}] /\ h.prev \in [Node -> Node \cup {Wild}]
      /\ h.next_free \in [Node -> Node \cup {Wild}] /\ h.prev_free \in [Node -> Node \cup {Wild}]
  BY DEF Heaps
<1>2. /\ Blocks(h) \subseteq Addr /\ Free(h) \subseteq Blocks(h)
      /\ Blocks(h) = Used(h) \cup Free(h) /\ Used(h) \cap Free(h) = {}
  BY DEF Blocks, Free, Used
<1>3. Addr \subseteq Node /\ Addr \subseteq Int /\ Head \in Node /\ Head \notin Addr
  BY ArenaAssumption DEF Addr, Node, Head
<1> QED BY <1>1, <1>2, <1>3

(* Writing one field of a block keeps the field's type ... *)
LEMMA Update ==
  ASSUME NEW S, NEW f \in [Node -> S], NEW a \in Node, NEW v \in S
  PROVE  [f EXCEPT ![a] = v] \in [Node -> S]
OBVIOUS

(* ... as does writing it in two blocks ... *)
LEMMA Update2 ==
  ASSUME NEW S, NEW f \in [Node -> S], NEW a \in Node, NEW v \in S,
         NEW b \in Node, NEW w \in S
  PROVE  [f EXCEPT ![a] = v, ![b] = w] \in [Node -> S]
OBVIOUS

(* ... or in three. *)
LEMMA Update3 ==
  ASSUME NEW S, NEW f \in [Node -> S], NEW a \in Node, NEW v \in S,
         NEW b \in Node, NEW w \in S, NEW c \in Node, NEW x \in S
  PROVE  [f EXCEPT ![a] = v, ![b] = w, ![c] = x] \in [Node -> S]
OBVIOUS

(* The nodes that next and prev lead to are addresses. *)
LEMMA ChainNodes ==
  ASSUME NEW h \in Heaps
  PROVE  /\ MainRing(h) => \A b \in Blocks(h) \cup {Head} :
              /\ b \in Node /\ h.next[b] \in Node /\ h.prev[b] \in Node
              /\ h.next[b] \in Blocks(h) \cup {Head} /\ h.prev[b] \in Blocks(h) \cup {Head}
         /\ \A F \in SUBSET Addr : FreeChain(h, F) => \A b \in F \cup {Head} :
              /\ b \in Node /\ h.next_free[b] \in Node /\ h.prev_free[b] \in Node
              /\ h.next_free[b] \in F \cup {Head} /\ h.prev_free[b] \in F \cup {Head}
<1> USE HeapTypes
<1>1. \A b \in Blocks(h) \cup {Head} : b \in Node
  OBVIOUS
<1>2. \A F \in SUBSET Addr : \A b \in F \cup {Head} : b \in Node
  OBVIOUS
<1> QED BY <1>1, <1>2 DEF MainRing, FreeChain, Linked

(* remove_from_free_chain takes one block off the free chain. *)
LEMMA RemoveFree ==
  ASSUME NEW h \in Heaps, NEW F \in SUBSET Addr, FreeChain(h, F), NEW ah \in F
  PROVE  LET g == remove_from_free_chain(h, ah)
         IN  /\ g \in Heaps
             /\ FreeChain(g, F \ {ah})
             /\ g.type = h.type /\ g.size = h.size /\ g.next = h.next /\ g.prev = h.prev
<1> DEFINE g  == remove_from_free_chain(h, ah)
           ap == h.prev_free[ah]
           an == h.next_free[ah]
           nf == [h.next_free EXCEPT ![ap] = an, ![ah] = Wild]
           pf == [h.prev_free EXCEPT ![an] = ap, ![ah] = Wild]
<1>1. /\ ah \in Node /\ ap \in Node /\ an \in Node /\ ah # Head
      /\ ap \in F \cup {Head} /\ an \in F \cup {Head}
  BY HeapTypes, ChainNodes
<1>2. nf \in [Node -> Node \cup {Wild}] /\ pf \in [Node -> Node \cup {Wild}]
  BY ZenonT(30), <1>1, HeapTypes, Update2
<1>3. g \in Heaps
  BY ZenonT(30), <1>2 DEF remove_from_free_chain, Heaps
<1>4. /\ g.type = h.type /\ g.size = h.size /\ g.next = h.next /\ g.prev = h.prev
      /\ g.next_free = nf /\ g.prev_free = pf
  BY DEF remove_from_free_chain, Heaps
<1> HIDE DEF g
<1>5. \A b \in (F \ {ah}) \cup {Head} :
        /\ g.next_free[b] = IF b = ap THEN an ELSE h.next_free[b]
        /\ g.prev_free[b] = IF b = an THEN ap ELSE h.prev_free[b]
  <2>1. \A b \in (F \ {ah}) \cup {Head} : b \in Node /\ b # ah
    BY <1>1, HeapTypes
  <2> QED BY <1>1, <1>4, <2>1, HeapTypes
<1>6. Linked(F \ {ah}, g.next_free, g.prev_free)
  BY <1>1, <1>5, LinkedRemove DEF FreeChain
<1>7. OneRing(F \ {ah}, g.next_free)
  BY <1>1, <1>5, OneRingRemove DEF FreeChain
<1> QED BY <1>3, <1>4, <1>6, <1>7 DEF FreeChain, g

(* remove_from_main_chain takes one block off the main chain. *)
LEMMA RemoveMain ==
  ASSUME NEW h \in Heaps, MainRing(h), NEW ah \in Blocks(h)
  PROVE  LET g == remove_from_main_chain(h, ah)
         IN  /\ g \in Heaps
             /\ MainRing(g)
             /\ Blocks(g) = Blocks(h) \ {ah}
             /\ Free(g) = Free(h) \ {ah} /\ Used(g) = Used(h) \ {ah}
             /\ \A b \in Blocks(g) :
                  /\ g.size[b] = h.size[b]
                  /\ g.next[b] = IF h.next[b] = ah THEN h.next[ah] ELSE h.next[b]
             /\ g.next_free = h.next_free /\ g.prev_free = h.prev_free
<1> DEFINE g  == remove_from_main_chain(h, ah)
           ap == h.prev[ah]
           an == h.next[ah]
           ty == [h.type EXCEPT ![ah] = "dead"]
           sz == [h.size EXCEPT ![ah] = 0]
           nx == [h.next EXCEPT ![ap] = an, ![ah] = Wild]
           pv == [h.prev EXCEPT ![an] = ap, ![ah] = Wild]
<1>1. /\ ah \in Node /\ ap \in Node /\ an \in Node /\ ah # Head
      /\ ap \in Blocks(h) \cup {Head} /\ an \in Blocks(h) \cup {Head}
  BY HeapTypes, ChainNodes
<1>2. /\ ty \in [Node -> Types] /\ sz \in [Node -> Nat]
      /\ nx \in [Node -> Node \cup {Wild}] /\ pv \in [Node -> Node \cup {Wild}]
  <2>1. "dead" \in Types /\ 0 \in Nat
    BY DEF Types
  <2> QED BY ZenonT(30), <1>1, <2>1, HeapTypes, Update, Update2
<1>3. g \in Heaps
  BY ZenonT(30), <1>2 DEF remove_from_main_chain, Heaps
<1>4. /\ g.type = ty /\ g.size = sz /\ g.next = nx /\ g.prev = pv
      /\ g.next_free = h.next_free /\ g.prev_free = h.prev_free
  BY DEF remove_from_main_chain, Heaps
<1> HIDE DEF g
<1>5. \A b \in Node : g.type[b] = IF b = ah THEN "dead" ELSE h.type[b]
  BY <1>1, <1>4, HeapTypes
<1>6. /\ Blocks(g) = Blocks(h) \ {ah}
      /\ Free(g) = Free(h) \ {ah} /\ Used(g) = Used(h) \ {ah}
  BY <1>5, HeapTypes DEF Blocks, Free, Used
<1>7. \A b \in (Blocks(h) \ {ah}) \cup {Head} :
        /\ g.next[b] = IF b = ap THEN an ELSE h.next[b]
        /\ g.prev[b] = IF b = an THEN ap ELSE h.prev[b]
        /\ g.size[b] = h.size[b]
  <2>1. \A b \in (Blocks(h) \ {ah}) \cup {Head} : b \in Node /\ b # ah
    BY <1>1, ChainNodes
  <2> QED BY <1>1, <1>4, <2>1, HeapTypes
<1>8. MainRing(g)
  <2>1. g.type[Head] = "head"
    BY <1>1, <1>5, HeapTypes DEF MainRing
  <2>2. Linked(Blocks(g), g.next, g.prev)
    BY SMTT(30), <1>1, <1>6, <1>7, LinkedRemove DEF MainRing
  <2>3. Sorted(Blocks(g), g.next)
    BY <1>1, <1>6, <1>7, SortedRemove, HeapTypes DEF MainRing
  <2> QED BY <2>1, <2>2, <2>3 DEF MainRing
<1>9. \A b \in Blocks(g) : h.next[b] = ah <=> b = ap
  BY <1>1, <1>6 DEF MainRing, Linked
<1> QED BY <1>3, <1>4, <1>6, <1>7, <1>8, <1>9 DEF g

(* remove_from_chains takes a free block off both chains. *)
LEMMA RemoveFromChains ==
  ASSUME NEW h \in Heaps, MainRing(h), FreeChain(h, Free(h)), NEW ah \in Free(h)
  PROVE  LET g == remove_from_chains(h, ah)
         IN  /\ g \in Heaps
             /\ MainRing(g)
             /\ FreeChain(g, Free(g))
             /\ Blocks(g) = Blocks(h) \ {ah}
             /\ Free(g) = Free(h) \ {ah} /\ Used(g) = Used(h)
             /\ \A b \in Blocks(g) :
                  /\ g.size[b] = h.size[b]
                  /\ g.next[b] = IF h.next[b] = ah THEN h.next[ah] ELSE h.next[b]
<1> DEFINE u == remove_from_free_chain(h, ah)
           g == remove_from_main_chain(u, ah)
<1>1. Free(h) \in SUBSET Addr /\ ah \in Blocks(h) /\ ah \notin Used(h)
  BY HeapTypes
<1>2. /\ u \in Heaps /\ FreeChain(u, Free(h) \ {ah})
      /\ u.type = h.type /\ u.size = h.size /\ u.next = h.next /\ u.prev = h.prev
  BY <1>1, RemoveFree, Zenon
<1> HIDE DEF u
<1>3. MainRing(u) /\ Blocks(u) = Blocks(h) /\ Free(u) = Free(h) /\ Used(u) = Used(h)
  BY <1>2 DEF MainRing, Blocks, Free, Used
<1>4. /\ g \in Heaps /\ MainRing(g) /\ Blocks(g) = Blocks(u) \ {ah}
      /\ Free(g) = Free(u) \ {ah} /\ Used(g) = Used(u) \ {ah}
      /\ \A b \in Blocks(g) :
           /\ g.size[b] = u.size[b]
           /\ g.next[b] = IF u.next[b] = ah THEN u.next[ah] ELSE u.next[b]
      /\ g.next_free = u.next_free /\ g.prev_free = u.prev_free
  BY <1>1, <1>2, <1>3, RemoveMain
<1> HIDE DEF g
<1>5. FreeChain(g, Free(g))
  BY <1>2, <1>3, <1>4 DEF FreeChain
<1>6. g = remove_from_chains(h, ah)
  BY DEF g, u, remove_from_chains
<1> QED BY SMTT(30), <1>1, <1>2, <1>3, <1>4, <1>5, <1>6

(* A new size for a block touches neither the links nor the types. *)
LEMMA Resize ==
  ASSUME NEW h \in Heaps, NEW a \in Node, NEW n \in Nat
  PROVE  LET g == resize(h, a, n)
         IN  /\ g \in Heaps
             /\ g.type = h.type /\ g.next = h.next /\ g.prev = h.prev
             /\ g.next_free = h.next_free /\ g.prev_free = h.prev_free
             /\ g.size = [h.size EXCEPT ![a] = n]
             /\ Blocks(g) = Blocks(h) /\ Free(g) = Free(h) /\ Used(g) = Used(h)
             /\ MainRing(h) => MainRing(g)
             /\ \A F : FreeChain(h, F) => FreeChain(g, F)
<1> DEFINE g  == resize(h, a, n)
           sz == [h.size EXCEPT ![a] = n]
<1>1. sz \in [Node -> Nat]
  BY HeapTypes, Update
<1>2. g \in Heaps
  BY <1>1 DEF resize, Heaps
<1>3. /\ g.type = h.type /\ g.next = h.next /\ g.prev = h.prev
      /\ g.next_free = h.next_free /\ g.prev_free = h.prev_free /\ g.size = sz
  BY DEF resize, Heaps
<1> HIDE DEF g
<1> QED BY <1>2, <1>3 DEF g, Blocks, Free, Used, MainRing, FreeChain

(* Pushing a block on the free chain makes it free. *)
LEMMA PushesFree ==
  ASSUME NEW h \in Heaps, MainRing(h), NEW ah \in Blocks(h), FreeChain(h, Free(h) \ {ah})
  PROVE  LET g == PushFree(h, ah)
         IN  /\ g \in Heaps
             /\ MainRing(g)
             /\ Blocks(g) = Blocks(h)
             /\ Free(g) = Free(h) \cup {ah} /\ Used(g) = Used(h) \ {ah}
             /\ FreeChain(g, Free(g))
             /\ g.size = h.size /\ g.next = h.next /\ g.prev = h.prev
<1> DEFINE g  == PushFree(h, ah)
           F  == Free(h) \ {ah}
           first == h.next_free[Head]
           ty == [h.type EXCEPT ![ah] = "free"]
           nf == [h.next_free EXCEPT ![ah] = first, ![Head] = ah]
           pf == [h.prev_free EXCEPT ![ah] = Head, ![first] = ah]
<1>1. /\ ah \in Node /\ ah # Head /\ Head \in Node /\ first \in Node
      /\ F \in SUBSET Addr /\ first \in F \cup {Head} /\ first # ah
  BY HeapTypes, ChainNodes
<1>2. ty \in [Node -> Types] /\ nf \in [Node -> Node \cup {Wild}] /\ pf \in [Node -> Node \cup {Wild}]
  <2>1. "free" \in Types
    BY DEF Types
  <2> QED BY ZenonT(30), <1>1, <2>1, HeapTypes, Update, Update2
<1>3. g \in Heaps
  BY ZenonT(30), <1>2 DEF PushFree, Heaps
<1>4. /\ g.type = ty /\ g.next_free = nf /\ g.prev_free = pf
      /\ g.size = h.size /\ g.next = h.next /\ g.prev = h.prev
  BY DEF PushFree, Heaps
<1> HIDE DEF g
<1>5. \A b \in Node : g.type[b] = IF b = ah THEN "free" ELSE h.type[b]
  BY <1>1, <1>4, HeapTypes
<1>6. Blocks(g) = Blocks(h) /\ Free(g) = Free(h) \cup {ah} /\ Used(g) = Used(h) \ {ah}
  BY <1>5, HeapTypes DEF Blocks, Free, Used
<1>7. MainRing(g)
  BY <1>1, <1>4, <1>5, <1>6 DEF MainRing
<1>8. \A b \in F \cup {Head, ah} :
        /\ g.next_free[b] = IF b = ah THEN h.next_free[Head] ELSE IF b = Head THEN ah ELSE h.next_free[b]
        /\ g.prev_free[b] = IF b = ah THEN Head ELSE IF b = h.next_free[Head] THEN ah ELSE h.prev_free[b]
  <2>1. \A b \in F \cup {Head, ah} : b \in Node
    BY <1>1, HeapTypes
  <2> QED BY <1>1, <1>4, <2>1, HeapTypes
<1>9. Linked(F \cup {ah}, g.next_free, g.prev_free) /\ OneRing(F \cup {ah}, g.next_free)
  <2>1. ah \notin F \cup {Head} /\ Head \in F \cup {Head}
    BY <1>1
  <2>2. Linked(F, h.next_free, h.prev_free) /\ OneRing(F, h.next_free)
    BY DEF FreeChain
  <2> HIDE DEF F
  <2> QED BY <1>8, <2>1, <2>2, LinkedInsert, OneRingInsert
<1>10. F \cup {ah} = Free(g)
  BY <1>6
<1> QED BY SMTT(30), <1>3, <1>4, <1>6, <1>7, <1>9, <1>10 DEF FreeChain, g

-----------------------------------------------------------------------------
(* A heap between two calls, and one in which x is not on the free chain yet. *)
Detached(h, x) ==
  /\ h \in Heaps
  /\ MainChain(h)
  /\ FreeChain(h, Free(h) \ {x})
  /\ Separate(h, Free(h) \ {x})

Sound(h) ==
  /\ h \in Heaps
  /\ MainChain(h)
  /\ FreeChain(h, Free(h))
  /\ Separate(h, Free(h))

(* The arithmetic of a block. *)
LEMMA BlockBounds ==
  ASSUME NEW h \in Heaps, MainChain(h)
  PROVE  \A b \in Blocks(h) :
           /\ b \in Nat /\ b # 0 /\ h.size[b] \in Nat /\ h.size[b] >= 2
           /\ End(h, b) = b + h.size[b] /\ End(h, b) \in Nat /\ End(h, b) <= MaxAddr + 1
           /\ h.next[b] \in Nat
           /\ h.next[b] # 0 => h.next[b] \in Blocks(h) /\ End(h, b) <= h.next[b]
<1> SUFFICES ASSUME NEW b \in Blocks(h)
             PROVE  /\ b \in Nat /\ b # 0 /\ h.size[b] \in Nat /\ h.size[b] >= 2
                    /\ End(h, b) = b + h.size[b] /\ End(h, b) \in Nat /\ End(h, b) <= MaxAddr + 1
                    /\ h.next[b] \in Nat
                    /\ h.next[b] # 0 => h.next[b] \in Blocks(h) /\ End(h, b) <= h.next[b]
  OBVIOUS
<1>1. b \in Addr /\ b \in Node /\ h.size[b] \in Nat
  BY HeapTypes
<1>2. h.next[b] \in Blocks(h) \cup {0} /\ h.next[b] \in Node
  BY ChainNodes DEF MainChain, Head
<1>3. h.size[b] >= 2 /\ b + h.size[b] <= IF h.next[b] = 0 THEN MaxAddr + 1 ELSE h.next[b]
  BY DEF MainChain, Fits, Ceiling, End, MinBlock, Head
<1> QED BY <1>1, <1>2, <1>3, ArenaAssumption DEF End, Addr, Node

(* Blocks do not overlap: one ends before any later one begins. *)
LEMMA BlocksApart ==
  ASSUME NEW h \in Heaps, MainChain(h), NEW a \in Blocks(h), NEW b \in Blocks(h), a < b
  PROVE  End(h, a) <= b
<1>1. h.next[a] # Head /\ h.next[a] <= b
  BY DEF MainChain, MainRing, Sorted
<1>2. h.next[a] \in Nat /\ End(h, a) <= h.next[a] /\ End(h, a) \in Nat /\ b \in Nat
  BY SMTT(30), <1>1, BlockBounds DEF Head
<1> QED BY <1>1, <1>2

(* A region from the kernel joins the main chain at its place. *)
LEMMA InsertsRegion ==
  ASSUME NEW h, Sound(h), NEW fp \in Addr, NEW n \in Nat, n >= MinBlock,
         fp + n <= MaxAddr + 1, \A u \in Addr : fp <= u /\ u < fp + n => u \notin Owned(h),
         NEW pah \in Blocks(h) \cup {Head}, pah < fp, h.next[pah] = Head \/ h.next[pah] > fp
  PROVE  LET g == insert_region(h, fp, n, pah)
         IN  /\ Detached(g, fp)
             /\ Blocks(g) = Blocks(h) \cup {fp} /\ fp \notin Blocks(h)
             /\ Used(g) = Used(h)
             /\ g.size[fp] = n /\ \A b \in Blocks(h) : g.size[b] = h.size[b]
<1> DEFINE g  == insert_region(h, fp, n, pah)
           nah == h.next[pah]
           ty == [h.type EXCEPT ![fp] = "free"]
           sz == [h.size EXCEPT ![fp] = n]
           nx == [h.next EXCEPT ![fp] = nah, ![pah] = fp]
           pv == [h.prev EXCEPT ![fp] = pah, ![nah] = fp]
<1>1. h \in Heaps /\ MainChain(h) /\ MainRing(h) /\ FreeChain(h, Free(h)) /\ Separate(h, Free(h))
  BY DEF Sound, MainChain
<1>2. fp \notin Blocks(h)
  BY <1>1, BlockBounds DEF Owned, Addr, MinBlock
<1>3. /\ fp \in Node /\ fp # Head /\ pah \in Node /\ nah \in Node /\ pah # fp
      /\ nah \in Blocks(h) \cup {Head} /\ nah # fp
  BY <1>1, <1>2, HeapTypes, ChainNodes
<1>4. /\ ty \in [Node -> Types] /\ sz \in [Node -> Nat]
      /\ nx \in [Node -> Node \cup {Wild}] /\ pv \in [Node -> Node \cup {Wild}]
  <2>1. "free" \in Types
    BY DEF Types
  <2> QED BY ZenonT(30), <1>1, <1>3, <2>1, HeapTypes, Update, Update2
<1>5. g \in Heaps
  BY ZenonT(30), <1>1, <1>4 DEF insert_region, Heaps
<1>6. /\ g.type = ty /\ g.size = sz /\ g.next = nx /\ g.prev = pv
      /\ g.next_free = h.next_free /\ g.prev_free = h.prev_free
  BY <1>1 DEF insert_region, Heaps
<1> HIDE DEF g
<1>7. \A b \in Node : /\ g.type[b] = IF b = fp THEN "free" ELSE h.type[b]
                      /\ g.size[b] = IF b = fp THEN n ELSE h.size[b]
  BY <1>1, <1>3, <1>6, HeapTypes
<1>8. /\ Blocks(g) = Blocks(h) \cup {fp} /\ Free(g) = Free(h) \cup {fp}
      /\ Used(g) = Used(h) /\ Free(g) \ {fp} = Free(h)
  BY SMTT(30), <1>1, <1>2, <1>7, HeapTypes DEF Blocks, Free, Used
<1>9. \A b \in Blocks(h) \cup {Head, fp} :
        /\ g.next[b] = IF b = fp THEN nah ELSE IF b = pah THEN fp ELSE h.next[b]
        /\ g.prev[b] = IF b = fp THEN pah ELSE IF b = nah THEN fp ELSE h.prev[b]
  <2>1. \A b \in Blocks(h) \cup {Head, fp} : b \in Node
    BY <1>1, <1>3, ChainNodes
  <2> QED BY <1>1, <1>3, <1>6, <2>1, HeapTypes
<1>10. MainRing(g)
  <2>1. g.type[Head] = "head"
    BY SMTT(30), <1>1, <1>3, <1>7, HeapTypes DEF MainRing
  <2>2. Linked(Blocks(h) \cup {fp}, g.next, g.prev)
    BY <1>1, <1>2, <1>3, <1>9, LinkedInsert DEF MainRing
  <2>3. Sorted(Blocks(h) \cup {fp}, g.next)
    <3>1. Blocks(h) \in SUBSET Addr /\ (nah = Head \/ fp < nah)
      BY <1>1, <1>3, HeapTypes, ArenaAssumption DEF Addr, Node
    <3> QED BY <1>1, <1>2, <1>9, <3>1, SortedInsert DEF MainRing
  <2> QED BY <1>8, <2>1, <2>2, <2>3 DEF MainRing
<1>11. \A b \in Blocks(g) : Fits(g, b)
  <2>1. Fits(g, fp)
    <3>1. g.size[fp] = n /\ g.next[fp] = nah
      BY <1>3, <1>7, <1>9
    <3>2. nah # Head => fp + n <= nah
      <4>1. CASE nah \in Blocks(h)
        <5>1. nah \in Nat /\ nah > fp /\ nah \in Addr /\ nah \in Owned(h)
          BY <1>1, <4>1, BlockBounds, HeapTypes, ArenaAssumption DEF Owned, Head
        <5> QED BY <5>1 DEF Addr
      <4> QED BY <1>3, <4>1
    <3> QED BY <3>1, <3>2 DEF Fits, Ceiling, End
  <2>2. ASSUME NEW b \in Blocks(h) PROVE Fits(g, b)
    <3>1. /\ b # fp /\ b \in Node /\ g.size[b] = h.size[b] /\ Fits(h, b)
          /\ g.next[b] = IF b = pah THEN fp ELSE h.next[b]
      BY <1>1, <1>2, <1>7, <1>9, ChainNodes, Zenon DEF MainChain
    <3>2. CASE b # pah
      BY <3>1, <3>2 DEF Fits, Ceiling, End
    <3>3. CASE b = pah
      <4>1. fp \notin Owned(h) /\ fp \in Nat
        BY DEF MinBlock, Addr
      <4>2. End(h, b) <= fp
        BY <1>1, <3>3, <4>1, BlockBounds DEF Owned
      <4> QED BY <1>3, <3>1, <3>3, <4>2 DEF Fits, Ceiling, End
    <3> QED BY SMTT(30), <3>2, <3>3
  <2> QED BY <1>8, <2>1, <2>2
<1>12. FreeChain(g, Free(g) \ {fp})
  BY ZenonT(30), <1>1, <1>6, <1>8 DEF FreeChain
<1>13. Separate(g, Free(g) \ {fp})
  <2>1. \A b \in Free(h) : /\ b \in Blocks(h) /\ b # fp /\ b \in Node
                           /\ g.next[b] \in Free(h) => g.next[b] = h.next[b]
                           /\ g.size[b] = h.size[b]
    BY <1>1, <1>2, <1>3, <1>7, <1>9, HeapTypes
  <2> QED BY <1>1, <1>8, <2>1 DEF Separate, End
<1>14. \A b \in Blocks(h) : g.size[b] = h.size[b]
  BY <1>1, <1>2, <1>7, ChainNodes
<1> QED BY SMTT(30), <1>2, <1>3, <1>5, <1>7, <1>8, <1>10, <1>11, <1>12, <1>13, <1>14 DEF Detached, MainChain, g

(* Merging block b into block a, which ends where b begins, moves no memory. *)
LEMMA OwnedMerge ==
  ASSUME NEW h \in Heaps, MainChain(h), NEW a \in Blocks(h), NEW b \in Blocks(h), a # b,
         End(h, a) = b, NEW g, Blocks(g) = Blocks(h) \ {b},
         g.size[a] = h.size[a] + h.size[b],
         \A c \in Blocks(g) \ {a} : g.size[c] = h.size[c]
  PROVE  Owned(g) = Owned(h)
<1>1. /\ a \in Nat /\ b \in Nat /\ h.size[a] \in Nat /\ h.size[b] \in Nat
      /\ b = a + h.size[a] /\ End(h, b) = b + h.size[b] /\ End(g, a) = End(h, b)
  BY BlockBounds DEF End
<1>2. \A c \in Blocks(g) \ {a} : End(g, c) = End(h, c)
  BY DEF End
<1>3. ASSUME NEW u \in Addr
      PROVE  (\E c \in Blocks(g) : c <= u /\ u < End(g, c))
               <=> (\E c \in Blocks(h) : c <= u /\ u < End(h, c))
  <2>0. u \in Nat
    BY DEF Addr
  <2>1. (a <= u /\ u < End(g, a)) <=> (a <= u /\ u < End(h, a)) \/ (b <= u /\ u < End(h, b))
    BY SMTT(30), <1>1, <2>0
  <2> QED BY <1>2, <2>1
<1> QED BY <1>3 DEF Owned

(* Every pair of free neighbours but (r, its next) is apart. *)
NearlySound(h, r) ==
  /\ h \in Heaps
  /\ MainChain(h)
  /\ FreeChain(h, Free(h))
  /\ r \in Free(h)
  /\ \A b \in Free(h) \ {r} : h.next[b] \in Free(h) => End(h, b) # h.next[b]

(* The first half of __free_block. *)
LEMMA CoalescesPrev ==
  ASSUME NEW h, NEW x, Detached(h, x), x \in Blocks(h), MergesIntoPrev(h, x)
  PROVE  LET g == CoalescePrev(h, x)
             p == h.prev[x]
         IN  /\ NearlySound(g, p)
             /\ Used(g) = Used(h) \ {x} /\ Owned(g) = Owned(h)
             /\ g.size[p] >= h.size[x]
             /\ \A b \in Used(g) : g.size[b] = h.size[b]
<1> DEFINE p == h.prev[x]
           n == h.size[p] + h.size[x]
           u == resize(h, p, n)
           g == remove_from_main_chain(u, x)
<1>1. h \in Heaps /\ MainChain(h) /\ MainRing(h) /\ FreeChain(h, Free(h) \ {x})
  BY DEF Detached, MainChain
<1>2. /\ p \in Blocks(h) /\ p \in Free(h) /\ End(h, p) = x /\ p # x /\ h.next[p] = x
      /\ p \in Node /\ x \in Node
  <2>1. /\ p \in Blocks(h) \cup {Head} /\ h.type[p] = "free" /\ End(h, p) = x
        /\ h.next[p] = x /\ p \in Node /\ x \in Node
    BY <1>1, ChainNodes DEF MergesIntoPrev, Adjacent, MainRing, Linked
  <2>2. p \in Blocks(h)
    BY <1>1, <2>1 DEF MainRing
  <2>3. p \in Free(h)
    BY SMTT(30), <2>1, <2>2 DEF Free, Blocks
  <2>4. p # x
    BY SMTT(30), <1>1, <2>1, <2>2, BlockBounds
  <2> QED BY SMTT(30), <2>1, <2>2, <2>3, <2>4
<1>3. n \in Nat /\ h.size[x] \in Nat /\ h.size[p] \in Nat
  BY SMTT(30), <1>1, <1>2, HeapTypes
<1>4. /\ u \in Heaps /\ u.next = h.next /\ u.prev = h.prev
      /\ u.next_free = h.next_free /\ u.prev_free = h.prev_free
      /\ u.size = [h.size EXCEPT ![p] = n] /\ MainRing(u)
      /\ Blocks(u) = Blocks(h) /\ Free(u) = Free(h) /\ Used(u) = Used(h)
  BY <1>1, <1>2, <1>3, Resize, SMTT(60)
<1> HIDE DEF u
<1>5. /\ g \in Heaps /\ MainRing(g) /\ Blocks(g) = Blocks(u) \ {x}
      /\ Free(g) = Free(u) \ {x} /\ Used(g) = Used(u) \ {x}
      /\ \A b \in Blocks(g) :
           /\ g.size[b] = u.size[b]
           /\ g.next[b] = IF u.next[b] = x THEN u.next[x] ELSE u.next[b]
      /\ g.next_free = u.next_free /\ g.prev_free = u.prev_free
  <2>1. u \in Heaps /\ MainRing(u) /\ x \in Blocks(u)
    BY <1>4
  <2> QED BY ONLY <2>1, RemoveMain
<1>6. g = CoalescePrev(h, x)
  BY SMTT(30) DEF g, u, CoalescePrev
<1> HIDE DEF g
<1>7. /\ p \in Blocks(g) /\ g.size[p] = n /\ g.next[p] = h.next[x]
      /\ \A b \in Blocks(g) \ {p} : /\ b \in Blocks(h) /\ g.size[b] = h.size[b]
                                     /\ g.next[b] = h.next[b]
  <2>1. \A b \in Blocks(h) : b \in Node /\ (h.next[b] = x => b = p)
    BY SMTT(30), <1>1, ChainNodes DEF MainRing, Linked
  <2>2. \A b \in Node : u.size[b] = IF b = p THEN n ELSE h.size[b]
    BY <1>1, <1>2, <1>4, HeapTypes
  <2> QED BY SMTT(30), <1>2, <1>4, <1>5, <2>1, <2>2
<1>8. MainChain(g)
  <2>1. Fits(g, p)
    <3>1. /\ h.next[x] \in Nat /\ Fits(h, x) /\ Fits(h, p)
          /\ x \in Nat /\ p \in Nat /\ x = p + h.size[p]
      BY <1>1, <1>2, BlockBounds, Zenon DEF MainChain
    <3> QED BY SMTT(30), <1>3, <1>7, <3>1 DEF Fits, Ceiling, End, MinBlock
  <2>2. \A b \in Blocks(g) \ {p} : Fits(g, b)
    BY SMTT(30), <1>1, <1>7 DEF MainChain, Fits, Ceiling, End
  <2> QED BY SMTT(30), <1>5, <2>1, <2>2 DEF MainChain
<1>9. FreeChain(g, Free(g))
  BY <1>1, <1>4, <1>5, Zenon DEF FreeChain
<1>10. \A b \in Free(g) \ {p} : g.next[b] \in Free(g) => End(g, b) # g.next[b]
  <2>1. \A b \in Free(g) : b \in Blocks(g) /\ b \in Free(h) \ {x}
    BY <1>4, <1>5, HeapTypes
  <2>2. \A b \in Free(h) \ {x} : h.next[b] \in Free(h) \ {x} => End(h, b) # h.next[b]
    BY SMTT(30) DEF Detached, Separate
  <2> QED BY SMTT(30), <1>7, <2>1, <2>2 DEF End
<1>11. Owned(g) = Owned(h)
  BY SMTT(30), <1>1, <1>2, <1>4, <1>5, <1>7, OwnedMerge
<1>12. /\ p \in Free(g) /\ p \notin Used(h) /\ Used(g) = Used(h) \ {x}
       /\ g.size[p] >= h.size[x]
  BY SMTT(30), <1>1, <1>2, <1>3, <1>4, <1>5, <1>7, HeapTypes
<1>13. \A b \in Used(g) : g.size[b] = h.size[b]
  <2>1. \A b \in Used(g) : b \in Blocks(g) /\ b # p
    BY SMTT(30), <1>5, <1>12, HeapTypes
  <2> QED BY SMTT(30), <1>7, <2>1
<1> QED BY <1>5, <1>6, <1>8, <1>9, <1>10, <1>11, <1>12, <1>13, Zenon DEF NearlySound

(* A detached block that has no free predecessor is pushed on the free chain. *)
LEMMA PushesDetached ==
  ASSUME NEW h, NEW x, Detached(h, x), x \in Blocks(h), ~MergesIntoPrev(h, x)
  PROVE  LET g == PushFree(h, x)
         IN  /\ NearlySound(g, x)
             /\ Used(g) = Used(h) \ {x} /\ Owned(g) = Owned(h)
             /\ g.size = h.size
<1> DEFINE g == PushFree(h, x)
<1>1. h \in Heaps /\ MainChain(h) /\ MainRing(h) /\ FreeChain(h, Free(h) \ {x})
  BY DEF Detached, MainChain
<1>2. /\ g \in Heaps /\ MainRing(g) /\ Blocks(g) = Blocks(h)
      /\ Free(g) = Free(h) \cup {x} /\ Used(g) = Used(h) \ {x} /\ FreeChain(g, Free(g))
      /\ g.size = h.size /\ g.next = h.next
  BY SMTT(30), <1>1, PushesFree
<1> HIDE DEF g
<1>3. MainChain(g)
  BY <1>1, <1>2 DEF MainChain, Fits, Ceiling, End
<1>4. Owned(g) = Owned(h)
  BY <1>2 DEF Owned, End
<1>5. ASSUME NEW b \in Free(g) \ {x}, g.next[b] \in Free(g)
      PROVE  End(g, b) # g.next[b]
  <2>1. b \in Free(h) \ {x} /\ End(g, b) = End(h, b) /\ g.next[b] = h.next[b]
    BY <1>2 DEF End
  <2>2. CASE h.next[b] = x
    <3>1. b = h.prev[x] /\ h.type[b] = "free"
      BY <1>1, <2>1, <2>2, HeapTypes, Zenon DEF MainRing, Linked, Free
    <3> QED BY SMTT(30), <2>1, <2>2, <3>1 DEF MergesIntoPrev, Adjacent
  <2>3. CASE h.next[b] # x
    BY SMTT(30), <1>2, <1>5, <2>1, <2>3 DEF Detached, Separate
  <2> QED BY <2>2, <2>3
<1> QED BY <1>2, <1>3, <1>4, <1>5, Zenon DEF NearlySound, g

(* The second half of __free_block. *)
LEMMA CoalescesNext ==
  ASSUME NEW h, NEW r, NearlySound(h, r)
  PROVE  LET g == CoalesceNext(h, r)
         IN  /\ Sound(g) /\ r \in Free(g)
             /\ Used(g) = Used(h) /\ Owned(g) = Owned(h)
             /\ g.size[r] >= h.size[r]
             /\ \A b \in Used(g) : g.size[b] = h.size[b]
<1> DEFINE y == h.next[r]
           n == h.size[r] + h.size[y]
           u == resize(h, r, n)
           g == remove_from_chains(u, y)
<1>1. h \in Heaps /\ MainChain(h) /\ MainRing(h) /\ FreeChain(h, Free(h)) /\ r \in Free(h)
  BY SMTT(30) DEF NearlySound, MainChain
<1>2. r \in Blocks(h) /\ r \in Node /\ y \in Node /\ y \in Blocks(h) \cup {Head}
  BY SMTT(30), <1>1, HeapTypes, ChainNodes
<1>3. CASE ~(h.type[y] = "free" /\ End(h, r) = y)
  <2>1. CoalesceNext(h, r) = h
    BY <1>3 DEF CoalesceNext
  <2>2. Separate(h, Free(h))
    BY <1>1, <1>3 DEF NearlySound, Separate, Free
  <2>3. h.size[r] >= h.size[r]
    BY SMTT(30), <1>1, <1>2, HeapTypes
  <2> QED BY <1>1, <2>1, <2>2, <2>3 DEF Sound
<1>4. CASE h.type[y] = "free" /\ End(h, r) = y
  <2>1. y \in Free(h) /\ y # r /\ y \in Blocks(h)
    <3>1. y \in Blocks(h)
      BY <1>1, <1>2, <1>4 DEF MainRing
    <3> QED BY <1>1, <1>2, <1>4, <3>1, BlockBounds DEF Free, Blocks
  <2>2. n \in Nat /\ h.size[y] \in Nat /\ h.size[r] \in Nat
    BY <1>1, <1>2, HeapTypes
  <2>3. /\ u \in Heaps /\ u.next = h.next
        /\ u.size = [h.size EXCEPT ![r] = n] /\ MainRing(u)
        /\ Blocks(u) = Blocks(h) /\ Free(u) = Free(h) /\ Used(u) = Used(h)
        /\ FreeChain(u, Free(u))
    BY SMTT(30), <1>1, <1>2, <2>2, Resize
  <2> HIDE DEF u
  <2>4. /\ g \in Heaps /\ MainRing(g) /\ FreeChain(g, Free(g))
        /\ Blocks(g) = Blocks(u) \ {y} /\ Free(g) = Free(u) \ {y} /\ Used(g) = Used(u)
        /\ \A b \in Blocks(g) :
             /\ g.size[b] = u.size[b]
             /\ g.next[b] = IF u.next[b] = y THEN u.next[y] ELSE u.next[b]
    BY ZenonT(30), <2>1, <2>3, RemoveFromChains
  <2>5. g = CoalesceNext(h, r)
    BY <1>4 DEF g, u, CoalesceNext
  <2> HIDE DEF g
  <2>6. /\ r \in Blocks(g) /\ g.size[r] = n /\ g.next[r] = h.next[y]
        /\ \A b \in Blocks(g) \ {r} : /\ b \in Blocks(h) /\ g.size[b] = h.size[b]
                                       /\ g.next[b] = h.next[b]
    <3>1. \A b \in Blocks(h) : b \in Node /\ (h.next[b] = y => b = r)
      BY <1>1, <1>2, ChainNodes, SMTT(60) DEF MainRing, Linked
    <3>2. \A b \in Node : u.size[b] = IF b = r THEN n ELSE h.size[b]
      BY <1>1, <1>2, <2>3, HeapTypes, SMTT(60)
    <3> QED BY <1>2, <2>1, <2>3, <2>4, <3>1, <3>2, SMTT(60)
  <2>7. MainChain(g)
    <3>1. Fits(g, r)
      <4>1. /\ h.next[y] \in Nat /\ Fits(h, y) /\ Fits(h, r)
            /\ y \in Nat /\ r \in Nat /\ y = r + h.size[r]
        BY <1>1, <1>2, <1>4, <2>1, BlockBounds, Zenon DEF MainChain
      <4> QED BY <2>2, <2>6, <4>1 DEF Fits, Ceiling, End, MinBlock
    <3>2. \A b \in Blocks(g) \ {r} : Fits(g, b)
      BY <1>1, <2>6 DEF MainChain, Fits, Ceiling, End
    <3> QED BY <2>4, <3>1, <3>2 DEF MainChain
  <2>8. Separate(g, Free(g))
    <3>1. \A b \in Free(g) : b \in Blocks(g) /\ b \in Free(h) /\ b # y
      BY <2>3, <2>4, HeapTypes, Zenon
    <3>2. \A b \in Free(h) \ {r} : h.next[b] \in Free(h) => End(h, b) # h.next[b]
      BY DEF NearlySound
    <3>3. End(g, r) = End(h, y)
      BY <1>1, <1>2, <1>4, <2>1, <2>2, <2>6, BlockBounds, SMTT(60) DEF End
    <3>4. ASSUME NEW b \in Free(g), g.next[b] \in Free(g) PROVE End(g, b) # g.next[b]
      <4>1. CASE b = r
        BY SMTT(30), <2>1, <2>6, <3>1, <3>2, <3>3, <3>4, <4>1
      <4>2. CASE b # r
        BY SMTT(30), <2>6, <3>1, <3>2, <3>4, <4>2 DEF End
      <4> QED BY SMTT(30), <4>1, <4>2
    <3> QED BY <3>4 DEF Separate
  <2>9. Owned(g) = Owned(h)
    BY SMTT(30), <1>1, <1>2, <1>4, <2>1, <2>3, <2>4, <2>6, OwnedMerge
  <2>10. r \in Free(g) /\ r \notin Used(h) /\ Used(g) = Used(h) /\ g.size[r] >= h.size[r]
    BY SMTT(30), <1>1, <2>1, <2>2, <2>3, <2>4, <2>6, HeapTypes
  <2>11. \A b \in Used(g) : g.size[b] = h.size[b]
    <3>1. \A b \in Used(g) : b \in Blocks(g) /\ b # r
      BY SMTT(30), <2>4, <2>10, HeapTypes
    <3> QED BY SMTT(30), <2>6, <3>1
  <2> QED BY ZenonT(30), <2>4, <2>5, <2>7, <2>8, <2>9, <2>10, <2>11 DEF Sound
<1> QED BY <1>3, <1>4

(* __free_block puts a block back: both chains are whole again and the block *)
(* it returns covers the one it was given.                                   *)
LEMMA FreesBlock ==
  ASSUME NEW h, NEW x, Detached(h, x), x \in Blocks(h)
  PROVE  LET g == free_block(h, x)
             r == free_block_result(h, x)
         IN  /\ Sound(g) /\ r \in Free(g)
             /\ Used(g) = Used(h) \ {x} /\ Owned(g) = Owned(h)
             /\ g.size[r] >= h.size[x]
             /\ \A b \in Used(g) : g.size[b] = h.size[b]
<1> DEFINE r == free_block_result(h, x)
<1>0. h \in Heaps /\ x \in Node /\ h.size[x] \in Nat
  BY SMTT(30), HeapTypes DEF Detached
<1>1. CASE MergesIntoPrev(h, x)
  <2> DEFINE u == CoalescePrev(h, x)
             g == CoalesceNext(u, r)
  <2>1. r = h.prev[x] /\ free_block(h, x) = g
    BY SMTT(30), <1>1 DEF free_block, free_block_result
  <2>2. /\ NearlySound(u, r) /\ Used(u) = Used(h) \ {x} /\ Owned(u) = Owned(h)
        /\ u.size[r] >= h.size[x] /\ \A b \in Used(u) : u.size[b] = h.size[b]
    BY SMTT(30), <1>1, <2>1, CoalescesPrev
  <2> HIDE DEF u, r
  <2>3. /\ Sound(g) /\ r \in Free(g) /\ Used(g) = Used(u) /\ Owned(g) = Owned(u)
        /\ g.size[r] >= u.size[r] /\ \A b \in Used(g) : g.size[b] = u.size[b]
    BY SMTT(30), <2>2, CoalescesNext
  <2> HIDE DEF g
  <2>4. u.size[r] \in Nat /\ g.size[r] \in Nat
    BY SMTT(30), <2>2, <2>3, HeapTypes DEF NearlySound, Sound
  <2>5. g.size[r] >= h.size[x]
    BY SMTT(30), <1>0, <2>2, <2>3, <2>4
  <2> QED BY <2>1, <2>2, <2>3, <2>5, Zenon DEF r
<1>2. CASE ~MergesIntoPrev(h, x)
  <2> DEFINE u == PushFree(h, x)
             g == CoalesceNext(u, r)
  <2>1. r = x /\ free_block(h, x) = g
    BY <1>2 DEF free_block, free_block_result
  <2>2. NearlySound(u, r) /\ Used(u) = Used(h) \ {x} /\ Owned(u) = Owned(h) /\ u.size = h.size
    BY SMTT(30), <1>2, <2>1, PushesDetached
  <2> HIDE DEF u, r
  <2>3. /\ Sound(g) /\ r \in Free(g) /\ Used(g) = Used(u) /\ Owned(g) = Owned(u)
        /\ g.size[r] >= u.size[r] /\ \A b \in Used(g) : g.size[b] = u.size[b]
    BY SMTT(30), <2>2, CoalescesNext
  <2> HIDE DEF g
  <2> QED BY <2>1, <2>2, <2>3, Zenon DEF r
<1> QED BY <1>1, <1>2, Zenon

-----------------------------------------------------------------------------
(* Taking a block from a free one, and cutting pages out of a free block. *)

(* __malloc_from_block makes a free block used, and leaves what it does not *)
(* need as a free block.                                                    *)
LEMMA Splitting ==
  ASSUME NEW h, Sound(h), NEW fp \in Free(h), NEW n \in Nat, n >= MinBlock, Splits(h, fp, n)
  PROVE  LET g == malloc_from_block(h, fp, n)
         IN  /\ Sound(g)
             /\ Used(g) = Used(h) \cup {fp} /\ Owned(g) = Owned(h)
             /\ g.size[fp] = n
             /\ \A b \in Used(h) : g.size[b] = h.size[b]
<1> DEFINE g   == malloc_from_block(h, fp, n)
           nfp == fp + n
           na  == h.next[fp]
           fpn == h.next_free[fp]
           fpp == h.prev_free[fp]
           ty  == [h.type EXCEPT ![nfp] = "free", ![fp] = "used"]
           sz  == [h.size EXCEPT ![nfp] = h.size[fp] - n, ![fp] = n]
           nx  == [h.next EXCEPT ![nfp] = na, ![fp] = nfp]
           pv  == [h.prev EXCEPT ![nfp] = fp, ![na] = nfp]
           nf  == [h.next_free EXCEPT ![nfp] = fpn, ![fpp] = nfp, ![fp] = Wild]
           pf  == [h.prev_free EXCEPT ![nfp] = fpp, ![fpn] = nfp, ![fp] = Wild]
<1>1. /\ h \in Heaps /\ MainChain(h) /\ MainRing(h) /\ FreeChain(h, Free(h))
      /\ Separate(h, Free(h)) /\ fp \in Blocks(h)
  BY SMTT(30), HeapTypes DEF Sound, MainChain
<1>2. /\ fp \in Nat /\ fp # 0 /\ h.size[fp] \in Nat /\ h.size[fp] >= n + 2 /\ n >= 2
      /\ End(h, fp) = fp + h.size[fp] /\ End(h, fp) <= MaxAddr + 1 /\ na \in Nat
      /\ na # 0 => End(h, fp) <= na
  BY <1>1, BlockBounds DEF Splits, MinBlock
<1>3. /\ nfp \in Addr /\ nfp \in Nat /\ fp < nfp /\ nfp < End(h, fp) /\ h.size[fp] - n \in Nat
      /\ h.size[fp] - n >= 2
  BY SMTT(30), <1>2, ArenaAssumption DEF Addr
<1>4. nfp \notin Blocks(h)
  BY SMTT(30), <1>1, <1>2, <1>3, BlocksApart
<1>5. /\ nfp \in Node /\ nfp # Head /\ fp \in Node /\ fp # Head /\ na \in Node /\ fpn \in Node /\ fpp \in Node
      /\ na \in Blocks(h) \cup {Head} /\ fpn \in Free(h) \cup {Head} /\ fpp \in Free(h) \cup {Head}
      /\ fpn # fp /\ fpp # fp /\ na # nfp /\ na # fp
  <2>1. /\ nfp \in Node /\ nfp # Head /\ fp \in Node /\ fp # Head /\ na \in Node /\ fpn \in Node /\ fpp \in Node
        /\ na \in Blocks(h) \cup {Head} /\ fpn \in Free(h) \cup {Head} /\ fpp \in Free(h) \cup {Head}
    <3>1. Free(h) \in SUBSET Addr
      BY SMTT(30), <1>1, HeapTypes
    <3> QED BY SMTT(30), <1>1, <1>3, <3>1, HeapTypes, ChainNodes
  <2>2. fpn # fp
    BY ZenonT(30), <1>1, {fp} \in SUBSET Free(h) DEF FreeChain, OneRing
  <2>3. fpp # fp
    BY <1>1, <2>2 DEF FreeChain, Linked
  <2> QED BY SMTT(30), <1>2, <1>3, <1>4, <2>1, <2>2, <2>3 DEF Head
<1>6. /\ ty \in [Node -> Types] /\ sz \in [Node -> Nat]
      /\ nx \in [Node -> Node \cup {Wild}] /\ pv \in [Node -> Node \cup {Wild}]
      /\ nf \in [Node -> Node \cup {Wild}] /\ pf \in [Node -> Node \cup {Wild}]
  <2>1. "free" \in Types /\ "used" \in Types
    BY SMTT(30) DEF Types
  <2>2. ty \in [Node -> Types] /\ sz \in [Node -> Nat]
    BY ZenonT(30), <1>1, <1>3, <1>5, <2>1, HeapTypes, Update2
  <2>3. nx \in [Node -> Node \cup {Wild}] /\ pv \in [Node -> Node \cup {Wild}]
    BY ZenonT(30), <1>1, <1>5, HeapTypes, Update2
  <2>4. nf \in [Node -> Node \cup {Wild}]
    BY ZenonT(30), <1>1, <1>5, HeapTypes, Update3
  <2>5. pf \in [Node -> Node \cup {Wild}]
    BY ZenonT(30), <1>1, <1>5, HeapTypes, Update3
  <2> QED BY <2>2, <2>3, <2>4, <2>5
<1>7. g = [type |-> ty, size |-> sz, next |-> nx, prev |-> pv, next_free |-> nf, prev_free |-> pf]
  BY DEF malloc_from_block
<1>8. g \in Heaps
  <2> HIDE DEF g, ty, sz, nx, pv, nf, pf
  <2> QED BY SMTT(30), <1>6, <1>7, HeapRecord
<1>9. /\ g.type = ty /\ g.size = sz /\ g.next = nx /\ g.prev = pv
      /\ g.next_free = nf /\ g.prev_free = pf
  BY <1>7
<1> HIDE DEF g
<1>10. \A b \in Node :
         /\ g.type[b] = IF b = fp THEN "used" ELSE IF b = nfp THEN "free" ELSE h.type[b]
         /\ g.size[b] = IF b = fp THEN n ELSE IF b = nfp THEN h.size[fp] - n ELSE h.size[b]
         /\ g.next[b] = IF b = nfp THEN na ELSE IF b = fp THEN nfp ELSE h.next[b]
         /\ g.prev[b] = IF b = nfp THEN fp ELSE IF b = na THEN nfp ELSE h.prev[b]
  BY SMTT(30), <1>1, <1>3, <1>5, <1>9, HeapTypes
<1>11. \A b \in Node : b # fp =>
         /\ g.next_free[b] = IF b = nfp THEN fpn ELSE IF b = fpp THEN nfp ELSE h.next_free[b]
         /\ g.prev_free[b] = IF b = nfp THEN fpp ELSE IF b = fpn THEN nfp ELSE h.prev_free[b]
  <2>1. fpp # nfp /\ fpn # nfp
    BY SMTT(30), <1>1, <1>4, <1>5, HeapTypes
  <2> QED BY SMTT(30), <1>1, <1>5, <1>9, <2>1, HeapTypes
<1>12. /\ Blocks(g) = Blocks(h) \cup {nfp} /\ Used(g) = Used(h) \cup {fp}
       /\ Free(g) = (Free(h) \ {fp}) \cup {nfp}
  <2>1. h.type[fp] = "free" /\ fp \in Addr
    BY SMTT(30) DEF Free
  <2>2. \A b \in Addr : g.type[b] = IF b = fp THEN "used" ELSE IF b = nfp THEN "free" ELSE h.type[b]
    BY SMTT(30), <1>1, <1>10, HeapTypes
  <2> QED BY <1>3, <1>4, <2>1, <2>2 DEF Blocks, Used, Free
<1>13. MainRing(g)
  <2>0. \A b \in Blocks(h) \cup {Head, nfp} : b \in Node
    BY SMTT(30), <1>1, <1>5, ChainNodes
  <2>1. g.type[Head] = "head"
    BY SMTT(30), <1>1, <1>5, <1>10, HeapTypes DEF MainRing
  <2>2. Linked(Blocks(h) \cup {nfp}, g.next, g.prev)
    <3>1. \A b \in Blocks(h) \cup {Head, nfp} :
            /\ g.next[b] = IF b = nfp THEN h.next[fp] ELSE IF b = fp THEN nfp ELSE h.next[b]
            /\ g.prev[b] = IF b = nfp THEN fp ELSE IF b = h.next[fp] THEN nfp ELSE h.prev[b]
      BY SMTT(30), <1>10, <2>0
    <3>2. Linked(Blocks(h), h.next, h.prev) /\ fp \in Blocks(h) \cup {Head} /\ nfp \notin Blocks(h) \cup {Head}
      BY SMTT(30), <1>1, <1>4, <1>5 DEF MainRing
    <3> HIDE DEF nfp
    <3> QED BY ONLY SMTT(30), <3>1, <3>2, LinkedInsert
  <2>3. Sorted(Blocks(h) \cup {nfp}, g.next)
    <3>1. \A b \in Blocks(h) \cup {Head, nfp} :
            g.next[b] = IF b = nfp THEN h.next[fp] ELSE IF b = fp THEN nfp ELSE h.next[b]
      BY <1>10, <2>0
    <3>2. /\ Linked(Blocks(h), h.next, h.prev) /\ Sorted(Blocks(h), h.next)
          /\ Blocks(h) \in SUBSET Addr
      BY SMTT(30), <1>1, HeapTypes DEF MainRing
    <3>3. /\ fp \in Blocks(h) \cup {Head} /\ nfp \notin Blocks(h)
          /\ nfp \in Addr /\ fp < nfp /\ (h.next[fp] = Head \/ nfp < h.next[fp])
      BY <1>1, <1>2, <1>3, <1>4 DEF Head
    <3> HIDE DEF nfp
    <3> QED BY SMTT(30), <3>1, <3>2, <3>3, SortedInsert
  <2> QED BY SMTT(30), <1>12, <2>1, <2>2, <2>3 DEF MainRing
<1>14. \A b \in Blocks(g) : Fits(g, b)
  <2>1. Fits(g, nfp)
    <3>1. g.size[nfp] = h.size[fp] - n /\ g.next[nfp] = na
      BY SMTT(30), <1>3, <1>5, <1>10
    <3> QED BY SMTT(30), <1>2, <1>3, <3>1 DEF Fits, Ceiling, End, MinBlock, Head
  <2>2. Fits(g, fp)
    <3>1. g.size[fp] = n /\ g.next[fp] = nfp
      BY SMTT(30), <1>3, <1>5, <1>10
    <3> QED BY SMTT(30), <1>2, <1>3, <1>5, <3>1 DEF Fits, Ceiling, End, MinBlock
  <2>3. ASSUME NEW b \in Blocks(h), b # fp PROVE Fits(g, b)
    <3>1. b \in Node /\ b # nfp /\ g.size[b] = h.size[b] /\ g.next[b] = h.next[b]
      BY <1>1, <1>4, <1>10, <2>3, ChainNodes
    <3> QED BY SMTT(30), <1>1, <3>1 DEF MainChain, Fits, Ceiling, End
  <2> QED BY SMTT(30), <1>12, <2>1, <2>2, <2>3
<1>15. FreeChain(g, Free(g))
  <2>1. \A b \in (Free(h) \ {fp}) \cup {Head, nfp} :
          /\ g.next_free[b] = IF b = nfp THEN h.next_free[fp] ELSE IF b = h.prev_free[fp] THEN nfp ELSE h.next_free[b]
          /\ g.prev_free[b] = IF b = nfp THEN h.prev_free[fp] ELSE IF b = h.next_free[fp] THEN nfp ELSE h.prev_free[b]
    <3>1. \A b \in (Free(h) \ {fp}) \cup {Head, nfp} : b \in Node /\ b # fp
      BY SMTT(30), <1>1, <1>2, <1>3, <1>5, HeapTypes
    <3> QED BY SMTT(30), <1>11, <3>1
  <2>2. /\ Linked(Free(h), h.next_free, h.prev_free) /\ OneRing(Free(h), h.next_free)
        /\ fp # Head /\ h.next_free[fp] # fp /\ nfp \notin Free(h) \cup {Head}
    BY SMTT(30), <1>1, <1>4, <1>5, HeapTypes DEF FreeChain
  <2> HIDE DEF nfp
  <2>3. Linked((Free(h) \ {fp}) \cup {nfp}, g.next_free, g.prev_free)
    BY ONLY SMTT(30), <2>1, <2>2, fp \in Free(h), LinkedReplace
  <2>4. OneRing((Free(h) \ {fp}) \cup {nfp}, g.next_free)
    BY ONLY <2>1, <2>2, fp \in Free(h), OneRingReplace
  <2> QED BY SMTT(30), <1>12, <2>3, <2>4 DEF FreeChain
<1>16. Separate(g, Free(g))
  <2> SUFFICES ASSUME NEW b \in Free(g), g.next[b] \in Free(g)
               PROVE  End(g, b) # g.next[b]
    BY SMTT(30) DEF Separate
  <2>1. CASE b = nfp
    <3>1. /\ g.next[b] = na /\ g.size[b] = h.size[fp] - n /\ na \in Free(h)
          /\ End(g, b) = End(h, fp)
      BY SMTT(30), <1>2, <1>3, <1>5, <1>10, <1>12, <2>1 DEF End
    <3> QED BY SMTT(30), <1>1, <3>1 DEF Separate
  <2>2. CASE b # nfp
    <3>1. b \in Free(h) /\ b \in Blocks(h) /\ b # fp /\ b \in Node
      BY SMTT(30), <1>1, <1>12, <2>2, HeapTypes
    <3>2. g.next[b] = h.next[b] /\ End(g, b) = End(h, b) /\ h.next[b] \in Blocks(h) \cup {Head}
      BY SMTT(30), <1>1, <1>10, <2>2, <3>1, ChainNodes DEF End
    <3>3. h.next[b] \in Free(h)
      BY SMTT(30), <1>4, <1>5, <1>12, <3>2
    <3> QED BY SMTT(30), <1>1, <3>1, <3>2, <3>3 DEF Separate
  <2> QED BY <2>1, <2>2
<1>17. Owned(g) = Owned(h)
  <2>1. /\ fp \in Blocks(g) /\ nfp \in Blocks(g) /\ fp # nfp /\ End(g, fp) = nfp
        /\ Blocks(h) = Blocks(g) \ {nfp} /\ h.size[fp] = g.size[fp] + g.size[nfp]
    BY SMTT(30), <1>1, <1>2, <1>3, <1>4, <1>5, <1>10, <1>12 DEF End
  <2>2. \A c \in Blocks(h) \ {fp} : h.size[c] = g.size[c]
    BY <1>1, <1>4, <1>10, ChainNodes, Zenon
  <2>3. MainChain(g)
    BY SMTT(30), <1>13, <1>14 DEF MainChain
  <2> QED BY SMTT(30), <1>8, <2>1, <2>2, <2>3, OwnedMerge
<1>18. g.size[fp] = n /\ \A b \in Used(h) : g.size[b] = h.size[b]
  <2>1. \A b \in Used(h) : b \in Node /\ b # fp /\ b # nfp
    BY SMTT(30), <1>1, <1>4, HeapTypes
  <2> QED BY SMTT(30), <1>5, <1>10, <2>1
<1> QED BY SMTT(30), <1>8, <1>12, <1>13, <1>14, <1>15, <1>16, <1>17, <1>18 DEF Sound, MainChain, g

(* A free block that is not worth splitting is handed out whole. *)
LEMMA TakingWhole ==
  ASSUME NEW h, Sound(h), NEW fp \in Free(h), NEW n \in Nat, ~Splits(h, fp, n)
  PROVE  LET g == malloc_from_block(h, fp, n)
         IN  /\ Sound(g)
             /\ Used(g) = Used(h) \cup {fp} /\ Owned(g) = Owned(h)
             /\ g.size = h.size
<1> DEFINE u  == remove_from_free_chain(h, fp)
           ty == [u.type EXCEPT ![fp] = "used"]
           g  == [u EXCEPT !.type = ty]
<1>1. /\ h \in Heaps /\ MainChain(h) /\ MainRing(h) /\ FreeChain(h, Free(h))
      /\ Separate(h, Free(h)) /\ fp \in Blocks(h) /\ fp \in Addr /\ fp \in Node /\ fp # Head
      /\ Free(h) \in SUBSET Addr /\ h.type[fp] = "free"
  BY SMTT(30), HeapTypes DEF Sound, MainChain, Free
<1>2. /\ u \in Heaps /\ FreeChain(u, Free(h) \ {fp})
      /\ u.type = h.type /\ u.size = h.size /\ u.next = h.next /\ u.prev = h.prev
  BY ZenonT(30), <1>1, RemoveFree
<1>3. g = malloc_from_block(h, fp, n)
  BY DEF malloc_from_block
<1> HIDE DEF u
<1>4. ty \in [Node -> Types]
  BY <1>1, <1>2, "used" \in Types, HeapTypes, Update, Zenon DEF Types
<1>5. g \in Heaps
  BY <1>2, <1>4 DEF Heaps
<1>6. /\ g.type = ty /\ g.size = u.size /\ g.next = u.next /\ g.prev = u.prev
      /\ g.next_free = u.next_free /\ g.prev_free = u.prev_free
  BY <1>2 DEF Heaps
<1> HIDE DEF g
<1>7. \A b \in Node : g.type[b] = IF b = fp THEN "used" ELSE h.type[b]
  BY <1>1, <1>2, <1>6, HeapTypes
<1>8. Blocks(g) = Blocks(h) /\ Used(g) = Used(h) \cup {fp} /\ Free(g) = Free(h) \ {fp}
  <2>1. \A b \in Addr : g.type[b] = IF b = fp THEN "used" ELSE h.type[b]
    BY SMTT(30), <1>1, <1>7, HeapTypes
  <2> QED BY SMTT(30), <1>1, <2>1 DEF Blocks, Used, Free
<1>9. MainChain(g)
  <2>1. g.type[Head] = "head"
    BY SMTT(30), <1>1, <1>7, HeapTypes DEF MainRing
  <2> QED BY SMTT(30), <1>1, <1>2, <1>6, <1>8, <2>1 DEF MainChain, MainRing, Fits, Ceiling, End
<1>10. FreeChain(g, Free(g))
  BY SMTT(30), <1>2, <1>6, <1>8 DEF FreeChain
<1>11. Separate(g, Free(g))
  BY SMTT(30), <1>1, <1>2, <1>6, <1>8 DEF Separate, End
<1>12. Owned(g) = Owned(h)
  BY SMTT(30), <1>2, <1>6, <1>8 DEF Owned, End
<1> QED BY SMTT(30), <1>2, <1>3, <1>5, <1>6, <1>8, <1>9, <1>10, <1>11, <1>12 DEF Sound

(* __malloc_from_block keeps the lists sound and returns enough memory. *)
LEMMA MallocsFromBlock ==
  ASSUME NEW h, Sound(h), NEW fp \in Free(h), NEW n \in Nat, n >= MinBlock, h.size[fp] >= n
  PROVE  LET g == malloc_from_block(h, fp, n)
         IN  /\ Sound(g)
             /\ Used(g) = Used(h) \cup {fp} /\ Owned(g) = Owned(h)
             /\ g.size[fp] >= n
             /\ \A b \in Used(h) : g.size[b] = h.size[b]
<1>1. CASE Splits(h, fp, n)
  <2>1. n >= n
    BY SMTT(30)
  <2> QED BY <1>1, <2>1, Splitting
<1>2. CASE ~Splits(h, fp, n)
  BY SMTT(30), <1>2, TakingWhole
<1> QED BY SMTT(30), <1>1, <1>2

(* cut_tail gives the last `tail' units of a free block a header of their own. *)
LEMMA CutsTail ==
  ASSUME NEW h, Sound(h), NEW ah \in Free(h), NEW tail \in Nat, tail >= MinBlock,
         tail < h.size[ah]
  PROVE  LET g == cut_tail(h, ah, tail)
             t == End(h, ah) - tail
         IN  /\ g \in Heaps /\ MainRing(g) /\ FreeChain(g, Free(g))
             /\ t \notin Blocks(h) /\ Used(g) = Used(h)
             /\ Blocks(g) = Blocks(h) \cup {t} /\ Free(g) = Free(h) \cup {t}
             /\ g.size[t] = tail /\ g.next[t] = h.next[ah] /\ g.next[ah] = t
             /\ \A b \in Blocks(h) : g.size[b] = h.size[b] /\ (b # ah => g.next[b] = h.next[b])
<1> DEFINE g   == cut_tail(h, ah, tail)
           t   == End(h, ah) - tail
           tan == h.next[ah]
           tap == h.prev_free[ah]
           ty  == [h.type EXCEPT ![t] = "free"]
           sz  == [h.size EXCEPT ![t] = tail]
           nx  == [h.next EXCEPT ![t] = tan, ![ah] = t]
           pv  == [h.prev EXCEPT ![tan] = t, ![t] = ah]
           nf  == [h.next_free EXCEPT ![tap] = t, ![t] = ah]
           pf  == [h.prev_free EXCEPT ![t] = tap, ![ah] = t]
<1>1. /\ h \in Heaps /\ MainChain(h) /\ MainRing(h) /\ FreeChain(h, Free(h))
      /\ ah \in Blocks(h)
  BY SMTT(30), HeapTypes DEF Sound, MainChain
<1>2. /\ ah \in Nat /\ ah # 0 /\ h.size[ah] \in Nat
      /\ End(h, ah) = ah + h.size[ah] /\ End(h, ah) <= MaxAddr + 1 /\ tan \in Nat
      /\ tan # 0 => End(h, ah) <= tan
  BY <1>1, BlockBounds
<1>3. t \in Addr /\ t \in Nat /\ ah < t /\ t < End(h, ah)
  BY <1>2, ArenaAssumption DEF Addr, MinBlock
<1>4. t \notin Blocks(h)
  BY <1>1, <1>2, <1>3, BlocksApart
<1>5. /\ t \in Node /\ t # Head /\ ah \in Node /\ ah # Head /\ tan \in Node /\ tap \in Node
      /\ tan \in Blocks(h) \cup {Head} /\ tap \in Free(h) \cup {Head} /\ Free(h) \in SUBSET Addr
      /\ tan # t /\ tap # t /\ h.next_free[tap] = ah
  <2>1. Free(h) \in SUBSET Addr /\ Free(h) \subseteq Blocks(h)
    BY SMTT(30), <1>1, HeapTypes
  <2>2. /\ t \in Node /\ t # Head /\ ah \in Node /\ ah # Head /\ tan \in Node /\ tap \in Node
        /\ tan \in Blocks(h) \cup {Head} /\ tap \in Free(h) \cup {Head}
    BY SMTT(30), <1>1, <1>3, <2>1, HeapTypes, ChainNodes
  <2>3. h.next_free[tap] = ah
    BY SMTT(30), <1>1 DEF FreeChain, Linked
  <2> QED BY SMTT(30), <1>4, <2>1, <2>2, <2>3
<1>6. /\ ty \in [Node -> Types] /\ sz \in [Node -> Nat]
      /\ nx \in [Node -> Node \cup {Wild}] /\ pv \in [Node -> Node \cup {Wild}]
      /\ nf \in [Node -> Node \cup {Wild}] /\ pf \in [Node -> Node \cup {Wild}]
  <2>1. "free" \in Types
    BY SMTT(30) DEF Types
  <2>2. ty \in [Node -> Types] /\ sz \in [Node -> Nat]
    BY SMTT(30), <1>1, <1>5, <2>1, HeapTypes, Update
  <2>3. nx \in [Node -> Node \cup {Wild}] /\ pv \in [Node -> Node \cup {Wild}]
    BY ZenonT(30), <1>1, <1>5, HeapTypes, Update2
  <2>4. nf \in [Node -> Node \cup {Wild}] /\ pf \in [Node -> Node \cup {Wild}]
    BY ZenonT(30), <1>1, <1>5, HeapTypes, Update2
  <2> QED BY <2>2, <2>3, <2>4
<1>7. g = [type |-> ty, size |-> sz, next |-> nx, prev |-> pv, next_free |-> nf, prev_free |-> pf]
  BY DEF cut_tail
<1>8. g \in Heaps
  BY SMTT(30), <1>6, <1>7 DEF Heaps
<1>9. /\ g.type = ty /\ g.size = sz /\ g.next = nx /\ g.prev = pv
      /\ g.next_free = nf /\ g.prev_free = pf
  BY SMTT(30), <1>7
<1> HIDE DEF g
<1>10. \A b \in Node :
         /\ g.type[b] = IF b = t THEN "free" ELSE h.type[b]
         /\ g.size[b] = IF b = t THEN tail ELSE h.size[b]
         /\ g.next[b] = IF b = t THEN tan ELSE IF b = ah THEN t ELSE h.next[b]
         /\ g.prev[b] = IF b = t THEN ah ELSE IF b = tan THEN t ELSE h.prev[b]
  BY <1>1, <1>3, <1>5, <1>9, HeapTypes
<1>11. \A b \in Node :
         /\ g.next_free[b] = IF b = t THEN ah ELSE IF b = tap THEN t ELSE h.next_free[b]
         /\ g.prev_free[b] = IF b = t THEN tap ELSE IF b = ah THEN t ELSE h.prev_free[b]
  <2>1. /\ h.next_free \in [Node -> Node \cup {Wild}]
        /\ h.prev_free \in [Node -> Node \cup {Wild}]
    BY SMTT(30), <1>1, HeapTypes
  <2>2. t \in Node /\ tap \in Node /\ ah \in Node /\ tap # t /\ ah # t
    BY SMTT(30), <1>2, <1>3, <1>5
  <2>3. g.next_free = nf /\ g.prev_free = pf
    BY <1>9
  <2> HIDE DEF t, tap
  <2> QED BY ONLY SMTT(30), <2>1, <2>2, <2>3
<1> HIDE DEF t
<1>12. /\ Blocks(g) = Blocks(h) \cup {t} /\ Used(g) = Used(h) /\ Free(g) = Free(h) \cup {t}
  <2>1. \A b \in Addr : g.type[b] = IF b = t THEN "free" ELSE h.type[b]
    BY <1>1, <1>10, HeapTypes
  <2> QED BY ZenonT(30), <1>3, <1>4, <2>1 DEF Blocks, Used, Free
<1>13. MainRing(g)
  <2>0. \A b \in Blocks(h) \cup {Head, t} : b \in Node
    BY SMTT(30), <1>1, <1>5, ChainNodes
  <2>1. g.type[Head] = "head"
    BY SMTT(30), <1>1, <1>5, <1>10, HeapTypes DEF MainRing
  <2>2. \A b \in Blocks(h) \cup {Head, t} :
          /\ g.next[b] = IF b = t THEN h.next[ah] ELSE IF b = ah THEN t ELSE h.next[b]
          /\ g.prev[b] = IF b = t THEN ah ELSE IF b = h.next[ah] THEN t ELSE h.prev[b]
    BY SMTT(30), <1>10, <2>0
  <2>3. Linked(Blocks(h) \cup {t}, g.next, g.prev)
    <3>1. Linked(Blocks(h), h.next, h.prev) /\ ah \in Blocks(h) \cup {Head} /\ t \notin Blocks(h) \cup {Head}
      BY SMTT(30), <1>1, <1>4, <1>5 DEF MainRing
    <3> QED BY ONLY SMTT(30), <2>2, <3>1, LinkedInsert
  <2>4. Sorted(Blocks(h) \cup {t}, g.next)
    <3>1. /\ Linked(Blocks(h), h.next, h.prev) /\ Sorted(Blocks(h), h.next)
          /\ Blocks(h) \in SUBSET Addr
      BY SMTT(30), <1>1, HeapTypes DEF MainRing
    <3>2. /\ ah \in Blocks(h) \cup {Head} /\ t \notin Blocks(h)
          /\ t \in Addr /\ ah < t /\ (h.next[ah] = Head \/ t < h.next[ah])
      BY SMTT(30), <1>1, <1>2, <1>3, <1>4 DEF Head
    <3> QED BY SMTT(30), <2>2, <3>1, <3>2, SortedInsert
  <2> QED BY <1>12, <2>1, <2>3, <2>4 DEF MainRing
<1>14. FreeChain(g, Free(g))
  <2>1. \A b \in Free(h) \cup {Head, t} :
          /\ g.next_free[b] = IF b = t THEN h.next_free[tap] ELSE IF b = tap THEN t ELSE h.next_free[b]
          /\ g.prev_free[b] = IF b = t THEN tap ELSE IF b = h.next_free[tap] THEN t ELSE h.prev_free[b]
    <3>1. \A b \in Free(h) \cup {Head, t} : b \in Node
      BY SMTT(30), <1>1, <1>5, HeapTypes
    <3> QED BY SMTT(30), <1>5, <1>11, <3>1
  <2>2. /\ Linked(Free(h), h.next_free, h.prev_free) /\ OneRing(Free(h), h.next_free)
        /\ tap \in Free(h) \cup {Head} /\ t \notin Free(h) \cup {Head}
    BY SMTT(30), <1>1, <1>4, <1>5, HeapTypes DEF FreeChain
  <2> HIDE DEF tap
  <2>3. Linked(Free(h) \cup {t}, g.next_free, g.prev_free)
    BY ONLY SMTT(30), <2>1, <2>2, LinkedInsert
  <2>4. OneRing(Free(h) \cup {t}, g.next_free)
    BY ONLY SMTT(30), <2>1, <2>2, OneRingInsert
  <2> QED BY SMTT(30), <1>12, <2>3, <2>4 DEF FreeChain
<1>15. /\ g.size[t] = tail /\ g.next[t] = h.next[ah] /\ g.next[ah] = t
       /\ \A b \in Blocks(h) : g.size[b] = h.size[b] /\ (b # ah => g.next[b] = h.next[b])
  <2>1. \A b \in Blocks(h) : b \in Node /\ b # t
    BY SMTT(30), <1>1, <1>4, ChainNodes
  <2> QED BY SMTT(30), <1>1, <1>5, <1>10, <2>1
<1> QED BY SMTT(30), <1>4, <1>8, <1>12, <1>13, <1>14, <1>15 DEF g, t

(***************************************************************************)
(* free() returns the middle of the free block ah: what the lists keep is  *)
(* a head and a tail portion, either of which may be empty, and they stay  *)
(* well formed.                                                            *)
(***************************************************************************)
LEMMA KeepsHead ==
  ASSUME NEW h, Sound(h), NEW ah \in Free(h),
         NEW head \in Nat, head = 0 \/ head >= MinBlock,
         NEW tail \in Nat, tail = 0 \/ tail >= MinBlock,
         head + tail < h.size[ah]
  PROVE  LET g == keep_head(IF tail # 0 THEN cut_tail(h, ah, tail) ELSE h, ah, head)
         IN  /\ Sound(g) /\ Used(g) = Used(h)
             /\ Owned(g) = Owned(h) \ ((ah + head) .. (End(h, ah) - tail - 1))
             /\ \A b \in Used(g) : g.size[b] = h.size[b]
<1> DEFINE c == IF tail # 0 THEN cut_tail(h, ah, tail) ELSE h
           g == keep_head(c, ah, head)
           e == End(h, ah)
           t == e - tail
           X == IF tail # 0 THEN {t} ELSE {}
           n == h.next[ah]
<1>1. /\ h \in Heaps /\ MainChain(h) /\ MainRing(h) /\ FreeChain(h, Free(h))
      /\ Separate(h, Free(h)) /\ ah \in Blocks(h) /\ ah \in Node
      /\ Blocks(h) \subseteq Addr /\ Free(h) \subseteq Blocks(h)
      /\ Blocks(h) = Used(h) \cup Free(h) /\ Used(h) \cap Free(h) = {}
  BY ZenonT(30), HeapTypes DEF Sound, MainChain
<1>2. /\ ah \in Nat /\ ah # 0 /\ h.size[ah] \in Nat /\ e \in Nat /\ n \in Nat
      /\ e = ah + h.size[ah] /\ e <= MaxAddr + 1
      /\ n # 0 => n \in Blocks(h) /\ e <= n
      /\ t \in Nat /\ ah + head < t /\ t <= e
  BY SMTT(30), <1>1, BlockBounds
<1>3. /\ c \in Heaps /\ MainRing(c) /\ FreeChain(c, Free(c)) /\ Used(c) = Used(h)
      /\ Blocks(c) = Blocks(h) \cup X /\ Free(c) = Free(h) \cup X /\ X \cap Blocks(h) = {}
      /\ \A b \in X : b = t /\ tail # 0 /\ c.size[b] = tail /\ c.next[b] = n
      /\ c.next[ah] = IF tail # 0 THEN t ELSE n
      /\ \A b \in Blocks(h) : c.size[b] = h.size[b] /\ (b # ah => c.next[b] = h.next[b])
  <2>1. CASE tail # 0
    <3>1. tail >= MinBlock /\ tail < h.size[ah]
      BY <1>2, <2>1
    <3>2. c = cut_tail(h, ah, tail) /\ X = {t}
      BY SMTT(30), <2>1
    <3> HIDE DEF c, X
    <3> QED BY SMTT(30), <2>1, <3>1, <3>2, CutsTail
  <2>2. CASE tail = 0
    BY SMTT(30), <1>1, <2>2
  <2> QED BY ZenonT(30), <2>1, <2>2
<1>4. \A b \in Blocks(h) :
         /\ b \in Nat /\ b # 0 /\ h.size[b] \in Nat /\ h.size[b] >= 2
         /\ End(h, b) = b + h.size[b] /\ End(h, b) <= MaxAddr + 1 /\ h.next[b] \in Nat
         /\ h.next[b] # 0 => h.next[b] \in Blocks(h) /\ End(h, b) <= h.next[b]
  BY SMTT(30), <1>1, BlockBounds
<1>5. \A b \in Blocks(h) \ {ah} : End(h, b) <= ah \/ e <= b
  <2>1. \A b \in Blocks(h) : (b < ah => End(h, b) <= ah) /\ (ah < b => e <= b)
    BY <1>1, BlocksApart
  <2> SUFFICES ASSUME NEW b \in Blocks(h), b # ah
               PROVE  End(h, b) <= ah \/ e <= b
    BY SMTT(30)
  <2>2. b \in Nat /\ ah \in Nat
    BY <1>2, <1>4
  <2>3. b < ah \/ ah < b
    BY ONLY SMTT(30), <2>2, b # ah
  <2> QED BY SMTT(30), <2>1, <2>3
<1> HIDE DEF c
(* What is left of the heap, in both cases. *)
<1>6. /\ g \in Heaps /\ MainRing(g) /\ FreeChain(g, Free(g)) /\ Used(g) = Used(h)
      /\ Blocks(g) = (IF head = 0 THEN Blocks(h) \ {ah} ELSE Blocks(h)) \cup X
      /\ Free(g) = (IF head = 0 THEN Free(h) \ {ah} ELSE Free(h)) \cup X
      /\ \A b \in Blocks(g) :
           /\ g.size[b] = IF b = ah THEN head ELSE c.size[b]
           /\ g.next[b] = IF head = 0 /\ c.next[b] = ah THEN c.next[ah] ELSE c.next[b]
  <2>1. CASE head = 0
    <3>1. g = remove_from_chains(c, ah)
      BY SMTT(30), <2>1 DEF keep_head
    <3>2. ah \notin X
      BY ZenonT(30), <1>1, <1>3
    <3>0. ah \in Free(c) /\ c \in Heaps /\ MainRing(c) /\ FreeChain(c, Free(c))
      BY SMTT(30), <1>3
    <3> HIDE DEF g, X
    <3>3. /\ g \in Heaps /\ MainRing(g) /\ FreeChain(g, Free(g))
          /\ Blocks(g) = Blocks(c) \ {ah} /\ Free(g) = Free(c) \ {ah} /\ Used(g) = Used(c)
          /\ \A b \in Blocks(g) :
               /\ g.size[b] = c.size[b]
               /\ g.next[b] = IF c.next[b] = ah THEN c.next[ah] ELSE c.next[b]
      BY ONLY SMTT(30), <3>0, <3>1, RemoveFromChains
    <3>4. /\ Used(c) = Used(h)
          /\ Blocks(c) = Blocks(h) \cup X /\ Free(c) = Free(h) \cup X
      BY SMTT(30), <1>3
    <3>5. /\ Used(g) = Used(h)
          /\ Blocks(g) = (Blocks(h) \ {ah}) \cup X /\ Free(g) = (Free(h) \ {ah}) \cup X
      BY ONLY SMTT(30), <3>2, <3>3, <3>4
    <3>6. \A b \in Blocks(g) : b # ah
      BY ONLY SMTT(30), <3>3
    <3> QED BY ONLY SMTT(30), <2>1, <3>3, <3>5, <3>6
  <2>2. CASE head # 0
    <3>1. g = resize(c, ah, head)
      BY SMTT(30), <2>2 DEF keep_head
    <3>0. ah \in Node /\ head \in Nat /\ c \in Heaps /\ MainRing(c) /\ FreeChain(c, Free(c))
      BY SMTT(30), <1>1, <1>3
    <3> HIDE DEF g, X
    <3>2. /\ g \in Heaps /\ MainRing(g) /\ FreeChain(g, Free(c))
          /\ Blocks(g) = Blocks(c) /\ Free(g) = Free(c) /\ Used(g) = Used(c)
          /\ g.next = c.next /\ g.size = [c.size EXCEPT ![ah] = head]
      BY ONLY SMTT(30), <3>0, <3>1, Resize
    <3>3. \A b \in Blocks(g) : b \in Node /\ c.size \in [Node -> Nat]
      BY SMTT(30), <1>3, <3>2, ChainNodes, HeapTypes
    <3> QED BY SMTT(30), <1>3, <2>2, <3>2, <3>3
  <2> QED BY ZenonT(30), <2>1, <2>2
<1> HIDE DEF g
(* Each block of g: the head portion, the tail portion or a block of h. *)
<1>7. \A b \in Blocks(g) :
         \/ b = ah /\ head # 0 /\ g.size[b] = head
         \/ b = t /\ b \in X /\ tail # 0 /\ g.size[b] = tail /\ g.next[b] = n
         \/ b \in Blocks(h) \ {ah} /\ g.size[b] = h.size[b]
  <2> SUFFICES ASSUME NEW b \in Blocks(g)
               PROVE  \/ b = ah /\ head # 0 /\ g.size[b] = head
                      \/ b = t /\ b \in X /\ tail # 0 /\ g.size[b] = tail /\ g.next[b] = n
                      \/ b \in Blocks(h) \ {ah} /\ g.size[b] = h.size[b]
    BY SMTT(30)
  <2>1. CASE b \in X
    <3>1. n # ah /\ b # ah
      BY SMTT(30), <1>2, <1>3, <2>1
    <3> QED BY SMTT(30), <1>3, <1>6, <2>1, <3>1
  <2>2. CASE b \notin X
    BY SMTT(30), <1>3, <1>6, <2>2
  <2> QED BY SMTT(30), <2>1, <2>2
<1>8. \A b \in Blocks(h) : b \in Blocks(g) =>
         g.next[b] = IF b = ah \/ (head = 0 /\ h.next[b] = ah) THEN c.next[ah] ELSE h.next[b]
  <2>1. c.next[ah] # ah
    BY SMTT(30), <1>2, <1>3
  <2> HIDE DEF X
  <2> QED BY SMTT(30), <1>3, <1>6, <2>1
<1>9. \A b \in Blocks(g) : Fits(g, b)
  <2> SUFFICES ASSUME NEW b \in Blocks(g)
               PROVE  g.size[b] >= 2 /\ b + g.size[b] <= IF g.next[b] = 0 THEN MaxAddr + 1 ELSE g.next[b]
    BY SMTT(30) DEF Fits, Ceiling, End, Head, MinBlock
  <2>1. CASE b = ah /\ head # 0 /\ g.size[b] = head
    <3>1. g.next[b] = IF tail # 0 THEN t ELSE n
      BY SMTT(30), <1>1, <1>3, <1>8, <2>1
    <3> QED BY SMTT(30), <1>2, ArenaAssumption, <2>1, <3>1 DEF MinBlock
  <2>2. CASE b = t /\ tail # 0 /\ g.size[b] = tail /\ g.next[b] = n
    BY SMTT(30), <1>2, <2>2 DEF MinBlock
  <2>3. CASE b \in Blocks(h) \ {ah} /\ g.size[b] = h.size[b]
    <3>1. g.next[b] = h.next[b] \/ (h.next[b] = ah /\ g.next[b] = IF tail # 0 THEN t ELSE n)
      BY SMTT(30), <1>3, <1>8, <2>3
    <3> QED BY SMTT(30), <1>2, <1>4, <2>3, <3>1
  <2> QED BY SMTT(30), <1>7, <2>1, <2>2, <2>3
<1>10. Separate(g, Free(g))
  <2> SUFFICES ASSUME NEW b \in Free(g), g.next[b] \in Free(g)
               PROVE  b + g.size[b] # g.next[b]
    BY SMTT(30) DEF Separate, End
  <2>0. b \in Blocks(g) /\ \A x \in Free(g) : x # 0 /\ x \in Nat
    BY SMTT(30), <1>6, HeapTypes DEF Head, Addr
  <2>1. CASE b = ah /\ head # 0 /\ g.size[b] = head
    <3>1. g.next[b] = IF tail # 0 THEN t ELSE n
      BY SMTT(30), <1>1, <1>3, <1>8, <2>0, <2>1
    <3> QED BY SMTT(30), <1>2, <2>0, <2>1, <3>1
  <2>2. CASE b = t /\ tail # 0 /\ g.size[b] = tail /\ g.next[b] = n
    <3>1. n \in Blocks(h) /\ n \notin X
      BY SMTT(30), <1>2, <1>3, <2>0, <2>2
    <3>2. n \in Free(h)
      BY SMTT(30), <1>6, <2>2, <3>1
    <3>3. e # n
      BY SMTT(30), <1>1, <3>2 DEF Separate
    <3> QED BY SMTT(30), <1>2, <2>2, <3>3
  <2>3. CASE b \in Blocks(h) \ {ah} /\ g.size[b] = h.size[b]
    <3>1. CASE g.next[b] = h.next[b]
      <4>1. b \in Free(h)
        BY SMTT(30), <1>3, <1>6, <2>3
      <4>2. h.next[b] \in Blocks(h)
        BY SMTT(30), <1>4, <2>0, <2>3, <3>1
      <4>3. h.next[b] \in Free(h)
        BY SMTT(30), <1>3, <1>6, <3>1, <4>2
      <4>4. End(h, b) # h.next[b]
        BY SMTT(30), <1>1, <4>1, <4>3 DEF Separate
      <4> QED BY SMTT(30), <1>4, <2>3, <3>1, <4>4
    <3>2. CASE h.next[b] = ah /\ g.next[b] = IF tail # 0 THEN t ELSE n
      BY SMTT(30), <1>2, <1>4, <2>0, <2>3, <3>2
    <3> QED BY SMTT(30), <1>3, <1>8, <2>0, <2>3, <3>1, <3>2
  <2> QED BY SMTT(30), <1>7, <2>0, <2>1, <2>2, <2>3
<1>11. Owned(g) = Owned(h) \ ((ah + head) .. (t - 1))
  <2>1. ASSUME NEW u \in Addr, NEW b \in Blocks(g), b <= u, u < b + g.size[b]
        PROVE  /\ \E a \in Blocks(h) : a <= u /\ u < a + h.size[a]
               /\ ~(ah + head <= u /\ u <= t - 1)
    <3>0. u \in Nat
      BY SMTT(30) DEF Addr
    <3>1. CASE b = ah /\ head # 0 /\ g.size[b] = head
      <4>1. ah <= u /\ u < ah + h.size[ah] /\ ~(ah + head <= u)
        BY SMTT(30), <1>2, <2>1, <3>0, <3>1
      <4> QED BY SMTT(30), <1>1, <4>1
    <3>2. CASE b = t /\ tail # 0 /\ g.size[b] = tail
      <4>1. ah <= u /\ u < ah + h.size[ah] /\ ~(u <= t - 1)
        BY SMTT(30), <1>2, <2>1, <3>0, <3>2
      <4> QED BY SMTT(30), <1>1, <4>1
    <3>3. CASE b \in Blocks(h) \ {ah} /\ g.size[b] = h.size[b]
      BY SMTT(30), <1>2, <1>4, <1>5, <2>1, <3>0, <3>3
    <3> QED BY SMTT(30), <1>7, <3>1, <3>2, <3>3
  <2>2. ASSUME NEW u \in Addr, NEW a \in Blocks(h), a <= u, u < a + h.size[a],
               ~(ah + head <= u /\ u <= t - 1)
        PROVE  \E b \in Blocks(g) : b <= u /\ u < b + g.size[b]
    <3>0. u \in Nat
      BY SMTT(30) DEF Addr
    <3>1. CASE a # ah
      <4>1. a \in Blocks(g) /\ g.size[a] = h.size[a]
        BY SMTT(30), <1>3, <1>6, <3>1
      <4> QED BY SMTT(30), <2>2, <4>1
    <3>2. CASE a = ah /\ u < ah + head
      <4>1. head # 0
        BY SMTT(30), <1>2, <2>2, <3>0, <3>2
      <4>2. ah \in Blocks(g) /\ g.size[ah] = head
        BY SMTT(30), <1>1, <1>6, <4>1
      <4> QED BY SMTT(30), <2>2, <3>2, <4>2
    <3>3. CASE a = ah /\ u >= ah + head
      <4>1. t <= u /\ u < t + tail /\ tail # 0
        BY SMTT(30), <1>2, <2>2, <3>0, <3>3
      <4>2. t \in X /\ t # ah
        BY SMTT(30), <1>2, <4>1
      <4>3. t \in Blocks(g) /\ g.size[t] = tail
        BY ZenonT(30), <1>3, <1>6, <4>2
      <4> QED BY SMTT(30), <4>1, <4>3
    <3> QED BY SMTT(30), <1>2, <3>0, <3>1, <3>2, <3>3
  <2>3. \A u \in Addr : u \in (ah + head) .. (t - 1) <=> ah + head <= u /\ u <= t - 1
    BY <1>2 DEF Addr
  <2> HIDE DEF t
  <2> QED BY SMTT(30), <2>1, <2>2, <2>3 DEF Owned, End
<1>12. \A b \in Used(g) : g.size[b] = h.size[b]
  BY ZenonT(30), <1>1, <1>3, <1>6, HeapTypes
<1> QED BY ZenonT(30), <1>6, <1>9, <1>10, <1>11, <1>12 DEF Sound, MainChain, g, c
=============================================================================
