------------------------------- MODULE Arena -------------------------------
(***************************************************************************)
(* The block lists of klibc's malloc (usr/klibc/malloc.c), as operators    *)
(* from a heap to a heap.                                                  *)
(*                                                                         *)
(* Addresses count units of sizeof(struct arena_header), the alignment     *)
(* unit of the allocator.  A free block's header takes 2 units, a used     *)
(* block's takes 1.  Address 0 is the list head, __malloc_head.            *)
(*                                                                         *)
(* A heap gives, for every address, the header stored there.  An address   *)
(* that holds no header has type "dead", the mark DEBUG_MALLOC leaves      *)
(* behind; the other fields of a dead header, and the free links of a used *)
(* one, are memory no code may read any more, and hold Wild.               *)
(***************************************************************************)
EXTENDS Integers

CONSTANT MaxAddr        \* the last address the kernel can hand out

ASSUME ArenaAssumption == MaxAddr \in Nat \ {0}

Head == 0
Addr == 1 .. MaxAddr
Node == 0 .. MaxAddr
Wild == -1
MinBlock == 2           \* 2 * sizeof(struct arena_header)

Types == {"head", "used", "free", "dead"}

Heaps == [type : [Node -> Types],
          size : [Node -> Nat],
          next : [Node -> Node \cup {Wild}],
          prev : [Node -> Node \cup {Wild}],
          next_free : [Node -> Node \cup {Wild}],
          prev_free : [Node -> Node \cup {Wild}]]

malloc_head ==
  LET Links == [a \in Node |-> IF a = Head THEN Head ELSE Wild]
  IN  [type |-> [a \in Node |-> IF a = Head THEN "head" ELSE "dead"],
       size |-> [a \in Node |-> 0],
       next |-> Links, prev |-> Links,
       next_free |-> Links, prev_free |-> Links]

Used(h)   == {a \in Addr : h.type[a] = "used"}
Free(h)   == {a \in Addr : h.type[a] = "free"}
Blocks(h) == {a \in Addr : h.type[a] \in {"used", "free"}}

(* Where a block ends. *)
End(h, a) == a + h.size[a]

(* Block a is free and ends where b starts. *)
Adjacent(h, a, b) == h.type[a] = "free" /\ End(h, a) = b

-----------------------------------------------------------------------------

remove_from_main_chain(h, ah) ==
  LET ap == h.prev[ah]
      an == h.next[ah]
  IN  [h EXCEPT !.type = [@ EXCEPT ![ah] = "dead"],
                !.size = [@ EXCEPT ![ah] = 0],
                !.next = [@ EXCEPT ![ap] = an, ![ah] = Wild],
                !.prev = [@ EXCEPT ![an] = ap, ![ah] = Wild]]

remove_from_free_chain(h, ah) ==
  LET ap == h.prev_free[ah]
      an == h.next_free[ah]
  IN  [h EXCEPT !.next_free = [@ EXCEPT ![ap] = an, ![ah] = Wild],
                !.prev_free = [@ EXCEPT ![an] = ap, ![ah] = Wild]]

remove_from_chains(h, ah) ==
  remove_from_main_chain(remove_from_free_chain(h, ah), ah)

(***************************************************************************)
(* __malloc_from_block: split the free block fp after `size' units when    *)
(* what is left can hold a free header, and mark the first part used.      *)
(***************************************************************************)
(* Faulty variants, for showing that the properties notice: the remainder *)
(* is not checked to hold a free header.                                  *)
SplitsAnyRest(h, fp, size) == h.size[fp] >= size

SplitsOneShort(h, fp, size) == h.size[fp] >= size + 1

Splits(h, fp, size) == h.size[fp] >= size + MinBlock

malloc_from_block(h, fp, size) ==
  IF Splits(h, fp, size)
  THEN LET nfp == fp + size
           na  == h.next[fp]
           fpn == h.next_free[fp]
           fpp == h.prev_free[fp]
       IN  [type |-> [h.type EXCEPT ![nfp] = "free", ![fp] = "used"],
            size |-> [h.size EXCEPT ![nfp] = h.size[fp] - size, ![fp] = size],
            next |-> [h.next EXCEPT ![nfp] = na, ![fp] = nfp],
            prev |-> [h.prev EXCEPT ![nfp] = fp, ![na] = nfp],
            next_free |-> [h.next_free EXCEPT ![nfp] = fpn, ![fpp] = nfp,
                                              ![fp] = Wild],
            prev_free |-> [h.prev_free EXCEPT ![nfp] = fpp, ![fpn] = nfp,
                                              ![fp] = Wild]]
  ELSE LET u == remove_from_free_chain(h, fp)
       IN  [u EXCEPT !.type = [@ EXCEPT ![fp] = "used"]]

resize(h, a, size) == [h EXCEPT !.size = [@ EXCEPT ![a] = size]]

(***************************************************************************)
(* __free_block: first merge the block into its predecessor or push it on  *)
(* the free chain, then merge its successor into it.                       *)
(***************************************************************************)
MergesIntoPrev(h, ah) == Adjacent(h, h.prev[ah], ah)

(* The block that contains ah once it is freed: what __free_block returns. *)
free_block_result(h, ah) ==
  IF MergesIntoPrev(h, ah) THEN h.prev[ah] ELSE ah

(* Faulty: the merged header stays on the main chain. *)
CoalescePrevKeepsHeader(h, ah) ==
  LET pah == h.prev[ah] IN resize(h, pah, h.size[pah] + h.size[ah])

(* Faulty: the predecessor does not grow. *)
CoalescePrevNoGrowth(h, ah) == remove_from_main_chain(h, ah)

CoalescePrev(h, ah) ==
  LET pah == h.prev[ah]
  IN  remove_from_main_chain(resize(h, pah, h.size[pah] + h.size[ah]), ah)

PushFree(h, ah) ==
  LET first == h.next_free[Head]
  IN  [h EXCEPT !.type = [@ EXCEPT ![ah] = "free"],
                !.next_free = [@ EXCEPT ![ah] = first, ![Head] = ah],
                !.prev_free = [@ EXCEPT ![ah] = Head, ![first] = ah]]

(* Faulty: the merged block stays on the free chain. *)
CoalesceNextKeepsFree(h, ah) ==
  LET nah == h.next[ah]
  IN  IF h.type[nah] = "free" /\ End(h, ah) = nah
      THEN remove_from_main_chain(resize(h, ah, h.size[ah] + h.size[nah]), nah)
      ELSE h

(* Faulty: the sizes compared are those of the wrong block. *)
CoalesceNextWrongEnd(h, ah) ==
  LET nah == h.next[ah]
  IN  IF h.type[nah] = "free" /\ End(h, nah) = ah
      THEN remove_from_chains(resize(h, ah, h.size[ah] + h.size[nah]), nah)
      ELSE h

CoalesceNext(h, ah) ==
  LET nah == h.next[ah]
  IN  IF h.type[nah] = "free" /\ End(h, ah) = nah
      THEN remove_from_chains(resize(h, ah, h.size[ah] + h.size[nah]), nah)
      ELSE h

free_block(h, ah) ==
  CoalesceNext(IF MergesIntoPrev(h, ah) THEN CoalescePrev(h, ah)
                                        ELSE PushFree(h, ah),
               free_block_result(h, ah))

(* Faulty: the block after the region still points back past it. *)
InsertOneWay(h, fp, fsize, pah) ==
  [h EXCEPT !.type = [@ EXCEPT ![fp] = "free"],
            !.size = [@ EXCEPT ![fp] = fsize],
            !.next = [@ EXCEPT ![fp] = h.next[pah], ![pah] = fp],
            !.prev = [@ EXCEPT ![fp] = pah]]

(***************************************************************************)
(* malloc() puts a region fresh from the kernel after pah on the main      *)
(* chain; it is not on the free chain until free_block takes it.           *)
(***************************************************************************)
insert_region(h, fp, fsize, pah) ==
  LET nah == h.next[pah]
  IN  [h EXCEPT !.type = [@ EXCEPT ![fp] = "free"],
                !.size = [@ EXCEPT ![fp] = fsize],
                !.next = [@ EXCEPT ![fp] = nah, ![pah] = fp],
                !.prev = [@ EXCEPT ![fp] = pah, ![nah] = fp]]

(***************************************************************************)
(* free() cuts the last `tail' units of the free block ah into a block of  *)
(* its own, right after ah on the main chain and right before it on the    *)
(* free chain.  ah keeps its size until its own part is dealt with.        *)
(***************************************************************************)
cut_tail(h, ah, tail) ==
  LET tah == End(h, ah) - tail
      tan == h.next[ah]
      tap == h.prev_free[ah]
  IN  [type |-> [h.type EXCEPT ![tah] = "free"],
       size |-> [h.size EXCEPT ![tah] = tail],
       next |-> [h.next EXCEPT ![tah] = tan, ![ah] = tah],
       prev |-> [h.prev EXCEPT ![tan] = tah, ![tah] = ah],
       next_free |-> [h.next_free EXCEPT ![tap] = tah, ![tah] = ah],
       prev_free |-> [h.prev_free EXCEPT ![tah] = tap, ![ah] = tah]]

(* ... and shrinks ah to its head portion, or drops it if there is none. *)
keep_head(h, ah, head) ==
  IF head # 0 THEN resize(h, ah, head) ELSE remove_from_chains(h, ah)

-----------------------------------------------------------------------------
(* What the operations above keep.  A chain is made of doubly linked rings *)
(* of the blocks in S and the head.                                        *)
Linked(S, next, prev) ==
  \A b \in S \cup {Head} :
    /\ next[b] \in S \cup {Head} /\ prev[b] \in S \cup {Head}
    /\ prev[next[b]] = b /\ next[prev[b]] = b

(* One ring: whoever starts in S and follows next gets to the head. *)
OneRing(S, next) ==
  \A T \in SUBSET S : (\A b \in T : next[b] \in T) => T = {}

(* In address order: next[b] is the least block above b, or the head. *)
Sorted(S, next) ==
  \A b \in S \cup {Head} :
    /\ next[b] # Head => b < next[b]
    /\ \A c \in S : c > b => next[b] # Head /\ next[b] <= c

MainRing(h) ==
  /\ h.type[Head] = "head"
  /\ Linked(Blocks(h), h.next, h.prev)
  /\ Sorted(Blocks(h), h.next)

(* Where the memory that block b may fill ends. *)
Ceiling(h, b) == IF h.next[b] = Head THEN MaxAddr + 1 ELSE h.next[b]

(* Block b can hold a free header and does not reach into the next block. *)
Fits(h, b) == h.size[b] >= MinBlock /\ End(h, b) <= Ceiling(h, b)

MainChain(h) == MainRing(h) /\ \A b \in Blocks(h) : Fits(h, b)

FreeChain(h, F) == Linked(F, h.next_free, h.prev_free) /\ OneRing(F, h.next_free)

(* No two free blocks of F side by side. *)
Separate(h, F) == \A b \in F : h.next[b] \in F => End(h, b) # h.next[b]

(* The units of memory inside a block. *)
Owned(h) == {u \in Addr : \E b \in Blocks(h) : b <= u /\ u < End(h, b)}
=============================================================================
