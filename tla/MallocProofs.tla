---------------------------- MODULE MallocProofs ----------------------------
(***************************************************************************)
(* malloc(), free() and realloc() keep the block lists sound, the held     *)
(* blocks intact and the memory accounted for, and implement Allocator:    *)
(* proofs for Malloc, for every address space, page size, chunk size and   *)
(* set of requests that the assumptions of Malloc allow.                   *)
(***************************************************************************)
EXTENDS Malloc, ArenaProofs

(***************************************************************************)
(* malloc() and free() as functions of the heap: what they return is good  *)
(* again, for every choice the kernel has.                                 *)
(***************************************************************************)

(* Division with rounding up, for regions and the program break. *)
LEMMA RoundsUp ==
  ASSUME NEW a \in Nat, NEW n \in Nat \ {0}
  PROVE  AlignUp(a, n) \in Nat /\ AlignUp(a, n) >= a
<1> DEFINE x == a + n - 1
           q == x \div n
<1>1. x \in Nat /\ n \in Nat /\ n > 0
  OBVIOUS
<1>2. q \in Nat /\ x = n * q + (x % n) /\ x % n \in 0 .. (n - 1)
  BY <1>1
<1>3. q * n = n * q /\ q * n \in Nat
  BY <1>1, <1>2
<1>4. q * n = x - (x % n)
  BY <1>2, <1>3
<1> HIDE DEF q
<1>5. q * n >= a
  BY <1>2, <1>3, <1>4
<1> QED BY <1>3, <1>5 DEF q, AlignUp

(* The size arithmetic of malloc() (malloc.c:150): a block of round_size(n)  *)
(* units has room for its header and n bytes, and round_size adds less than  *)
(* two headers.                                                              *)
LEMMA RoundSize ==
  ASSUME NEW n \in Nat, n + 2 * HeaderSize - 1 < SizeLimit
  PROVE  /\ round_size(n) \in Nat
         /\ (round_size(n) - 1) * HeaderSize >= n
         /\ round_size(n) * HeaderSize \in Nat
         /\ round_size(n) * HeaderSize <= n + 2 * HeaderSize - 1
         /\ n # 0 => round_size(n) >= 2
<1> DEFINE x == n + 2 * HeaderSize - 1
           q == x \div HeaderSize
<1>1. HeaderSize \in Nat /\ HeaderSize > 0 /\ SizeLimit \in Nat /\ SizeLimit > 0 /\ x \in Nat
  BY MallocAssumption, RequestsFit
<1>2. x % SizeLimit = x
  BY <1>1
<1>3. q = round_size(n)
  BY <1>2 DEF round_size
<1>4. q \in Nat /\ x = HeaderSize * q + (x % HeaderSize) /\ x % HeaderSize \in 0 .. (HeaderSize - 1)
  BY <1>1
<1> HIDE DEF q
<1>5. q * HeaderSize = HeaderSize * q /\ q * HeaderSize \in Nat
  BY <1>1, <1>4
<1>6. q * HeaderSize <= x /\ q * HeaderSize > x - HeaderSize
  BY <1>1, <1>4, <1>5
<1>7. (q - 1) * HeaderSize = q * HeaderSize - HeaderSize
  BY <1>1, <1>4
<1>8. (q - 1) * HeaderSize >= n
  BY <1>1, <1>4, <1>5, <1>6, <1>7
<1>9. n # 0 => q >= 2
  <2>1. q = 0 => q * HeaderSize = 0
    BY <1>1
  <2>2. q = 1 => q * HeaderSize = HeaderSize
    BY <1>1
  <2> QED BY <1>1, <1>4, <1>5, <1>6, <2>1, <2>2
<1> QED BY <1>3, <1>4, <1>5, <1>6, <1>8, <1>9

-----------------------------------------------------------------------------
(***************************************************************************)
(* What every call keeps of the allocator's state: sound lists, that cover *)
(* exactly the mapped memory the kernel did not refuse to take back.  The  *)
(* sbrk build needs to know that the break is above all of it: its next    *)
(* region starts there.                                                    *)
(***************************************************************************)
Good(h, m, brk, l) ==
  /\ Sound(h)
  /\ m \subseteq Addr
  /\ l \subseteq m
  /\ brk \in Addr \cup {MaxAddr + 1}
  /\ m \ l = Owned(h)
  /\ UsesSbrk => \A u \in m : u < brk

(* A region the kernel hands out lies in memory no block uses. *)
LEMMA PlacesAreNew ==
  ASSUME NEW h, NEW m, NEW brk, NEW l, Good(h, m, brk, l), NEW len \in Nat, len > 0,
         NEW fp \in Places(m, brk, len)
  PROVE  /\ fp \in Addr /\ fp + len <= MaxAddr + 1
         /\ Extent(fp, len) \subseteq Addr /\ Extent(fp, len) \cap m = {}
         /\ \A u \in Addr : u \in Extent(fp, len) <=> fp <= u /\ u < fp + len
         /\ UsesSbrk => \A u \in m \cup Extent(fp, len) : u < fp + len
<1>1. fp \in Addr /\ fp + len - 1 <= MaxAddr /\ MaxAddr \in Nat /\ fp \in Nat /\ fp >= 1
  BY ArenaAssumption DEF Places, sbrk_places, mmap_places, Addr
<1>2. /\ fp + len <= MaxAddr + 1 /\ Extent(fp, len) \subseteq Addr
      /\ \A u \in Addr : u \in Extent(fp, len) <=> fp <= u /\ u < fp + len
      /\ \A u \in Extent(fp, len) : u \in Nat /\ fp <= u /\ u < fp + len
  BY <1>1 DEF Extent, Addr
<1>3. CASE UsesSbrk
  <2>1. brk \in Nat /\ Alignment \in Nat \ {0} /\ fp = AlignUp(brk, Alignment)
    BY <1>3, ArenaAssumption, MallocAssumption DEF Good, Addr, Places, sbrk_places, sbrk_start
  <2>2. fp >= brk
    BY <2>1, RoundsUp
  <2>3. \A u \in m : u \in Nat /\ u < brk
    BY <1>3 DEF Good, Addr
  <2>4. \A u \in m : u \in Nat /\ u < fp /\ u < fp + len
    BY <1>1, <2>1, <2>2, <2>3
  <2>5. Extent(fp, len) \cap m = {}
    BY <1>1, <1>2, <2>4
  <2> QED BY <1>1, <1>2, <2>4, <2>5
<1>4. CASE ~UsesSbrk
  <2>1. Extent(fp, len) \cap m = {}
    BY <1>4 DEF Places, mmap_places
  <2> QED BY <1>1, <1>2, <1>4, <2>1
<1> QED BY <1>3, <1>4

(* Putting a new region on the main chain adds it to what the lists own. *)
LEMMA InsertOwns ==
  ASSUME NEW h \in Heaps, NEW g, NEW fp \in Addr, NEW n \in Nat,
         Blocks(g) = Blocks(h) \cup {fp}, fp \notin Blocks(h), g.size[fp] = n,
         \A b \in Blocks(h) : g.size[b] = h.size[b],
         NEW E \in SUBSET Addr, \A u \in Addr : u \in E <=> fp <= u /\ u < fp + n
  PROVE  Owned(g) = Owned(h) \cup E
<1>1. \A u \in Addr : (\E b \in Blocks(g) : b <= u /\ u < b + g.size[b])
                     <=> \/ \E b \in Blocks(h) : b <= u /\ u < b + h.size[b]
                         \/ fp <= u /\ u < fp + n
  BY SMTT(30)
<1> QED BY <1>1 DEF Owned, End

(* Every outcome of malloc(n), NULL included, leaves the state good; a block *)
(* it returns is new, large enough and the only one whose status changes.    *)
LEMMA MallocKeeps ==
  ASSUME NEW h, NEW m, NEW brk, NEW l, Good(h, m, brk, l),
         NEW n \in Nat, n + 2 * HeaderSize - 1 < SizeLimit,
         NEW r \in malloc_results(h, m, brk, l, n)
  PROVE  /\ Good(r.heap, r.mapped, r.brk, r.lost)
         /\ r.block = 0 => r = Result(h, m, brk, l, 0)
         /\ r.block # 0 =>
              /\ r.block \in Addr /\ r.block \notin Used(h)
              /\ Used(r.heap) = Used(h) \cup {r.block}
              /\ (r.heap.size[r.block] - 1) * HeaderSize >= n
              /\ \A b \in Used(h) : r.heap.size[b] = h.size[b]
<1> DEFINE size  == round_size(n)
           fsize == region_size(size)
<1>1. CASE r = Result(h, m, brk, l, 0)
  BY <1>1 DEF Result
<1>2. ASSUME n # 0, NEW g, NEW fp, Sound(g), fp \in Free(g), g.size[fp] >= size
      PROVE  LET f == malloc_from_block(g, fp, size)
             IN  /\ Sound(f) /\ Used(f) = Used(g) \cup {fp} /\ Owned(f) = Owned(g)
                 /\ (f.size[fp] - 1) * HeaderSize >= n
                 /\ \A b \in Used(g) : f.size[b] = g.size[b]
                 /\ fp \in Addr /\ fp # 0 /\ fp \notin Used(g)
  <2> DEFINE f == malloc_from_block(g, fp, size)
  <2>1. size \in Nat /\ size >= MinBlock /\ (size - 1) * HeaderSize >= n
    BY <1>2, RoundSize DEF MinBlock
  <2> HIDE DEF size
  <2>2. /\ Sound(f) /\ Used(f) = Used(g) \cup {fp} /\ Owned(f) = Owned(g)
        /\ f.size[fp] >= size
        /\ \A b \in Used(g) : f.size[b] = g.size[b]
    BY <1>2, <2>1, MallocsFromBlock
  <2>3. fp \in Addr /\ fp # 0 /\ fp \notin Used(g)
    BY <1>2 DEF Free, Used, Addr
  <2>4. f.size[fp] \in Nat
    <3>1. f \in Heaps /\ fp \in Node
      BY <2>2, <2>3, HeapTypes DEF Sound
    <3> QED BY <3>1, HeapTypes
  <2>5. (f.size[fp] - 1) * HeaderSize >= (size - 1) * HeaderSize
    <3>1. /\ HeaderSize \in Nat /\ f.size[fp] - 1 \in Int /\ size - 1 \in Int
          /\ f.size[fp] - 1 >= size - 1
      BY <2>1, <2>2, <2>4, MallocAssumption
    <3>2. \A x, y \in Int, k \in Nat : x >= y => x * k >= y * k
      OBVIOUS
    <3> QED BY <3>1, <3>2
  <2>6. (f.size[fp] - 1) * HeaderSize \in Int /\ (size - 1) * HeaderSize \in Int
    BY <2>1, <2>4, MallocAssumption
  <2> HIDE DEF f
  <2>7. (f.size[fp] - 1) * HeaderSize >= n
    BY <2>1, <2>5, <2>6
  <2> QED BY <2>2, <2>3, <2>7 DEF f
<1>3. ASSUME n # 0, NEW fp \in first_fit(h, size),
             r = Result(malloc_from_block(h, fp, size), m, brk, l, fp)
      PROVE  /\ Good(r.heap, r.mapped, r.brk, r.lost)
             /\ r.block # 0 /\ r.block \in Addr /\ r.block \notin Used(h)
             /\ Used(r.heap) = Used(h) \cup {r.block}
             /\ (r.heap.size[r.block] - 1) * HeaderSize >= n
             /\ \A b \in Used(h) : r.heap.size[b] = h.size[b]
  <2>1. Sound(h) /\ fp \in Free(h) /\ h.size[fp] >= size
    BY DEF Good, first_fit
  <2> DEFINE f == malloc_from_block(h, fp, size)
  <2>2. /\ Sound(f) /\ Used(f) = Used(h) \cup {fp} /\ Owned(f) = Owned(h)
        /\ (f.size[fp] - 1) * HeaderSize >= n
        /\ \A b \in Used(h) : f.size[b] = h.size[b]
        /\ fp \in Addr /\ fp # 0 /\ fp \notin Used(h)
    BY <1>2, <1>3, <2>1, Zenon
  <2>3. r.heap = f /\ r.mapped = m /\ r.brk = brk /\ r.lost = l /\ r.block = fp
    BY <1>3 DEF Result
  <2> HIDE DEF f, size
  <2> QED BY <2>2, <2>3 DEF Good
<1>4. ASSUME n # 0, NEW fp \in Places(m, brk, fsize), NEW pah \in insertion_point(h, fp),
             LET h1 == insert_region(h, fp, fsize, pah)
                 b  == free_block_result(h1, fp)
             IN  r = Result(malloc_from_block(free_block(h1, fp), b, size),
                            m \cup Extent(fp, fsize),
                            IF UsesSbrk THEN fp + fsize ELSE brk, l, b)
      PROVE  /\ Good(r.heap, r.mapped, r.brk, r.lost)
             /\ r.block # 0 /\ r.block \in Addr /\ r.block \notin Used(h)
             /\ Used(r.heap) = Used(h) \cup {r.block}
             /\ (r.heap.size[r.block] - 1) * HeaderSize >= n
             /\ \A b \in Used(h) : r.heap.size[b] = h.size[b]
  <2> DEFINE h1 == insert_region(h, fp, fsize, pah)
             b  == free_block_result(h1, fp)
             g  == free_block(h1, fp)
             f  == malloc_from_block(g, b, size)
  <2>1. size \in Nat /\ size >= 2
    BY <1>4, RoundSize
  <2>2. fsize \in Nat /\ fsize >= size /\ fsize >= MinBlock /\ fsize > 0
    <3>1. fsize = AlignUp(size, Chunk)
      BY DEF region_size, AlignUp
    <3>2. Chunk \in Nat \ {0}
      BY MallocAssumption
    <3> HIDE DEF size, fsize
    <3>3. fsize \in Nat /\ fsize >= size
      BY <2>1, <3>1, <3>2, RoundsUp
    <3> QED BY <2>1, <3>3 DEF MinBlock
  <2>3. /\ r.heap = f /\ r.mapped = m \cup Extent(fp, fsize) /\ r.lost = l /\ r.block = b
        /\ r.brk = IF UsesSbrk THEN fp + fsize ELSE brk
    BY SMTT(30), <1>4 DEF Result
  <2> HIDE DEF size, fsize
  <2>4. /\ fp \in Addr /\ fp + fsize <= MaxAddr + 1
        /\ Extent(fp, fsize) \subseteq Addr /\ Extent(fp, fsize) \cap m = {}
        /\ \A u \in Addr : u \in Extent(fp, fsize) <=> fp <= u /\ u < fp + fsize
        /\ UsesSbrk => \A u \in m \cup Extent(fp, fsize) : u < fp + fsize
    BY <1>4, <2>2, PlacesAreNew, SMTT(60)
  <2>5. /\ Sound(h) /\ h \in Heaps /\ m \subseteq Addr /\ l \subseteq m /\ m \ l = Owned(h)
        /\ brk \in Addr \cup {MaxAddr + 1}
    BY DEF Good, Sound
  <2>6. \A u \in Addr : fp <= u /\ u < fp + fsize => u \notin Owned(h)
    BY <2>4, <2>5
  <2>7. pah \in Blocks(h) \cup {Head} /\ pah < fp /\ (h.next[pah] = Head \/ h.next[pah] > fp)
    BY SMTT(30), <1>4 DEF insertion_point
  <2>8. /\ Detached(h1, fp) /\ Blocks(h1) = Blocks(h) \cup {fp} /\ fp \notin Blocks(h)
        /\ Used(h1) = Used(h) /\ h1.size[fp] = fsize
        /\ \A x \in Blocks(h) : h1.size[x] = h.size[x]
    BY ONLY SMTT(30), <2>2, <2>4, <2>5, <2>6, <2>7, InsertsRegion
  <2> HIDE DEF h1
  <2>9. Owned(h1) = Owned(h) \cup Extent(fp, fsize)
    BY ONLY SMTT(30), <2>2, <2>4, <2>5, <2>8, InsertOwns
  <2>10. /\ Sound(g) /\ b \in Free(g) /\ Used(g) = Used(h1) \ {fp} /\ Owned(g) = Owned(h1)
         /\ g.size[b] >= h1.size[fp] /\ \A x \in Used(g) : g.size[x] = h1.size[x]
    BY SMTT(30), <2>8, FreesBlock
  <2> HIDE DEF g, b
  <2>11. g.size[b] >= size
    <3>1. g \in Heaps /\ b \in Node
      BY SMTT(30), <2>10, HeapTypes DEF Sound
    <3>2. g.size[b] \in Nat
      BY SMTT(30), <3>1, HeapTypes
    <3> QED BY SMTT(30), <2>1, <2>2, <2>8, <2>10, <3>2
  <2>12. Used(g) = Used(h) /\ Used(h) \subseteq Blocks(h)
    BY SMTT(30), <2>5, <2>8, <2>10, HeapTypes
  <2>13. /\ Sound(f) /\ Used(f) = Used(g) \cup {b} /\ Owned(f) = Owned(g)
         /\ (f.size[b] - 1) * HeaderSize >= n
         /\ \A x \in Used(g) : f.size[x] = g.size[x]
         /\ b \in Addr /\ b # 0 /\ b \notin Used(g)
    BY SMTT(30), <1>2, <1>4, <2>10, <2>11 DEF size
  <2> HIDE DEF f
  <2>14. \A x \in Used(h) : f.size[x] = h.size[x]
    BY <2>8, <2>10, <2>12, <2>13, Zenon
  <2>15. r.brk \in Addr \cup {MaxAddr + 1}
    BY SMTT(30), <2>2, <2>3, <2>4, <2>5, ArenaAssumption DEF Addr
  <2>16. (m \cup Extent(fp, fsize)) \ l = Owned(f)
    BY SMTT(30), <2>4, <2>5, <2>9, <2>10, <2>13
  <2>17. Good(r.heap, r.mapped, r.brk, r.lost)
    BY <2>3, <2>4, <2>5, <2>13, <2>15, <2>16 DEF Good
  <2> QED BY SMTT(30), <2>3, <2>12, <2>13, <2>14, <2>17
<1>5. \/ r = Result(h, m, brk, l, 0)
      \/ /\ n # 0
         /\ \/ \E fp \in first_fit(h, size) :
                 r = Result(malloc_from_block(h, fp, size), m, brk, l, fp)
            \/ \E fp \in Places(m, brk, fsize) : \E pah \in insertion_point(h, fp) :
                 LET h1 == insert_region(h, fp, fsize, pah)
                     b  == free_block_result(h1, fp)
                 IN  r = Result(malloc_from_block(free_block(h1, fp), b, size),
                                m \cup Extent(fp, fsize),
                                IF UsesSbrk THEN fp + fsize ELSE brk, l, b)
  BY ZenonT(30) DEF malloc_results
<1> QED
  <2> HIDE DEF size, fsize
  <2>1. CASE \E fp \in first_fit(h, size) :
               n # 0 /\ r = Result(malloc_from_block(h, fp, size), m, brk, l, fp)
    BY <1>3, <2>1, Zenon
  <2>2. CASE r = Result(h, m, brk, l, 0)
    BY SMTT(30), <1>1, <2>2
  <2>3. CASE /\ n # 0
             /\ \E fp \in Places(m, brk, fsize) : \E pah \in insertion_point(h, fp) :
                 LET h1 == insert_region(h, fp, fsize, pah)
                     b  == free_block_result(h1, fp)
                 IN  r = Result(malloc_from_block(free_block(h1, fp), b, size),
                                m \cup Extent(fp, fsize),
                                IF UsesSbrk THEN fp + fsize ELSE brk, l, b)
    BY ZenonT(30), <1>4, <2>3
  <2> QED BY SMTT(30), <1>5, <2>1, <2>2, <2>3

(* The portions free() keeps of a block are empty or can hold a free header. *)
LEMMA Portions ==
  ASSUME NEW n \in Nat
  PROVE  Portion(n) \in Nat /\ (Portion(n) = 0 \/ Portion(n) >= MinBlock)
BY MallocAssumption DEF Portion, MinBlock

(* Every outcome of free(a) leaves the state good and changes the status of *)
(* no other block.                                                          *)
LEMMA FreeKeeps ==
  ASSUME NEW h, NEW m, NEW brk, NEW l, Good(h, m, brk, l), NEW a \in Used(h),
         NEW r \in free_results(h, m, brk, l, a)
  PROVE  /\ Good(r.heap, r.mapped, r.brk, r.lost)
         /\ Used(r.heap) = Used(h) \ {a}
         /\ \A b \in Used(r.heap) : r.heap.size[b] = h.size[b]
<1> DEFINE h1 == free_block(h, a)
           ah == free_block_result(h, a)
           R  == Returned(h1, ah)
           h2 == unlink_returned(h1, ah)
<1>1. /\ Sound(h) /\ h \in Heaps /\ m \subseteq Addr /\ l \subseteq m /\ m \ l = Owned(h)
      /\ brk \in Addr \cup {MaxAddr + 1} /\ (UsesSbrk => \A u \in m : u < brk)
  BY DEF Good, Sound
<1>2. Detached(h, a) /\ a \in Blocks(h)
  <2>1. a \in Blocks(h) /\ Free(h) \ {a} = Free(h)
    BY SMTT(30), <1>1, HeapTypes
  <2> QED BY <1>1, <2>1 DEF Detached, Sound
<1>3. /\ Sound(h1) /\ ah \in Free(h1)
      /\ Used(h1) = Used(h) \ {a} /\ Owned(h1) = Owned(h)
      /\ \A b \in Used(h1) : h1.size[b] = h.size[b]
  BY <1>2, FreesBlock, Zenon
<1>4. \/ r = Result(h1, m, brk, l, 0)
      \/ /\ WorthReturning(h1, brk, ah)
         /\ \/ r = Result(h2, m \ R, IF UsesSbrk THEN ah ELSE brk, l, 0)
            \/ r = Result(h2, m, brk, l \cup R, 0)
  BY ZenonT(30) DEF free_results
<1> HIDE DEF h1, ah
<1>5. CASE r = Result(h1, m, brk, l, 0)
  <2>1. r.heap = h1 /\ r.mapped = m /\ r.brk = brk /\ r.lost = l
    BY SMTT(30), <1>5 DEF Result
  <2> QED BY <1>1, <1>3, <2>1 DEF Good
<1>6. ASSUME WorthReturning(h1, brk, ah)
      PROVE  /\ Sound(h2) /\ Used(h2) = Used(h1) /\ Owned(h2) = Owned(h1) \ R
             /\ \A b \in Used(h2) : h2.size[b] = h1.size[b]
             /\ R \subseteq Owned(h1)
             /\ UsesSbrk => ah \in Addr /\ R = ah .. (brk - 1)
  <2>1. /\ h1 \in Heaps /\ ah \in Blocks(h1) /\ ah \in Nat /\ ah # 0 /\ h1.size[ah] \in Nat
        /\ ah \in Addr
        /\ End(h1, ah) = ah + h1.size[ah] /\ End(h1, ah) \in Nat /\ End(h1, ah) <= MaxAddr + 1
        /\ Page \in Nat /\ Page > 0 /\ Chunk \in Nat /\ Chunk > 0
    <3>1. h1 \in Heaps /\ ah \in Blocks(h1) /\ MainChain(h1) /\ ah \in Addr
      BY <1>3, HeapTypes, Zenon DEF Sound
    <3> QED BY SMTT(30), <3>1, BlockBounds, MallocAssumption
  <2> DEFINE hd == IF UsesSbrk THEN 0 ELSE head_portion(ah)
             tl == IF UsesSbrk THEN 0 ELSE tail_portion(h1, ah)
  <2>2. /\ hd \in Nat /\ (hd = 0 \/ hd >= MinBlock)
        /\ tl \in Nat /\ (tl = 0 \/ tl >= MinBlock)
    <3>1. (-ah) % Page \in Nat /\ End(h1, ah) % Page \in Nat
      BY SMTT(30), <2>1
    <3> QED BY <3>1, Portions DEF head_portion, tail_portion
  <2>3. hd + tl < h1.size[ah]
    BY SMTT(30), <1>6, <2>1, <2>2 DEF WorthReturning
  <2>4. /\ h2 = keep_head(IF tl # 0 THEN cut_tail(h1, ah, tl) ELSE h1, ah, hd)
        /\ R = (ah + hd) .. (End(h1, ah) - tl - 1)
    <3>1. CASE UsesSbrk
      <4>1. h2 = keep_head(h1, ah, 0) /\ R = ah .. (End(h1, ah) - 1)
        BY <3>1 DEF unlink_returned, keep_head, Returned
      <4>2. ah = ah + 0 /\ End(h1, ah) - 1 = End(h1, ah) - 0 - 1
        BY <2>1
      <4> QED BY <3>1, <4>1, <4>2
    <3>2. CASE ~UsesSbrk
      BY <3>2 DEF unlink_returned, Returned
    <3> QED BY <3>1, <3>2
  <2>5. UsesSbrk => R = ah .. (brk - 1)
    BY SMTT(30), <1>6 DEF WorthReturning, Returned
  <2> HIDE DEF h2, R, hd, tl
  <2>6. /\ Sound(h2) /\ Used(h2) = Used(h1)
        /\ Owned(h2) = Owned(h1) \ R
        /\ \A b \in Used(h2) : h2.size[b] = h1.size[b]
    BY SMTT(30), <1>3, <2>2, <2>3, <2>4, KeepsHead
  <2>7. R \subseteq Owned(h1)
    <3> SUFFICES ASSUME NEW u \in R
                 PROVE  u \in Addr /\ ah <= u /\ u < End(h1, ah)
      BY <2>1 DEF Owned
    <3>1. u \in (ah + hd) .. (End(h1, ah) - tl - 1)
      BY <2>4
    <3>2. u \in Int /\ ah + hd <= u /\ u <= End(h1, ah) - tl - 1
      BY ONLY SMTT(30), <2>1, <2>2, <3>1
    <3> QED BY ONLY SMTT(30), <2>1, <2>2, <3>2, ArenaAssumption DEF Addr
  <2> QED BY SMTT(30), <2>1, <2>5, <2>6, <2>7
<1> HIDE DEF h2, R
<1>7. CASE WorthReturning(h1, brk, ah) /\ r = Result(h2, m \ R, IF UsesSbrk THEN ah ELSE brk, l, 0)
  <2>1. /\ r.heap = h2 /\ r.mapped = m \ R /\ r.lost = l
        /\ r.brk = IF UsesSbrk THEN ah ELSE brk
    BY <1>7 DEF Result
  <2>2. l \subseteq m \ R /\ (m \ R) \ l = Owned(h2)
    BY <1>1, <1>3, <1>6, <1>7, Zenon
  <2>3. UsesSbrk => \A u \in m \ R : u < ah
    <3> SUFFICES ASSUME UsesSbrk, NEW u \in m, u \notin R
                 PROVE  u < ah
      OBVIOUS
    <3>1. /\ u \in Nat /\ ah \in Nat /\ brk \in Nat /\ u < brk
      BY <1>1, <1>6, <1>7, ArenaAssumption DEF Addr
    <3>2. u \notin ah .. (brk - 1)
      BY <1>6, <1>7, Zenon
    <3> QED BY <3>1, <3>2
  <2>4. r.brk \in Addr \cup {MaxAddr + 1}
    BY SMTT(30), <1>1, <1>6, <1>7, <2>1
  <2>5. UsesSbrk => \A u \in m \ R : u < r.brk
    BY SMTT(30), <2>1, <2>3
  <2>6. Good(r.heap, r.mapped, r.brk, r.lost)
    BY ZenonT(30), <1>1, <1>6, <1>7, <2>1, <2>2, <2>4, <2>5 DEF Good
  <2> QED BY ZenonT(30), <1>3, <1>6, <1>7, <2>1, <2>6
<1>8. CASE WorthReturning(h1, brk, ah) /\ r = Result(h2, m, brk, l \cup R, 0)
  <2>1. r.heap = h2 /\ r.mapped = m /\ r.lost = l \cup R /\ r.brk = brk
    BY <1>8 DEF Result
  <2>2. l \cup R \subseteq m /\ m \ (l \cup R) = Owned(h2)
    BY <1>1, <1>3, <1>6, <1>8, Zenon
  <2>3. Good(r.heap, r.mapped, r.brk, r.lost)
    BY ZenonT(30), <1>1, <1>6, <1>8, <2>1, <2>2 DEF Good
  <2> QED BY ZenonT(30), <1>3, <1>6, <1>8, <2>1, <2>3
<1> QED BY <1>4, <1>5, <1>7, <1>8, Zenon

-----------------------------------------------------------------------------

(***************************************************************************)
(* The inductive invariant: the allocator's state is good, and the program *)
(* and the allocator agree on the held blocks.                             *)
(***************************************************************************)
Room(h, a, n) == (h.size[a] - 1) * HeaderSize >= n

IInv ==
  /\ Good(heap, mapped, current_brk, lost)
  /\ req \in [Node -> Nat]
  /\ crashed \in BOOLEAN
  /\ Held = Used(heap)
  /\ \A a \in Used(heap) : Room(heap, a, req[a])

(* The static head of malloc.c:16 is an empty, sound heap. *)
LEMMA EmptyHeap ==
  Sound(malloc_head) /\ Blocks(malloc_head) = {} /\ Used(malloc_head) = {}
<1>1. malloc_head \in Heaps
  <2> DEFINE Links == [a \in Node |-> IF a = Head THEN Head ELSE Wild]
             ty == [a \in Node |-> IF a = Head THEN "head" ELSE "dead"]
             sz == [a \in Node |-> 0]
  <2>1. Links \in [Node -> Node \cup {Wild}]
    BY ArenaAssumption DEF Node, Head
  <2>2. ty \in [Node -> Types] /\ sz \in [Node -> Nat]
    BY DEF Types
  <2>3. malloc_head = [type |-> ty, size |-> sz, next |-> Links, prev |-> Links,
                       next_free |-> Links, prev_free |-> Links]
    BY DEF malloc_head
  <2> HIDE DEF Links, ty, sz
  <2> QED BY <2>1, <2>2, <2>3 DEF Heaps
<1>2. Blocks(malloc_head) = {} /\ Used(malloc_head) = {} /\ Free(malloc_head) = {}
  <2>1. \A a \in Addr : a \in Node /\ a # Head
    BY ArenaAssumption DEF Addr, Node, Head
  <2>2. \A a \in Addr : malloc_head.type[a] = "dead"
    BY <2>1 DEF malloc_head
  <2> QED BY <2>2 DEF Blocks, Used, Free
<1>3. Head \in Node
  BY ArenaAssumption DEF Head, Node
<1>4. MainChain(malloc_head)
  BY ZenonT(30), <1>2, <1>3 DEF malloc_head, MainChain, MainRing, Linked, Sorted
<1>5. FreeChain(malloc_head, {})
  BY <1>3 DEF malloc_head, FreeChain, Linked, OneRing
<1> QED BY <1>1, <1>2, <1>4, <1>5 DEF Sound, Separate

(* The invariant holds before the first call. *)
LEMMA InitGood == Init => IInv
<1> SUFFICES ASSUME Init PROVE IInv
  OBVIOUS
<1>1. Good(malloc_head, {}, current_brk, {})
  <2>1. current_brk \in Addr
    BY MallocAssumption DEF Init
  <2>2. Owned(malloc_head) = {}
    BY EmptyHeap DEF Owned
  <2> QED BY EmptyHeap, <2>1, <2>2 DEF Good
<1>2. Held = {} /\ req \in [Node -> Nat]
  BY DEF Init, Held
<1> QED BY ZenonT(30), <1>1, <1>2, EmptyHeap DEF Init, IInv

(* A request of the program does not wrap, nor does the one realloc() makes. *)
LEMMA RequestBounds ==
  ASSUME NEW n \in Requests
  PROVE  /\ n \in Nat /\ n + 2 * HeaderSize - 1 < SizeLimit
         /\ n % SizeLimit = n
         /\ round_size(n) * HeaderSize \in Nat
         /\ round_size(n) * HeaderSize + 2 * HeaderSize - 1 < SizeLimit
         /\ n # 0 => round_size(n) * HeaderSize # 0 /\ round_size(n) * HeaderSize >= n
<1>1. /\ HeaderSize \in Nat /\ HeaderSize > 0 /\ SizeLimit \in Nat /\ SizeLimit > 0
      /\ n \in Nat /\ n + 4 * HeaderSize - 2 < SizeLimit
  BY MallocAssumption, RequestsFit
<1>2. n + 2 * HeaderSize - 1 < SizeLimit /\ n % SizeLimit = n
  BY <1>1
<1>3. /\ round_size(n) \in Nat /\ (round_size(n) - 1) * HeaderSize >= n
      /\ round_size(n) * HeaderSize \in Nat
      /\ round_size(n) * HeaderSize <= n + 2 * HeaderSize - 1
  BY <1>1, <1>2, RoundSize
<1>4. round_size(n) * HeaderSize + 2 * HeaderSize - 1 < SizeLimit
  BY <1>1, <1>3
<1>5. (round_size(n) - 1) * HeaderSize = round_size(n) * HeaderSize - HeaderSize
  BY <1>1, <1>3
<1> QED BY <1>1, <1>2, <1>3, <1>4, <1>5

(* The calls on the invariant, one lemma for each.  A block that malloc()   *)
(* returns becomes the program's; the others keep their requests.           *)
LEMMA MallocStep ==
  ASSUME IInv, NEW n \in Nat, n + 2 * HeaderSize - 1 < SizeLimit, malloc(n)
  PROVE  IInv'
<1>1. PICK r \in malloc_results(heap, mapped, current_brk, lost, n) :
        /\ Becomes(r)
        /\ req' = IF r.block = 0 THEN req ELSE [req EXCEPT ![r.block] = n]
        /\ UNCHANGED crashed
  BY ZenonT(30) DEF malloc
<1>2. Good(heap, mapped, current_brk, lost)
  BY DEF IInv
<1>3. /\ Good(r.heap, r.mapped, r.brk, r.lost)
      /\ r.block = 0 => r = Result(heap, mapped, current_brk, lost, 0)
      /\ r.block # 0 =>
           /\ r.block \in Addr /\ r.block \notin Used(heap)
           /\ Used(r.heap) = Used(heap) \cup {r.block}
           /\ (r.heap.size[r.block] - 1) * HeaderSize >= n
           /\ \A b \in Used(heap) : r.heap.size[b] = heap.size[b]
  BY <1>1, <1>2, MallocKeeps
<1>4. Good(heap, mapped, current_brk, lost)'
  BY SMTT(30), <1>1, <1>3 DEF Becomes
<1>5. CASE r.block = 0
  BY SMTT(30), <1>1, <1>3, <1>4, <1>5 DEF IInv, Result, Becomes, Held, Room
<1>6. CASE r.block # 0
  <2> DEFINE x == r.block
  <2>1. /\ heap' = r.heap /\ req' = [req EXCEPT ![x] = n] /\ x \in Node
        /\ x \notin Used(heap) /\ Used(heap)' = Used(heap) \cup {x}
    BY SMTT(30), <1>1, <1>3, <1>6 DEF Becomes, Addr, Node
  <2>2. n # 0
    BY SMTT(30), <1>1, <1>6 DEF malloc_results, Result
  <2>3. /\ req' \in [Node -> Nat] /\ req'[x] = n
        /\ \A b \in Node : b # x => req'[b] = req[b]
    BY <2>1 DEF IInv
  <2>4. Held' = Held \cup {x}
    BY SMTT(30), <2>1, <2>2, <2>3 DEF Held
  <2>5. \A a \in Used(heap)' : Room(heap', a, req'[a])
    <3>1. Room(heap', x, req'[x])
      BY SMTT(30), <1>3, <1>6, <2>1, <2>3 DEF Room
    <3>2. \A a \in Used(heap) : a \in Node /\ a # x /\ req'[a] = req[a] /\ heap'.size[a] = heap.size[a]
      BY SMTT(30), <1>3, <1>6, <2>1, <2>3 DEF IInv, Held
    <3>3. \A a \in Used(heap) : Room(heap', a, req'[a])
      BY SMTT(30), <3>2 DEF IInv, Room
    <3> QED BY SMTT(30), <2>1, <3>1, <3>3
  <2> HIDE DEF x
  <2> QED BY SMTT(30), <1>1, <1>4, <2>1, <2>3, <2>4, <2>5 DEF IInv
<1> QED BY <1>5, <1>6

(* free(a) takes a away from the program and leaves the rest alone. *)
LEMMA FreeStep ==
  ASSUME IInv, NEW a \in Held, free(a)
  PROVE  IInv'
<1>1. PICK r \in free_results(heap, mapped, current_brk, lost, a) :
        Becomes(r) /\ req' = [req EXCEPT ![a] = 0] /\ UNCHANGED crashed
  BY DEF free
<1>2. Good(heap, mapped, current_brk, lost) /\ a \in Used(heap) /\ a \in Node
  BY SMTT(30) DEF IInv, Held
<1>3. /\ Good(r.heap, r.mapped, r.brk, r.lost)
      /\ Used(r.heap) = Used(heap) \ {a}
      /\ \A b \in Used(r.heap) : r.heap.size[b] = heap.size[b]
  BY SMTT(30), <1>1, <1>2, FreeKeeps
<1>4. Good(heap, mapped, current_brk, lost)' /\ Used(heap)' = Used(heap) \ {a}
  BY <1>1, <1>3 DEF Becomes
<1>5. /\ req' \in [Node -> Nat] /\ req'[a] = 0 /\ \A b \in Node : b # a => req'[b] = req[b]
  BY <1>1, <1>2 DEF IInv
<1>6. Held' = Held \ {a}
  BY SMTT(30), <1>2, <1>5 DEF Held
<1>7. \A b \in Used(heap)' : Room(heap', b, req'[b])
  <2>1. \A b \in Used(heap)' : /\ b \in Used(heap) /\ b \in Node
                              /\ req'[b] = req[b] /\ heap'.size[b] = heap.size[b]
    BY SMTT(30), <1>1, <1>3, <1>4, <1>5 DEF IInv, Held, Becomes
  <2> QED BY SMTT(30), <2>1 DEF IInv, Room
<1> QED BY SMTT(30), <1>1, <1>4, <1>5, <1>6, <1>7 DEF IInv

(* realloc() in place: the block already has the rounded size. *)
LEMMA ReallocInPlaceStep ==
  ASSUME IInv, NEW a \in Held, NEW n \in Requests, realloc_in_place(a, n)
  PROVE  IInv'
<1>1. /\ n # 0 /\ heap.size[a] >= round_size(n) /\ req' = [req EXCEPT ![a] = n]
      /\ UNCHANGED <<heap, mapped, current_brk, lost, crashed>>
  BY SMTT(30) DEF realloc_in_place, GoodSize
<1>2. a \in Used(heap) /\ a \in Node /\ n \in Nat /\ req \in [Node -> Nat] /\ heap \in Heaps
  BY RequestBounds DEF IInv, Held, Good, Sound
<1>3. req' \in [Node -> Nat] /\ req'[a] = n /\ \A b \in Node : b # a => req'[b] = req[b]
  BY SMTT(30), <1>1, <1>2
<1>4. Held' = Held
  BY <1>1, <1>3 DEF Held
<1>5. Room(heap, a, n)
  <2>1. /\ round_size(n) \in Nat /\ (round_size(n) - 1) * HeaderSize >= n
    BY SMTT(30), RequestBounds, RoundSize
  <2>2. heap.size[a] \in Nat /\ HeaderSize \in Nat
    BY <1>2, HeapTypes, MallocAssumption
  <2>3. \A x, y \in Int, k \in Nat : x >= y => x * k >= y * k
    OBVIOUS
  <2>4. (heap.size[a] - 1) * HeaderSize >= (round_size(n) - 1) * HeaderSize
    <3>1. heap.size[a] - 1 \in Int /\ round_size(n) - 1 \in Int /\ heap.size[a] - 1 >= round_size(n) - 1
      BY <1>1, <2>1, <2>2
    <3> QED BY SMTT(30), <2>2, <2>3, <3>1
  <2>5. (heap.size[a] - 1) * HeaderSize \in Int /\ (round_size(n) - 1) * HeaderSize \in Int
    BY <2>1, <2>2
  <2> QED BY SMTT(30), <1>2, <2>1, <2>4, <2>5 DEF Room
<1>6. \A b \in Used(heap) : Room(heap, b, req'[b])
  <2>1. \A b \in Used(heap) : b \in Node
    BY DEF IInv, Held
  <2> QED BY <1>3, <1>5, <2>1 DEF IInv
<1> QED BY SMTT(30), <1>1, <1>3, <1>4, <1>6 DEF IInv, Good

(* >= is transitive; stated apart because the sizes below are products. *)
LEMMA AtLeast ==
  ASSUME NEW p \in Int, NEW k \in Int, NEW n \in Int, p >= k, k >= n
  PROVE  p >= n
  OBVIOUS

(* realloc() by copying: malloc(), then free() of the old block. *)
LEMMA ReallocMoveStep ==
  ASSUME IInv, NEW a \in Held, NEW n \in Requests, realloc_move(a, n)
  PROVE  IInv'
<1> DEFINE k == round_size(n) * HeaderSize
<1>1. n # 0 /\ n \in Nat /\ k \in Nat /\ k + 2 * HeaderSize - 1 < SizeLimit /\ k # 0 /\ k >= n
  BY RequestBounds DEF realloc_move
<1>2. PICK r \in malloc_results(heap, mapped, current_brk, lost, k) :
        IF r.block = 0
        THEN crashed' = TRUE /\ UNCHANGED <<heap, mapped, current_brk, lost, req>>
        ELSE \E f \in free_results(r.heap, r.mapped, r.brk, r.lost, a) :
               /\ Becomes(f)
               /\ req' = [req EXCEPT ![r.block] = n, ![a] = 0]
               /\ UNCHANGED crashed
  BY SMTT(30) DEF realloc_move
<1> HIDE DEF k
<1>3. CASE r.block = 0
  BY SMTT(30), <1>2, <1>3 DEF IInv, Held, Good
<1>4. CASE r.block # 0
  <2> DEFINE x == r.block
  <2>1. Good(heap, mapped, current_brk, lost) /\ a \in Used(heap) /\ a \in Node
    BY SMTT(30) DEF IInv, Held
  <2>2. /\ Good(r.heap, r.mapped, r.brk, r.lost)
        /\ x \in Addr /\ x \notin Used(heap) /\ Used(r.heap) = Used(heap) \cup {x}
        /\ (r.heap.size[x] - 1) * HeaderSize >= k
        /\ \A b \in Used(heap) : r.heap.size[b] = heap.size[b]
    BY ONLY <1>1, <1>2, <1>4, <2>1, MallocKeeps
  <2>3. PICK f \in free_results(r.heap, r.mapped, r.brk, r.lost, a) :
          Becomes(f) /\ req' = [req EXCEPT ![x] = n, ![a] = 0] /\ UNCHANGED crashed
    BY SMTT(30), <1>2, <1>4
  <2> HIDE DEF x
  <2>4. /\ Good(f.heap, f.mapped, f.brk, f.lost)
        /\ Used(f.heap) = Used(r.heap) \ {a}
        /\ \A b \in Used(f.heap) : f.heap.size[b] = r.heap.size[b]
    BY ONLY SMTT(30), <2>1, <2>2, <2>3, FreeKeeps
  <2>5. /\ Good(heap, mapped, current_brk, lost)' /\ heap' = f.heap
        /\ Used(heap)' = (Used(heap) \ {a}) \cup {x} /\ x # a /\ x \in Node
    BY SMTT(30), <2>1, <2>2, <2>3, <2>4 DEF Becomes, Addr, Node
  <2>6. /\ req' \in [Node -> Nat] /\ req'[x] = n /\ req'[a] = 0
        /\ \A b \in Node : b # a /\ b # x => req'[b] = req[b]
    BY SMTT(30), <1>1, <2>1, <2>3, <2>5 DEF IInv
  <2>7. Held' = (Held \ {a}) \cup {x}
    BY SMTT(30), <1>1, <2>1, <2>5, <2>6 DEF Held
  <2>8. Room(heap', x, req'[x])
    <3>1. /\ (heap'.size[x] - 1) * HeaderSize >= k /\ heap'.size[x] \in Nat /\ HeaderSize \in Nat
      <4>1. f.heap \in Heaps
        BY ZenonT(30), <2>4 DEF Good, Sound
      <4> QED BY ZenonT(30), <2>2, <2>4, <2>5, <4>1, HeapTypes, MallocAssumption
    <3>2. (heap'.size[x] - 1) * HeaderSize \in Int
      BY ONLY SMTT(30), <3>1
    <3>3. k >= n /\ k \in Int /\ n \in Int
      BY <1>1
    <3>4. (heap'.size[x] - 1) * HeaderSize >= n
      BY ONLY SMTT(30), <3>1, <3>2, <3>3, AtLeast
    <3> QED BY ONLY <2>6, <3>4, Zenon DEF Room
  <2>9. \A b \in Used(heap)' \ {x} : Room(heap', b, req'[b])
    <3>1. \A b \in Used(heap)' \ {x} : /\ b \in Used(heap) /\ b \in Node /\ req'[b] = req[b]
                                       /\ heap'.size[b] = heap.size[b]
      BY SMTT(30), <2>2, <2>4, <2>5, <2>6 DEF IInv, Held
    <3> QED BY SMTT(30), <3>1 DEF IInv, Room
  <2>10. crashed' \in BOOLEAN /\ Held' = Used(heap)'
    BY <2>1, <2>3, <2>5, <2>7, Zenon DEF IInv
  <2>11. \A b \in Used(heap)' : Room(heap', b, req'[b])
    BY ONLY <2>8, <2>9
  <2> QED BY ONLY <2>5, <2>6, <2>10, <2>11 DEF IInv
<1> QED BY <1>3, <1>4

(* Every call of the program keeps the invariant. *)
LEMMA NextKeeps == IInv /\ [Next]_vars => IInv'
<1> SUFFICES ASSUME IInv, [Next]_vars PROVE IInv'
  OBVIOUS
<1>1. CASE UNCHANGED vars
  BY <1>1 DEF vars, IInv, Held
<1>2. ASSUME NEW n \in Requests, malloc(n) PROVE IInv'
  BY <1>2, RequestBounds, MallocStep
<1>3. ASSUME NEW k \in Requests, NEW n \in Requests, k * n \in Requests, calloc(k, n) PROVE IInv'
  <2>1. malloc(k * n)
    BY <1>3, RequestBounds, Zenon DEF calloc
  <2> QED BY <1>2, <1>3, <2>1
<1>4. ASSUME NEW a \in Held, free(a) PROVE IInv'
  BY <1>4, FreeStep
<1>5. ASSUME NEW a \in Held, NEW n \in Requests, realloc(a, n) PROVE IInv'
  BY <1>4, <1>5, ReallocInPlaceStep, ReallocMoveStep DEF realloc, realloc_free
<1> QED BY <1>1, <1>2, <1>3, <1>4, <1>5, Zenon DEF Next

(* The allocator's state is always good. *)
THEOREM Invariant == Spec => []IInv
BY InitGood, NextKeeps, PTL DEF Spec

(* Every variable of the allocator keeps its type, and only mapped memory *)
(* is ever lost.                                                          *)
THEOREM TypeCorrect == Spec => []TypeOK
<1>1. IInv => TypeOK
  BY SMTT(30) DEF IInv, Good, Sound, TypeOK
<1> QED BY <1>1, Invariant, PTL

(* The main chain is always a sorted ring of disjoint blocks: what the       *)
(* searches of malloc() and the merges of __free_block rely on.              *)
THEOREM MainChainCorrect == Spec => []MainChainSorted
<1>1. IInv => MainChainSorted
  BY SMTT(30) DEF IInv, Good, Sound, MainChainSorted
<1> QED BY <1>1, Invariant, PTL

(* The free chain is always one ring of exactly the free blocks, so the *)
(* first-fit loop of malloc() ends and misses no free block.            *)
THEOREM FreeChainCorrect == Spec => []FreeChainLinked
<1>1. IInv => FreeChainLinked
  BY SMTT(30) DEF IInv, Good, Sound, FreeChainLinked
<1> QED BY <1>1, Invariant, PTL

(* __free_block never leaves two adjacent free blocks. *)
THEOREM AlwaysCoalesced == Spec => []Coalesced
<1>1. IInv => Coalesced
  BY DEF IInv, Good, Sound, Coalesced
<1> QED BY <1>1, Invariant, PTL

(* No memory leaks from the lists: they own all that is mapped, except what *)
(* the kernel refused to take back.                                         *)
THEOREM AllMemoryAccounted == Spec => []MemoryAccounted
<1>1. IInv => MemoryAccounted
  BY DEF IInv, Good, MemoryAccounted
<1> QED BY <1>1, Invariant, PTL

(* Two blocks of a sound heap share no memory. *)
LEMMA SoundDisjoint ==
  ASSUME NEW h, Sound(h), NEW a \in Blocks(h), NEW b \in Blocks(h), a # b
  PROVE  Extent(a, h.size[a]) \cap Extent(b, h.size[b]) = {}
<1>1. h \in Heaps /\ MainChain(h)
  BY SMTT(30) DEF Sound
<1>2. /\ a \in Nat /\ h.size[a] \in Nat /\ End(h, a) = a + h.size[a]
      /\ b \in Nat /\ h.size[b] \in Nat /\ End(h, b) = b + h.size[b]
  BY SMTT(30), <1>1, BlockBounds
<1>3. a + h.size[a] <= b \/ b + h.size[b] <= a
  <2>1. a < b \/ b < a
    BY <1>2
  <2>2. (a < b => End(h, a) <= b) /\ (b < a => End(h, b) <= a)
    BY SMTT(30), <1>1, BlocksApart
  <2> QED BY SMTT(30), <1>2, <2>1, <2>2
<1> QED BY <1>2, <1>3 DEF Extent

(* No two blocks overlap, whatever the program calls and the kernel answers. *)
THEOREM AlwaysDisjoint == Spec => []BlocksDisjoint
<1>1. IInv => BlocksDisjoint
  BY SMTT(30), SoundDisjoint DEF IInv, Good, BlocksDisjoint
<1> QED BY <1>1, Invariant, PTL

(* A block the program holds stays marked used, keeps room for its request *)
(* and stays mapped until the program frees it.                            *)
THEOREM HeldBlocksSafe == Spec => []HeldBlocksIntact
<1>1. ASSUME IInv, NEW a \in Held
      PROVE  Extent(a, heap.size[a]) \subseteq mapped \ lost
  <2>1. /\ heap \in Heaps /\ MainChain(heap) /\ mapped \ lost = Owned(heap) /\ a \in Blocks(heap)
    BY SMTT(30), <1>1, HeapTypes DEF IInv, Good, Sound
  <2>2. a \in Nat /\ a # 0 /\ heap.size[a] \in Nat /\ End(heap, a) = a + heap.size[a]
        /\ End(heap, a) <= MaxAddr + 1
    BY SMTT(30), <2>1, BlockBounds
  <2>3. \A u \in Extent(a, heap.size[a]) : u \in Addr /\ a <= u /\ u < End(heap, a)
    BY SMTT(30), <2>2, ArenaAssumption DEF Extent, Addr
  <2> QED BY SMTT(30), <2>1, <2>3 DEF Owned
<1>2. IInv => HeldBlocksIntact
  BY SMTT(30), <1>1 DEF IInv, HeldBlocksIntact, Room
<1> QED BY <1>2, Invariant, PTL

(* The memcpy() of realloc() (realloc.c:40) copies at least the bytes the   *)
(* program asked to keep and at most what the new block holds.              *)
THEOREM ReallocCopies == Spec => []ReallocKeepsBytes
<1>1. ASSUME IInv, NEW a \in Held, NEW n \in Requests \ {0}
      PROVE  /\ copy_len(heap, a, n) >= IF n < req[a] THEN n ELSE req[a]
             /\ copy_len(heap, a, n) <= (round_size(round_size(n) * HeaderSize) - 1) * HeaderSize
  <2> DEFINE size == round_size(n) * HeaderSize
             old  == (heap.size[a] - 1) * HeaderSize
             room == (round_size(size) - 1) * HeaderSize
  <2>1. n \in Nat /\ size \in Nat /\ size >= n /\ size + 2 * HeaderSize - 1 < SizeLimit
    BY RequestBounds
  <2>2. req[a] \in Nat /\ old \in Int /\ old >= req[a]
    <3>1. a \in Node /\ req[a] \in Nat /\ old >= req[a] /\ heap \in Heaps
      BY SMTT(30), <1>1 DEF IInv, Held, Room, Good, Sound
    <3>2. heap.size[a] \in Nat /\ HeaderSize \in Nat
      BY <3>1, HeapTypes, MallocAssumption, Zenon
    <3>3. old \in Int
      BY <3>2
    <3> QED BY SMTT(30), <3>1, <3>3
  <2>3. room \in Int /\ room >= size
    <3> HIDE DEF size
    <3>1. round_size(size) \in Nat /\ room >= size /\ HeaderSize \in Nat
      BY <2>1, RoundSize, MallocAssumption
    <3>2. room \in Int
      BY <3>1
    <3> QED BY SMTT(30), <3>1, <3>2
  <2>4. copy_len(heap, a, n) = IF size < old THEN size ELSE old
    BY DEF copy_len
  <2> HIDE DEF size, old, room
  <2> QED BY <2>1, <2>2, <2>3, <2>4 DEF room, size
<1>2. IInv => ReallocKeepsBytes
  BY <1>1 DEF ReallocKeepsBytes
<1> QED BY <1>2, Invariant, PTL

-----------------------------------------------------------------------------
(***************************************************************************)
(* Malloc implements Allocator: each call is a grant, a release, a move or *)
(* a resize of the regions the program holds, or changes none of them.     *)
(***************************************************************************)
Region(h, q, a) == [at |-> a, size |-> h.size[a], req |-> q[a]]

Live(h, q) == {Region(h, q, a) : a \in Used(h)}

(* The region of another block is not among those of h. *)
LEMMA RegionsDiffer ==
  ASSUME NEW h, NEW q, NEW b, b.at \notin Used(h)
  PROVE  b \notin Live(h, q)
BY DEF Live, Region

(* The regions after a block x comes to be held. *)
LEMMA LiveGrows ==
  ASSUME NEW h, NEW q, NEW f, NEW p, NEW x, Used(f) = Used(h) \cup {x},
         \A c \in Used(h) : Region(f, p, c) = Region(h, q, c)
  PROVE  Live(f, p) = Live(h, q) \cup {Region(f, p, x)}
BY DEF Live

(* A block that is not held any more takes its region, and no other, away. *)
LEMMA LiveShrinks ==
  ASSUME NEW h, NEW q, NEW f, NEW p, NEW a, Used(f) = Used(h) \ {a},
         \A c \in Used(f) : Region(f, p, c) = Region(h, q, c)
  PROVE  Live(f, p) = Live(h, q) \ {Region(h, q, a)}
<1>1. \A c : Region(h, q, a) = Region(h, q, c) => a = c
  BY DEF Region
<1> QED BY SMTT(30), <1>1 DEF Live

(* The regions after block x takes the place of a; x may be a itself. *)
Replaced(h, q, f, p, a, x) ==
  /\ Used(f) = (Used(h) \ {a}) \cup {x}
  /\ \A c \in Used(h) \ {a} : Region(f, p, c) = Region(h, q, c)

\* What that does to the regions of a heap.
LEMMA LiveReplaces ==
  ASSUME NEW h, NEW q, NEW f, NEW p, NEW a, NEW x, Replaced(h, q, f, p, a, x)
  PROVE  Live(f, p) = (Live(h, q) \ {Region(h, q, a)}) \cup {Region(f, p, x)}
<1>1. \A c : Region(h, q, a) = Region(h, q, c) => a = c
  BY SMTT(30) DEF Region
<1> QED BY SMTT(30), <1>1 DEF Live, Replaced

(* A region granted in f, next to the blocks of h, overlaps none of them. *)
LEMMA NewRegionApart ==
  ASSUME NEW h, NEW q, NEW f, Sound(f), NEW x, x \notin Used(h),
         Used(f) = Used(h) \cup {x}, \A b \in Used(h) : f.size[b] = h.size[b],
         NEW n
  PROVE  \A c \in Live(h, q) :
            Promise!Disjoint([at |-> x, size |-> f.size[x], req |-> n], c)
<1> SUFFICES ASSUME NEW a \in Used(h)
             PROVE  Promise!Disjoint([at |-> x, size |-> f.size[x], req |-> n], Region(h, q, a))
  BY SMTT(30) DEF Live
<1>1. x \in Blocks(f) /\ a \in Blocks(f) /\ x # a
  BY SMTT(30), HeapTypes DEF Sound
<1>2. Extent(x, f.size[x]) \cap Extent(a, f.size[a]) = {}
  BY <1>1, SoundDisjoint, Zenon
<1> QED BY SMTT(30), <1>2 DEF Promise!Disjoint, Promise!Units, Region, Extent

(* malloc() grants a region or leaves the regions alone. *)
LEMMA MallocGrants ==
  ASSUME IInv, NEW n \in Nat, n + 2 * HeaderSize - 1 < SizeLimit, malloc(n)
  PROVE  Promise!Next \/ Live(heap, req)' = Live(heap, req)
<1>1. PICK r \in malloc_results(heap, mapped, current_brk, lost, n) :
        /\ Becomes(r)
        /\ req' = IF r.block = 0 THEN req ELSE [req EXCEPT ![r.block] = n]
  BY ZenonT(30) DEF malloc
<1>2. Good(heap, mapped, current_brk, lost) /\ req \in [Node -> Nat] /\ Used(heap) \subseteq Node
  BY DEF IInv, Held
<1>3. /\ Good(r.heap, r.mapped, r.brk, r.lost)
      /\ r.block = 0 => r = Result(heap, mapped, current_brk, lost, 0)
      /\ r.block # 0 =>
           /\ r.block \in Addr /\ r.block \notin Used(heap)
           /\ Used(r.heap) = Used(heap) \cup {r.block}
           /\ (r.heap.size[r.block] - 1) * HeaderSize >= n
           /\ \A b \in Used(heap) : r.heap.size[b] = heap.size[b]
  BY SMTT(30), <1>1, <1>2, MallocKeeps
<1>4. CASE r.block = 0
  BY SMTT(30), <1>1, <1>3, <1>4 DEF Result, Becomes
<1>5. CASE r.block # 0
  <2> DEFINE x == r.block
             b == [at |-> x, size |-> r.heap.size[x], req |-> n]
  <2>1. /\ heap' = r.heap /\ req' = [req EXCEPT ![x] = n] /\ x \in Node /\ x \notin Used(heap)
        /\ Sound(r.heap) /\ Used(r.heap) = Used(heap) \cup {x}
        /\ (r.heap.size[x] - 1) * HeaderSize >= n
        /\ \A c \in Used(heap) : r.heap.size[c] = heap.size[c]
    BY SMTT(30), <1>1, <1>3, <1>5 DEF Becomes, Good, Addr, Node
  <2> HIDE DEF x
  <2>2. \A c \in Live(heap, req) : Promise!Disjoint(b, c)
    <3>1. /\ Sound(r.heap) /\ x \notin Used(heap) /\ Used(r.heap) = Used(heap) \cup {x}
          /\ \A c \in Used(heap) : r.heap.size[c] = heap.size[c]
      BY <2>1, Zenon
    <3>2. \A c \in Live(heap, req) :
            Promise!Disjoint([at |-> x, size |-> r.heap.size[x], req |-> n], c)
      BY ONLY SMTT(30), <3>1, NewRegionApart
    <3> QED BY <3>2, Zenon
  <2>3. Live(heap', req') = Live(heap, req) \cup {b}
    <3>1. \A c \in Used(heap) : Region(heap', req', c) = Region(heap, req, c)
      BY SMTT(30), <1>2, <2>1 DEF Region
    <3>2. Region(heap', req', x) = b
      BY SMTT(30), <1>2, <2>1 DEF Region
    <3>3. Used(heap') = Used(heap) \cup {x}
      BY SMTT(30), <2>1
    <3> QED BY ONLY SMTT(30), <3>1, <3>2, <3>3, LiveGrows
  <2>4. b \notin Live(heap, req) /\ b \in Live(heap', req')
    BY ZenonT(30), <2>1, <2>3, RegionsDiffer
  <2>5. Promise!Holds(b, n)
    BY <2>1, Zenon DEF Promise!Holds
  <2>6. Promise!Grant(b.at, b.size, b.req)
    BY ZenonT(30), <2>2, <2>3, <2>5 DEF Promise!Grant, Live, Region
  <2> HIDE DEF b
  <2> QED BY ZenonT(30), <2>4, <2>6 DEF Promise!Next, Live, Region
<1> QED BY <1>4, <1>5

(* free() releases one region. *)
LEMMA FreeReleases ==
  ASSUME IInv, NEW a \in Held, free(a)
  PROVE  Promise!Next
<1>1. PICK r \in free_results(heap, mapped, current_brk, lost, a) :
        Becomes(r) /\ req' = [req EXCEPT ![a] = 0]
  BY DEF free
<1>2. /\ Good(heap, mapped, current_brk, lost) /\ a \in Used(heap) /\ a \in Node
      /\ req \in [Node -> Nat] /\ Used(heap) \subseteq Node
  BY SMTT(30) DEF IInv, Held
<1>3. /\ Used(r.heap) = Used(heap) \ {a}
      /\ \A b \in Used(r.heap) : r.heap.size[b] = heap.size[b]
  BY SMTT(30), <1>1, <1>2, FreeKeeps
<1>4. heap' = r.heap /\ Used(heap') = Used(heap) \ {a}
  BY SMTT(30), <1>1, <1>3 DEF Becomes
<1>5. \A c \in Used(heap') : Region(heap', req', c) = Region(heap, req, c)
  BY SMTT(30), <1>1, <1>2, <1>3, <1>4 DEF Region
<1> DEFINE b == Region(heap, req, a)
<1>6. Live(heap', req') = Live(heap, req) \ {b}
  BY ONLY SMTT(30), <1>4, <1>5, LiveShrinks
<1>7. b \in Live(heap, req) /\ b \notin Live(heap', req')
  BY SMTT(30), <1>2, <1>6 DEF Live
<1>8. Promise!Release(b)
  BY SMTT(30), <1>6 DEF Promise!Release, Live, Region
<1> HIDE DEF b
<1>9. \E d \in Live(heap, req) \ Live(heap', req') : Promise!Release(d)
  BY SMTT(30), <1>7, <1>8 DEF Promise!Release
<1> QED BY <1>9, ZenonT(30) DEF Promise!Next, Live, Region

(* realloc() in place changes what a region was asked for, if anything. *)
LEMMA ReallocResizes ==
  ASSUME IInv, NEW a \in Held, NEW n \in Requests, realloc_in_place(a, n)
  PROVE  Promise!Next \/ Live(heap, req)' = Live(heap, req)
<1>1. n # 0 /\ heap' = heap /\ req' = [req EXCEPT ![a] = n]
  BY DEF realloc_in_place
<1>2. a \in Used(heap) /\ a \in Node /\ req \in [Node -> Nat] /\ Used(heap) \subseteq Node
  BY DEF IInv, Held
<1>3. CASE req[a] = n
  <2>1. req' = req
    BY <1>1, <1>2, <1>3
  <2> QED BY <1>1, <2>1
<1>4. CASE req[a] # n
  <2> DEFINE b == Region(heap, req, a)
             c == Region(heap', req', a)
  <2>1. /\ Used(heap') = (Used(heap) \ {a}) \cup {a}
        /\ \A d \in Used(heap) \ {a} : Region(heap', req', d) = Region(heap, req, d)
    BY SMTT(30), <1>1, <1>2 DEF Region
  <2>2. Live(heap', req') = (Live(heap, req) \ {b}) \cup {c}
    <3>1. Replaced(heap, req, heap', req', a, a)
      BY ONLY <2>1, Zenon DEF Replaced
    <3> QED BY ONLY <3>1, LiveReplaces, SMTT(30)
  <2>3. c = [b EXCEPT !.req = n] /\ c.req = n /\ c # b
    BY <1>1, <1>2, <1>4 DEF Region
  <2>4. c \notin Live(heap, req) /\ b \in Live(heap, req)
    BY ZenonT(30), <1>1, <1>2, <1>4 DEF Live, Region
  <2>5. Promise!Holds(b, n)
    <3>1. IInv'
      BY ReallocInPlaceStep
    <3>2. Room(heap, a, n)
      BY <1>1, <1>2, <3>1, Zenon DEF IInv
    <3> QED BY <3>2, Zenon DEF Promise!Holds, Region, Room
  <2>6. Promise!Resize(b, c.req)
    BY <2>2, <2>3, <2>5 DEF Promise!Resize, Live, Region
  <2>7. b \in Live(heap, req) \ Live(heap', req') /\ c \in Live(heap', req') \ Live(heap, req)
    BY <2>2, <2>3, <2>4
  <2> HIDE DEF b, c
  <2>8. \E d \in Live(heap, req) \ Live(heap', req'), e \in Live(heap', req') \ Live(heap, req) :
          Promise!Resize(d, e.req)
    BY SMTT(30), <2>6, <2>7 DEF Promise!Resize, Promise!Holds
  <2> QED BY <2>8, ZenonT(30) DEF Promise!Next, Live, Region
<1> QED BY <1>3, <1>4

(* realloc() by copying moves a region to memory apart from every region *)
(* held before, or crashes and changes none.                             *)
LEMMA ReallocMoves ==
  ASSUME IInv, NEW a \in Held, NEW n \in Requests, realloc_move(a, n)
  PROVE  Promise!Next \/ Live(heap, req)' = Live(heap, req)
<1> DEFINE k == round_size(n) * HeaderSize
<1>1. n # 0 /\ n \in Nat /\ k \in Nat /\ k + 2 * HeaderSize - 1 < SizeLimit
  BY SMTT(30), RequestBounds DEF realloc_move
<1>2. PICK r \in malloc_results(heap, mapped, current_brk, lost, k) :
        IF r.block = 0
        THEN UNCHANGED <<heap, req>>
        ELSE \E f \in free_results(r.heap, r.mapped, r.brk, r.lost, a) :
               Becomes(f) /\ req' = [req EXCEPT ![r.block] = n, ![a] = 0]
  BY DEF realloc_move
<1> HIDE DEF k
<1>3. CASE r.block = 0
  BY <1>2, <1>3, Zenon
<1>4. CASE r.block # 0
  <2> DEFINE x == r.block
  <2>1. /\ Good(heap, mapped, current_brk, lost) /\ a \in Used(heap) /\ a \in Node
        /\ req \in [Node -> Nat] /\ Used(heap) \subseteq Node
    BY SMTT(30) DEF IInv, Held
  <2>2. /\ Good(r.heap, r.mapped, r.brk, r.lost)
        /\ x \in Addr /\ x \notin Used(heap) /\ Used(r.heap) = Used(heap) \cup {x}
        /\ \A b \in Used(heap) : r.heap.size[b] = heap.size[b]
    BY ONLY SMTT(30), <1>1, <1>2, <1>4, <2>1, MallocKeeps
  <2>3. PICK f \in free_results(r.heap, r.mapped, r.brk, r.lost, a) :
          Becomes(f) /\ req' = [req EXCEPT ![x] = n, ![a] = 0]
    BY SMTT(30), <1>2, <1>4
  <2> HIDE DEF x
  <2>4. /\ Used(f.heap) = Used(r.heap) \ {a}
        /\ \A b \in Used(f.heap) : f.heap.size[b] = r.heap.size[b]
    <3>1. Good(r.heap, r.mapped, r.brk, r.lost) /\ a \in Used(r.heap)
      BY ONLY SMTT(30), <2>1, <2>2
    <3> QED BY ONLY SMTT(30), <3>1, FreeKeeps
  <2>5. /\ heap' = f.heap /\ x \in Node /\ x # a /\ heap'.size[x] = r.heap.size[x]
        /\ Used(heap') = (Used(heap) \ {a}) \cup {x}
    BY SMTT(30), <2>1, <2>2, <2>3, <2>4 DEF Becomes, Addr, Node
  <2>6. \A d \in Used(heap) \ {a} : Region(heap', req', d) = Region(heap, req, d)
    BY ZenonT(30), <2>1, <2>2, <2>3, <2>4, <2>5 DEF Region
  <2> DEFINE b == Region(heap, req, a)
             c == Region(heap', req', x)
  <2>7. Live(heap', req') = (Live(heap, req) \ {b}) \cup {c}
    <3>1. Used(heap') = (Used(heap) \ {a}) \cup {x}
      BY ONLY SMTT(30), <2>5
    <3>2. Replaced(heap, req, heap', req', a, x)
      BY ONLY <3>1, <2>6, Zenon DEF Replaced
    <3> QED BY ONLY <3>2, LiveReplaces, SMTT(30)
  <2>8. c = [at |-> x, size |-> r.heap.size[x], req |-> n] /\ c # b
    BY ZenonT(30), <1>1, <2>1, <2>3, <2>5 DEF Region
  <2>9. \A d \in Live(heap, req) : Promise!Disjoint(c, d)
    <3>1. Sound(r.heap)
      BY ZenonT(30), <2>2 DEF Good
    <3> HIDE DEF c
    <3> QED BY ZenonT(30), <2>2, <2>8, <3>1, NewRegionApart
  <2>10. Promise!Holds(c, n)
    <3>1. IInv'
      BY SMTT(30), ReallocMoveStep
    <3>2. Room(heap', x, req'[x])
      BY ZenonT(30), <2>5, <3>1 DEF IInv
    <3>3. req'[x] = n
      BY SMTT(30), <1>1, <2>1, <2>3, <2>5
    <3> QED BY ZenonT(30), <3>2, <3>3 DEF Promise!Holds, Region, Room
  <2>11. /\ b \in Live(heap, req) \ Live(heap', req')
         /\ c \in Live(heap', req') \ Live(heap, req)
    <3>1. b \in Live(heap, req)
      BY SMTT(30), <2>1 DEF Live
    <3>2. c \notin Live(heap, req)
      BY SMTT(30), <2>2, <2>8, RegionsDiffer
    <3> QED BY SMTT(30), <2>7, <2>8, <3>1, <3>2
  <2>12. Promise!Move(b, c.at, c.size, c.req)
    <3>1. c = [at |-> c.at, size |-> c.size, req |-> c.req] /\ c.req = n
      BY SMTT(30), <2>8
    <3> HIDE DEF b, c
    <3> QED BY SMTT(30), <2>7, <2>9, <2>10, <3>1 DEF Promise!Move, Live, Region
  <2> HIDE DEF b, c
  <2>13. \E d \in Live(heap, req) \ Live(heap', req'), e \in Live(heap', req') \ Live(heap, req) :
           Promise!Move(d, e.at, e.size, e.req)
    BY <2>11, <2>12, Zenon DEF Promise!Move, Promise!Holds, Promise!Disjoint, Promise!Units
  <2> QED BY <2>13, ZenonT(30) DEF Promise!Next, Live, Region
<1> QED BY SMTT(30), <1>3, <1>4

(* malloc(), calloc(), free() and realloc() implement the abstract allocator: *)
(* what they hand out is apart from all the program holds and large enough,   *)
(* and they take nothing back that the program has not given up.              *)
THEOREM Implementation == Spec => ImplementsAllocator
<1>1. Init => Promise!Init
  BY ZenonT(30), EmptyHeap DEF Init, Promise!Init
<1>2. IInv /\ [Next]_vars => Promise!Next \/ Live(heap, req)' = Live(heap, req)
  <2> SUFFICES ASSUME IInv, [Next]_vars
               PROVE  Promise!Next \/ Live(heap, req)' = Live(heap, req)
    OBVIOUS
  <2>1. CASE UNCHANGED vars
    BY SMTT(30), <2>1 DEF vars
  <2>2. ASSUME NEW n \in Requests, malloc(n)
        PROVE  Promise!Next \/ Live(heap, req)' = Live(heap, req)
    BY SMTT(30), <2>2, RequestBounds, MallocGrants
  <2>3. ASSUME NEW k \in Requests, NEW n \in Requests, k * n \in Requests, calloc(k, n)
        PROVE  Promise!Next \/ Live(heap, req)' = Live(heap, req)
    <3>1. malloc(k * n)
      BY <2>3, RequestBounds DEF calloc
    <3> QED BY SMTT(30), <2>2, <2>3, <3>1
  <2>4. ASSUME NEW a \in Held, free(a) PROVE Promise!Next
    BY SMTT(30), <2>4, FreeReleases
  <2>5. ASSUME NEW a \in Held, NEW n \in Requests, realloc(a, n)
        PROVE  Promise!Next \/ Live(heap, req)' = Live(heap, req)
    BY SMTT(30), <2>4, <2>5, ReallocResizes, ReallocMoves DEF realloc, realloc_free
  <2> QED BY SMTT(30), <2>1, <2>2, <2>3, <2>4, <2>5 DEF Next
<1>3. IInv /\ [Next]_vars => [Promise!Next]_({[at |-> a, size |-> heap.size[a], req |-> req[a]] : a \in Used(heap)})
  BY <1>2, Zenon DEF Live, Region
<1> QED BY <1>1, <1>3, Invariant, PTL DEF Spec, ImplementsAllocator, Promise!Spec
=============================================================================
