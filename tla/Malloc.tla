------------------------------- MODULE Malloc -------------------------------
(***************************************************************************)
(* malloc(), free(), realloc() and calloc() of klibc, over the block lists *)
(* of Arena and a kernel that maps memory where it likes.                  *)
(*                                                                         *)
(* UsesSbrk selects the build: _KLIBC_MALLOC_USES_SBRK takes memory from   *)
(* the program break, the default build from anonymous mappings.           *)
(*                                                                         *)
(* A call is one step: klibc has no threads.  What varies between runs is  *)
(* the order of the calls, where the kernel places a region, and whether   *)
(* it refuses a request.                                                   *)
(***************************************************************************)
EXTENDS Arena

CONSTANTS
  UsesSbrk,      \* _KLIBC_MALLOC_USES_SBRK
  HeaderSize,    \* sizeof(struct arena_header), bytes in an address unit
  Chunk,         \* _KLIBC_MALLOC_CHUNK_SIZE, in units
  Page,          \* getpagesize(), in units
  Alignment,     \* _KLIBC_SBRK_ALIGNMENT, in units
  FirstBreaks,   \* where the kernel may put the initial program break
  Requests,      \* the sizes, in bytes, that the program asks for
  SizeLimit      \* 2^w for a w-bit size_t

ASSUME MallocAssumption ==
  /\ UsesSbrk \in BOOLEAN
  /\ HeaderSize \in Nat \ {0}
  /\ Page \in Nat \ {0}
  /\ \E k \in 1 .. Chunk : Chunk = k * Page   \* sysconfig.h: CHUNK is a multiple
  /\ Chunk \in Nat \ {0, 1}                   \* of the page size
  /\ Alignment \in Nat \ {0}
  /\ FirstBreaks \subseteq Addr

(* The additions of malloc() and realloc() do not wrap for these requests. *)
ASSUME RequestsFit ==
  /\ SizeLimit \in Nat \ {0}
  /\ \A n \in Requests : n \in Nat /\ n + 4 * HeaderSize - 2 < SizeLimit

VARIABLES
  heap,          \* the headers in memory, a member of Heaps
  mapped,        \* the units of memory the kernel has given to the allocator
  current_brk,   \* the program break, __current_brk once sbrk() has asked for it
  lost,          \* units cut out of the lists that the kernel did not take back
  req,           \* req[a]: the bytes the program asked for in the block at a, or 0
  crashed        \* realloc() has copied to NULL

vars == <<heap, mapped, current_brk, lost, req, crashed>>

Extent(a, n) == a .. (a + n - 1)

AlignUp(a, n) == ((a + n - 1) \div n) * n

(* Faulty: the header is not counted. *)
RoundWithoutHeader(n) == ((n + HeaderSize - 1) % SizeLimit) \div HeaderSize

(* size + header, rounded up to a whole number of headers, as units. *)
round_size(n) == ((n + 2 * HeaderSize - 1) % SizeLimit) \div HeaderSize

-----------------------------------------------------------------------------
(* The kernel.  mmap() returns any free page-aligned place. *)

mmap_places(m, len) ==
  {a \in Addr : /\ a % Page = 0
                /\ a + len - 1 <= MaxAddr
                /\ Extent(a, len) \cap m = {}}

(* sbrk() aligns the current break up and moves it. *)
sbrk_start(brk) == AlignUp(brk, Alignment)

sbrk_places(brk, len) ==
  {a \in Addr : a = sbrk_start(brk) /\ a + len - 1 <= MaxAddr}

Places(m, brk, len) ==
  IF UsesSbrk THEN sbrk_places(brk, len) ELSE mmap_places(m, len)

-----------------------------------------------------------------------------
(***************************************************************************)
(* malloc().  The first-fit loop walks next_free from the head; the loop   *)
(* that places a new region walks prev from the head.                      *)
(***************************************************************************)
Walk(link) ==
  LET at[i \in Node] == IF i = 0 THEN link[Head] ELSE link[at[i - 1]]
  IN  at

(* The block the first-fit loop stops at, none if it comes back to the head. *)
first_fit(h, size) ==
  {fp \in Free(h) :
     /\ h.size[fp] >= size
     /\ LET at == Walk(h.next_free)
        IN  \E i \in Node : /\ at[i] = fp
                            /\ \A j \in 0 .. (i - 1) : /\ at[j] # Head
                                                       /\ h.size[at[j]] < size}

(* The last block below fp, where the backward search stops: every block *)
(* after it on the sorted chain is above fp.                             *)
insertion_point(h, fp) ==
  {pah \in Blocks(h) \cup {Head} :
     pah < fp /\ (h.next[pah] = Head \/ h.next[pah] > fp)}

region_size(size) == ((size + Chunk - 1) \div Chunk) * Chunk

Result(h, m, brk, l, a) ==
  [heap |-> h, mapped |-> m, brk |-> brk, lost |-> l, block |-> a]

(* Every outcome of malloc(n): `block' is the header's address, or 0 for NULL. *)
malloc_results(h, m, brk, l, n) ==
  LET size  == round_size(n)
      fsize == region_size(size)
      NULL  == {Result(h, m, brk, l, 0)}
  IN  IF n = 0 THEN NULL
      ELSE IF first_fit(h, size) # {}
      THEN {Result(malloc_from_block(h, fp, size), m, brk, l, fp) :
              fp \in first_fit(h, size)}
      ELSE NULL \cup
           UNION {{LET h1 == insert_region(h, fp, fsize, pah)
                       b  == free_block_result(h1, fp)
                   IN  Result(malloc_from_block(free_block(h1, fp), b, size),
                              m \cup Extent(fp, fsize),
                              IF UsesSbrk THEN fp + fsize ELSE brk, l, b) :
                     pah \in insertion_point(h, fp)} :
                  fp \in Places(m, brk, fsize)}

-----------------------------------------------------------------------------
(***************************************************************************)
(* free().  After the merge, the default build unmaps the whole pages      *)
(* inside a large enough free block and the sbrk build lowers the break    *)
(* below a large block at the top.  The kernel may refuse either.          *)
(***************************************************************************)
Portion(n) == IF n # 0 /\ n < MinBlock THEN n + Page ELSE n

head_portion(ah) == Portion((-ah) % Page)

tail_portion(h, ah) == Portion(End(h, ah) % Page)

(* The range munmap() or brk() is asked to take away. *)
Returned(h, ah) ==
  IF UsesSbrk THEN ah .. (End(h, ah) - 1)
  ELSE (ah + head_portion(ah)) .. (End(h, ah) - tail_portion(h, ah) - 1)

WorthReturning(h, brk, ah) ==
  IF UsesSbrk THEN h.size[ah] >= Chunk /\ End(h, ah) = brk
  ELSE h.size[ah] >= head_portion(ah) + tail_portion(h, ah) + Chunk

(* What is left on the lists of the block whose range is returned. *)
unlink_returned(h, ah) ==
  IF UsesSbrk THEN remove_from_chains(h, ah)
  ELSE LET tail == tail_portion(h, ah)
       IN  keep_head(IF tail # 0 THEN cut_tail(h, ah, tail) ELSE h,
                     ah, head_portion(ah))

free_results(h, m, brk, l, a) ==
  LET h1 == free_block(h, a)
      ah == free_block_result(h, a)
      r  == Returned(h1, ah)
      h2 == unlink_returned(h1, ah)
  IN  IF WorthReturning(h1, brk, ah)
      THEN {Result(h2, m \ r, IF UsesSbrk THEN ah ELSE brk, l, 0),
            Result(h2, m, brk, l \cup r, 0)}
      ELSE {Result(h1, m, brk, l, 0)}

-----------------------------------------------------------------------------
(* The calls the program makes. *)

Init ==
  /\ heap = malloc_head
  /\ mapped = {}
  /\ current_brk \in FirstBreaks
  /\ lost = {}
  /\ req = [a \in Node |-> 0]
  /\ crashed = FALSE

(* The blocks the program holds. *)
Held == {a \in Node : req[a] # 0}

Becomes(r) ==
  /\ heap' = r.heap
  /\ mapped' = r.mapped
  /\ current_brk' = r.brk
  /\ lost' = r.lost

malloc(n) ==
  \E r \in malloc_results(heap, mapped, current_brk, lost, n) :
    /\ Becomes(r)
    /\ req' = IF r.block = 0 THEN req ELSE [req EXCEPT ![r.block] = n]
    /\ UNCHANGED crashed

(* The product is a size_t too; the clearing of the block changes no header. *)
calloc(nmemb, n) == malloc((nmemb * n) % SizeLimit)

(* free(NULL) does nothing; any other pointer is to a block the program holds. *)
free(a) ==
  \E r \in free_results(heap, mapped, current_brk, lost, a) :
    /\ Becomes(r)
    /\ req' = [req EXCEPT ![a] = 0]
    /\ UNCHANGED crashed

(* Faulty: only the waste is checked. *)
GoodSizeIfNotWasteful(h, a, size) == size * HeaderSize >= (h.size[a] * HeaderSize) \div 4

(* realloc() leaves a block alone unless it is too small or over 4 times too *)
(* large; byte sizes are compared.                                           *)
GoodSize(h, a, size) ==
  /\ h.size[a] >= size
  /\ size * HeaderSize >= (h.size[a] * HeaderSize) \div 4

realloc_in_place(a, n) ==
  /\ n # 0
  /\ GoodSize(heap, a, round_size(n))
  /\ req' = [req EXCEPT ![a] = n]
  /\ UNCHANGED <<heap, mapped, current_brk, lost, crashed>>

(* The size passed to malloc() is the rounded one, in bytes.  The copy does *)
(* not look at what malloc() returned.                                      *)
realloc_move(a, n) ==
  /\ n # 0
  /\ ~GoodSize(heap, a, round_size(n))
  /\ \E r \in malloc_results(heap, mapped, current_brk, lost,
                             round_size(n) * HeaderSize) :
       IF r.block = 0
       THEN crashed' = TRUE /\ UNCHANGED <<heap, mapped, current_brk, lost, req>>
       ELSE \E f \in free_results(r.heap, r.mapped, r.brk, r.lost, a) :
              /\ Becomes(f)
              /\ req' = [req EXCEPT ![r.block] = n, ![a] = 0]
              /\ UNCHANGED crashed

realloc_free(a, n) == n = 0 /\ free(a)

realloc(a, n) ==
  \/ realloc_in_place(a, n)
  \/ realloc_move(a, n)
  \/ realloc_free(a, n)

Next ==
  /\ ~crashed
  /\ \/ \E n \in Requests : malloc(n)
     \/ \E k, n \in Requests : k * n \in Requests /\ calloc(k, n)
     \/ \E a \in Held : free(a)
     \/ \E a \in Held, n \in Requests : realloc(a, n)

Spec == Init /\ [][Next]_vars

-----------------------------------------------------------------------------
(* Properties. *)

TypeOK ==
  /\ heap \in Heaps
  /\ mapped \subseteq Addr
  /\ current_brk \in Addr \cup {MaxAddr + 1}
  /\ lost \subseteq mapped
  /\ req \in [Node -> Nat]
  /\ crashed \in BOOLEAN

(* The main chain, which __free_block and the placing of a region in malloc() *)
(* rely on: a doubly linked ring of exactly the blocks, in address order, no  *)
(* block reaching into the next and none shorter than a free header.          *)
MainChainSorted == MainChain(heap)

(* remove_from_free_chain and the pushes of __free_block keep the free chain *)
(* one doubly linked ring of exactly the free blocks: the first-fit loop of  *)
(* malloc() (malloc.c:152) sees each of them and then comes to the head.     *)
FreeChainLinked == FreeChain(heap, Free(heap))

(* The backward loop of malloc() (malloc.c:185) stops at the insertion point *)
(* for every region the kernel could hand out next.                          *)
BackwardSearchFindsPlace ==
  LET at == Walk(heap.prev)
  IN  \A fp \in Places(mapped, current_brk, Chunk) :
        LET stops == {i \in Node : at[i] = Head \/ at[i] < fp}
        IN  /\ stops # {}
            /\ LET i == CHOOSE i \in stops : \A j \in stops : i <= j
               IN  insertion_point(heap, fp) = {at[i]}

(* __free_block never leaves two free blocks side by side: a free block is *)
(* followed by a used one, by unmapped memory or by lost memory.           *)
Coalesced == Separate(heap, Free(heap))

(* The program and the allocator agree on who owns what: the blocks marked *)
(* used are the ones the program holds, each with room for its request, in *)
(* memory that is still mapped.                                            *)
HeldBlocksIntact ==
  /\ Held = Used(heap)
  /\ \A a \in Held : /\ (heap.size[a] - 1) * HeaderSize >= req[a]
                     /\ Extent(a, heap.size[a]) \subseteq mapped \ lost

(* No two blocks share a unit of memory. *)
BlocksDisjoint ==
  \A a, b \in Blocks(heap) :
    a # b => Extent(a, heap.size[a]) \cap Extent(b, heap.size[b]) = {}

(* Nothing leaks: every mapped unit is inside a block on the main chain, *)
(* except what the kernel refused to take back.                          *)
MemoryAccounted == mapped \ lost = Owned(heap)

(* Faulty: the larger of the two sizes. *)
CopyTooMuch(h, a, n) ==
  LET size    == round_size(n) * HeaderSize
      oldsize == (h.size[a] - 1) * HeaderSize
  IN  IF size > oldsize THEN size ELSE oldsize

(* realloc() moves all the bytes the old and the new block have in common, *)
(* and no more than the new block holds.                                   *)
copy_len(h, a, n) ==
  LET size    == round_size(n) * HeaderSize
      oldsize == (h.size[a] - 1) * HeaderSize
  IN  IF size < oldsize THEN size ELSE oldsize

ReallocKeepsBytes ==
  \A a \in Held, n \in Requests \ {0} :
    ~GoodSize(heap, a, round_size(n)) =>
       /\ copy_len(heap, a, n) >= IF n < req[a] THEN n ELSE req[a]
       /\ copy_len(heap, a, n) <= (round_size(round_size(n) * HeaderSize) - 1) * HeaderSize

(* The calls implement the allocator a program expects. *)
Promise == INSTANCE Allocator WITH
  UnitBytes <- HeaderSize,
  live <- {[at |-> a, size |-> heap.size[a], req |-> req[a]] : a \in Used(heap)}

ImplementsAllocator == Promise!Spec
=============================================================================
