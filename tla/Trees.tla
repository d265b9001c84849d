-------------------------------- MODULE Trees --------------------------------
(***************************************************************************)
(* usr/gzip/trees.c and bits.c: the second half of deflate.  A block of    *)
(* literals and matches becomes a sequence of bits, stored, or coded with  *)
(* the static trees, or with Huffman trees built for the block and sent    *)
(* before it.  The numbers of the format are those of the code.            *)
(*                                                                         *)
(* A symbol of a block is <<0, byte>> or <<distance, length>>.  Bits are   *)
(* in the order in which they are sent, so a Huffman code, which the code  *)
(* keeps reversed, is written from its most significant bit.               *)
(***************************************************************************)
EXTENDS Integers, Sequences, FiniteSets, SequencesExt

CONSTANTS
    MIN_MATCH,
    LIT_BUFSIZE,    \* symbols in a block
    TALLY_CHECK     \* after so many symbols ct_tally may end a block early

MAX_BITS == 15
MAX_BL_BITS == 7
LENGTH_CODES == 29
LITERALS == 256
END_BLOCK == 256
L_CODES == LITERALS + 1 + LENGTH_CODES
D_CODES == 30
BL_CODES == 19
REP_3_6 == 16
REPZ_3_10 == 17
REPZ_11_138 == 18

extra_lbits == <<0,0,0,0,0,0,0,0,1,1,1,1,2,2,2,2,3,3,3,3,4,4,4,4,5,5,5,5,0>>
extra_dbits == <<0,0,0,0,1,1,2,2,3,3,4,4,5,5,6,6,7,7,8,8,9,9,10,10,11,11,12,12,13,13>>
extra_blbits == [i \in 1..BL_CODES |-> IF i <= 16 THEN 0 ELSE <<2, 3, 7>>[i - 16]]
bl_order == <<16,17,18,0,8,7,9,6,10,5,11,4,12,3,13,2,14,1,15>>

(* The function itself; TLC computes its values once. *)
Evaluated(f) == f @@ <<>>

(* The sum of the numbers f[x], counted without a fold. *)
SumOver(S, f) == Cardinality(UNION {{x} \X (1..f[x]) : x \in S})
SumSeq(s) == SumOver(DOMAIN s, s)

-----------------------------------------------------------------------------
(* ct_init: the tables *)

(* The first length and the first distance of each code, counted from 0. *)
FirstOf(extra, n) ==
    LET first[c \in 0..(n - 1)] == IF c = 0 THEN 0 ELSE first[c - 1] + 2 ^ extra[c]
    IN Evaluated(first)
base_length == [FirstOf(extra_lbits, LENGTH_CODES) EXCEPT ![LENGTH_CODES - 1] = 255]
base_dist == FirstOf(extra_dbits, D_CODES)

Largest(S) == CHOOSE x \in S : \A y \in S : y <= x

(* The code whose values, from base[code] on, x is one of. *)
CodeOf(base, x) == Largest({c \in DOMAIN base : base[c] <= x})
length_code(lc) == CodeOf(base_length, lc)
d_code(dist) == CodeOf(base_dist, dist)

(* A value, least significant bit first. *)
send_bits(value, length) == [i \in 1..length |-> (value \div 2 ^ (i - 1)) % 2]

(* The code that canonical order gives to each value of nonzero length.    *)
Counts(lens) ==
    [b \in 0..MAX_BITS |-> Cardinality({n \in DOMAIN lens : lens[n] = b /\ b > 0})]

FirstCodes(count) ==
    LET f[b \in 0..MAX_BITS] == IF b = 0 THEN 0 ELSE (f[b - 1] + count[b - 1]) * 2
    IN f

bi_reverse(code, len) == [i \in 1..len |-> (code \div 2 ^ (len - i)) % 2]

gen_codes(lens) ==
    LET first == Evaluated(FirstCodes(Evaluated(Counts(lens))))
        rank(n) == Cardinality({m \in DOMAIN lens : m < n /\ lens[m] = lens[n]})
    IN Evaluated([n \in {m \in DOMAIN lens : lens[m] > 0} |->
                     bi_reverse(first[lens[n]] + rank(n), lens[n])])

static_ltree ==
    Evaluated([n \in 0..(L_CODES + 1) |->
                  IF n <= 143 THEN 8 ELSE IF n <= 255 THEN 9 ELSE IF n <= 279 THEN 7 ELSE 8])
static_dtree == [n \in 0..(D_CODES - 1) |-> 5]
static_lcodes == gen_codes(static_ltree)
static_dcodes == [n \in DOMAIN static_dtree |-> bi_reverse(n, 5)]

-----------------------------------------------------------------------------
(* Huffman trees.  t.freq, t.depth and t.dad are the arrays over leaves    *)
(* and inner nodes; a heap is a sequence of nodes.                         *)

smaller(t, n, m) ==
    \/ t.freq[n] < t.freq[m]
    \/ t.freq[n] = t.freq[m] /\ t.depth[n] <= t.depth[m]

RECURSIVE pqdownheap(_, _, _)
pqdownheap(t, h, k) ==
    LET l == 2 * k
        j == IF l < Len(h) /\ smaller(t, h[l + 1], h[l]) THEN l + 1 ELSE l
    IN IF l > Len(h) THEN h
       ELSE IF smaller(t, h[k], h[j]) THEN h
       ELSE pqdownheap(t, [h EXCEPT ![k] = h[j], ![j] = h[k]], j)

pqremove(t, h) ==
    IF Len(h) = 1 THEN <<>> ELSE pqdownheap(t, <<Last(h)>> \o SubSeq(h, 2, Len(h) - 1), 1)

RECURSIVE Heapify(_, _, _)
Heapify(t, h, k) == IF k = 0 THEN h ELSE Heapify(t, pqdownheap(t, h, k), k - 1)

(* Combine the two least frequent nodes until one is left; sorted holds    *)
(* the nodes by falling frequency, the root first.                         *)
RECURSIVE Combine(_, _, _, _)
Combine(t, h, sorted, node) ==
    LET n   == h[1]
        h2  == pqremove(t, h)
        m   == h2[1]
        top == IF t.depth[n] >= t.depth[m] THEN t.depth[n] ELSE t.depth[m]
        u   == [freq  |-> [t.freq EXCEPT ![node] = t.freq[n] + t.freq[m]],
                depth |-> [t.depth EXCEPT ![node] = top + 1],
                dad   |-> [t.dad EXCEPT ![n] = node, ![m] = node]]
    IN IF Len(h) = 1 THEN [dad |-> t.dad, sorted |-> <<n>> \o sorted]
       ELSE Combine(u, pqdownheap(u, [h2 EXCEPT ![1] = node], 1), <<m, n>> \o sorted, node + 1)

(* At least two codes are given a frequency. *)
RECURSIVE TwoCodes(_, _, _)
TwoCodes(freq, h, max_code) ==
    IF Len(h) >= 2 THEN [freq |-> freq, heap |-> h, max_code |-> max_code]
    ELSE LET new == IF max_code < 2 THEN max_code + 1 ELSE 0
         IN TwoCodes([freq EXCEPT ![new] = 1], Append(h, new),
                     IF max_code < 2 THEN max_code + 1 ELSE max_code)

(* The uncapped step of gen_bitlen's first pass, the depth of each node of *)
(* sorted, none deeper than max_length, and how many were too deep.        *)
BelowDad(dad, sorted, d, i) == 1 + d[CHOOSE j \in 1..(i - 1) : sorted[j] = dad[sorted[i]]]

Depths(dad, sorted, max_length) ==
    LET d[i \in 1..Len(sorted)] ==
            IF i = 1 THEN 0
            ELSE LET up == BelowDad(dad, sorted, d, i)
                 IN IF up > max_length THEN max_length ELSE up
    IN d

(* Move a leaf down the tree and an overflow item beside it, until none is *)
(* too deep.                                                               *)
RECURSIVE Rebalance(_, _, _)
Rebalance(count, overflow, max_length) ==
    LET b == Largest({c \in 1..(max_length - 1) : count[c] > 0})
    IN IF overflow <= 0 THEN count
       ELSE Rebalance([c \in DOMAIN count |->
                          count[c] + (IF c = b THEN -1 ELSE 0) + (IF c = b + 1 THEN 2 ELSE 0)
                                   + (IF c = max_length THEN -1 ELSE 0)],
                      overflow - 2, max_length)

(* The lengths, least frequent leaf first, that a count of lengths gives.  *)
Spread(count, max_length) ==
    FlattenSeq([k \in 1..max_length |->
                   [i \in 1..count[max_length + 1 - k] |-> max_length + 1 - k]])

gen_bitlen(dad, sorted, max_code, max_length) ==
    LET d        == Evaluated(Depths(dad, sorted, max_length))
        overflow == Cardinality({i \in 2..Len(sorted) : BelowDad(dad, sorted, d, i) > max_length})
        isLeaf(i) == sorted[i] <= max_code
        count    == [b \in 0..max_length |->
                        Cardinality({i \in 2..Len(sorted) : isLeaf(i) /\ d[i] = b})]
        leaves   == SelectSeq(Reverse(sorted), LAMBDA n : n <= max_code)
        again    == Spread(Rebalance(count, overflow, max_length), max_length)
        place(n) == CHOOSE i \in DOMAIN sorted : sorted[i] = n
        rank(n)  == CHOOSE i \in DOMAIN leaves : leaves[i] = n
        used     == ToSet(leaves)
    IN Evaluated([n \in 0..max_code |->
                     IF n \notin used THEN 0
                     ELSE IF overflow = 0 THEN d[place(n)] ELSE again[rank(n)]])

(* desc: elems, max_length, the extra bits of code n, and the lengths of   *)
(* the static tree, all 0 for the tree of the bit lengths, which has none. *)
build_tree(desc, freq) ==
    LET nodes  == 0..(2 * desc.elems)
        used   == SelectSeq([i \in 1..desc.elems |-> i - 1], LAMBDA n : freq[n] > 0)
        two    == TwoCodes([n \in nodes |-> IF n < desc.elems THEN freq[n] ELSE 0], used,
                           IF used = <<>> THEN -1 ELSE Last(used))
        forced == {n \in 0..(desc.elems - 1) : two.freq[n] # freq[n]}
        t      == [freq |-> two.freq, depth |-> [n \in nodes |-> 0], dad |-> [n \in nodes |-> 0]]
        c      == Combine(t, Heapify(t, two.heap, Len(two.heap) \div 2), <<>>, desc.elems)
        lens   == gen_bitlen(c.dad, c.sorted, two.max_code, desc.max_length)
        coded  == ToSet(two.heap)
        Cost(ln) == SumOver(coded, [n \in coded |-> two.freq[n] * (ln[n] + desc.extra[n])])
    IN [lens       |-> lens,
        max_code   |-> two.max_code,
        opt_len    |-> Cost(lens) - Cardinality(forced),
        static_len |-> Cost(desc.static) - SumOver(forced, desc.static)]

l_desc == [elems |-> L_CODES, max_length |-> MAX_BITS, static |-> static_ltree,
           extra |-> [n \in 0..(L_CODES - 1) |->
                         IF n <= LITERALS THEN 0 ELSE extra_lbits[n - LITERALS]]]
d_desc == [elems |-> D_CODES, max_length |-> MAX_BITS, static |-> static_dtree,
           extra |-> [n \in 0..(D_CODES - 1) |-> extra_dbits[n + 1]]]
bl_desc == [elems |-> BL_CODES, max_length |-> MAX_BL_BITS,
            static |-> [n \in 0..(BL_CODES - 1) |-> 0],
            extra |-> [n \in 0..(BL_CODES - 1) |-> extra_blbits[n + 1]]]

-----------------------------------------------------------------------------
(* The lengths of a tree as runs <<length, count, previous length, least   *)
(* count worth a repeat code>>, as scan_tree and send_tree both find them. *)

Limits(curlen, nextlen) ==
    IF nextlen = 0 THEN <<138, 3>> ELSE IF curlen = nextlen THEN <<6, 3>> ELSE <<7, 4>>

(* Equal lengths from n on, at most max of them. *)
RunLength(lens, n, max) ==
    LET last == Cardinality(DOMAIN lens) - 1
    IN Largest({c \in 1..max : n + c - 1 <= last /\ \A k \in n..(n + c - 1) : lens[k] = lens[n]})

RECURSIVE RunsFrom(_, _, _, _)
RunsFrom(lens, n, prevlen, limits) ==
    LET last  == Cardinality(DOMAIN lens) - 1
        count == RunLength(lens, n, limits[1])
        next  == n + count
    IN <<<<lens[n], count, prevlen, limits[2]>>>>
         \o (IF next > last THEN <<>>
             ELSE RunsFrom(lens, next, lens[n], Limits(lens[n], lens[next])))

Runs(lens) == RunsFrom(lens, 0, -1, Limits(-1, lens[0]))

(* How often each bit length code is needed. *)
Needs(run, c) ==
    LET curlen == run[1]  count == run[2]
    IN CASE count < run[4] -> IF c = curlen THEN count ELSE 0
         [] count >= run[4] /\ curlen # 0 ->
              (IF c = curlen /\ curlen # run[3] THEN 1 ELSE 0) + (IF c = REP_3_6 THEN 1 ELSE 0)
         [] count >= run[4] /\ curlen = 0 /\ count <= 10 -> IF c = REPZ_3_10 THEN 1 ELSE 0
         [] OTHER -> IF c = REPZ_11_138 THEN 1 ELSE 0

scan_tree(runs, c) == SumSeq([i \in DOMAIN runs |-> Needs(runs[i], c)])

SendRun(run, code) ==
    LET curlen == run[1]  count == run[2]
        first  == curlen # run[3]
    IN CASE count < run[4] -> FlattenSeq([i \in 1..count |-> code[curlen]])
         [] count >= run[4] /\ curlen # 0 ->
              (IF first THEN code[curlen] ELSE <<>>)
                \o code[REP_3_6] \o send_bits(count - (IF first THEN 1 ELSE 0) - 3, 2)
         [] count >= run[4] /\ curlen = 0 /\ count <= 10 ->
              code[REPZ_3_10] \o send_bits(count - 3, 3)
         [] OTHER -> code[REPZ_11_138] \o send_bits(count - 11, 7)

send_tree(runs, code) == FlattenSeq([i \in DOMAIN runs |-> SendRun(runs[i], code)])

build_bl_tree(lruns, druns) ==
    build_tree(bl_desc, Evaluated([c \in 0..(BL_CODES - 1) |->
                                      scan_tree(lruns, c) + scan_tree(druns, c)]))

(* How many bit length codes are sent, at least 4. *)
BlCodes(bl) ==
    Largest({4} \union {i \in 1..BL_CODES : bl_order[i] <= bl.max_code /\ bl.lens[bl_order[i]] # 0})

send_all_trees(lcodes, dcodes, lruns, druns, bl) ==
    LET n      == BlCodes(bl)
        len(c) == IF c <= bl.max_code THEN bl.lens[c] ELSE 0
        code   == gen_codes(bl.lens)
    IN send_bits(lcodes - 257, 5) \o send_bits(dcodes - 1, 5) \o send_bits(n - 4, 4)
         \o FlattenSeq([i \in 1..n |-> send_bits(len(bl_order[i]), 3)])
         \o send_tree(lruns, code) \o send_tree(druns, code)

-----------------------------------------------------------------------------
(* A block *)

LiteralCode(sym) == IF sym[1] = 0 THEN sym[2] ELSE LITERALS + 1 + length_code(sym[2] - MIN_MATCH)

LiteralFreq(symbols) ==
    [n \in 0..(L_CODES - 1) |->
        Cardinality({i \in DOMAIN symbols : LiteralCode(symbols[i]) = n})
          + (IF n = END_BLOCK THEN 1 ELSE 0)]
DistanceFreq(symbols) ==
    [n \in 0..(D_CODES - 1) |->
        Cardinality({i \in DOMAIN symbols : symbols[i][1] > 0 /\ d_code(symbols[i][1] - 1) = n})]

SendSymbol(sym, lcode, dcode) ==
    IF sym[1] = 0 THEN lcode[sym[2]]
    ELSE LET lc == sym[2] - MIN_MATCH  l == length_code(lc)
             dist == sym[1] - 1        d == d_code(dist)
         IN lcode[l + LITERALS + 1] \o send_bits(lc - base_length[l], extra_lbits[l + 1])
              \o dcode[d] \o send_bits(dist - base_dist[d], extra_dbits[d + 1])

compress_block(symbols, lcode, dcode) ==
    FlattenSeq([i \in DOMAIN symbols |-> SendSymbol(symbols[i], lcode, dcode)]) \o lcode[END_BLOCK]

(* Zero bits up to the next byte. *)
bi_windup(bits) == bits \o [i \in 1..((8 - (Len(bits) % 8)) % 8) |-> 0]

copy_block(bits, buf) ==
    bi_windup(bits) \o send_bits(Len(buf), 16) \o send_bits(65535 - Len(buf), 16)
      \o [i \in 1..(8 * Len(buf)) |-> send_bits(buf[(i + 7) \div 8], 8)[1 + ((i - 1) % 8)]]

(* The bits after a block: known says whether its input is still in the    *)
(* window, buf is that input.                                              *)
flush_block(bits, symbols, known, buf, eof) ==
    LET l       == build_tree(l_desc, Evaluated(LiteralFreq(symbols)))
        d       == build_tree(d_desc, Evaluated(DistanceFreq(symbols)))
        lruns   == Runs(l.lens)
        druns   == Runs(d.lens)
        bl      == build_bl_tree(lruns, druns)
        opt     == (l.opt_len + d.opt_len + bl.opt_len + 3 * BlCodes(bl) + 5 + 5 + 4 + 3 + 7) \div 8
        stat    == (l.static_len + d.static_len + 3 + 7) \div 8
        best    == IF stat <= opt THEN stat ELSE opt
        Begin(type) == bits \o send_bits(2 * type + (IF eof THEN 1 ELSE 0), 3)
        out     == CASE Len(buf) + 4 <= best /\ known -> copy_block(Begin(0), buf)
                     [] ~(Len(buf) + 4 <= best /\ known) /\ stat = best ->
                          Begin(1) \o compress_block(symbols, static_lcodes, static_dcodes)
                     [] OTHER ->
                          Begin(2) \o send_all_trees(l.max_code + 1, d.max_code + 1, lruns, druns, bl)
                            \o compress_block(symbols, gen_codes(l.lens), gen_codes(d.lens))
    IN IF eof THEN bi_windup(out) ELSE out

(* Must the block end after these symbols?  in_length is the input it      *)
(* stands for so far.                                                      *)
ct_tally(level, symbols, in_length) ==
    LET n     == Len(symbols)
        dists == SelectSeq(symbols, LAMBDA sym : sym[1] > 0)
        bits  == n * 8 + SumSeq([i \in DOMAIN dists |-> 5 + extra_dbits[1 + d_code(dists[i][1] - 1)]])
    IN \/ /\ level > 2 /\ n % TALLY_CHECK = 0
          /\ Len(dists) < n \div 2
          /\ bits \div 8 < in_length \div 2
       \/ n = LIT_BUFSIZE - 1
       \/ Len(dists) = LIT_BUFSIZE
=============================================================================
