------------------------------- MODULE Inflate -------------------------------
(***************************************************************************)
(* usr/gzip/inflate.c: decompress a sequence of bits through a circular    *)
(* window of WSIZE bytes.  The lookup tables of huft_build are modelled by *)
(* what they map, codes to values; the bits are looked at one by one, so   *)
(* that no lookahead has to be given back.                                 *)
(*                                                                         *)
(* The state of the decompressor is a record s: bits, pos (the next bit),  *)
(* slide, wp, out (the pieces flushed so far) and r, which is 0 until an   *)
(* error sets it: 1 and 2 are the codes of inflate.c, NoMore stands for    *)
(* the read_error that get_byte calls at the end of the file.              *)
(***************************************************************************)
EXTENDS GzipWindow

NoMore == 99

border == <<16, 17, 18, 0, 8, 7, 9, 6, 10, 5, 11, 4, 12, 3, 13, 2, 14, 1, 15>>
cplens == <<3, 4, 5, 6, 7, 8, 9, 10, 11, 13, 15, 17, 19, 23, 27, 31,
            35, 43, 51, 59, 67, 83, 99, 115, 131, 163, 195, 227, 258, 0, 0>>
cplext == <<0, 0, 0, 0, 0, 0, 0, 0, 1, 1, 1, 1, 2, 2, 2, 2,
            3, 3, 3, 3, 4, 4, 4, 4, 5, 5, 5, 5, 0, 99, 99>>
cpdist == <<1, 2, 3, 4, 5, 7, 9, 13, 17, 25, 33, 49, 65, 97, 129, 193,
            257, 385, 513, 769, 1025, 1537, 2049, 3073, 4097, 6145,
            8193, 12289, 16385, 24577>>
cpdext == <<0, 0, 0, 0, 1, 1, 2, 2, 3, 3, 4, 4, 5, 5, 6, 6,
            7, 7, 8, 8, 9, 9, 10, 10, 11, 11, 12, 12, 13, 13>>

EOB == 256

(* The function itself; TLC computes its values once. *)
LOCAL Evaluated(f) == f @@ <<>>

-----------------------------------------------------------------------------
(* Bits *)

Has(s, n) == s.pos + n - 1 <= Len(s.bits)
NEEDBITS(s, n) == FoldRight(LAMBDA b, a : b + 2 * a, SubSeq(s.bits, s.pos, s.pos + n - 1), 0)
DUMPBITS(s, n) == [s EXCEPT !.pos = @ + n]
Failed(s, code) == [s EXCEPT !.r = code]

-----------------------------------------------------------------------------
(* huft_build: lens maps values to the lengths of their codes. *)

Used(lens) == {v \in DOMAIN lens : lens[v] > 0}
Count(lens, b) == Cardinality({v \in DOMAIN lens : lens[v] = b})

(* The patterns of k bits that the codes shorter than m take up. *)
Taken(lens, k, m) ==
    LET sum[b \in 0..15] == IF b = 0 THEN 0 ELSE sum[b - 1] + Count(lens, b) * 2 ^ (k - b)
    IN sum[m - 1]

Longest(lens) == CHOOSE g \in {lens[v] : v \in Used(lens)} : \A v \in Used(lens) : lens[v] <= g

(* 0: complete, or a single code of one bit; 1: incomplete; 2: too many. *)
huft_result(lens) ==
    LET g    == Longest(lens)
        left == 2 ^ g - Taken(lens, g, g + 1)
    IN CASE Used(lens) = {} -> 0
         [] Used(lens) # {} /\ left < 0 -> 2
         [] Used(lens) # {} /\ left > 0 /\ g # 1 -> 1
         [] OTHER -> 0

(* Codes go to values by length and then by value, counting up: the first  *)
(* code of each length, and the values whose codes have that length.       *)
huft_build(lens) ==
    LET all == [i \in 1..Cardinality(DOMAIN lens) |-> i - 1]
    IN [first  |-> Evaluated([k \in 1..15 |-> Taken(lens, k, k)]),
        values |-> [k \in 1..15 |-> SelectSeq(all, LAMBDA v : lens[v] = k)] \o <<>>]

(* The next k bits as a code, and its place among the codes of k bits. *)
Code(s, k) == FoldLeft(LAMBDA a, b : 2 * a + b, 0, SubSeq(s.bits, s.pos, s.pos + k - 1))
Place(s, table, k) == 1 + Code(s, k) - table.first[k]

(* The length of the code at the next bit, 0 if it is none of the table,   *)
(* -1 if the bits end first.                                               *)
RECURSIVE CodeLength(_, _, _)
CodeLength(s, table, k) ==
    CASE k > 15 -> 0
      [] k <= 15 /\ ~Has(s, k) -> -1
      [] k <= 15 /\ Has(s, k) /\ Place(s, table, k) \in DOMAIN table.values[k] -> k
      [] OTHER -> CodeLength(s, table, k + 1)

ValueAt(s, table, k) == table.values[k][Place(s, table, k)]

-----------------------------------------------------------------------------
(* The window *)

flush_output(s, w) ==
    IF w = 0 THEN s
    ELSE [s EXCEPT !.out = Append(@, [i \in 1..w |-> s.slide[i - 1]]), !.wp = 0]

PutByte(s, c) ==
    LET t == [s EXCEPT !.slide[s.wp] = c, !.wp = @ + 1]
    IN IF t.wp = WSIZE THEN flush_output(t, WSIZE) ELSE t

RECURSIVE CopyBytes(_, _, _)
CopyBytes(s, d, n) ==
    IF n = 0 THEN s
    ELSE CopyBytes(PutByte(s, s.slide[d % WSIZE]), (d % WSIZE) + 1, n - 1)

-----------------------------------------------------------------------------
(* Blocks *)

(* After a length code: its extra bits, the distance, and the copy. *)
Match(s, code, td) ==
    LET le == cplext[code]
        n  == cplens[code] + NEEDBITS(s, le)
        t  == DUMPBITS(s, le)
        k  == CodeLength(t, td, 1)
        v  == ValueAt(t, td, k) + 1
        u  == DUMPBITS(t, k)
        d  == u.wp - cpdist[v] - NEEDBITS(u, cpdext[v])
    IN CASE ~Has(s, le) -> Failed(s, NoMore)
         [] Has(s, le) /\ k = -1 -> Failed(t, NoMore)
         [] Has(s, le) /\ k = 0 -> Failed(t, 1)
         [] Has(s, le) /\ k > 0 /\ ~Has(u, cpdext[v]) -> Failed(u, NoMore)
         [] OTHER -> CopyBytes(DUMPBITS(u, cpdext[v]), d, n)

RECURSIVE inflate_codes(_, _, _)
inflate_codes(s, tl, td) ==
    LET k == CodeLength(s, tl, 1)
        v == ValueAt(s, tl, k)
        t == DUMPBITS(s, k)
    IN CASE s.r # 0 -> s
         [] s.r = 0 /\ k = -1 -> Failed(s, NoMore)
         [] s.r = 0 /\ k = 0 -> Failed(s, 1)
         [] s.r = 0 /\ k > 0 /\ v = EOB -> t
         [] s.r = 0 /\ k > 0 /\ v < EOB -> inflate_codes(PutByte(t, v), tl, td)
         [] s.r = 0 /\ k > 0 /\ v > EOB + 29 -> Failed(t, 1)
         [] OTHER -> inflate_codes(Match(t, v - EOB, td), tl, td)

RECURSIVE StoredBytes(_, _)
StoredBytes(s, n) ==
    IF n = 0 THEN s
    ELSE IF ~Has(s, 8) THEN Failed(s, NoMore)
    ELSE StoredBytes(DUMPBITS(PutByte(s, NEEDBITS(s, 8)), 8), n - 1)

inflate_stored(s) ==
    LET t == DUMPBITS(s, (8 - ((s.pos - 1) % 8)) % 8)
        n == NEEDBITS(t, 16)
        u == DUMPBITS(t, 16)
    IN IF ~Has(t, 32) THEN Failed(t, NoMore)
       ELSE IF n # 65535 - NEEDBITS(u, 16) THEN Failed(u, 1)
       ELSE StoredBytes(DUMPBITS(u, 16), n)

FixedLengths ==
    [v \in 0..287 |-> IF v < 144 THEN 8 ELSE IF v < 256 THEN 9 ELSE IF v < 280 THEN 7 ELSE 8]
FixedTable == huft_build(FixedLengths)
FixedDistances == huft_build([v \in 0..29 |-> 5])

inflate_fixed(s) == inflate_codes(s, FixedTable, FixedDistances)

(* The n code lengths of a dynamic block, <<state, lengths>>. *)
RECURSIVE ReadLengths(_, _, _, _)
ReadLengths(s, table, n, ll) ==
    LET k      == CodeLength(s, table, 1)
        v      == ValueAt(s, table, k)
        t      == DUMPBITS(s, k)
        extra  == CASE v = 16 -> 2 [] v = 17 -> 3 [] OTHER -> 7
        times  == (IF v = 18 THEN 11 ELSE 3) + NEEDBITS(t, extra)
        last   == IF ll = <<>> THEN 0 ELSE Last(ll)
        repeat == [i \in 1..times |-> IF v = 16 THEN last ELSE 0]
    IN CASE Len(ll) >= n -> <<s, ll>>
         [] Len(ll) < n /\ k = -1 -> <<Failed(s, NoMore), ll>>
         [] Len(ll) < n /\ k = 0 -> <<Failed(s, 1), ll>>
         [] Len(ll) < n /\ k > 0 /\ v < 16 -> ReadLengths(t, table, n, Append(ll, v))
         [] Len(ll) < n /\ k > 0 /\ v >= 16 /\ ~Has(t, extra) -> <<Failed(t, NoMore), ll>>
         [] Len(ll) < n /\ k > 0 /\ v >= 16 /\ Has(t, extra) /\ Len(ll) + times > n ->
              <<Failed(t, 1), ll>>
         [] OTHER -> ReadLengths(DUMPBITS(t, extra), table, n, ll \o repeat)

LengthsOf(ll, first, n) == Evaluated([v \in 0..(n - 1) |-> ll[first + v]])

(* Build the two tables and decode the block, from <<state, lengths>>. *)
DecodeBlock(read, nl, nd) ==
    LET s == read[1]
        l == LengthsOf(read[2], 1, nl)
        d == LengthsOf(read[2], nl + 1, nd)
    IN CASE s.r # 0 -> s
         [] s.r = 0 /\ huft_result(l) # 0 -> Failed(s, huft_result(l))
         [] s.r = 0 /\ huft_result(l) = 0 /\ huft_result(d) # 0 -> Failed(s, huft_result(d))
         [] OTHER -> inflate_codes(s, huft_build(l), huft_build(d))

inflate_dynamic(s) ==
    LET nl    == 257 + NEEDBITS(s, 5)
        nd    == 1 + NEEDBITS(DUMPBITS(s, 5), 5)
        nb    == 4 + NEEDBITS(DUMPBITS(s, 10), 4)
        t     == DUMPBITS(s, 14)
        rank(v) == CHOOSE j \in DOMAIN border : border[j] = v
        bl    == [v \in 0..18 |->
                     IF rank(v) <= nb THEN NEEDBITS(DUMPBITS(t, 3 * (rank(v) - 1)), 3) ELSE 0]
        u     == DUMPBITS(t, 3 * nb)
    IN CASE ~Has(s, 14) -> Failed(s, NoMore)
         [] Has(s, 14) /\ (nl > 286 \/ nd > 30) -> Failed(s, 1)
         [] Has(s, 14) /\ nl <= 286 /\ nd <= 30 /\ ~Has(t, 3 * nb) -> Failed(t, NoMore)
         [] Has(s, 14) /\ nl <= 286 /\ nd <= 30 /\ Has(t, 3 * nb) /\ huft_result(bl) # 0 ->
              Failed(u, huft_result(bl))
         [] OTHER -> DecodeBlock(ReadLengths(u, huft_build(bl), nl + nd, <<>>), nl, nd)

(* <<state, last block?>> *)
inflate_block(s) ==
    LET e == NEEDBITS(s, 1) = 1
        t == NEEDBITS(DUMPBITS(s, 1), 2)
        u == DUMPBITS(s, 3)
    IN CASE ~Has(s, 3) -> <<Failed(s, NoMore), e>>
         [] Has(s, 3) /\ t = 2 -> <<inflate_dynamic(u), e>>
         [] Has(s, 3) /\ t = 0 -> <<inflate_stored(u), e>>
         [] Has(s, 3) /\ t = 1 -> <<inflate_fixed(u), e>>
         [] OTHER -> <<Failed(u, 2), e>>

RECURSIVE Blocks(_)
Blocks(s) ==
    LET b == inflate_block(s)
    IN IF b[1].r # 0 THEN b[1]
       ELSE IF b[2] THEN flush_output(b[1], b[1].wp)
       ELSE Blocks(b[1])

inflate(bits) ==
    Blocks([bits |-> bits, pos |-> 1, slide |-> Evaluated([i \in 0..(WSIZE - 1) |-> Garbage]),
            wp |-> 0, out |-> <<>>, r |-> 0])
=============================================================================
