------------------------------- MODULE Deflate -------------------------------
(***************************************************************************)
(* usr/gzip/deflate.c: the first half of deflate.  Input is read into a    *)
(* window of 2 * WSIZE bytes whose upper half slides down when it is       *)
(* nearly used up; strings of MIN_MATCH bytes are found again through hash *)
(* chains; matches and literals are handed to trees.c.                     *)
(*                                                                         *)
(* The state of the compressor is a record z with the fields of the code's *)
(* variables of the same name, and                                         *)
(*    rest     what read_buf has not yet returned,                         *)
(*    symbols  the matches and literals of the block (l_buf, d_buf),       *)
(*    bits     what has been sent.                                         *)
(***************************************************************************)
EXTENDS GzipWindow, Trees, Bitwise

CONSTANTS
    MAX_MATCH,
    HASH_BITS,      \* at least the bits of a byte of the input
    TOO_FAR

MIN_LOOKAHEAD == MAX_MATCH + MIN_MATCH + 1
MAX_DIST == WSIZE - MIN_LOOKAHEAD
HASH_SIZE == 2 ^ HASH_BITS
H_SHIFT == (HASH_BITS + MIN_MATCH - 1) \div MIN_MATCH
window_size == 2 * WSIZE
NIL == 0

Config(good, lazy, nice, chain) ==
    [good_match |-> good, max_lazy |-> lazy, nice_match |-> nice, max_chain |-> chain]

configuration_table ==
    <<Config(4, 4, 8, 4), Config(4, 5, 16, 8), Config(4, 6, 32, 32),
      Config(4, 4, 16, 16), Config(8, 16, 32, 32), Config(8, 16, 128, 128),
      Config(8, 32, 128, 256), Config(32, 128, 258, 1024), Config(32, 258, 258, 4096)>>

Smaller(a, b) == IF a < b THEN a ELSE b

(* longest_match may look past the end of the window. *)
Byte(z, i) == IF i < window_size THEN z.window[i] ELSE Garbage

-----------------------------------------------------------------------------
(* The dictionary *)

UPDATE_HASH(h, c) == ((h * 2 ^ H_SHIFT) ^^ c) % HASH_SIZE

(* INSERT_STRING; the head of the chain before it is prev[s]. *)
INSERT_STRING(z, s) ==
    LET h == UPDATE_HASH(z.ins_h, z.window[s + MIN_MATCH - 1])
    IN [z EXCEPT !.ins_h = h, !.prev[s % WSIZE] = z.head[h], !.head[h] = s]

RECURSIVE InsertStrings(_, _, _)
InsertStrings(z, s, n) == IF n = 0 THEN z ELSE InsertStrings(INSERT_STRING(z, s), s + 1, n - 1)

(* The first byte from the fourth on that differs; the third is equal      *)
(* because the hash keys are.                                              *)
MatchLength(z, cur) ==
    LET differ == {k \in 3..(MAX_MATCH - 1) : Byte(z, cur + k) # Byte(z, z.strstart + k)}
    IN IF differ = {} THEN MAX_MATCH ELSE CHOOSE k \in differ : \A j \in differ : k <= j

(* A mutant that trusts the hash for the start. *)
CandidateByEnd(z, cur, best) ==
    \A k \in {best, best - 1} : Byte(z, cur + k) = Byte(z, z.strstart + k)

(* Worth comparing: it agrees at the end of the best match and at the start. *)
Candidate(z, cur, best) ==
    \A k \in {best, best - 1, 0, 1} : Byte(z, cur + k) = Byte(z, z.strstart + k)

(* <<length, match_start>> of the best match on the chain from cur. *)
RECURSIVE SearchChain(_, _, _, _)
SearchChain(z, cur, chain, found) ==
    LET cfg    == configuration_table[z.level]
        limit  == IF z.strstart > MAX_DIST THEN z.strstart - MAX_DIST ELSE NIL
        better == Candidate(z, cur, found[1]) /\ MatchLength(z, cur) > found[1]
        now    == IF better THEN <<MatchLength(z, cur), cur>> ELSE found
        next   == z.prev[cur % WSIZE]
    IN IF \/ better /\ now[1] >= cfg.nice_match
          \/ next <= limit
          \/ chain = 1
       THEN now
       ELSE SearchChain(z, next, chain - 1, now)

longest_match(z, hash_head, prev_length) ==
    LET cfg == configuration_table[z.level]
    IN SearchChain(z, hash_head,
                   IF prev_length >= cfg.good_match THEN cfg.max_chain \div 4 ELSE cfg.max_chain,
                   <<prev_length, z.match_start>>)

-----------------------------------------------------------------------------
(* The window *)

(* Read up to size bytes to window[at].  The end of the input and an error *)
(* are the same to the caller.                                             *)
read_buf(z, at, size) ==
    LET n == Smaller(size, Len(z.rest))
    IN IF n = 0 THEN [z EXCEPT !.eofile = TRUE]
       ELSE [z EXCEPT !.window = [i \in DOMAIN z.window |->
                                     IF i \in at..(at + n - 1) THEN z.rest[i - at + 1] ELSE @[i]],
                      !.rest = SubSeq(z.rest, n + 1, Len(z.rest)),
                      !.lookahead = @ + n]

Older(m) == IF m >= WSIZE THEN m - WSIZE ELSE NIL

(* Move the upper half of the window to the lower one. *)
Slide(z) ==
    [z EXCEPT !.window = [i \in DOMAIN z.window |-> IF i < WSIZE THEN @[i + WSIZE] ELSE @[i]],
              !.match_start = @ - WSIZE,
              !.strstart = @ - WSIZE,
              !.block_start = @ - WSIZE,
              !.head = [h \in DOMAIN z.head |-> Older(@[h])],
              !.prev = [i \in DOMAIN z.prev |-> Older(@[i])]]

fill_window(z) ==
    LET y == IF z.strstart >= WSIZE + MAX_DIST THEN Slide(z) ELSE z
    IN read_buf(y, y.strstart + y.lookahead, window_size - y.lookahead - y.strstart)

RECURSIVE Refill(_)
Refill(z) == IF z.lookahead < MIN_LOOKAHEAD /\ ~z.eofile THEN Refill(fill_window(z)) ELSE z

lm_init(level, input) ==
    LET zero == [level |-> level, rest |-> input,
                 window |-> [i \in 0..(window_size - 1) |-> Garbage],
                 head |-> [h \in 0..(HASH_SIZE - 1) |-> NIL],
                 prev |-> [i \in 0..(WSIZE - 1) |-> Garbage],
                 ins_h |-> 0, strstart |-> 0, match_start |-> 0, block_start |-> 0,
                 lookahead |-> 0, eofile |-> FALSE,
                 match_length |-> MIN_MATCH - 1, match_available |-> FALSE,
                 symbols |-> <<>>, bits |-> <<>>]
        z    == Refill(read_buf(zero, 0, window_size))
    IN IF input = <<>> THEN read_buf(zero, 0, window_size)
       ELSE [z EXCEPT !.ins_h = UPDATE_HASH(UPDATE_HASH(0, z.window[0]), z.window[1])]

-----------------------------------------------------------------------------
(* The loops *)

FLUSH_BLOCK(z, eof) ==
    LET known == z.block_start >= 0
        buf   == IF known
                 THEN [i \in 1..(z.strstart - z.block_start) |-> z.window[z.block_start + i - 1]]
                 ELSE [i \in 1..(z.strstart - z.block_start) |-> Garbage]
    IN [z EXCEPT !.bits = flush_block(@, z.symbols, known, buf, eof),
                 !.symbols = <<>>]

(* Add a symbol to the block, with strstart still where the code has it,   *)
(* and then end the block at the position after, if ct_tally says so.      *)
Tally(z, sym) == [z EXCEPT !.symbols = Append(@, sym)]
Full(z, sym) == ct_tally(z.level, Append(z.symbols, sym), z.strstart - z.block_start)
EndBlock(z, full) == IF full THEN [FLUSH_BLOCK(z, FALSE) EXCEPT !.block_start = z.strstart] ELSE z

Advance(z, n) == [z EXCEPT !.strstart = @ + n, !.lookahead = @ - n]

(* One round of the loop of deflate_fast. *)
deflate_fast(z) ==
    LET y     == INSERT_STRING(z, z.strstart)
        head  == y.prev[z.strstart % WSIZE]
        found == IF head # NIL /\ z.strstart - head <= MAX_DIST
                 THEN longest_match(y, head, MIN_MATCH - 1)
                 ELSE <<0, y.match_start>>
        len   == Smaller(found[1], z.lookahead)
        lit   == <<0, z.window[z.strstart]>>
        match == <<z.strstart - found[2], len>>
        x     == [y EXCEPT !.match_start = found[2]]
        past  == IF len <= configuration_table[z.level].max_lazy
                 THEN InsertStrings(x, z.strstart + 1, len - 1)
                 ELSE [x EXCEPT !.ins_h = UPDATE_HASH(Byte(z, z.strstart + len),
                                                      Byte(z, z.strstart + len + 1))]
    IN Refill(IF len >= MIN_MATCH
              THEN EndBlock(Advance(Tally(past, match), len), Full(z, match))
              ELSE EndBlock(Advance(Tally(x, lit), 1), Full(z, lit)))

(* One round of the loop of deflate: a match is held back for one round to *)
(* see whether the next byte starts a longer one.                          *)
deflate(z) ==
    LET cfg   == configuration_table[z.level]
        y     == INSERT_STRING(z, z.strstart)
        head  == y.prev[z.strstart % WSIZE]
        plen  == z.match_length
        found == longest_match(y, head, plen)
        short == Smaller(found[1], z.lookahead)
        try   == head # NIL /\ plen < cfg.max_lazy /\ z.strstart - head <= MAX_DIST
        far   == short = MIN_MATCH /\ z.strstart - found[2] > TOO_FAR
        len   == IF ~try THEN MIN_MATCH - 1 ELSE IF far THEN short - 1 ELSE short
        x     == [y EXCEPT !.match_start = IF try THEN found[2] ELSE @, !.match_length = len]
        match == <<z.strstart - 1 - z.match_start, plen>>
        lit   == <<0, Byte(z, z.strstart - 1)>>
        held  == [InsertStrings(Tally(x, match), z.strstart + 1, plen - 2)
                    EXCEPT !.match_available = FALSE, !.match_length = MIN_MATCH - 1]
    IN Refill(CASE plen >= MIN_MATCH /\ len <= plen ->
                     EndBlock(Advance(held, plen - 1), Full(z, match))
                [] ~(plen >= MIN_MATCH /\ len <= plen) /\ z.match_available ->
                     Advance(EndBlock(Tally(x, lit), Full(z, lit)), 1)
                [] OTHER -> Advance([x EXCEPT !.match_available = TRUE], 1))

Round(z) == IF z.level <= 3 THEN deflate_fast(z) ELSE deflate(z)

(* After the loop. *)
Finish(z) ==
    FLUSH_BLOCK(IF z.match_available THEN Tally(z, <<0, Byte(z, z.strstart - 1)>>) ELSE z, TRUE)

RECURSIVE Rounds(_)
Rounds(z) == IF z.lookahead = 0 THEN Finish(z) ELSE Rounds(Round(z))

Deflated(level, input) == Rounds(lm_init(level, input)).bits
=============================================================================
