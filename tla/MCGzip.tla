------------------------------- MODULE MCGzip --------------------------------
(***************************************************************************)
(* Gzip with the compressor of Deflate and the decompressor of Inflate: a  *)
(* directory of ten names, a window of 64 bytes, blocks of at most 31      *)
(* symbols.                                                                *)
(***************************************************************************)
EXTENDS Gzip, Deflate, Inflate

(* The parameters of Gzip: the compressor and the decompressor. *)
McBegin(level, input) == LET begun == lm_init(level, input) IN begun
McRound(state) == LET next == Round(state) IN next
McEnd(state) == LET ended == Finish(state) IN ended
McInflated(bits) == LET s == inflate(bits) IN s

a == <<"a">>
b == <<"b">>
abc == <<"a", "b", "c">>
gz(n) == n \o z_suffix
ab_gz == <<"a", "b">> \o z_suffix
a_gz == gz(a)
a_g == <<"a", ".", "g">>
b_gz == gz(b)
a_tar == a \o tar
a_tgz == a \o tgz

abcab == abc \o <<"a", "b">>

McNames == {a, b, abc, abcab, ab_gz, a_gz, a_g, b_gz, a_tar, a_tgz}
McTheirs == {Plain(<<7, 7>>)}

Opt(list) ==
    [args |-> list, decompress |-> FALSE, force |-> 0, to_stdout |-> FALSE, test |-> FALSE,
     no_name |-> FALSE, level |-> 6]
Force(o, n) == [o EXCEPT !.force = n]
Level(o, n) == [o EXCEPT !.level = n]
NoName(o) == [o EXCEPT !.no_name = TRUE]
Gunzip(o) == [o EXCEPT !.decompress = TRUE]
Stdout(o) == [o EXCEPT !.to_stdout = TRUE]
Test(o) == [Gunzip(Stdout(o)) EXCEPT !.test = TRUE]

(* A directory: pairs of a name and an inode. *)
Dir(pairs) == [n \in McNames |-> IF \E p \in pairs : p[1] = n
                                 THEN (CHOOSE p \in pairs : p[1] = n)[2] ELSE 0]

Start(o, dir, contents, n) == [opt |-> o, fs |-> Dir(dir), disk |-> contents, faults |-> n]

Repeat(w, n) == FlattenSeq([i \in 1..n |-> w])

(* Data with repeats at all distances, runs, collisions of the hash, and   *)
(* none of these; longer than the window, so that it slides.               *)
Texts ==
    {<<>>, <<5>>, <<5, 5>>} \union
    [1..5 -> {0, 255}] \union
    {Repeat(<<0, 1, 2>>, 20), Repeat(<<1>>, 90), Repeat(<<250>>, 33),
     [i \in 1..90 |-> ((i * i) \div 3) % 4],
     [i \in 1..60 |-> ((i * i * i) \div 5) % 8],
     [i \in 1..70 |-> 144 + ((i * 37) % 101)],
     [i \in 1..70 |-> (i % 7) % 4],
     [i \in 1..60 |-> IF i % 9 < 5 THEN i % 3 ELSE 8 * (i % 4)],
     Repeat(<<0, 1, 2, 3, 0, 0, 1, 1, 2, 2, 3, 3, 0, 2, 0, 3>>, 5)}

Codec ==
    {Start(Level(Opt(<<a>>), l), {<<a, 1>>}, <<Plain(t)>>, 0) : t \in Texts, l \in {1, 4, 6}}

(* Compressing, with what may go wrong. *)
word == <<7, 200>>
long == [i \in 1..40 |-> 144 + ((i * 37) % 101)]

Zips ==
    {Start(Opt(<<a>>), {<<a, 1>>}, <<Plain(long)>>, 1),
     Start(Opt(<<a, b>>), {<<a, 1>>, <<b, 2>>}, <<Plain(word), Plain(<<>>)>>, 2),
     Start(Opt(<<a, a>>), {<<a, 1>>}, <<Plain(word)>>, 0),
     Start(Opt(<<a_gz, a>>), {<<a, 1>>, <<a_gz, 2>>}, <<Plain(word), Plain(<<3>>)>>, 1),
     Start(Force(Opt(<<a>>), 1), {<<a, 1>>, <<a_gz, 2>>}, <<Plain(word), Plain(<<3>>)>>, 2),
     Start(Force(Opt(<<a>>), 1), {<<a, 1>>, <<a_gz, 1>>}, <<Plain(word)>>, 0),
     Start(Opt(<<a>>), {<<a, 1>>, <<b, 1>>}, <<Plain(word)>>, 0),
     Start(Force(Opt(<<a>>), 1), {<<a, 1>>, <<a_g, 2>>, <<a_gz, 2>>},
           <<Plain(word), Plain(<<3>>)>>, 0),
     Start(NoName(Opt(<<abc, a>>)), {<<abc, 1>>, <<a, 2>>}, <<Plain(word), Plain(<<3>>)>>, 1),
     Start(Opt(<<a_tar>>), {<<a_tar, 1>>}, <<Plain(word)>>, 0),
     Start(Opt(<<a>>), {<<a, 1>>}, <<[Empty EXCEPT !.parts = <<Part(<<>>, <<>>, "dir", <<>>)>>]>>, 0),
     Start(Stdout(Opt(<<a>>)), {<<a, 1>>}, <<Plain(long)>>, 1)}

(* Decompressing files of one and of two members, good and bad. *)
Packed(t) == Part(Deflated(6, t), t, "ok", <<>>)
Flagged(p) == [p EXCEPT !.state = "flagged"]
Named(p, n) == [p EXCEPT !.name = n]

Bad(p) ==
    {[p EXCEPT !.data = <<7>>],
     [p EXCEPT !.state = "cut"],
     [p EXCEPT !.bits = SubSeq(@, 1, 8), !.state = "cut"],
     [p EXCEPT !.bits = <<1, 1, 1>> \o @],
     [p EXCEPT !.state = "refused"],
     [p EXCEPT !.state = "garbage"],
     Flagged(p)}

Archives(one, two) ==
    {Zipped(<<p>>) : p \in Bad(one) \union {one, two}} \union
    {Zipped(<<two, p>>) : p \in Bad(one) \union {one}} \union
    {Empty, Plain(word)}

UnzipsOf(one, two) ==
    LET each == Archives(one, two) IN
    {Start(Gunzip(Opt(<<a>>)), {<<a_gz, 1>>}, <<c>>, 1) : c \in each} \union
    {Start(Gunzip(Force(Stdout(Opt(<<a>>)), 1)), {<<a_gz, 1>>}, <<c>>, 0) : c \in each} \union
    {Start(Test(Opt(<<a_gz>>)), {<<a_gz, 1>>}, <<c>>, 1) : c \in each} \union
    {Start(Test(Opt(<<a>>)), {<<a, 1>>}, <<c>>, 0) : c \in each} \union
    {Start(Gunzip(Force(Stdout(Opt(<<a>>)), 1)), {<<a_gz, 1>>}, <<Plain(word)>>, 1),
     Start(Gunzip(Force(Opt(<<a>>), 2)), {<<a, 2>>, <<a_gz, 1>>},
           <<Zipped(<<Flagged(one)>>), Plain(<<9>>)>>, 1),
     Start(Gunzip(Opt(<<a>>)), {<<a, 1>>}, <<Zipped(<<one>>)>>, 0),
     Start(Gunzip(Opt(<<a_gz, b_gz>>)), {<<a_gz, 1>>, <<b_gz, 2>>},
           <<Zipped(<<Named(one, b)>>), Zipped(<<one>>)>>, 1),
     Start(Gunzip(Opt(<<a_gz, b_gz>>)), {<<a_gz, 1>>, <<b_gz, 2>>},
           <<Zipped(<<one, Flagged(one)>>), Zipped(<<two>>)>>, 2),
     Start(Gunzip(Opt(<<a_tgz, b_gz>>)), {<<a_tgz, 1>>}, <<Zipped(<<one>>)>>, 1),
     Start(Gunzip(Opt(<<a_gz>>)), {<<a_gz, 1>>}, <<Zipped(<<Named(one, abc \o abc)>>)>>, 0)}

Unzips == UNION {UnzipsOf(one, two) : one \in {Packed(word)}, two \in {Packed(Repeat(<<0, 1, 2>>, 25))}}

McStarts == LET all == Codec \union Zips \union Unzips IN all

(* For the input buffer: two members. *)
Members(p) == {Start(Gunzip(Opt(<<a>>)), {<<a_gz, 1>>}, <<Zipped(<<Named(p, n), p>>)>>, 0) :
                  n \in {<<>>, a, abc}}
McMembers == LET all == Members(Packed(word)) IN all

-----------------------------------------------------------------------------
(* What a sequence of symbols adds to the data before it. *)
Unfolded(before, symbols) ==
    FoldLeft(LAMBDA d, s : IF s[1] = 0 THEN Append(d, s[2])
                           ELSE d \o [k \in 1..s[2] |-> d[Len(d) - s[1] + 1 + ((k - 1) % s[1])]],
             before, symbols)

(* After each round of deflate or deflate_fast the literals and matches of *)
(* the block stand for the input from block_start up to strstart, less the *)
(* byte that the lazy evaluation holds back, and no match is farther than  *)
(* MAX_DIST: whatever hash collisions, stale chains and slides of the      *)
(* window there were (check_match and the assertions of deflate.c).        *)
BlockCoversInput ==
    pc = "deflate" =>
        LET at   == bytes_in - z.lookahead
            from == at - (z.strstart - z.block_start)
            upto == IF z.match_available THEN at - 1 ELSE at
        IN /\ \A s \in ToSet(z.symbols) : s[1] <= MAX_DIST
           /\ Unfolded(SubSeq(Data(Source), 1, from), z.symbols) = SubSeq(Data(Source), 1, upto)
=============================================================================
