-------------------------------- MODULE Gzip --------------------------------
(***************************************************************************)
(* usr/gzip as a program: gzip.c with zip.c, unzip.c and util.c.  The      *)
(* argument loop, the choice of names, the checks before the output file   *)
(* is made, the work in pieces, the cleaning up, and the handler that a    *)
(* signal or an error runs at any point.                                   *)
(*                                                                         *)
(* The compressor and the decompressor are parameters, which MCGzip gives  *)
(* the definitions of Deflate and Inflate: deflate in rounds over a state  *)
(* with the fields rest, lookahead, eofile and bits, and inflate, whose    *)
(* result has the fields out, the pieces to write, and r, 0 if all went    *)
(* well.                                                                   *)
(***************************************************************************)
EXTENDS Integers, Sequences, FiniteSets, SequencesExt

CONSTANTS
    BeginDeflate(_, _),     \* level, input: the state before the first round
    DeflateRound(_),
    EndDeflate(_),          \* the last block
    Inflated(_),
    Names,      \* the file names of the directory, sequences of characters
    Starts,     \* [opt, fs, disk, faults]: command lines and directories
    Theirs,     \* contents that another program gives to a file it makes
    NAME_MAX,   \* longer names are refused with ENAMETOOLONG
    INBUFSIZ, OUTBUFSIZ

VARIABLES
    opt,            \* decompress, force, to_stdout, test, no_name, level, args
    args,           \* the arguments left
    fs,             \* name -> inode number, 0 for no file
    disk,           \* inode number -> contents
    made,           \* <<output, input>>: the inodes this process created
    pc,             \* the next step of treat_file
    ifname, ofname,
    istat,          \* the inode that stat found for ifname
    ifile_size,     \* the size that stat found
    ifd,            \* the inode that is open for reading
    ofd,            \* the inode that is open for writing, 0 for none
    bytes_in,       \* bytes that the compressor has read (isize)
    part_nb,        \* the member being read
    method,         \* DEFLATED, STORED, -1 or -2 after a refusal
    z,              \* the compressor's or the decompressor's state
    remove_ofname, save_orig_name, exit_code,
    changed,        \* outputs for which "file size changed while zipping" was said
    faults          \* failing calls and other misfortunes still to come

file == <<fs, disk, made>>
names == <<ifname, ofname, istat, ifile_size>>
work == <<ifd, ofd, bytes_in, part_nb, method, z, changed>>
flags == <<remove_ofname, save_orig_name, exit_code>>
vars == <<opt, args, file, pc, names, work, flags, faults>>

OK == 0
ERROR == 1
WARNING == 2
DEFLATED == 8
STORED == 0

z_suffix == <<".", "g", "z">>
tgz == <<".", "t", "g", "z">>
tar == <<".", "t", "a", "r">>
stdout == <<"stdout">>

-----------------------------------------------------------------------------
(* Contents.  A plain file is one part; a compressed one has a part for    *)
(* each member: its deflated bits, and the data that its checksum and      *)
(* length stand for.  A "cut" part has no checksum; "refused" ones have a  *)
(* method, "flagged" ones flags, that gzip does not know; "garbage" is     *)
(* what follows the last member; "dir" is no regular file.                 *)

Part(bits, data, state, name) == [bits |-> bits, data |-> data, state |-> state, name |-> name]
Plain(data) == [gz |-> FALSE, parts |-> <<Part(<<>>, data, "ok", <<>>)>>]
Zipped(parts) == [gz |-> TRUE, parts |-> parts]
Empty == [gz |-> FALSE, parts |-> <<>>]

Decoded(bits) == FlattenSeq(Inflated(bits).out)

Good(p) ==
    /\ p.state \in {"ok", "flagged"}
    /\ Inflated(p.bits).r = 0
    /\ Decoded(p.bits) = p.data

Decodable(c) ==
    \/ ~c.gz
    \/ /\ c.gz /\ Good(c.parts[1])
       /\ \A i \in 2..Len(c.parts) : Good(c.parts[i]) \/ c.parts[i].state = "garbage"

(* What a file stands for. *)
Data(c) ==
    FlattenSeq([i \in DOMAIN c.parts |->
                   CASE ~c.gz -> c.parts[i].data
                     [] c.gz /\ c.parts[i].state = "garbage" -> <<>>
                     [] OTHER -> Decoded(c.parts[i].bits)])

HEADER == 10    \* bytes before and after the deflated bits
TRAILER == 8
NameSize(name) == IF name = <<>> THEN 0 ELSE Len(name) + 1
Size(p) == HEADER + NameSize(p.name) + Len(p.bits) \div 8 + TRAILER

(* The size up to and with member k. *)
Offset(c, k) == FoldLeft(LAMBDA n, p : n + Size(p), 0, SubSeq(c.parts, 1, k))

IsReg(c) == c.parts = <<>> \/ c.parts[1].state # "dir"

Exists(n) == n \in Names /\ fs[n] # 0
Links(i) == Cardinality({n \in Names : fs[n] = i})

-----------------------------------------------------------------------------
(* File names *)

EndsWith(name, s) == Len(name) > Len(s) /\ IsSuffix(s, name)

(* The suffix of a compressed file, <<>> for none. *)
get_suffix(name) ==
    CASE EndsWith(name, z_suffix) -> z_suffix
      [] EndsWith(name, tgz) -> tgz
      [] OTHER -> <<>>

Strip(name, s) == SubSeq(name, 1, Len(name) - Len(s))

(* The ends of the parts between dots that are longer than m. *)
LongParts(name, m) ==
    {e \in DOMAIN name :
        /\ e = Len(name) \/ name[e + 1] = "."
        /\ \E b \in 1..e : /\ b = 1 \/ name[b - 1] = "."
                           /\ \A k \in b..e : name[k] # "."
                           /\ e - b + 1 > m}

MIN_PART == 3

(* <<>> stands for the calls of error(). *)
shorten_name(name) ==
    IF opt.decompress
    THEN IF Len(name) <= 1 THEN <<>> ELSE Front(name)
    ELSE LET base == Strip(name, get_suffix(name))
             ms   == {m \in 1..MIN_PART : LongParts(base, m) # {}}
             cut  == Max(LongParts(base, Max(ms)))
             dots == {k \in DOMAIN base : base[k] = "."}
             dot  == Max(dots)
         IN CASE get_suffix(name) = <<>> -> <<>>
              [] IsSuffix(tar, base) -> Strip(base, tar) \o tgz
              [] ms # {} -> RemoveAt(base, cut) \o z_suffix
              [] ms = {} /\ dots = {} -> <<>>
              [] OTHER -> SubSeq(base, 1, IF dot = Len(base) THEN dot - 2 ELSE dot - 1)
                             \o z_suffix

(* Is the name, less its last character, a name of the same file?  That is *)
(* how the program finds out that the file system truncates names.         *)
name_too_long(name, i) == Exists(Front(name)) /\ fs[Front(name)] = i

-----------------------------------------------------------------------------
Idle == [lookahead |-> 0]

Init ==
    /\ \E s \in Starts :
          /\ opt = s.opt /\ args = s.opt.args
          /\ fs = s.fs /\ disk = s.disk
          /\ faults = s.faults
    /\ made = {}
    /\ pc = "args"
    /\ ifname = <<>> /\ ofname = <<>> /\ istat = 0 /\ ifile_size = 0
    /\ ifd = 0 /\ ofd = 0 /\ bytes_in = 0 /\ part_nb = 0 /\ method = DEFLATED /\ z = Idle
    /\ changed = {}
    /\ remove_ofname = FALSE /\ save_orig_name = FALSE /\ exit_code = OK

Goto(l) == pc' = l
Fault == faults > 0 /\ faults' = faults - 1
Fails == exit_code' = ERROR
Warns == exit_code' = IF exit_code = OK THEN WARNING ELSE exit_code

(* The handler of SIGINT, SIGTERM and SIGHUP, which error(), read_error()  *)
(* and write_error() call too.                                             *)
abort_gzip ==
    /\ fs' = IF remove_ofname /\ ofname \in Names THEN [fs EXCEPT ![ofname] = 0] ELSE fs
    /\ exit_code' = ERROR
    /\ Goto("exited")
    /\ UNCHANGED <<opt, args, disk, made, names, work, remove_ofname, save_orig_name>>

-----------------------------------------------------------------------------
(* get_istat and the tests of treat_file that follow it *)

do_stat(name) == Exists(name)

(* The name under which the input file is found. *)
Found(iname) ==
    IF do_stat(iname) \/ ~opt.decompress \/ get_suffix(iname) # <<>> THEN iname
    ELSE iname \o z_suffix

(* main: treat_file(argv[optind++]), and a mutant without the increment. *)
SameArgument == args' = args
NextArgument == args' = Tail(args)

treat_file ==
    /\ pc = "args" /\ args # <<>>
    /\ NextArgument
    /\ LET name == Found(Head(args)) IN
          /\ ifname' = name
          /\ \/ /\ ~do_stat(name)
                /\ Fails
                /\ UNCHANGED <<pc, istat, ifile_size>>
             \/ /\ do_stat(name)
                /\ istat' = fs[name]
                /\ IF \/ ~IsReg(disk[fs[name]])
                      \/ Links(fs[name]) > 1 /\ ~opt.to_stdout /\ opt.force = 0
                   THEN Warns /\ UNCHANGED <<pc, ifile_size>>
                   ELSE /\ ifile_size' = IF disk[fs[name]].gz THEN 0 ELSE Len(Data(disk[fs[name]]))
                        /\ Goto("ofname")
                        /\ UNCHANGED exit_code
    /\ UNCHANGED <<opt, file, ofname, work, remove_ofname, save_orig_name, faults>>

(* make_ofname copies the input name first ... *)
CopyName ==
    /\ pc = "ofname"
    /\ IF opt.to_stdout /\ ~opt.test
       THEN ofname' = stdout /\ Goto("open")
       ELSE ofname' = ifname /\ Goto("suffix")
    /\ UNCHANGED <<opt, args, file, ifname, istat, ifile_size, work, flags, faults>>

(* ... and edits the copy. *)
make_ofname ==
    /\ pc = "suffix"
    /\ LET suff == get_suffix(ofname) IN
          \/ /\ opt.decompress /\ suff = <<>> /\ opt.test
             /\ Goto("open")
             /\ UNCHANGED <<ofname, save_orig_name, exit_code>>
          \/ /\ opt.decompress /\ suff = <<>> /\ ~opt.test
             /\ Warns /\ Goto("args")
             /\ UNCHANGED <<ofname, save_orig_name>>
          \/ /\ opt.decompress /\ suff # <<>>
             /\ ofname' = Strip(ofname, suff) \o (IF suff = tgz THEN tar ELSE <<>>)
             /\ Goto("open")
             /\ UNCHANGED <<save_orig_name, exit_code>>
          \/ /\ ~opt.decompress /\ suff # <<>>
             /\ Warns /\ Goto("args")
             /\ UNCHANGED <<ofname, save_orig_name>>
          \/ /\ ~opt.decompress /\ suff = <<>>
             /\ ofname' = ofname \o z_suffix
             /\ save_orig_name' = FALSE
             /\ Goto("open")
             /\ UNCHANGED exit_code
    /\ UNCHANGED <<opt, args, file, ifname, istat, ifile_size, work, remove_ofname,
                   faults>>

(* clear_bufs is part of a successful open. *)
OpenInput ==
    /\ pc = "open"
    /\ \/ /\ Exists(ifname)
          /\ ifd' = fs[ifname]
          /\ ofd' = 0 /\ bytes_in' = 0 /\ part_nb' = 0
          /\ Goto(IF opt.decompress THEN "method" ELSE "create")
          /\ UNCHANGED <<exit_code, faults>>
       \/ /\ Fault
          /\ Fails /\ Goto("args")
          /\ UNCHANGED <<ifd, ofd, bytes_in, part_nb>>
    /\ UNCHANGED <<opt, args, file, names, method, z, changed, remove_ofname, save_orig_name>>

-----------------------------------------------------------------------------
(* get_method: the header of the next member *)

Source == disk[ifd]
Member == Source.parts[part_nb]
AtEnd(k) == k > Len(Source.parts)

(* With -c and -f what is not compressed is passed through. *)
Cat == opt.force > 0 /\ opt.to_stdout

(* A mutant that refuses without an exit code. *)
HeaderResultSilent(k) ==
    LET state == Source.parts[k].state
    IN IF Source.gz /\ state # "garbage" /\ state # "refused" THEN <<DEFLATED, exit_code>>
       ELSE <<-1, exit_code>>

(* <<the method, the exit code>> *)
HeaderResult(k) ==
    LET state == Source.parts[k].state
        magic == Source.gz /\ state # "garbage"
    IN CASE magic /\ (state \in {"ok", "cut"}) -> <<DEFLATED, exit_code>>
         [] magic /\ state = "flagged" -> <<IF opt.force > 1 THEN DEFLATED ELSE -1, ERROR>>
         [] magic /\ state = "refused" -> <<-1, ERROR>>
         [] ~magic /\ Cat -> <<STORED, exit_code>>
         [] ~magic /\ ~Cat /\ k = 1 -> <<-1, ERROR>>
         [] OTHER -> <<-2, IF exit_code = OK THEN WARNING ELSE exit_code>>

(* The name in the header replaces the one made from the input name. *)
OrigName(k) ==
    IF /\ Source.gz /\ Source.parts[k].name # <<>>
       /\ ~opt.no_name /\ ~opt.to_stdout /\ k = 1
    THEN Source.parts[k].name ELSE ofname

get_method ==
    /\ pc = "method"
    /\ \/ /\ AtEnd(part_nb + 1) /\ ~Cat
          /\ abort_gzip
          /\ UNCHANGED faults
       \/ /\ ~(AtEnd(part_nb + 1) /\ ~Cat)
          /\ LET r == IF AtEnd(part_nb + 1) THEN <<STORED, exit_code>> ELSE HeaderResult(part_nb + 1)
             IN /\ part_nb' = part_nb + 1
                /\ method' = r[1]
                /\ exit_code' = r[2]
                /\ ofname' = IF r[1] = DEFLATED THEN OrigName(part_nb + 1) ELSE ofname
                /\ Goto(CASE part_nb > 0 /\ r[1] >= 0 -> "work"
                          [] part_nb > 0 /\ r[1] < 0 -> "close"
                          [] part_nb = 0 /\ r[1] >= 0 -> "create"
                          [] OTHER -> "args")
          /\ UNCHANGED <<opt, args, file, ifname, istat, ifile_size, ifd, ofd, bytes_in, z, changed,
                         remove_ofname, save_orig_name, faults>>

-----------------------------------------------------------------------------
(* create_outfile *)

(* What check_ofname does about the name, and about a file of that name. *)
RECURSIVE FitName(_)
FitName(name) ==
    IF name = <<>> \/ Len(name) <= NAME_MAX THEN name ELSE FitName(shorten_name(name))

Untruncated(name) ==
    IF ~opt.decompress /\ Exists(name) /\ name_too_long(name, fs[name])
    THEN shorten_name(name) ELSE name

check_ofname ==
    /\ pc = "create" /\ ~opt.to_stdout
    /\ LET fit  == FitName(ofname)
           name == IF fit = <<>> THEN <<>> ELSE Untruncated(fit)
       IN \/ /\ name = <<>>
             /\ abort_gzip
             /\ UNCHANGED faults
          \/ /\ name # <<>>
             /\ ofname' = name
             /\ save_orig_name' = (save_orig_name \/ (~opt.decompress /\ name # ofname))
             /\ \/ /\ ~Exists(name)
                   /\ Goto("mark")
                   /\ UNCHANGED <<fs, exit_code, faults>>
                \/ /\ Exists(name) /\ fs[name] = istat
                   /\ Fails /\ Goto("args")
                   /\ UNCHANGED <<fs, faults>>
                \/ /\ Exists(name) /\ fs[name] # istat /\ opt.force = 0
                   /\ Warns /\ Goto("args")
                   /\ UNCHANGED <<fs, faults>>
                \/ /\ Exists(name) /\ fs[name] # istat /\ opt.force > 0
                   /\ fs' = [fs EXCEPT ![name] = 0]
                   /\ Goto("mark")
                   /\ UNCHANGED <<exit_code, faults>>
                \/ /\ Exists(name) /\ fs[name] # istat /\ opt.force > 0 /\ Fault
                   /\ Fails /\ Goto("args")
                   /\ UNCHANGED fs
             /\ UNCHANGED <<opt, args, disk, made, ifname, istat, ifile_size, work, remove_ofname>>

ToStdout ==
    /\ pc = "create" /\ opt.to_stdout
    /\ save_orig_name' = (save_orig_name \/ ~opt.no_name)
    /\ Goto("work")
    /\ UNCHANGED <<opt, args, file, names, work, remove_ofname, exit_code, faults>>

(* A mutant that forgets the flag. *)
MarkForgotten ==
    /\ pc = "mark"
    /\ Goto("creat")
    /\ UNCHANGED <<opt, args, file, names, work, flags, faults>>

MarkOutput ==
    /\ pc = "mark"
    /\ remove_ofname' = TRUE
    /\ Goto("creat")
    /\ UNCHANGED <<opt, args, file, names, work, save_orig_name, exit_code, faults>>

OpenOutput ==
    /\ pc = "creat"
    /\ \/ /\ ~Exists(ofname)
          /\ LET i == Len(disk) + 1 IN
                /\ disk' = Append(disk, Empty)
                /\ fs' = [fs EXCEPT ![ofname] = i]
                /\ made' = made \union {<<i, istat>>}
                /\ ofd' = i
          /\ Goto("fstat")
          /\ UNCHANGED <<exit_code, faults>>
       \/ /\ IF Exists(ofname) THEN UNCHANGED faults ELSE Fault
          /\ Fails /\ Goto("args")
          /\ UNCHANGED <<file, ofd>>
    /\ UNCHANGED <<opt, args, names, ifd, bytes_in, part_nb, method, z, changed, remove_ofname,
                   save_orig_name>>

(* A file that was just made has one name, so name_too_long is false of    *)
(* it: the file system reports long names and does not truncate them.      *)
create_outfile ==
    /\ pc = "fstat"
    /\ \/ /\ Fault
          /\ fs' = [fs EXCEPT ![ofname] = 0]
          /\ ofd' = 0
          /\ Fails /\ Goto("args")
          /\ UNCHANGED save_orig_name
       \/ /\ save_orig_name' = (save_orig_name \/ ~opt.no_name)
          /\ Goto("work")
          /\ UNCHANGED <<fs, ofd, exit_code, faults>>
    /\ UNCHANGED <<opt, args, disk, made, names, ifd, bytes_in, part_nb, method, z, changed, remove_ofname>>

-----------------------------------------------------------------------------
(* zip: compress in rounds; full output buffers are written as they fill.  *)

Output(part) == IF opt.to_stdout THEN UNCHANGED disk ELSE disk' = [disk EXCEPT ![ofd] = Zipped(<<part>>)]

HeaderName == IF save_orig_name THEN ifname ELSE <<>>

(* The whole buffers among the header and the bits sent so far. *)
Buffered(bits) ==
    LET header == HEADER + NameSize(HeaderName)
        sent   == header + Len(bits) \div 8
        whole  == sent - (sent % OUTBUFSIZ)
    IN IF whole <= header THEN <<>> ELSE SubSeq(bits, 1, 8 * (whole - header))

zip ==
    /\ pc = "work" /\ ~opt.decompress
    /\ method' = DEFLATED
    /\ \E input \in {Data(Source), <<>>} :
          /\ IF input = Data(Source) THEN UNCHANGED faults ELSE Fault
          /\ z' = BeginDeflate(opt.level, input)
          /\ bytes_in' = Len(input) - Len(z'.rest)
    /\ Goto("deflate")
    /\ UNCHANGED <<opt, args, file, names, ifd, ofd, part_nb, changed, flags>>

(* A read that fails ends the input, as the end of the file does. *)
Compress ==
    /\ pc = "deflate" /\ z.lookahead > 0
    /\ \/ /\ z' = DeflateRound(z)
          /\ UNCHANGED faults
       \/ /\ ~z.eofile /\ Fault
          /\ z' = DeflateRound([z EXCEPT !.rest = <<>>])
    /\ bytes_in' = IF faults' = faults THEN bytes_in + Len(z.rest) - Len(z'.rest) ELSE bytes_in
    /\ IF Buffered(z'.bits) = Buffered(z.bits) THEN UNCHANGED disk
       ELSE Output(Part(Buffered(z'.bits), <<>>, "cut", HeaderName))
    /\ UNCHANGED <<opt, args, fs, made, pc, names, ifd, ofd, part_nb, method, changed, flags>>

(* The last block, the checksum of what was read, and the size. *)
Trailer ==
    /\ pc = "deflate" /\ z.lookahead = 0
    /\ z' = EndDeflate(z)
    /\ Output(Part(z'.bits, SubSeq(Data(Source), 1, bytes_in), "ok", HeaderName))
    /\ changed' = IF bytes_in # ifile_size THEN changed \union {ofd} ELSE changed
    /\ Goto("close")
    /\ UNCHANGED <<opt, args, fs, made, names, ifd, ofd, bytes_in, part_nb, method, flags, faults>>

write_error ==
    /\ Fault
    /\ \/ pc = "deflate" /\ (z.lookahead > 0 => Buffered(DeflateRound(z).bits) # Buffered(z.bits))
       \/ pc = "flush" /\ z.out # <<>> /\ ~opt.test
       \/ pc = "work" /\ opt.decompress /\ method = STORED /\ ~AtEnd(1)
       \/ pc = "close" /\ ~opt.to_stdout
    /\ abort_gzip

-----------------------------------------------------------------------------
(* unzip: one member, written in pieces of the window.                     *)

unzip ==
    /\ pc = "work" /\ opt.decompress /\ method = DEFLATED
    /\ LET s == Inflated(Member.bits) IN
          z' = [lookahead |-> 0, out |-> s.out, r |-> s.r, crc |-> FlattenSeq(s.out)]
    /\ Goto("flush")
    /\ UNCHANGED <<opt, args, file, names, ifd, ofd, bytes_in, part_nb, method, changed, flags,
                   faults>>

flush_window ==
    /\ pc = "flush" /\ z.out # <<>>
    /\ z' = [z EXCEPT !.out = Tail(@)]
    /\ IF opt.to_stdout THEN UNCHANGED disk
       ELSE disk' = [disk EXCEPT ![ofd] = Plain(Data(@) \o Head(z.out))]
    /\ UNCHANGED <<opt, args, fs, made, pc, names, ifd, ofd, bytes_in, part_nb, method, changed,
                   flags, faults>>

(* The buffer is used up: what the program takes for the end of the file.  *)
inptr_eq_insize ==
    \/ part_nb = Len(Source.parts)
    \/ Offset(Source, part_nb) % INBUFSIZ = 0

(* The checks after a member, and what follows it. *)
Validate ==
    /\ pc = "flush" /\ z.out = <<>>
    /\ IF z.r # 0 \/ Member.state = "cut" \/ z.crc # Member.data
       THEN abort_gzip
       ELSE /\ Goto(IF inptr_eq_insize THEN "close" ELSE "method")
            /\ UNCHANGED <<opt, args, file, names, work, flags>>
    /\ UNCHANGED faults

(* zcat -f of a file that is not compressed. *)
copy ==
    /\ pc = "work" /\ opt.decompress /\ method = STORED
    /\ Goto("close")
    /\ UNCHANGED <<opt, args, file, names, work, flags, faults>>

(* A read for an empty buffer fails. *)
read_error ==
    /\ \/ pc = "work" /\ opt.decompress
       \/ pc = "flush" /\ z.out = <<>>
       \/ pc = "method" /\ ~Cat
    /\ Fault
    /\ abort_gzip

-----------------------------------------------------------------------------
(* The end of treat_file *)

(* A mutant that does not look at the method, and goes on after a failure. *)
CloseAnyway ==
    /\ pc = "close"
    /\ Goto(IF opt.to_stdout THEN "args" ELSE "copystat")
    /\ UNCHANGED <<opt, args, file, names, work, flags, faults>>

CloseOutput ==
    /\ pc = "close"
    /\ IF method = -1
       THEN /\ fs' = IF opt.to_stdout THEN fs ELSE [fs EXCEPT ![ofname] = 0]
            /\ ofd' = 0
            /\ Goto("args")
       ELSE /\ Goto(IF opt.to_stdout THEN "args" ELSE "copystat")
            /\ UNCHANGED <<fs, ofd>>
    /\ UNCHANGED <<opt, args, disk, made, names, ifd, bytes_in, part_nb, method, z, changed, flags,
                   faults>>

(* utime and chmod; a failure is a warning. *)
CopyTimes ==
    /\ pc = "copystat"
    /\ \/ UNCHANGED <<exit_code, faults>>
       \/ Fault /\ Warns
    /\ Goto("unmark")
    /\ UNCHANGED <<opt, args, file, names, work, remove_ofname, save_orig_name>>

copy_stat ==
    /\ pc = "unmark"
    /\ remove_ofname' = FALSE
    /\ Goto("unlink")
    /\ UNCHANGED <<opt, args, file, names, work, save_orig_name, exit_code, faults>>

UnlinkInput ==
    /\ pc = "unlink"
    /\ \/ /\ fs' = [fs EXCEPT ![ifname] = 0]
          /\ UNCHANGED <<exit_code, faults>>
       \/ /\ Fault /\ Warns
          /\ UNCHANGED fs
    /\ Goto("args")
    /\ UNCHANGED <<opt, args, disk, made, names, work, remove_ofname, save_orig_name>>

do_exit ==
    /\ pc = "args" /\ args = <<>>
    /\ Goto("exited")
    /\ UNCHANGED <<opt, args, file, names, work, flags, faults>>

gzip ==
    \/ treat_file \/ CopyName \/ make_ofname \/ OpenInput \/ get_method
    \/ check_ofname \/ ToStdout \/ MarkOutput \/ OpenOutput \/ create_outfile
    \/ zip \/ Compress \/ Trailer \/ write_error
    \/ unzip \/ flush_window \/ Validate \/ copy \/ read_error
    \/ CloseOutput \/ CopyTimes \/ copy_stat \/ UnlinkInput \/ do_exit

-----------------------------------------------------------------------------
(* The world around it *)

Ended == pc \in {"exited", "dead"}

(* A signal that the program handles. *)
Signal ==
    /\ ~Ended /\ Fault
    /\ abort_gzip

(* One that it cannot handle, or a crash. *)
Kill ==
    /\ ~Ended /\ Fault
    /\ Goto("dead")
    /\ UNCHANGED <<opt, args, file, names, work, flags>>

(* Another program makes a file. *)
Appear ==
    /\ ~Ended /\ ~opt.to_stdout /\ Fault
    /\ \E n \in Names, c \in Theirs :
          /\ ~Exists(n)
          /\ fs' = [fs EXCEPT ![n] = Len(disk) + 1]
          /\ disk' = Append(disk, c)
    /\ UNCHANGED <<opt, args, made, pc, names, work, flags>>

Done == Ended /\ UNCHANGED vars

Next == gzip \/ Signal \/ Kill \/ Appear \/ Done

Spec == Init /\ [][Next]_vars

(* The program, which never waits for anyone, runs until it ends.  This is *)
(* WF_vars(gzip) if gzip is enabled until then, and that it is, where no   *)
(* fault is left to happen, is what the search for deadlocks shows.        *)
FairSpec == Spec /\ ([]<>Ended \/ []<><<gzip>>_vars)

-----------------------------------------------------------------------------
(* Does file i hold, whole and readable, what file j stands for? *)
Holds(i, j) == Decodable(disk[i]) /\ Data(disk[i]) = Data(disk[j])

(* What gzip may take away.  A name disappears (unlink in check_ofname,    *)
(* create_outfile, treat_file, copy_stat and abort_gzip) only if it is the *)
(* output in progress and the input is still there; or if another name     *)
(* then holds the same data, decompressed and checked; or if -f asked for  *)
(* it; or if the program said that it did not compress all of the file.    *)
(* The last case is a flag left set by an earlier file: see README.md.     *)
RemovalIsSafe ==
    [][\A n \in Names : fs[n] # 0 /\ fs'[n] # fs[n] =>
          \/ fs[n] = ofd /\ fs'[ifname] = ifd
          \/ \E m \in Names : fs'[m] # 0 /\ Holds(fs'[m], fs[n])
          \/ pc = "create" /\ opt.force > 0
          \/ pc = "unlink" /\ ofd \in changed
          \/ pc' = "exited" /\ remove_ofname /\ ofd = 0]_vars

(* Once the program has ended by itself, by exit, error() or a signal, no  *)
(* file that it made is incomplete: remove_ofname is set over the whole    *)
(* time in which the output is (gzip.c, create_outfile to copy_stat).      *)
NothingPartialLeft ==
    pc = "exited" =>
        \A e \in made : (\E n \in Names : fs[n] = e[1]) => Holds(e[1], e[2]) \/ e[1] \in changed

(* Exit status 0 means that each argument was replaced by a file that      *)
(* this process made, or, with -t, can be decompressed: no early return of *)
(* treat_file forgets exit_code.                                           *)
ExitOkMeansDone ==
    pc = "exited" /\ exit_code = OK =>
        /\ ~opt.to_stdout => /\ Cardinality(made) = Len(opt.args)
                             /\ \A e \in made : \E n \in Names : fs[n] = e[1]
        /\ opt.test => \A k \in DOMAIN opt.args :
                          LET name == Found(opt.args[k])
                          IN Exists(name) /\ Decodable(disk[fs[name]])

(* The program ends, whatever the files hold (the loops over arguments,    *)
(* members and rounds).                                                    *)
Ends == <>(pc \in {"exited", "dead"})

(* "It's now safe to remove the input file" (gzip.c, copy_stat): the       *)
(* output holds all that the input stands for, or the user was told.       *)
SafeToRemove == pc = "unlink" => Holds(ofd, ifd) \/ ofd \in changed
=============================================================================
