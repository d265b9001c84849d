-------------------------------- MODULE Stdio --------------------------------
(***************************************************************************)
(* One stdio stream of klibc (struct _IO_file) on a regular file: fread,   *)
(* fwrite, fflush, fseek and ungetc.  The stream has one buffer for both   *)
(* directions.  Output starts at buf[0]; input starts at buf[offset],      *)
(* _IO_UNGET_SLOP cells on, which leaves ungetc() room.                    *)
(*                                                                         *)
(* The calls are taken one system call at a time, because read() and       *)
(* write() may do part of the work, be interrupted or fail: pc says which  *)
(* loop is running and ret what the fflush() in progress returns to.       *)
(*                                                                         *)
(* The program keeps to the rule of the C standard that a stream opened    *)
(* for update is positioned between input and output (variable last).      *)
(***************************************************************************)
EXTENDS Integers, Sequences

CONSTANTS
    Byte, NL,      \* bytes, one of them the newline
    BUFSIZ, SLOP,  \* sizes: 16384 and 32 in the code
    Modes,         \* buffering: "full", "line", "unbuf"
    MaxFile,       \* bound: length of the file
    MaxCount,      \* bound: bytes one call moves
    Careless,      \* after an output error the program goes on as before,
                   \* and does not only try fflush() and fseek()
    Failures       \* system calls that may fail: "write", "lseek", "read"

ASSUME StdioAssumption ==
    /\ NL \in Byte /\ {BUFSIZ, SLOP, MaxCount} \subseteq Nat \ {0} /\ MaxFile \in Nat
    /\ Modes \subseteq {"full", "line", "unbuf"} /\ Careless \in BOOLEAN
    /\ Failures \subseteq {"write", "lseek", "read"}

VARIABLES
    file, pos,      \* the file, and the descriptor's position in it
    buf, offset, bytes, flags, filepos,     \* struct _IO_file
    mode,           \* its buffering
    pc, ret,        \* the loop that runs, and where its fflush() returns to
    todo, rest,     \* bytes still to store in this chunk, and the next chunk
    pf,             \* this is the chunk that _fwrite flushes
    from,           \* p - f->buf in fflush()
    count,          \* bytes still to read
    last,           \* what the program did last: "input", "output" or "none"
    moved,          \* bytes the last step moved to or from the program
    unread,         \* ungetc() has been called since the last fseek()
    owed,           \* bytes the program wrote that are not in the file yet
    broken          \* an output error has happened

vars == <<file, pos, buf, offset, bytes, flags, filepos, mode, pc, ret, todo, rest,
          pf, from, count, last, moved, unread, owed, broken>>

Cells   == 0..(SLOP + BUFSIZ - 1)
Strings(n) == UNION {[1..k -> Byte] : k \in 0..n}

Least(m, n) == IF m < n THEN m ELSE n

\* The n bytes of the buffer at cell i, and the buffer with bs stored there.
Bytes(i, n)  == [k \in 1..n |-> buf[i + k - 1]]
Store(i, bs) == [c \in Cells |-> IF c \in i..(i + Len(bs) - 1) THEN bs[c - i + 1]
                                 ELSE buf[c]]

\* The stream as the program may see it: output still in the buffer counts as
\* written, input still in the buffer as not read yet.
Pending == IF "WRITE" \in flags THEN Bytes(IF pc = "flush" THEN from ELSE 0, bytes)
           ELSE <<>>

Promise == INSTANCE OpenFile WITH
    content  <- SubSeq(file, 1, pos) \o Pending
                    \o SubSeq(file, pos + Len(Pending) + 1, Len(file)),
    position <- IF "WRITE" \in flags THEN pos + bytes ELSE pos - bytes

Init ==
    /\ file \in Strings(MaxFile) /\ pos = 0
    /\ buf = [c \in Cells |-> NL]
    /\ offset = SLOP /\ bytes = 0 /\ flags = {} /\ filepos = 0
    /\ mode \in Modes
    /\ pc = "idle" /\ ret = "none" /\ todo = <<>> /\ rest = <<>> /\ pf = FALSE
    /\ from = 0 /\ count = 0 /\ last = "none" /\ moved = <<>> /\ unread = FALSE /\ owed = <<>>
    /\ broken = FALSE

-----------------------------------------------------------------------------
\* fflush(f).  A step that calls it sets pc to "flush" and ret to where it
\* returns: "fill" and "pu" in _fwrite, "seek" in fseek, "idle" in a failing
\* _fwrite, "done" for the program's own call.

Calls(r) == pc' = "flush" /\ ret' = r /\ from' = 0

fflush ==
    /\ pc = "idle" /\ Calls("done")
    /\ UNCHANGED <<file, pos, buf, offset, bytes, flags, filepos, mode, todo, rest,
                   pf, count, last, moved, unread, owed, broken>>

\* The faulty fflush() that writes from the start of the buffer again after a
\* partial write.
StartsOver(rv) == 0

Advance(rv) == from + rv

\* EINTR and EAGAIN are tried again and leave everything as it is.
flush_write ==
    /\ pc = "flush" /\ "WRITE" \in flags /\ bytes > 0
    /\ \E rv \in 1..bytes :
         /\ file' = SubSeq(file, 1, pos) \o Bytes(from, rv)
                        \o SubSeq(file, pos + rv + 1, Len(file))
         /\ pos' = pos + rv
         /\ from' = Advance(rv)
         /\ bytes' = bytes - rv
         /\ owed' = SubSeq(owed, rv + 1, Len(owed))
    /\ UNCHANGED <<buf, offset, flags, filepos, mode, pc, ret, todo, rest, pf, count,
                   last, moved, unread, broken>>

\* write() fails, or writes nothing.  A failure in fwrite_noflush ends it with
\* a short count, and _fwrite then flushes once more before it gives up.
flush_fails ==
    /\ pc = "flush" /\ "WRITE" \in flags /\ bytes > 0 /\ "write" \in Failures
    /\ \E e \in {"ERR", "EOF"} : flags' = flags \cup {e}
    /\ broken' = TRUE
    /\ todo' = <<>> /\ rest' = <<>> /\ pf' = FALSE
    /\ IF ret = "fill" /\ pf THEN Calls("idle")
       ELSE pc' = (IF ret = "seek" THEN "seek" ELSE "idle") /\ ret' = "none" /\ from' = 0
    /\ UNCHANGED <<file, pos, buf, offset, bytes, filepos, mode, count, last, moved, unread, owed>>

\* The faulty fflush() that clears the error when it succeeds the next time.
CleanFlags == flags \ {"WRITE", "ERR", "EOF"}

FlushedFlags == flags \ {"WRITE"}

flush_end ==
    /\ pc = "flush" /\ ("WRITE" \notin flags \/ bytes = 0)
    /\ offset' = IF "WRITE" \in flags THEN SLOP ELSE offset
    /\ flags' = FlushedFlags
    /\ pc' = CASE ret = "pu" -> (IF rest = <<>> THEN "idle" ELSE "fill")
               [] ret = "done" -> "idle"
               [] OTHER -> ret
    /\ todo' = IF ret = "pu" THEN rest ELSE todo
    /\ rest' = IF ret = "pu" THEN <<>> ELSE rest
    /\ pf'   = (pf /\ ret # "pu")
    /\ last' = IF ret = "done" /\ last = "output" THEN "none" ELSE last
    /\ ret' = "none" /\ from' = 0
    /\ UNCHANGED <<file, pos, buf, bytes, filepos, mode, count, moved, unread, owed, broken>>

-----------------------------------------------------------------------------
\* fwrite(): _fwrite divides the data at its last newline.

\* The faulty division that forgets the newline itself.
FlushedUpTo(bs) == {n \in 1..Len(bs) : n < Len(bs) /\ bs[n + 1] = NL}

\* Lengths of the beginnings of bs that end in a newline.
LineEnds(bs) == {n \in 1..Len(bs) : bs[n] = NL}

fwrite(bs) ==
    LET ends == IF mode = "line" THEN LineEnds(bs) ELSE {}
        n    == IF ends = {} THEN 0 ELSE CHOOSE m \in ends : \A k \in ends : k <= m
    IN  /\ pc = "idle" /\ last # "input"
        /\ pc' = "fill" /\ last' = "output"
        /\ IF n > 0 THEN todo' = SubSeq(bs, 1, n) /\ rest' = SubSeq(bs, n + 1, Len(bs))
           ELSE todo' = bs /\ rest' = <<>>
        /\ pf' = (n > 0)
        /\ UNCHANGED <<file, pos, buf, offset, bytes, flags, filepos, mode, ret, from,
                       count, moved, unread, owed, broken>>

\* One turn of the loop of fwrite_noflush.
fill ==
    LET nb == Least(Len(todo), BUFSIZ - bytes)
    IN  /\ pc = "fill"
        /\ buf' = Store(bytes, SubSeq(todo, 1, nb))
        /\ bytes' = bytes + nb /\ filepos' = filepos + nb
        /\ flags' = IF nb > 0 THEN flags \cup {"WRITE"} ELSE flags
        /\ moved' = SubSeq(todo, 1, nb) /\ owed' = owed \o SubSeq(todo, 1, nb)
        /\ todo' = SubSeq(todo, nb + 1, Len(todo))
        /\ IF nb < Len(todo) THEN Calls("fill")
           ELSE IF pf THEN Calls("pu")
           ELSE pc' = "idle" /\ UNCHANGED <<ret, from>>
        /\ UNCHANGED <<file, pos, offset, mode, rest, pf, count, last, unread, broken>>

-----------------------------------------------------------------------------
\* fread(): the bytes that are there, then read() for more.

fread(n) ==
    /\ pc = "idle" /\ last # "output"
    /\ pc' = "take" /\ count' = n /\ last' = "input"
    /\ UNCHANGED <<file, pos, buf, offset, bytes, flags, filepos, mode, ret, todo, rest,
                   pf, from, moved, unread, owed, broken>>

take ==
    LET nb == Least(count, bytes)
    IN  /\ pc = "take"
        /\ moved' = Bytes(offset, nb)
        /\ offset' = IF nb < count THEN SLOP ELSE offset + nb
        /\ bytes' = bytes - nb /\ filepos' = filepos + nb
        /\ flags' = IF nb > 0 /\ nb = bytes THEN flags \ {"READ"} ELSE flags
        /\ count' = count - nb
        /\ pc' = IF nb < count THEN "refill" ELSE "idle"
        /\ UNCHANGED <<file, pos, buf, mode, ret, todo, rest, pf, from, last, unread, owed, broken>>

refill ==
    /\ pc = "refill"
    /\ \/ \E rv \in 1..Least(BUFSIZ, Len(file) - pos) :
            /\ buf' = Store(SLOP, SubSeq(file, pos + 1, pos + rv))
            /\ pos' = pos + rv
            /\ bytes' = rv /\ flags' = flags \cup {"READ"}
            /\ pc' = "take" /\ UNCHANGED count
       \/ /\ pos = Len(file)
          /\ flags' = flags \cup {"EOF"} /\ pc' = "idle" /\ count' = 0
          /\ UNCHANGED <<pos, buf, bytes>>
       \/ /\ "read" \in Failures
          /\ flags' = flags \cup {"ERR"} /\ pc' = "idle" /\ count' = 0
          /\ UNCHANGED <<pos, buf, bytes>>
    /\ UNCHANGED <<file, offset, filepos, mode, ret, todo, rest, pf, from, last, moved, unread, owed, broken>>

\* The faulty test that lets the offset become negative.
RoomBelowZero == offset >= 0

RoomToUnget == offset > 0

\* ungetc(): the program pushes back the byte it read last.
ungetc ==
    /\ pc = "idle" /\ last = "input" /\ pos - bytes > 0
    /\ "WRITE" \notin flags /\ RoomToUnget
    /\ buf' = Store(offset - 1, <<file[pos - bytes]>>)
    /\ offset' = offset - 1 /\ bytes' = bytes + 1 /\ unread' = TRUE
    /\ flags' = flags \cup {"READ"}
    /\ UNCHANGED <<file, pos, filepos, mode, pc, ret, todo, rest, pf, from, count, last,
                   moved, owed, broken>>

-----------------------------------------------------------------------------
\* fseek() ignores what fflush() returns.

fseek ==
    /\ pc = "idle" /\ Calls("seek")
    /\ UNCHANGED <<file, pos, buf, offset, bytes, flags, filepos, mode, todo, rest,
                   pf, count, last, moved, unread, owed, broken>>

\* The faulty fseek() that keeps the bytes read ahead.
KeepsReadAhead == bytes

NothingBuffered == 0

seek ==
    /\ pc = "seek" /\ pc' = "idle"
    /\ \/ /\ \E rv \in 0..Len(file) : pos' = rv /\ filepos' = rv
          /\ bytes' = NothingBuffered /\ flags' = flags \ {"READ"} /\ last' = "none"
          /\ unread' = FALSE /\ owed' = <<>>
       \/ /\ "lseek" \in Failures
          /\ UNCHANGED <<pos, filepos, bytes, flags, last, unread, owed>>
    /\ UNCHANGED <<file, buf, offset, mode, ret, todo, rest, pf, from, count, moved, broken>>

-----------------------------------------------------------------------------
\* Bounds: the program does not write past MaxFile, and moves no more bytes
\* once filepos has passed it (ungetc() and failed output let filepos run ahead).
Bounded == filepos <= MaxFile /\ (broken => Careless)

Next ==
    \/ \E bs \in Strings(MaxCount) :
         bs # <<>> /\ pos + bytes + Len(bs) <= MaxFile /\ Bounded /\ fwrite(bs)
    \/ \E n \in 1..MaxCount : Bounded /\ fread(n)
    \/ Bounded /\ ungetc
    \/ fflush \/ fseek
    \/ flush_write \/ flush_fails \/ flush_end \/ fill \/ take \/ refill \/ seek

Spec == Init /\ [][Next]_vars

-----------------------------------------------------------------------------
\* Types; in particular data stays inside the buffer, whichever end it is at.
TypeOK ==
    /\ file \in Seq(Byte) /\ pos \in 0..Len(file)
    /\ buf \in [Cells -> Byte] /\ mode \in Modes
    /\ offset \in 0..(SLOP + BUFSIZ) /\ bytes \in 0..(SLOP + BUFSIZ)
    /\ "WRITE" \in flags /\ ~broken => bytes <= BUFSIZ /\ from + bytes <= BUFSIZ
    /\ "READ" \in flags => offset + bytes <= SLOP + BUFSIZ
    /\ flags \subseteq {"WRITE", "READ", "ERR", "EOF"} /\ filepos \in Nat
    /\ pc \in {"idle", "flush", "fill", "take", "refill", "seek"}
    /\ ret \in {"none", "fill", "pu", "seek", "idle", "done"}
    /\ todo \in Strings(MaxCount) /\ rest \in Strings(MaxCount) /\ from \in 0..BUFSIZ
    /\ count \in 0..MaxCount /\ last \in {"none", "input", "output"}
    /\ moved \in Seq(Byte) /\ {pf, unread, broken} \subseteq BOOLEAN

\* Buffering is invisible: partial reads and writes, a full buffer, ungetc()
\* and repositioning never lose, repeat or reorder a byte, until output fails.
ImplementsFile == Promise!Spec

\* A line-buffered stream has no complete line waiting when fwrite() is back.
LinesAreFlushed ==
    pc = "idle" /\ mode = "line" /\ ~broken =>
        \A k \in DOMAIN Pending : Pending[k] # NL

\* filepos, which ftell() reports, is the position the program is at, also while
\* the descriptor is ahead of it or behind; ungetc() alone puts it out of step,
\* until the next fseek().
FilePosition ==
    pc = "idle" /\ ~broken /\ ~unread =>
        filepos = IF "WRITE" \in flags THEN pos + bytes ELSE pos - bytes

\* An output error is not forgotten: ferror() or feof() tells of it from then
\* on, though fseek() and a failing fwrite() do not look at what fflush() says.
OutputErrorKept == broken => flags \cap {"ERR", "EOF"} # {}

\* "Buffer has write data" (stdio.h): what a buffer with that flag holds, and
\* the next fflush() writes, is what the program wrote and the file lacks.
BufferHasWriteData == pc = "idle" /\ "WRITE" \in flags => Bytes(0, bytes) = owed
=============================================================================
