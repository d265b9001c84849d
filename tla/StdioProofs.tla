---------------------------- MODULE StdioProofs ----------------------------
(***************************************************************************)
(* A stdio stream, for any bytes, any sizes of buffer and slop, any kind   *)
(* of buffering and any system calls that fail.  First the invariant, then *)
(* the refinement: the stream implements OpenFile.                         *)
(***************************************************************************)
EXTENDS Stdio, WellFoundedInduction, TLAPS

Writes == "WRITE" \in flags
Place  == IF Writes THEN pos + bytes ELSE pos - bytes
NoNL(s) == \A k \in DOMAIN s : s[k] # NL

\* The types, a group of variables at a time.
FileTypes ==
    /\ file \in Seq(Byte) /\ pos \in Nat /\ pos <= Len(file)
    /\ buf \in [Cells -> Byte] /\ mode \in Modes
SizeTypes ==
    /\ offset \in Nat /\ offset <= SLOP + BUFSIZ /\ bytes \in Nat /\ bytes <= SLOP + BUFSIZ
    /\ from \in Nat /\ from <= BUFSIZ /\ count \in Nat /\ count <= MaxCount /\ filepos \in Nat
ControlTypes ==
    /\ flags \subseteq {"WRITE", "READ", "ERR", "EOF"} /\ last \in {"none", "input", "output"}
    /\ pc \in {"idle", "flush", "fill", "take", "refill", "seek"}
    /\ ret \in {"none", "fill", "pu", "seek", "idle", "done"}
    /\ pf \in BOOLEAN /\ unread \in BOOLEAN /\ broken \in BOOLEAN
DataTypes ==
    /\ todo \in Seq(Byte) /\ Len(todo) <= MaxCount
    /\ rest \in Seq(Byte) /\ Len(rest) <= MaxCount
    /\ moved \in Seq(Byte)
Types == FileTypes /\ SizeTypes /\ ControlTypes /\ DataTypes

\* What the program counter says of the other variables.
Control ==
    /\ (pc = "flush") <=> (ret # "none")
    /\ pc # "flush" => from = 0
    /\ pc = "fill" \/ ret \in {"fill", "pu", "idle"} => last = "output"
    /\ pc \in {"take", "refill"} => last = "input"
    /\ pf => pc = "fill" \/ ret \in {"fill", "pu"}

\* What is buffered is inside the buffer, and of one direction only.
Room ==
    /\ "READ" \in flags => last = "input"
    /\ Writes => from + bytes <= BUFSIZ
    /\ last = "none" \/ (last = "output" /\ ~Writes) => bytes = 0
    /\ last = "input" => offset + bytes <= SLOP + BUFSIZ
    /\ pc = "refill" => bytes = 0 /\ offset = SLOP

Sound == Types /\ Control /\ Room /\ OutputErrorKept

\* Until output fails: what is read ahead is what the file has there, and
\* filepos is the place the program is at.
Faith ==
    ~broken =>
        /\ Writes => last = "output"
        /\ pc = "seek" => ~Writes
        /\ ~Writes => /\ bytes <= pos
                      /\ \A k \in 1..bytes : buf[offset + k - 1] = file[pos - bytes + k]
        /\ ~unread => filepos = Place

\* A line-buffered stream: what _fwrite has still to do about newlines.
Lines ==
    mode = "line" /\ ~broken =>
        /\ NoNL(rest)
        /\ ~pf /\ (pc = "fill" \/ ret = "fill") => NoNL(todo)
        /\ ~pf /\ pc \in {"idle", "fill"} /\ Writes => \A k \in 0..(bytes - 1) : buf[k] # NL

Inv == Sound /\ Faith /\ Lines

-----------------------------------------------------------------------------
(* Sizes, strings and buffers *)

\* The sizes are positive.
LEMMA Sizes ==
    /\ BUFSIZ \in Nat /\ BUFSIZ > 0 /\ SLOP \in Nat /\ SLOP > 0
    /\ MaxCount \in Nat /\ MaxFile \in Nat /\ NL \in Byte
BY StdioAssumption

\* What Strings(n) has in it.
LEMMA StringsAre ==
    ASSUME NEW n \in Nat
    PROVE  \A s : s \in Strings(n) <=> s \in Seq(Byte) /\ Len(s) <= n
<1>1. ASSUME NEW s, s \in Strings(n) PROVE s \in Seq(Byte) /\ Len(s) <= n
  <2>1. PICK k \in 0..n : s \in [1..k -> Byte] BY <1>1 DEF Strings
  <2> QED BY <2>1
<1>2. ASSUME NEW s, s \in Seq(Byte), Len(s) <= n PROVE s \in Strings(n)
  <2>1. Len(s) \in 0..n /\ s \in [1..Len(s) -> Byte] BY <1>2
  <2> QED BY <2>1, Zenon DEF Strings
<1> QED BY <1>1, <1>2

\* Storing bytes in the buffer, cell by cell.
LEMMA StoreIs ==
    ASSUME buf \in [Cells -> Byte], NEW i \in Int, NEW bs \in Seq(Byte)
    PROVE  /\ Store(i, bs) \in [Cells -> Byte]
           /\ \A c \in Cells : Store(i, bs)[c] =
                 IF i <= c /\ c < i + Len(bs) THEN bs[c - i + 1] ELSE buf[c]
<1>1. ASSUME NEW c \in Cells, c \in i..(i + Len(bs) - 1) PROVE bs[c - i + 1] \in Byte
  <2>1. c \in Int BY Sizes DEF Cells
  <2>2. c - i + 1 \in 1..Len(bs) BY <1>1, <2>1
  <2> QED BY <2>2
<1>2. Store(i, bs) \in [Cells -> Byte] BY <1>1 DEF Store
<1>3. ASSUME NEW c \in Cells PROVE c \in i..(i + Len(bs) - 1) <=> (i <= c /\ c < i + Len(bs))
  BY Sizes DEF Cells
<1> QED BY <1>2, <1>3 DEF Store

\* Reading bytes from the buffer.
LEMMA BytesAre ==
    ASSUME buf \in [Cells -> Byte], NEW i \in Nat, NEW n \in Nat, i + n <= SLOP + BUFSIZ
    PROVE  /\ Bytes(i, n) \in Seq(Byte) /\ Len(Bytes(i, n)) = n
           /\ \A k \in 1..n : Bytes(i, n)[k] = buf[i + k - 1] /\ i + k - 1 \in Cells
<1>1. ASSUME NEW k \in 1..n PROVE i + k - 1 \in Cells
  BY Sizes DEF Cells
<1>2. Bytes(i, n) \in [1..n -> Byte] BY <1>1 DEF Bytes
<1>3. Bytes(i, n) \in Seq(Byte) /\ Len(Bytes(i, n)) = n BY <1>2
<1> QED BY <1>1, <1>3 DEF Bytes

\* The beginning of a sequence, and what follows it.
LEMMA Cut ==
    ASSUME NEW s \in Seq(Byte), NEW m \in Nat, NEW n \in Nat, n <= Len(s), m <= n
    PROVE  /\ SubSeq(s, m + 1, n) \in Seq(Byte) /\ Len(SubSeq(s, m + 1, n)) = n - m
           /\ \A k \in 1..(n - m) : SubSeq(s, m + 1, n)[k] = s[m + k]
<1>1. \A i \in m + 1..n : s[i] \in Byte OBVIOUS
<1>2. Len(SubSeq(s, m + 1, n)) = n - m /\ SubSeq(s, m + 1, n) \in Seq(Byte)
  <2>1. CASE m = n BY <2>1
  <2>2. CASE m < n BY <2>2
  <2> QED BY <2>1, <2>2
<1> QED BY <1>2

\* A set of natural numbers has a least element, a bounded one a greatest.
LEMMA LeastOf ==
    ASSUME NEW T \in SUBSET Nat, T # {} 
    PROVE  \E x \in T : \A y \in T : x <= y
<1> DEFINE R == OpToRel(<, Nat)
<1>1. IsWellFoundedOn(R, Nat) BY NatLessThanWellFounded
<1>2. \A x, y \in Nat : x < y => <<x, y>> \in R BY DEF OpToRel
<1> HIDE DEF R
<1>3. PICK x \in T : \A y \in T : ~(<<y, x>> \in R)
  BY <1>1, WFMin, Zenon
<1>4. \A y \in T : ~(y < x) BY <1>2, <1>3, Zenon
<1>5. \A y \in T : x <= y BY <1>4
<1> QED BY <1>5

\* The last of some places in a sequence: the newline that fwrite() looks for from the end.
LEMMA GreatestOf ==
    ASSUME NEW n \in Nat, NEW S \in SUBSET (0..n), S # {}
    PROVE  \E m \in S : \A k \in S : k <= m
<1> DEFINE T == {n - k : k \in S}
<1>1. \A k \in S : n - k \in T OBVIOUS
<1>2. \A t \in T : \E k \in S : t = n - k OBVIOUS
<1> HIDE DEF T
<1>3. T \in SUBSET Nat
  <2>1. \A t \in T : t \in Nat BY <1>2
  <2> QED BY <2>1
<1>4. T # {} BY <1>1, Zenon
<1>5. PICK x \in T : \A y \in T : x <= y BY <1>3, <1>4, LeastOf
<1>6. PICK m \in S : x = n - m BY <1>2
<1> QED BY <1>1, <1>5, <1>6

\* One sequence after another, place by place
LEMMA Concat ==
    ASSUME NEW s \in Seq(Byte), NEW t \in Seq(Byte)
    PROVE  /\ s \o t \in Seq(Byte) /\ Len(s \o t) = Len(s) + Len(t)
           /\ \A k \in 1..(Len(s) + Len(t)) :
                (s \o t)[k] = IF k <= Len(s) THEN s[k] ELSE t[k - Len(s)]
  BY SMT

\* Nothing after a sequence
LEMMA ConcatNothing ==
    ASSUME NEW s \in Seq(Byte)
    PROVE  s \o <<>> = s
  BY SMT

\* Sequences are the same when they are the same place by place.
LEMMA SameSeq ==
    ASSUME NEW s \in Seq(Byte), NEW t \in Seq(Byte), Len(s) = Len(t),
           \A k \in 1..Len(s) : s[k] = t[k]
    PROVE  s = t
  BY SMT

\* Sequence s with b written over it at place p: what a write() does to the
\* file, and what the promise says that it does.
Put(s, p, b) == SubSeq(s, 1, p) \o b \o SubSeq(s, p + Len(b) + 1, Len(s))

\* What a write leaves in the file, place by place.
LEMMA PutIs ==
    ASSUME NEW s \in Seq(Byte), NEW p \in Nat, p <= Len(s), NEW b \in Seq(Byte)
    PROVE  /\ Put(s, p, b) \in Seq(Byte)
           /\ Len(Put(s, p, b)) = IF p + Len(b) <= Len(s) THEN Len(s) ELSE p + Len(b)
           /\ \A k \in 1..Len(Put(s, p, b)) : Put(s, p, b)[k] =
                 IF p < k /\ k <= p + Len(b) THEN b[k - p] ELSE s[k]
<1> DEFINE x == SubSeq(s, 1, p)
           y == SubSeq(s, p + Len(b) + 1, Len(s))
<1>1. x \in Seq(Byte) /\ Len(x) = p /\ \A k \in 1..p : x[k] = s[k]
  BY Cut, 0 \in Nat
<1>2. x \o b \in Seq(Byte) /\ Len(x \o b) = p + Len(b)
      /\ \A k \in 1..(p + Len(b)) : (x \o b)[k] = IF k <= p THEN s[k] ELSE b[k - p]
  <2> HIDE DEF x
  <2>1. /\ x \o b \in Seq(Byte) /\ Len(x \o b) = Len(x) + Len(b)
        /\ \A k \in 1..(Len(x) + Len(b)) :
              (x \o b)[k] = IF k <= Len(x) THEN x[k] ELSE b[k - Len(x)]
    BY <1>1, Concat, Zenon
  <2> QED BY <1>1, <2>1
<1>3. CASE p + Len(b) <= Len(s)
  <2>1. PICK m \in Nat : m = p + Len(b) OBVIOUS
  <2>2. y \in Seq(Byte) /\ Len(y) = Len(s) - m /\ \A k \in 1..(Len(s) - m) : y[k] = s[m + k]
    BY <1>3, <2>1, Cut
  <2> DEFINE z == x \o b
  <2>3. z \in Seq(Byte) /\ Len(z) = m /\ \A k \in 1..m : z[k] = IF k <= p THEN s[k] ELSE b[k - p]
    BY <1>2, <2>1
  <2> HIDE DEF y, z
  <2>4. z \o y \in Seq(Byte) /\ Len(z \o y) = Len(s)
        /\ \A k \in 1..Len(s) : (z \o y)[k] = IF k <= m THEN z[k] ELSE s[k]
    <3>1. /\ z \o y \in Seq(Byte) /\ Len(z \o y) = Len(z) + Len(y)
          /\ \A k \in 1..(Len(z) + Len(y)) :
                (z \o y)[k] = IF k <= Len(z) THEN z[k] ELSE y[k - Len(z)]
      BY ONLY <2>2, <2>3, Concat, Zenon
    <3>2. Len(s) \in Nat OBVIOUS
    <3>3. Len(z) + Len(y) = Len(s) BY ONLY <2>1, <2>2, <2>3, <3>2
    <3>4. ASSUME NEW k \in 1..Len(s)
          PROVE  (z \o y)[k] = IF k <= m THEN z[k] ELSE s[k]
      <4>1. (z \o y)[k] = IF k <= m THEN z[k] ELSE y[k - m] BY ONLY <2>3, <3>1, <3>3, <3>4
      <4>2. ~(k <= m) => k - m \in 1..(Len(s) - m) /\ m + (k - m) = k BY ONLY <2>1, <3>2, <3>4
      <4>3. ~(k <= m) => y[k - m] = s[k] BY ONLY <2>2, <4>2
      <4> QED BY ONLY <4>1, <4>3
    <3> QED BY ONLY <3>1, <3>3, <3>4
  <2>5. Put(s, p, b) = z \o y BY DEF Put, z, y
  <2>6. \A k \in 1..Len(s) : (z \o y)[k] = IF p < k /\ k <= m THEN b[k - p] ELSE s[k]
    BY <1>3, <2>1, <2>3, <2>4
  <2> QED BY <1>3, <2>1, <2>4, <2>5, <2>6, Zenon
<1>4. CASE p + Len(b) > Len(s)
  <2>1. y = <<>> BY <1>4
  <2> DEFINE z == x \o b
  <2>2. z \in Seq(Byte) /\ Len(z) = p + Len(b)
        /\ \A k \in 1..(p + Len(b)) : z[k] = IF k <= p THEN s[k] ELSE b[k - p]
    BY <1>2
  <2>3. Put(s, p, b) = z \o <<>> BY <2>1, Zenon DEF Put
  <2> HIDE DEF z
  <2>4. z \o <<>> = z BY <2>2, ConcatNothing
  <2> QED BY <1>4, <2>2, <2>3, <2>4
<1> QED BY <1>3, <1>4

-----------------------------------------------------------------------------
(* The invariant: types, control and room *)

\* A stream that was just opened is empty.
LEMMA InitInv == Init => Inv
<1> SUFFICES ASSUME Init PROVE Inv OBVIOUS
<1> USE Sizes DEF Init
<1>1. file \in Seq(Byte) BY StringsAre
<1>2. buf \in [Cells -> Byte] OBVIOUS
<1>3. Types
  <2>1. FileTypes BY <1>1, <1>2 DEF FileTypes
  <2>2. SizeTypes BY DEF SizeTypes
  <2>3. ControlTypes BY Zenon DEF ControlTypes
  <2>4. <<>> \in Seq(Byte) /\ Len(<<>>) = 0 OBVIOUS
  <2>5. DataTypes BY <2>4 DEF DataTypes
  <2> QED BY <2>1, <2>2, <2>3, <2>5 DEF Types
<1>4. Control /\ Room /\ OutputErrorKept BY DEF Control, Room, OutputErrorKept, Writes
<1>5. Faith BY DEF Faith, Writes, Place
<1>6. Lines BY DEF Lines, Writes, NoNL
<1> QED BY <1>3, <1>4, <1>5, <1>6 DEF Inv, Sound

\* The calls that begin something: fflush(), fseek(), fread() and fwrite().
LEMMA CallSound ==
    ASSUME Sound, fflush \/ fseek \/ \E n \in 1..MaxCount : fread(n)
    PROVE  Sound'
<1> USE Sizes
<1>1. CASE fflush \/ fseek
  <2>1. FileTypes' /\ DataTypes' BY <1>1 DEF Sound, Types, FileTypes, DataTypes, fflush, fseek
  <2>2. SizeTypes' BY <1>1 DEF Sound, Types, SizeTypes, fflush, fseek, Calls
  <2>3. ControlTypes' BY <1>1, Zenon DEF Sound, Types, ControlTypes, fflush, fseek, Calls
  <2>4. Control' BY <1>1 DEF Sound, Control, fflush, fseek, Calls
  <2>5. Room' BY <1>1 DEF Sound, Types, SizeTypes, Control, Room, Writes, fflush, fseek, Calls
  <2>6. OutputErrorKept' BY <1>1, Zenon DEF Sound, OutputErrorKept, fflush, fseek
  <2> QED BY <2>1, <2>2, <2>3, <2>4, <2>5, <2>6 DEF Sound, Types
<1>2. ASSUME NEW n \in 1..MaxCount, fread(n) PROVE Sound'
  <2>1. FileTypes' /\ DataTypes' BY <1>2 DEF Sound, Types, FileTypes, DataTypes, fread
  <2>2. SizeTypes' BY <1>2 DEF Sound, Types, SizeTypes, fread
  <2>3. ControlTypes' BY <1>2 DEF Sound, Types, ControlTypes, fread
  <2>4. Control' BY <1>2 DEF Sound, Control, fread
  <2>5. Room' BY <1>2 DEF Sound, Types, SizeTypes, ControlTypes, Control, Room, Writes, fread
  <2>6. OutputErrorKept' BY <1>2 DEF Sound, OutputErrorKept, fread
  <2> QED BY <2>1, <2>2, <2>3, <2>4, <2>5, <2>6 DEF Sound, Types
<1> QED BY <1>1, <1>2

\* fwrite() divides what it is given, and writes nothing yet.
LEMMA Divides ==
    ASSUME Types, NEW bs \in Strings(MaxCount), fwrite(bs)
    PROVE  /\ todo' \in Seq(Byte) /\ Len(todo') <= MaxCount
           /\ rest' \in Seq(Byte) /\ Len(rest') <= MaxCount
           /\ mode = "line" => NoNL(rest') /\ (~pf' => NoNL(todo'))
           /\ pf' \in BOOLEAN
<1> DEFINE ends == IF mode = "line" THEN LineEnds(bs) ELSE {}
           n    == IF ends = {} THEN 0 ELSE CHOOSE m \in ends : \A k \in ends : k <= m
<1>1. bs \in Seq(Byte) /\ Len(bs) <= MaxCount BY StringsAre, Sizes
<1>n. n = IF ends = {} THEN 0 ELSE CHOOSE m \in ends : \A k \in ends : k <= m OBVIOUS
<1>e. ends = IF mode = "line" THEN LineEnds(bs) ELSE {} OBVIOUS
<1>f. /\ IF n > 0 THEN todo' = SubSeq(bs, 1, n) /\ rest' = SubSeq(bs, n + 1, Len(bs))
         ELSE todo' = bs /\ rest' = <<>>
      /\ pf' = (n > 0)
  BY DEF fwrite
<1> HIDE DEF n, ends
<1>g. pf' = (n > 0) BY ONLY <1>f
<1>2. CASE ends = {}
  <2>1. n = 0 BY <1>2, <1>n
  <2>2. todo' = bs /\ rest' = <<>> BY <1>f, <2>1
  <2>a. ~(n > 0) BY <2>1
  <2>b. ~pf' BY ONLY <1>g, <2>a, Zenon
  <2>3. ~pf' /\ pf' \in BOOLEAN BY <1>g, <2>1, <2>b
  <2>4. mode = "line" => NoNL(bs) BY <1>1, <1>2, <1>e DEF LineEnds, NoNL
  <2>5. NoNL(<<>>) BY DEF NoNL
  <2> QED BY <1>1, <2>2, <2>3, <2>4, <2>5, Sizes
<1>3. CASE ends # {}
  <2>1. ends \in SUBSET (0..Len(bs)) /\ mode = "line" /\ Len(bs) \in Nat
    BY <1>1, <1>3, <1>e DEF LineEnds
  <2>2. \E m \in ends : \A k \in ends : k <= m BY <1>3, <2>1, GreatestOf, Zenon
  <2>3. n \in ends /\ \A k \in ends : k <= n BY <1>3, <1>n, <2>2
  <2>4. n \in Nat /\ n > 0 /\ n <= Len(bs) BY <1>1, <1>e, <2>1, <2>3 DEF LineEnds
  <2>5. \A k \in (n + 1)..Len(bs) : bs[k] # NL
    <3>1. \A k \in 1..Len(bs) : bs[k] = NL => k <= n BY <1>e, <2>1, <2>3 DEF LineEnds
    <3> QED BY <2>1, <2>4, <3>1
  <2>6. todo' = SubSeq(bs, 1, n) /\ rest' = SubSeq(bs, n + 1, Len(bs)) /\ pf' \in BOOLEAN /\ pf'
    BY <1>f, <1>g, <2>4, Zenon
  <2>7. todo' \in Seq(Byte) /\ Len(todo') = n
    <3>1. SubSeq(bs, 0 + 1, n) \in Seq(Byte) /\ Len(SubSeq(bs, 0 + 1, n)) = n - 0 BY <1>1, <2>4, Cut
    <3> QED BY <2>4, <2>6, <3>1
  <2>8. rest' \in Seq(Byte) /\ Len(rest') = Len(bs) - n
        /\ \A k \in 1..(Len(bs) - n) : rest'[k] = bs[n + k]
    BY <1>1, <2>4, <2>6, Cut
  <2>9. NoNL(rest') BY <1>1, <2>4, <2>5, <2>8, SMTT(60) DEF NoNL
  <2> QED BY <1>1, <2>4, <2>6, <2>7, <2>8, <2>9, Sizes
<1> QED BY <1>2, <1>3

\* fwrite() begins with the part that is flushed, or with the other one.
LEMMA WriteCallSound ==
    ASSUME Sound, NEW bs \in Strings(MaxCount), fwrite(bs)
    PROVE  Sound'
<1> USE Sizes
<1>1. FileTypes' BY DEF Sound, Types, FileTypes, fwrite
<1>2. SizeTypes' BY DEF Sound, Types, SizeTypes, fwrite
<1>3. Types BY DEF Sound
<1>4. DataTypes' /\ pf' \in BOOLEAN
  <2>1. moved' = moved BY DEF fwrite
  <2> QED BY <1>3, <2>1, Divides DEF Types, DataTypes
<1>5. ControlTypes' BY <1>4 DEF Sound, Types, ControlTypes, fwrite
<1>6. Control' BY DEF Sound, Control, fwrite
<1>7. Room' BY DEF Sound, Types, SizeTypes, ControlTypes, Control, Room, Writes, fwrite
<1>8. OutputErrorKept' BY DEF Sound, OutputErrorKept, fwrite
<1> QED BY <1>1, <1>2, <1>4, <1>5, <1>6, <1>7, <1>8 DEF Sound, Types

\* What a write() of rv bytes does to the file and to the numbers.
LEMMA WriteIs ==
    ASSUME Types, Room, flush_write
    PROVE  \E rv \in 1..bytes :
             /\ rv \in Nat /\ rv > 0 /\ rv <= bytes
             /\ Bytes(from, rv) \in Seq(Byte) /\ Len(Bytes(from, rv)) = rv
             /\ file' = Put(file, pos, Bytes(from, rv))
             /\ pos' = pos + rv /\ from' = from + rv /\ bytes' = bytes - rv
<1> USE Sizes
<1>1. PICK rv \in 1..bytes :
         /\ file' = SubSeq(file, 1, pos) \o Bytes(from, rv) \o SubSeq(file, pos + rv + 1, Len(file))
         /\ pos' = pos + rv /\ from' = Advance(rv) /\ bytes' = bytes - rv
  BY Zenon DEF flush_write
<1>2. rv \in Nat /\ rv > 0 /\ rv <= bytes BY DEF Types, SizeTypes
<1>3. from + rv <= SLOP + BUFSIZ /\ from \in Nat
  BY <1>2 DEF Types, SizeTypes, Room, Writes, flush_write
<1>4. Bytes(from, rv) \in Seq(Byte) /\ Len(Bytes(from, rv)) = rv
  BY <1>2, <1>3, BytesAre DEF Types, FileTypes
<1>5. file' = Put(file, pos, Bytes(from, rv)) BY <1>1, <1>4 DEF Put
<1> QED BY <1>1, <1>2, <1>4, <1>5, Zenon DEF Advance

\* write() in fflush()
LEMMA FlushWriteSound ==
    ASSUME Sound, flush_write
    PROVE  Sound'
<1> USE Sizes
<1>0. Types /\ Room BY DEF Sound
<1>1. PICK rv \in 1..bytes :
         /\ rv \in Nat /\ rv > 0 /\ rv <= bytes
         /\ Bytes(from, rv) \in Seq(Byte) /\ Len(Bytes(from, rv)) = rv
         /\ file' = Put(file, pos, Bytes(from, rv))
         /\ pos' = pos + rv /\ from' = from + rv /\ bytes' = bytes - rv
  BY <1>0, WriteIs
<1>2. file' \in Seq(Byte) /\ pos' \in Nat /\ pos' <= Len(file')
  BY <1>0, <1>1, PutIs, SMTT(60) DEF Types, FileTypes
<1>3. FileTypes' BY <1>2, Zenon DEF Sound, Types, FileTypes, flush_write
<1>4. SizeTypes' BY <1>1, SMTT(60) DEF Sound, Types, SizeTypes, Room, Writes, flush_write
<1>5. ControlTypes' /\ DataTypes' BY Zenon DEF Sound, Types, ControlTypes, DataTypes, flush_write
<1>6. Control' BY Zenon DEF Sound, Control, flush_write
<1>7. Room' BY <1>1, SMTT(60) DEF Sound, Types, SizeTypes, Control, Room, Writes, flush_write
<1>8. OutputErrorKept' BY DEF Sound, OutputErrorKept, flush_write
<1> QED BY <1>3, <1>4, <1>5, <1>6, <1>7, <1>8 DEF Sound, Types

\* A write() that fails
LEMMA FlushFailsSound ==
    ASSUME Sound, flush_fails
    PROVE  Sound'
<1> USE Sizes
<1>1. PICK e \in {"ERR", "EOF"} : flags' = flags \cup {e} BY DEF flush_fails
<1>2. /\ from' = 0 /\ UNCHANGED <<file, pos, buf, offset, bytes, filepos, mode, count, last, moved, unread>>
      /\ todo' = <<>> /\ rest' = <<>>
      /\ \/ ret = "fill" /\ pf /\ pc' = "flush" /\ ret' = "idle"
         \/ pc' \in {"seek", "idle"} /\ ret' = "none"
  BY DEF flush_fails, Calls
<1>3. FileTypes' /\ SizeTypes' BY <1>2 DEF Sound, Types, FileTypes, SizeTypes
<1>4. DataTypes'
  <2>1. <<>> \in Seq(Byte) /\ Len(<<>>) = 0 OBVIOUS
  <2> QED BY <1>2, <2>1 DEF Sound, Types, DataTypes
<1>5. pf' = FALSE /\ broken' = TRUE BY DEF flush_fails
<1>6. ControlTypes' BY <1>1, <1>2, <1>5, Zenon DEF Sound, Types, ControlTypes
<1>7. Control' BY <1>2, <1>5 DEF Sound, Control
<1>8. Room' BY <1>1, <1>2 DEF Sound, Types, SizeTypes, Room, Writes
<1>9. OutputErrorKept' BY <1>1 DEF OutputErrorKept
<1> QED BY <1>3, <1>4, <1>6, <1>7, <1>8, <1>9 DEF Sound, Types

\* The end of fflush(), which may be the end of a chunk of fwrite()
LEMMA FlushEndSound ==
    ASSUME Sound, flush_end
    PROVE  Sound'
<1> USE Sizes
<1>1. FileTypes' BY DEF Sound, Types, FileTypes, flush_end
<1>2. SizeTypes' BY DEF Sound, Types, SizeTypes, flush_end
<1>3. DataTypes'
  <2>1. <<>> \in Seq(Byte) /\ Len(<<>>) = 0 OBVIOUS
  <2> QED BY <2>1 DEF Sound, Types, DataTypes, flush_end
<1>4. flags' = flags \ {"WRITE"} BY DEF flush_end, FlushedFlags
<1>5. pf' \in BOOLEAN BY DEF flush_end
<1>6. pc' \in {"idle", "fill", "seek"}
  BY DEF Sound, Types, ControlTypes, Control, flush_end
<1>7. ControlTypes' BY <1>4, <1>5, <1>6 DEF Sound, Types, ControlTypes, flush_end
<1>8. Control'
  <2>1. pc' # "flush" /\ ret' = "none" /\ from' = 0 BY <1>6 DEF flush_end
  <2>2. pc' = "fill" => ret \in {"fill", "pu"}
    BY DEF Sound, Types, ControlTypes, Control, flush_end
  <2>3. ret \in {"fill", "pu"} => last' = last /\ last = "output"
    BY DEF Sound, Control, flush_end
  <2>4. pf' => ret = "fill" BY Zenon DEF Sound, Control, flush_end
  <2>5. ret = "fill" => pc' = "fill" BY DEF flush_end
  <2> QED BY <1>6, <2>1, <2>2, <2>3, <2>4, <2>5 DEF Control
<1>9. Room'
  <2>1. bytes' = bytes /\ ("WRITE" \notin flags \/ bytes = 0) BY DEF flush_end
  <2>2. offset' = IF "WRITE" \in flags THEN SLOP ELSE offset BY DEF flush_end
  <2>3. last' = last \/ (last = "output" /\ last' = "none") BY DEF flush_end
  <2> QED BY <1>4, <1>6, <2>1, <2>2, <2>3 DEF Sound, Types, SizeTypes, Room, Writes
<1>10. OutputErrorKept' BY <1>4 DEF Sound, OutputErrorKept, flush_end
<1> QED BY <1>1, <1>2, <1>3, <1>7, <1>8, <1>9, <1>10 DEF Sound, Types

\* One turn of the loop of fwrite_noflush, in numbers and sequences.
LEMMA FillIs ==
    ASSUME Types, Control, Room, fill
    PROVE  \E nb \in Nat :
             /\ nb <= Len(todo) /\ bytes + nb <= BUFSIZ
             /\ moved' \in Seq(Byte) /\ Len(moved') = nb
             /\ \A k \in 1..nb : moved'[k] = todo[k]
             /\ todo' \in Seq(Byte) /\ Len(todo') = Len(todo) - nb
             /\ \A k \in 1..(Len(todo) - nb) : todo'[k] = todo[nb + k]
             /\ buf' = Store(bytes, moved')
             /\ bytes' = bytes + nb /\ filepos' = filepos + nb
             /\ flags' = IF nb > 0 THEN flags \cup {"WRITE"} ELSE flags
             /\ nb = Len(todo) \/ bytes + nb = BUFSIZ
             /\ IF nb < Len(todo) THEN pc' = "flush" /\ ret' = "fill" /\ from' = 0
                ELSE IF pf THEN pc' = "flush" /\ ret' = "pu" /\ from' = 0
                ELSE pc' = "idle" /\ UNCHANGED <<ret, from>>
<1> USE Sizes
<1>1. bytes \in Nat /\ bytes <= BUFSIZ
  BY DEF Types, SizeTypes, ControlTypes, Control, Room, Writes, fill
<1>2. todo \in Seq(Byte) /\ Len(todo) \in Nat BY DEF Types, DataTypes
<1>3. PICK nb \in Nat : nb = Least(Len(todo), BUFSIZ - bytes) BY <1>1, <1>2 DEF Least
<1>4. nb <= Len(todo) /\ bytes + nb <= BUFSIZ /\ (nb = Len(todo) \/ bytes + nb = BUFSIZ)
  BY <1>1, <1>2, <1>3 DEF Least
<1>5. moved' = SubSeq(todo, 0 + 1, nb) /\ todo' = SubSeq(todo, nb + 1, Len(todo))
  BY <1>3 DEF fill
<1>6. /\ moved' \in Seq(Byte) /\ Len(moved') = nb
      /\ \A k \in 1..nb : moved'[k] = todo[k]
  <2>1. /\ SubSeq(todo, 0 + 1, nb) \in Seq(Byte) /\ Len(SubSeq(todo, 0 + 1, nb)) = nb - 0
        /\ \A k \in 1..(nb - 0) : SubSeq(todo, 0 + 1, nb)[k] = todo[0 + k]
    BY <1>2, <1>4, Cut
  <2> QED BY <1>2, <1>5, <2>1
<1>7. /\ todo' \in Seq(Byte) /\ Len(todo') = Len(todo) - nb
      /\ \A k \in 1..(Len(todo) - nb) : todo'[k] = todo[nb + k]
  BY <1>2, <1>4, <1>5, Cut
<1>8. buf' = Store(bytes, moved') BY <1>3, Zenon DEF fill, Store
<1>9. /\ bytes' = bytes + nb /\ filepos' = filepos + nb
      /\ flags' = IF nb > 0 THEN flags \cup {"WRITE"} ELSE flags
      /\ IF nb < Len(todo) THEN pc' = "flush" /\ ret' = "fill" /\ from' = 0
         ELSE IF pf THEN pc' = "flush" /\ ret' = "pu" /\ from' = 0
         ELSE pc' = "idle" /\ UNCHANGED <<ret, from>>
  BY <1>3 DEF fill, Calls
<1> QED BY <1>4, <1>6, <1>7, <1>8, <1>9, Zenon

\* fwrite_noflush keeps to the buffer.
LEMMA FillSound ==
    ASSUME Sound, fill
    PROVE  Sound'
<1> USE Sizes
<1>0. Types /\ Control /\ Room BY DEF Sound
<1>1. PICK nb \in Nat :
         /\ nb <= Len(todo) /\ bytes + nb <= BUFSIZ
         /\ moved' \in Seq(Byte) /\ Len(moved') = nb
         /\ \A k \in 1..nb : moved'[k] = todo[k]
         /\ todo' \in Seq(Byte) /\ Len(todo') = Len(todo) - nb
         /\ \A k \in 1..(Len(todo) - nb) : todo'[k] = todo[nb + k]
         /\ buf' = Store(bytes, moved')
         /\ bytes' = bytes + nb /\ filepos' = filepos + nb
         /\ flags' = IF nb > 0 THEN flags \cup {"WRITE"} ELSE flags
         /\ nb = Len(todo) \/ bytes + nb = BUFSIZ
         /\ IF nb < Len(todo) THEN pc' = "flush" /\ ret' = "fill" /\ from' = 0
            ELSE IF pf THEN pc' = "flush" /\ ret' = "pu" /\ from' = 0
            ELSE pc' = "idle" /\ UNCHANGED <<ret, from>>
  BY <1>0, FillIs, Zenon
<1>2. buf' \in [Cells -> Byte]
  <2>1. bytes \in Int BY <1>0 DEF Types, SizeTypes
  <2> QED BY <1>0, <1>1, <2>1, StoreIs, Zenon DEF Types, FileTypes
<1>3. FileTypes' BY <1>2, Zenon DEF Sound, Types, FileTypes, fill
<1>4. from' = 0 /\ pc = "fill" /\ last = "output"
  BY <1>1, Zenon DEF Sound, Control, fill
<1>5. SizeTypes'
  <2>1. offset' = offset /\ count' = count BY DEF fill
  <2>2. SizeTypes BY DEF Sound, Types
  <2> QED BY ONLY <1>1, <1>4, <2>1, <2>2, Sizes, SMTT(60) DEF SizeTypes
<1>6. /\ pc' \in {"flush", "idle"} /\ (pc' = "flush") <=> (ret' # "none")
      /\ pc' = "flush" => ret' \in {"fill", "pu"}
  BY <1>1, <1>4, Zenon DEF Sound, Control
<1>7. pf' = pf /\ last' = last /\ unread' = unread /\ broken' = broken /\ rest' = rest
  BY Zenon DEF fill
<1>8. ControlTypes' BY <1>1, <1>6, <1>7, Zenon DEF Sound, Types, ControlTypes
<1>9. DataTypes' BY <1>1, <1>7 DEF Sound, Types, DataTypes
<1>10. Control' BY <1>1, <1>4, <1>6, <1>7, Zenon DEF Sound, Types, ControlTypes, Control
<1>11. Room'
  <2>1. "READ" \notin flags /\ "READ" \notin flags' BY <1>1, <1>4, Zenon DEF Sound, Room
  <2>2. "WRITE" \notin flags' => bytes' = 0
    <3>1. CASE nb > 0 BY <1>1, <3>1, Zenon
    <3>2. CASE nb = 0 BY <1>1, <1>4, <3>2 DEF Sound, Types, SizeTypes, Room, Writes
    <3> QED BY <3>1, <3>2
  <2> QED BY <1>1, <1>4, <1>6, <1>7, <2>1, <2>2, SMTT(60) DEF Sound, Types, SizeTypes, Room, Writes
<1>12. OutputErrorKept' BY <1>1, <1>7, Zenon DEF Sound, OutputErrorKept
<1> QED BY <1>3, <1>5, <1>8, <1>9, <1>10, <1>11, <1>12, Zenon DEF Sound, Types

\* What take does, in numbers.
LEMMA TakeIs ==
    ASSUME Types, Control, Room, take
    PROVE  \E nb \in Nat :
             /\ nb <= bytes /\ nb <= count
             /\ nb = count \/ nb = bytes
             /\ moved' = Bytes(offset, nb)
             /\ moved' \in Seq(Byte) /\ Len(moved') = nb
             /\ \A k \in 1..nb : moved'[k] = buf[offset + k - 1]
             /\ offset' = IF nb < count THEN SLOP ELSE offset + nb
             /\ bytes' = bytes - nb /\ filepos' = filepos + nb
             /\ flags' = IF nb > 0 /\ nb = bytes THEN flags \ {"READ"} ELSE flags
             /\ count' = count - nb
             /\ pc' = IF nb < count THEN "refill" ELSE "idle"
<1> USE Sizes
<1>1. bytes \in Nat /\ count \in Nat /\ offset \in Nat /\ offset + bytes <= SLOP + BUFSIZ
  BY Zenon DEF Types, SizeTypes, Control, Room, take
<1>2. PICK nb \in Nat : nb = Least(count, bytes) BY <1>1 DEF Least
<1>3. nb <= bytes /\ nb <= count /\ (nb = count \/ nb = bytes) BY <1>1, <1>2 DEF Least
<1>4. /\ moved' = Bytes(offset, nb)
      /\ offset' = IF nb < count THEN SLOP ELSE offset + nb
      /\ bytes' = bytes - nb /\ filepos' = filepos + nb
      /\ flags' = IF nb > 0 /\ nb = bytes THEN flags \ {"READ"} ELSE flags
      /\ count' = count - nb
      /\ pc' = IF nb < count THEN "refill" ELSE "idle"
  BY <1>2, Zenon DEF take
<1>5. /\ moved' \in Seq(Byte) /\ Len(moved') = nb
      /\ \A k \in 1..nb : moved'[k] = buf[offset + k - 1]
  <2>1. offset + nb <= SLOP + BUFSIZ BY <1>1, <1>3
  <2> QED BY <1>1, <1>4, <2>1, BytesAre, SMTT(60) DEF Types, FileTypes
<1> QED BY <1>3, <1>4, <1>5, Zenon

\* fread() takes what is there.
LEMMA TakeSound ==
    ASSUME Sound, take
    PROVE  Sound'
<1> USE Sizes
<1>0. Types /\ Control /\ Room BY DEF Sound
<1>1. PICK nb \in Nat :
         /\ nb <= bytes /\ nb <= count
         /\ nb = count \/ nb = bytes
         /\ moved' \in Seq(Byte)
         /\ offset' = IF nb < count THEN SLOP ELSE offset + nb
         /\ bytes' = bytes - nb /\ filepos' = filepos + nb
         /\ flags' = IF nb > 0 /\ nb = bytes THEN flags \ {"READ"} ELSE flags
         /\ count' = count - nb
         /\ pc' = IF nb < count THEN "refill" ELSE "idle"
  BY <1>0, TakeIs, Zenon
<1>2. pc = "take" /\ UNCHANGED <<file, pos, buf, mode, ret, todo, rest, pf, from, last, unread, broken>>
  BY Zenon DEF take
<1>3. last = "input" /\ from = 0 /\ ret = "none" BY <1>0, <1>2 DEF Control
<1>4. bytes \in Nat /\ count \in Nat /\ offset \in Nat /\ offset + bytes <= SLOP + BUFSIZ
  BY <1>0, <1>3 DEF Types, SizeTypes, Room
<1>5. FileTypes' BY <1>0, <1>2 DEF Types, FileTypes
<1>6. SizeTypes' BY <1>0, <1>1, <1>2, <1>4, SMTT(60) DEF Types, SizeTypes
<1>7. ControlTypes' BY <1>0, <1>1, <1>2, Zenon DEF Types, ControlTypes
<1>8. DataTypes' BY <1>0, <1>1, <1>2, Zenon DEF Types, DataTypes
<1>9. Control' BY <1>0, <1>1, <1>2, <1>3, Zenon DEF Control
<1>10. Room'
  <2>1. "WRITE" \in flags' <=> "WRITE" \in flags BY <1>1
  <2>2. offset' + bytes' <= SLOP + BUFSIZ BY <1>1, <1>4
  <2>3. pc' = "refill" => bytes' = 0 /\ offset' = SLOP BY <1>1, <1>4
  <2> QED BY <1>0, <1>1, <1>2, <1>3, <1>4, <2>1, <2>2, <2>3 DEF Room, Writes
<1>11. OutputErrorKept' BY <1>1, <1>2, Zenon DEF Sound, OutputErrorKept
<1> QED BY <1>5, <1>6, <1>7, <1>8, <1>9, <1>10, <1>11 DEF Sound, Types

\* What a read() of rv bytes does, in numbers.
LEMMA RefillIs ==
    ASSUME Types, refill
    PROVE  \/ \E rv \in Nat :
                /\ rv > 0 /\ rv <= BUFSIZ /\ pos + rv <= Len(file)
                /\ \E bs \in Seq(Byte) :
                      /\ Len(bs) = rv /\ buf' = Store(SLOP, bs)
                      /\ \A k \in 1..rv : bs[k] = file[pos + k]
                /\ pos' = pos + rv /\ bytes' = rv /\ flags' = flags \cup {"READ"}
                /\ pc' = "take" /\ count' = count
           \/ /\ pc' = "idle" /\ count' = 0 /\ pos' = pos /\ buf' = buf /\ bytes' = bytes
              /\ flags' = flags \cup {"EOF"} \/ flags' = flags \cup {"ERR"}
<1> USE Sizes
<1>1. file \in Seq(Byte) /\ pos \in Nat /\ pos <= Len(file) /\ Len(file) \in Nat
  BY DEF Types, FileTypes
<1>2. ASSUME NEW rv \in 1..Least(BUFSIZ, Len(file) - pos),
             buf' = Store(SLOP, SubSeq(file, pos + 1, pos + rv))
      PROVE  /\ rv \in Nat /\ rv > 0 /\ rv <= BUFSIZ /\ pos + rv <= Len(file)
             /\ \E bs \in Seq(Byte) :
                   /\ Len(bs) = rv /\ buf' = Store(SLOP, bs)
                   /\ \A k \in 1..rv : bs[k] = file[pos + k]
  <2>1. rv \in Nat /\ rv > 0 /\ rv <= BUFSIZ /\ pos + rv <= Len(file)
    BY <1>1 DEF Least
  <2>2. PICK n \in Nat : n = pos + rv BY <1>1, <2>1
  <2>3. /\ SubSeq(file, pos + 1, n) \in Seq(Byte) /\ Len(SubSeq(file, pos + 1, n)) = n - pos
        /\ \A k \in 1..(n - pos) : SubSeq(file, pos + 1, n)[k] = file[pos + k]
    BY <1>1, <2>1, <2>2, Cut, SMTT(60)
  <2>4. n - pos = rv BY <1>1, <2>1, <2>2
  <2> QED BY <1>2, <2>1, <2>2, <2>3, <2>4, Zenon
<1>3. \/ \E rv \in 1..Least(BUFSIZ, Len(file) - pos) :
            /\ buf' = Store(SLOP, SubSeq(file, pos + 1, pos + rv))
            /\ pos' = pos + rv /\ bytes' = rv /\ flags' = flags \cup {"READ"}
            /\ pc' = "take" /\ count' = count
      \/ /\ pc' = "idle" /\ count' = 0 /\ pos' = pos /\ buf' = buf /\ bytes' = bytes
         /\ flags' = flags \cup {"EOF"} \/ flags' = flags \cup {"ERR"}
  BY Zenon DEF refill
<1> QED BY <1>2, <1>3, Zenon

\* read() in fread()
LEMMA RefillSound ==
    ASSUME Sound, refill
    PROVE  Sound'
<1> USE Sizes
<1>0. Types /\ Control /\ Room BY DEF Sound
<1>1. /\ pc = "refill"
      /\ UNCHANGED <<file, offset, filepos, mode, ret, todo, rest, pf, from, last, moved, unread, broken>>
  BY Zenon DEF refill
<1>2. /\ last = "input" /\ from = 0 /\ ret = "none" /\ bytes = 0 /\ offset = SLOP
  BY <1>0, <1>1, Zenon DEF Control, Room
<1>3. \E rv \in Nat :
         /\ rv <= BUFSIZ /\ pos' \in Nat /\ pos' <= Len(file) /\ bytes' = rv
         /\ buf' \in [Cells -> Byte]
         /\ pc' \in {"take", "idle"} /\ count' \in {count, 0}
         /\ \E f \in {"READ", "EOF", "ERR"} : flags' = flags \cup {f}
  <2>1. CASE \E rv \in Nat :
                /\ rv > 0 /\ rv <= BUFSIZ /\ pos + rv <= Len(file)
                /\ \E bs \in Seq(Byte) :
                      /\ Len(bs) = rv /\ buf' = Store(SLOP, bs)
                      /\ \A k \in 1..rv : bs[k] = file[pos + k]
                /\ pos' = pos + rv /\ bytes' = rv /\ flags' = flags \cup {"READ"}
                /\ pc' = "take" /\ count' = count
    <3>1. PICK rv \in Nat :
                /\ rv > 0 /\ rv <= BUFSIZ /\ pos + rv <= Len(file)
                /\ \E bs \in Seq(Byte) : Len(bs) = rv /\ buf' = Store(SLOP, bs)
                /\ pos' = pos + rv /\ bytes' = rv /\ flags' = flags \cup {"READ"}
                /\ pc' = "take" /\ count' = count
      BY <2>1, Zenon
    <3>2. PICK bs \in Seq(Byte) : buf' = Store(SLOP, bs) BY <3>1
    <3>3. buf' \in [Cells -> Byte]
      <4>1. SLOP \in Int /\ buf \in [Cells -> Byte] BY <1>0 DEF Types, FileTypes
      <4> QED BY <3>2, <4>1, StoreIs, Zenon
    <3>4. pos' \in Nat /\ pos' <= Len(file) BY <1>0, <3>1 DEF Types, FileTypes
    <3> QED BY <3>1, <3>3, <3>4, Zenon
  <2>2. CASE /\ pc' = "idle" /\ count' = 0 /\ pos' = pos /\ buf' = buf /\ bytes' = bytes
             /\ flags' = flags \cup {"EOF"} \/ flags' = flags \cup {"ERR"}
    BY <1>0, <1>2, <2>2 DEF Types, FileTypes
  <2> QED BY <1>0, <2>1, <2>2, RefillIs, Zenon
<1>4. FileTypes' BY <1>0, <1>1, <1>3, Zenon DEF Types, FileTypes
<1>5. SizeTypes' BY <1>0, <1>1, <1>2, <1>3 DEF Types, SizeTypes
<1>6. ControlTypes' BY <1>0, <1>1, <1>3 DEF Types, ControlTypes
<1>7. DataTypes' BY <1>0, <1>1 DEF Types, DataTypes
<1>8. Control' BY <1>0, <1>1, <1>2, <1>3, Zenon DEF Control
<1>9. Room'
  <2>1. "WRITE" \in flags' <=> "WRITE" \in flags BY <1>3
  <2> QED BY <1>0, <1>1, <1>2, <1>3, <2>1 DEF Room, Writes
<1>10. OutputErrorKept' BY <1>1, <1>3, Zenon DEF Sound, OutputErrorKept
<1> QED BY <1>4, <1>5, <1>6, <1>7, <1>8, <1>9, <1>10, Zenon DEF Sound, Types

\* ungetc() keeps to the slop.
LEMMA UngetSound ==
    ASSUME Sound, ungetc
    PROVE  Sound'
<1> USE Sizes
<1>0. Types /\ Control /\ Room BY DEF Sound
<1>1. /\ pc = "idle" /\ last = "input" /\ pos - bytes > 0 /\ "WRITE" \notin flags /\ offset > 0
      /\ buf' = Store(offset - 1, <<file[pos - bytes]>>)
      /\ offset' = offset - 1 /\ bytes' = bytes + 1 /\ unread' = TRUE
      /\ flags' = flags \cup {"READ"}
      /\ UNCHANGED <<file, pos, filepos, mode, pc, ret, todo, rest, pf, from, count, last,
                     moved, broken>>
  BY Zenon DEF ungetc, RoomToUnget
<1>2. bytes \in Nat /\ offset \in Nat /\ offset + bytes <= SLOP + BUFSIZ
  BY <1>0, <1>1, Zenon DEF Types, SizeTypes, Room
<1>3. <<file[pos - bytes]>> \in Seq(Byte)
  <2>1. pos - bytes \in 1..Len(file) BY <1>0, <1>1, <1>2 DEF Types, FileTypes
  <2>2. file[pos - bytes] \in Byte BY <1>0, <2>1 DEF Types, FileTypes
  <2> QED BY <2>2
<1>4. buf' \in [Cells -> Byte]
  <2>1. offset - 1 \in Int /\ buf \in [Cells -> Byte] BY <1>0, <1>2 DEF Types, FileTypes
  <2> QED BY <1>1, <1>3, <2>1, StoreIs, Zenon
<1>5. FileTypes' BY <1>0, <1>1, <1>4, Zenon DEF Types, FileTypes
<1>6. SizeTypes' BY <1>0, <1>1, <1>2 DEF Types, SizeTypes
<1>7. ControlTypes' BY <1>0, <1>1, Zenon DEF Types, ControlTypes
<1>8. DataTypes' BY <1>0, <1>1, Zenon DEF Types, DataTypes
<1>9. Control' BY <1>0, <1>1, Zenon DEF Control
<1>10. Room' BY <1>0, <1>1, <1>2, SMTT(60) DEF Room, Writes
<1>11. OutputErrorKept' BY <1>1 DEF Sound, OutputErrorKept
<1> QED BY <1>5, <1>6, <1>7, <1>8, <1>9, <1>10, <1>11 DEF Sound, Types

\* lseek() in fseek()
LEMMA SeekSound ==
    ASSUME Sound, seek
    PROVE  Sound'
<1> USE Sizes
<1>0. Types /\ Control /\ Room BY DEF Sound
<1>1. /\ pc = "seek" /\ pc' = "idle"
      /\ UNCHANGED <<file, buf, offset, mode, ret, todo, rest, pf, from, count, moved, broken>>
  BY DEF seek
<1>2. \/ /\ \E rv \in 0..Len(file) : pos' = rv /\ filepos' = rv
         /\ bytes' = 0 /\ flags' = flags \ {"READ"} /\ last' = "none" /\ unread' = FALSE
      \/ UNCHANGED <<pos, filepos, bytes, flags, last, unread>>
  BY DEF seek, NothingBuffered
<1>3. from = 0 /\ ret = "none" /\ ~pf BY <1>0, <1>1 DEF Control
<1>4. FileTypes' BY <1>0, <1>1, <1>2 DEF Types, FileTypes
<1>5. SizeTypes' BY <1>0, <1>1, <1>2 DEF Types, FileTypes, SizeTypes
<1>6. ControlTypes' BY <1>0, <1>1, <1>2, Zenon DEF Types, ControlTypes
<1>7. DataTypes' BY <1>0, <1>1 DEF Types, DataTypes
<1>8. Control' BY <1>0, <1>1, <1>2, <1>3, Zenon DEF Control
<1>9. Room' BY <1>0, <1>1, <1>2, <1>3, SMTT(60) DEF Room, Writes, Types, SizeTypes
<1>10. OutputErrorKept' BY <1>1, <1>2, Zenon DEF Sound, OutputErrorKept
<1> QED BY <1>4, <1>5, <1>6, <1>7, <1>8, <1>9, <1>10 DEF Sound, Types

-----------------------------------------------------------------------------
(* The invariant: what is read ahead, and complete lines *)

\* The calls that begin something
LEMMA CallFaith ==
    ASSUME Inv, fflush \/ fseek \/ \E n \in 1..MaxCount : fread(n)
    PROVE  Faith' /\ Lines'
<1>1. /\ pc = "idle" /\ UNCHANGED <<file, pos, buf, offset, bytes, flags, filepos, mode, rest, pf, unread, broken>>
      /\ pc' = "flush" \/ pc' = "take"
      /\ last' = last \/ (pc' = "take" /\ last # "output")
      /\ ret' \in {"done", "seek", "none"} \/ ret' = ret
  BY Zenon DEF fflush, fseek, fread, Calls
<1>2. ret = "none" BY <1>1 DEF Inv, Sound, Control
<1>3. Faith'
  <2>1. ~broken /\ Writes => last' = "output" BY <1>1, Zenon DEF Inv, Faith
  <2> QED BY <1>1, <2>1, Zenon DEF Inv, Faith, Writes, Place
<1>4. Lines' BY <1>1, <1>2, Zenon DEF Inv, Lines, Writes, NoNL
<1> QED BY <1>3, <1>4

\* fwrite() begins: what is left for later has no newline in it.
LEMMA WriteCallFaith ==
    ASSUME Inv, NEW bs \in Strings(MaxCount), fwrite(bs)
    PROVE  Faith' /\ Lines'
<1>1. /\ pc = "idle" /\ pc' = "fill" /\ last' = "output"
      /\ UNCHANGED <<file, pos, buf, offset, bytes, flags, filepos, mode, ret, unread, broken>>
  BY Zenon DEF fwrite
<1>2. ~pf /\ ret = "none" BY <1>1, Zenon DEF Inv, Sound, Control
<1>3. mode = "line" => NoNL(rest') /\ (~pf' => NoNL(todo')) BY Divides DEF Inv, Sound
<1>4. Faith' BY <1>1, Zenon DEF Inv, Faith, Writes, Place
<1>5. Lines' BY <1>1, <1>2, <1>3, Zenon DEF Inv, Lines, Writes
<1> QED BY <1>4, <1>5

\* fflush()
LEMMA FlushFaith ==
    ASSUME Inv, flush_write \/ flush_fails \/ flush_end
    PROVE  Faith' /\ Lines'
<1> USE Sizes
<1>0. Types /\ Control /\ Room BY DEF Inv, Sound
<1>1. CASE flush_write
  <2>1. /\ pc = "flush" /\ "WRITE" \in flags
        /\ UNCHANGED <<buf, offset, flags, filepos, mode, pc, ret, todo, rest, pf, last, unread, broken>>
    BY <1>1, Zenon DEF flush_write
  <2>2. pos' + bytes' = pos + bytes
    <3>1. PICK rv \in Nat : pos' = pos + rv /\ bytes' = bytes - rv
      BY <1>0, <1>1, WriteIs, Zenon
    <3> QED BY <1>0, <3>1 DEF Types, FileTypes, SizeTypes
  <2>3. Faith' BY <2>1, <2>2, Zenon DEF Inv, Faith, Writes, Place
  <2>4. Lines' BY <2>1, Zenon DEF Inv, Lines, Writes, NoNL
  <2> QED BY <2>3, <2>4
<1>2. CASE flush_fails
  <2>1. broken' BY <1>2, Zenon DEF flush_fails
  <2> QED BY <2>1, Zenon DEF Faith, Lines
<1>3. CASE flush_end
  <2>1. /\ "WRITE" \notin flags \/ bytes = 0
        /\ offset' = IF "WRITE" \in flags THEN SLOP ELSE offset
        /\ flags' = flags \ {"WRITE"}
        /\ UNCHANGED <<file, pos, buf, bytes, filepos, mode, unread, broken>>
        /\ ret' = "none"
    BY <1>3 DEF flush_end, FlushedFlags
  <2>2. bytes \in Nat /\ pos \in Nat /\ offset \in Nat BY <1>0 DEF Types, FileTypes, SizeTypes
  <2>3. "WRITE" \notin flags' BY <2>1
  <2>4. Faith' BY <2>1, <2>2, <2>3, SMTT(60) DEF Inv, Faith, Writes, Place
  <2>5. /\ ret = "pu" => todo' = rest /\ rest' = <<>>
        /\ ret # "pu" => todo' = todo /\ rest' = rest /\ pf' = pf
        /\ pc' = "fill" => ret \in {"fill", "pu"}
    BY <1>0, <1>3 DEF flush_end, Types, ControlTypes, Control
  <2>6. NoNL(<<>>) BY DEF NoNL
  <2>7. ASSUME mode = "line", ~broken
        PROVE  NoNL(rest') /\ (~pf' /\ pc' = "fill" => NoNL(todo'))
    BY <2>5, <2>6, <2>7, SMTT(60) DEF Inv, Lines
  <2>8. Lines' BY <2>1, <2>3, <2>7, Zenon DEF Lines, Writes
  <2> QED BY <2>4, <2>8
<1> QED BY <1>1, <1>2, <1>3

\* fwrite_noflush: the buffer has write data now.
LEMMA FillFaith ==
    ASSUME Inv, fill
    PROVE  Faith' /\ Lines'
<1> USE Sizes
<1>0. Types /\ Control /\ Room BY DEF Inv, Sound
<1>1. PICK nb \in Nat :
         /\ nb <= Len(todo) /\ bytes + nb <= BUFSIZ
         /\ moved' \in Seq(Byte) /\ Len(moved') = nb
         /\ \A k \in 1..nb : moved'[k] = todo[k]
         /\ todo' \in Seq(Byte) /\ Len(todo') = Len(todo) - nb
         /\ \A k \in 1..(Len(todo) - nb) : todo'[k] = todo[nb + k]
         /\ buf' = Store(bytes, moved')
         /\ bytes' = bytes + nb /\ filepos' = filepos + nb
         /\ flags' = IF nb > 0 THEN flags \cup {"WRITE"} ELSE flags
         /\ IF nb < Len(todo) THEN pc' = "flush" /\ ret' = "fill" /\ from' = 0
            ELSE IF pf THEN pc' = "flush" /\ ret' = "pu" /\ from' = 0
            ELSE pc' = "idle" /\ UNCHANGED <<ret, from>>
  BY <1>0, FillIs, Zenon
<1>2. pc = "fill" /\ UNCHANGED <<file, pos, offset, mode, rest, pf, last, unread, broken>>
  BY Zenon DEF fill
<1>3. last = "output" /\ ret = "none" BY <1>0, <1>2, Zenon DEF Control
<1>4. bytes \in Nat /\ pos \in Nat /\ offset \in Nat /\ filepos \in Nat
  BY <1>0 DEF Types, FileTypes, SizeTypes
<1>5. ~Writes => bytes = 0 BY <1>0, <1>3 DEF Room
<1>6. Faith'
  <2>1. CASE nb > 0
    <3>1. "WRITE" \in flags' BY <1>1, <2>1, Zenon
    <3>2. pc' # "seek" BY <1>1, Zenon
    <3> QED BY <1>1, <1>2, <1>3, <1>4, <1>5, <3>1, <3>2, SMTT(60) DEF Inv, Faith, Writes, Place
  <2>2. CASE nb = 0
    <3>1. flags' = flags /\ bytes' = bytes /\ filepos' = filepos /\ pc' # "seek" BY <1>1, <1>4, <2>2, SMTT(60)
         DEF Types, SizeTypes
    <3>2. ~Writes => bytes' = 0 BY <1>5, <3>1
    <3> QED BY <1>2, <1>3, <1>4, <3>1, <3>2, SMTT(60) DEF Inv, Faith, Writes, Place
  <2> QED BY <2>1, <2>2
<1>7. ASSUME mode = "line", ~broken, ~pf
      PROVE  /\ NoNL(todo')
             /\ \A k \in 0..(bytes' - 1) : buf'[k] # NL
  <2>1. NoNL(todo) /\ todo \in Seq(Byte) BY <1>0, <1>2, <1>7, Zenon DEF Inv, Lines, Types, DataTypes
  <2>2. NoNL(todo')
    <3>1. DOMAIN todo = 1..Len(todo) /\ DOMAIN todo' = 1..(Len(todo) - nb) /\ Len(todo) \in Nat
      BY <1>1, <2>1, SMTT(60)
    <3>2. ASSUME NEW k \in 1..(Len(todo) - nb) PROVE todo'[k] # NL
      <4>1. nb + k \in DOMAIN todo BY <1>1, <3>1, SMTT(60)
      <4> QED BY <1>1, <2>1, <4>1, Zenon DEF NoNL
    <3> QED BY <3>1, <3>2, Zenon DEF NoNL
  <2>3. ASSUME NEW k \in 1..nb PROVE moved'[k] # NL
    <3>1. k \in DOMAIN todo /\ moved'[k] = todo[k] BY <1>1, <2>1, SMTT(60)
    <3> QED BY <2>1, <3>1, Zenon DEF NoNL
  <2>4. \A k \in 0..(bytes - 1) : buf[k] # NL
    BY <1>2, <1>4, <1>5, <1>7 DEF Inv, Lines
  <2>5. buf \in [Cells -> Byte] /\ bytes \in Int BY <1>0, <1>4 DEF Types, FileTypes
  <2>6. \A c \in Cells : buf'[c] =
            IF bytes <= c /\ c < bytes + Len(moved') THEN moved'[c - bytes + 1] ELSE buf[c]
    BY <1>1, <2>5, StoreIs, Zenon
  <2>7. ASSUME NEW k \in 0..(bytes' - 1) PROVE buf'[k] # NL
    <3>1. k \in Cells BY <1>1, <1>4, SMTT(60) DEF Cells
    <3>2. CASE k < bytes BY <1>4, <2>4, <2>6, <3>1, <3>2, SMTT(60)
    <3>3. CASE k >= bytes
      <4>1. k - bytes + 1 \in 1..nb
        <5>1. bytes' = bytes + nb /\ nb \in Nat BY <1>1
        <5>2. bytes \in Nat /\ k \in Nat /\ k < bytes + nb BY <1>1, <1>4, <2>5, <5>1
        <5> QED BY ONLY <3>3, <5>1, <5>2, SMT
      <4> QED BY <1>1, <1>4, <2>3, <2>6, <3>1, <3>3, <4>1, SMTT(60)
    <3> QED BY <1>4, <3>2, <3>3
  <2> QED BY <2>2, <2>7
<1>8. Lines' BY <1>2, <1>7, Zenon DEF Inv, Lines
<1> QED BY <1>6, <1>8

\* fread(), ungetc() and fseek(): what is read ahead stays what the file has.
LEMMA TakeFaith ==
    ASSUME Inv, take
    PROVE  Faith' /\ Lines'
<1> USE Sizes
<1>0. Types /\ Control /\ Room BY DEF Inv, Sound
<1>1. PICK nb \in Nat :
         /\ nb <= bytes /\ nb <= count
         /\ nb = count \/ nb = bytes
         /\ offset' = IF nb < count THEN SLOP ELSE offset + nb
         /\ bytes' = bytes - nb /\ filepos' = filepos + nb
         /\ flags' = IF nb > 0 /\ nb = bytes THEN flags \ {"READ"} ELSE flags
         /\ pc' = IF nb < count THEN "refill" ELSE "idle"
  BY <1>0, TakeIs, Zenon
<1>2. pc = "take" /\ UNCHANGED <<file, pos, buf, mode, ret, rest, pf, last, unread, broken>>
  BY Zenon DEF take
<1>3. last = "input" /\ ret = "none" BY <1>0, <1>2, Zenon DEF Control
<1>4. bytes \in Nat /\ pos \in Nat /\ offset \in Nat /\ filepos \in Nat /\ count \in Nat
  BY <1>0 DEF Types, FileTypes, SizeTypes
<1>5. ~broken => "WRITE" \notin flags' /\ "WRITE" \notin flags
  BY <1>1, <1>3, Zenon DEF Inv, Faith, Writes
<1>6. ASSUME ~broken, NEW k \in 1..bytes' PROVE buf[offset' + k - 1] = file[pos - bytes' + k]
  <2>1. nb = count BY <1>1, <1>4
  <2>2. nb + k \in 1..bytes BY <1>1, <1>4
  <2>3. buf[offset + (nb + k) - 1] = file[pos - bytes + (nb + k)]
    BY <1>5, <1>6, <2>2, Zenon DEF Inv, Faith, Writes
  <2>4. offset' + k - 1 = offset + (nb + k) - 1 /\ pos - bytes' + k = pos - bytes + (nb + k)
    BY <1>1, <1>4, <2>1
  <2> QED BY <2>3, <2>4, Zenon
<1>7. Faith'
  <2>1. ~broken => bytes' <= pos BY <1>1, <1>4, <1>5, SMTT(60) DEF Inv, Faith, Writes
  <2>2. ~broken /\ ~unread => filepos' = pos - bytes' BY <1>1, <1>4, <1>5, SMTT(60) DEF Inv, Faith, Writes, Place
  <2> QED BY <1>1, <1>2, <1>5, <1>6, <2>1, <2>2, Zenon DEF Faith, Writes, Place
<1>8. Lines' BY <1>1, <1>2, <1>3, <1>5, Zenon DEF Inv, Lines, Writes
<1> QED BY <1>7, <1>8

\* read() in fread(): the buffer gets what the file has there.
LEMMA RefillFaith ==
    ASSUME Inv, refill
    PROVE  Faith' /\ Lines'
<1> USE Sizes
<1>0. Types /\ Control /\ Room BY DEF Inv, Sound
<1>1. /\ pc = "refill"
      /\ UNCHANGED <<file, offset, filepos, mode, ret, rest, pf, last, unread, broken>>
  BY Zenon DEF refill
<1>2. /\ last = "input" /\ ret = "none" /\ bytes = 0 /\ offset = SLOP
  BY <1>0, <1>1, Zenon DEF Control, Room
<1>3. pos \in Nat BY <1>0 DEF Types, FileTypes
<1>4. /\ pc' \in {"take", "idle"} /\ ("WRITE" \in flags' <=> "WRITE" \in flags)
      /\ bytes' \in Nat /\ pos' = pos + bytes'
      /\ \A k \in 1..bytes' : buf'[offset + k - 1] = file[pos + k]
  <2>1. CASE \E rv \in Nat :
                /\ rv > 0 /\ rv <= BUFSIZ /\ pos + rv <= Len(file)
                /\ \E bs \in Seq(Byte) :
                      /\ Len(bs) = rv /\ buf' = Store(SLOP, bs)
                      /\ \A k \in 1..rv : bs[k] = file[pos + k]
                /\ pos' = pos + rv /\ bytes' = rv /\ flags' = flags \cup {"READ"}
                /\ pc' = "take" /\ count' = count
    <3>1. PICK rv \in Nat :
                /\ rv > 0 /\ rv <= BUFSIZ
                /\ \E bs \in Seq(Byte) :
                      /\ Len(bs) = rv /\ buf' = Store(SLOP, bs)
                      /\ \A k \in 1..rv : bs[k] = file[pos + k]
                /\ pos' = pos + rv /\ bytes' = rv /\ flags' = flags \cup {"READ"}
                /\ pc' = "take"
      BY <2>1, Zenon
    <3>2. PICK bs \in Seq(Byte) :
                /\ Len(bs) = rv /\ buf' = Store(SLOP, bs)
                /\ \A k \in 1..rv : bs[k] = file[pos + k]
      BY <3>1, Zenon
    <3>3. \A c \in Cells : buf'[c] =
              IF SLOP <= c /\ c < SLOP + Len(bs) THEN bs[c - SLOP + 1] ELSE buf[c]
      <4>1. SLOP \in Int /\ buf \in [Cells -> Byte] BY <1>0 DEF Types, FileTypes
      <4> QED BY <3>2, <4>1, StoreIs, Zenon
    <3>4. ASSUME NEW k \in 1..rv PROVE buf'[SLOP + k - 1] = file[pos + k]
      <4>1. SLOP + k - 1 \in Cells BY <3>1 DEF Cells
      <4>2. (SLOP + k - 1) - SLOP + 1 = k /\ SLOP <= SLOP + k - 1 /\ SLOP + k - 1 < SLOP + rv OBVIOUS
      <4> QED BY <3>2, <3>3, <4>1, <4>2, Zenon
    <3> QED BY <1>2, <3>1, <3>4, Zenon
  <2>2. CASE /\ pc' = "idle" /\ count' = 0 /\ pos' = pos /\ buf' = buf /\ bytes' = bytes
             /\ flags' = flags \cup {"EOF"} \/ flags' = flags \cup {"ERR"}
    BY <1>2, <1>3, <2>2
  <2> QED BY <1>0, <2>1, <2>2, RefillIs, Zenon
<1>5. ~broken => "WRITE" \notin flags' /\ "WRITE" \notin flags
  BY <1>2, <1>4, Zenon DEF Inv, Faith, Writes
<1>6. Faith'
  <2>1. bytes' <= pos' /\ pos' - bytes' = pos /\ pos - bytes = pos
    <3>1. bytes' \in Nat /\ pos' = pos + bytes' BY <1>4, Zenon
    <3>2. PICK d \in Nat : d = bytes' BY <3>1
    <3>5. pos' = pos + d BY ONLY <3>1, <3>2
    <3>6. d <= pos' /\ pos' - d = pos BY ONLY <1>3, <3>5
    <3>3. bytes = 0 BY <1>2
    <3>4. pos - bytes = pos BY ONLY <1>3, <3>3
    <3> QED BY ONLY <3>2, <3>4, <3>6, Zenon
  <2>2. ~broken /\ ~unread => filepos = pos BY <1>5, <2>1, Zenon DEF Inv, Faith, Writes, Place
  <2>3. \A k \in 1..bytes' : buf'[offset + k - 1] = file[pos' - bytes' + k] BY <1>4, <2>1, Zenon
  <2> QED BY <1>1, <1>4, <1>5, <2>1, <2>2, <2>3, Zenon DEF Faith, Writes, Place
<1>7. Lines' BY <1>1, <1>2, <1>4, <1>5, Zenon DEF Inv, Lines, Writes
<1> QED BY <1>6, <1>7

\* ungetc() into an empty buffer, or in front of what is read ahead.
LEMMA UngetFaith ==
    ASSUME Inv, ungetc
    PROVE  Faith' /\ Lines'
<1> USE Sizes
<1>0. Types /\ Control /\ Room BY DEF Inv, Sound
<1>1. /\ pc = "idle" /\ last = "input" /\ pos - bytes > 0 /\ "WRITE" \notin flags /\ offset > 0
      /\ buf' = Store(offset - 1, <<file[pos - bytes]>>)
      /\ offset' = offset - 1 /\ bytes' = bytes + 1 /\ unread' = TRUE
      /\ flags' = flags \cup {"READ"}
      /\ UNCHANGED <<file, pos, filepos, mode, pc, ret, todo, rest, pf, last, broken>>
  BY Zenon DEF ungetc, RoomToUnget
<1>2. bytes \in Nat /\ offset \in Nat /\ offset + bytes <= SLOP + BUFSIZ /\ pos \in Nat
  BY <1>0, <1>1, Zenon DEF Types, FileTypes, SizeTypes, Room
<1>3. <<file[pos - bytes]>> \in Seq(Byte)
  <2>1. pos - bytes \in 1..Len(file) BY <1>0, <1>1, <1>2, SMTT(60) DEF Types, FileTypes
  <2>2. file[pos - bytes] \in Byte BY <1>0, <2>1 DEF Types, FileTypes
  <2> QED BY <2>2
<1>4. \A c \in Cells : buf'[c] = IF c = offset - 1 THEN file[pos - bytes] ELSE buf[c]
  <2>1. offset - 1 \in Int /\ buf \in [Cells -> Byte] BY <1>0, <1>2 DEF Types, FileTypes
  <2>2. PICK i \in Int : i = offset - 1 BY <2>1
  <2>3. PICK bs \in Seq(Byte) : bs = <<file[pos - bytes]>> BY <1>3, Zenon
  <2>4. Len(bs) = 1 /\ bs[1] = file[pos - bytes] BY <2>3
  <2>5. buf' = Store(i, bs) BY <1>1, <2>2, <2>3, Zenon
  <2>6. \A c \in Cells : buf'[c] =
            IF i <= c /\ c < i + Len(bs) THEN bs[c - i + 1] ELSE buf[c]
    BY <2>1, <2>5, StoreIs, Zenon
  <2>7. \A c \in Cells : c \in Int BY DEF Cells
  <2> QED BY <2>2, <2>4, <2>6, <2>7, SMTT(60)
<1>5. ASSUME ~broken, NEW k \in 1..bytes' PROVE buf'[offset' + k - 1] = file[pos - bytes' + k]
  <2>1. offset' + k - 1 \in Cells BY <1>1, <1>2, SMTT(60) DEF Cells
  <2>2. CASE k = 1 BY <1>1, <1>2, <1>4, <2>1, <2>2, SMTT(60)
  <2>3. CASE k > 1
    <3>1. k - 1 \in 1..bytes BY <1>1, <1>2, <2>3, SMTT(60)
    <3>2. buf[offset + (k - 1) - 1] = file[pos - bytes + (k - 1)]
      BY <1>1, <1>5, <3>1, Zenon DEF Inv, Faith, Writes
    <3>3. offset' + k - 1 = offset + (k - 1) - 1 /\ pos - bytes' + k = pos - bytes + (k - 1)
          /\ offset' + k - 1 # offset - 1
      BY <1>1, <1>2, <2>3, SMTT(60)
    <3> QED BY <1>4, <2>1, <3>2, <3>3, Zenon
  <2> QED BY <1>1, <1>2, <2>2, <2>3, SMTT(60)
<1>6. Faith'
  <2>1. "WRITE" \notin flags' /\ bytes' <= pos' BY <1>1, <1>2, SMTT(60)
  <2> QED BY <1>1, <1>5, <2>1, Zenon DEF Faith, Writes, Place
<1>7. Lines'
  <2>1. "WRITE" \notin flags' BY <1>1, Zenon
  <2> QED BY <1>1, <2>1, Zenon DEF Inv, Lines, Writes
<1> QED BY <1>6, <1>7

\* lseek() in fseek(), which forgets what was read ahead.
LEMMA SeekFaith ==
    ASSUME Inv, seek
    PROVE  Faith' /\ Lines'
<1> USE Sizes
<1>0. Types /\ Control /\ Room BY DEF Inv, Sound
<1>1. /\ pc = "seek" /\ pc' = "idle"
      /\ UNCHANGED <<file, buf, offset, mode, ret, todo, rest, pf, broken>>
  BY Zenon DEF seek
<1>2. \/ /\ \E rv \in 0..Len(file) : pos' = rv /\ filepos' = rv
         /\ bytes' = 0 /\ flags' = flags \ {"READ"}
      \/ UNCHANGED <<pos, filepos, bytes, flags, last, unread>>
  BY Zenon DEF seek, NothingBuffered
<1>3. ret = "none" BY <1>0, <1>1, Zenon DEF Control
<1>4. ~broken => "WRITE" \notin flags' /\ "WRITE" \notin flags BY <1>1, <1>2, Zenon DEF Inv, Faith, Writes
<1>5. Len(file) \in Nat /\ pos \in Nat /\ bytes \in Nat BY <1>0 DEF Types, FileTypes, SizeTypes
<1>6. Faith' BY <1>1, <1>2, <1>4, <1>5, SMTT(60) DEF Inv, Faith, Writes, Place
<1>7. Lines' BY <1>1, <1>3, <1>4, Zenon DEF Inv, Lines, Writes
<1> QED BY <1>6, <1>7

-----------------------------------------------------------------------------
(* The theorems *)

\* Every step keeps the invariant.
LEMMA NextInv == Inv /\ [Next]_vars => Inv'
<1> SUFFICES ASSUME Inv, [Next]_vars PROVE Inv' OBVIOUS
<1>0. Sound BY DEF Inv
<1>1. CASE \E bs \in Strings(MaxCount) : fwrite(bs)
  BY <1>0, <1>1, WriteCallSound, WriteCallFaith, Zenon DEF Inv
<1>2. CASE fflush \/ fseek \/ \E n \in 1..MaxCount : fread(n)
  BY <1>0, <1>2, CallSound, CallFaith, Zenon DEF Inv
<1>3. CASE ungetc BY <1>0, <1>3, UngetSound, UngetFaith, Zenon DEF Inv
<1>4. CASE flush_write BY <1>0, <1>4, FlushWriteSound, FlushFaith, Zenon DEF Inv
<1>5. CASE flush_fails BY <1>0, <1>5, FlushFailsSound, FlushFaith, Zenon DEF Inv
<1>6. CASE flush_end BY <1>0, <1>6, FlushEndSound, FlushFaith, Zenon DEF Inv
<1>7. CASE fill BY <1>0, <1>7, FillSound, FillFaith DEF Inv
<1>8. CASE take BY <1>0, <1>8, TakeSound, TakeFaith DEF Inv
<1>9. CASE refill BY <1>0, <1>9, RefillSound, RefillFaith DEF Inv
<1>10. CASE seek BY <1>0, <1>10, SeekSound, SeekFaith DEF Inv
<1>11. CASE UNCHANGED vars
  <2>0. Inv /\ vars' = vars BY <1>0, <1>11
  <2>1. FileTypes' /\ SizeTypes' BY <2>0, Zenon DEF vars, Inv, Sound, Types, FileTypes, SizeTypes
  <2>2. ControlTypes' /\ DataTypes' BY <2>0, Zenon DEF vars, Inv, Sound, Types, ControlTypes, DataTypes
  <2>3. Control' /\ Room' BY <2>0 DEF vars, Inv, Sound, Control, Room, Writes
  <2>4. OutputErrorKept' /\ Faith' BY <2>0 DEF vars, Inv, Sound, OutputErrorKept, Faith, Writes, Place
  <2>5. Lines' BY <2>0 DEF vars, Inv, Lines, Writes, NoNL
  <2> QED BY <2>1, <2>2, <2>3, <2>4, <2>5 DEF Inv, Sound, Types
<1> QED BY <1>1, <1>2, <1>3, <1>4, <1>5, <1>6, <1>7, <1>8, <1>9, <1>10, <1>11, Zenon DEF Next

\* The invariant holds at all times, for any buffer and any failures: no step
\* of fread(), fwrite(), fflush(), fseek() or ungetc() leaves the stream in a
\* state that another one does not expect.
THEOREM StreamInvariant == Spec => []Inv
BY InitInv, NextInv, PTL DEF Spec

\* The data of a stream stays inside its buffer, whichever end it is at: the
\* sums of offset, bytes and the slop of struct _IO_file never pass the
\* end, also after output has failed and the program goes on.
THEOREM StreamTypes == Spec => []TypeOK
<1>1. Inv => TypeOK
  <2> SUFFICES ASSUME Inv PROVE TypeOK OBVIOUS
  <2> USE Sizes
  <2>1. todo \in Strings(MaxCount) /\ rest \in Strings(MaxCount)
    BY StringsAre DEF Inv, Sound, Types, DataTypes
  <2>2. pos \in 0..Len(file) /\ file \in Seq(Byte) BY DEF Inv, Sound, Types, FileTypes
  <2>3. /\ offset \in 0..(SLOP + BUFSIZ) /\ bytes \in 0..(SLOP + BUFSIZ)
        /\ from \in 0..BUFSIZ /\ count \in 0..MaxCount
    BY DEF Inv, Sound, Types, SizeTypes
  <2>4. /\ "WRITE" \in flags /\ ~broken => bytes <= BUFSIZ /\ from + bytes <= BUFSIZ
        /\ "READ" \in flags => offset + bytes <= SLOP + BUFSIZ
    BY DEF Inv, Sound, Types, SizeTypes, Room, Writes
  <2> QED BY <2>1, <2>2, <2>3, <2>4, Zenon DEF TypeOK, Inv, Sound, Types, FileTypes, SizeTypes,
            ControlTypes, DataTypes
<1> QED BY <1>1, StreamInvariant, PTL

\* filepos, which ftell() returns, is the place the program is at between its
\* calls, until output fails or ungetc() is called.
THEOREM PositionKnown == Spec => []FilePosition
<1>1. Inv => FilePosition BY Zenon DEF Inv, Faith, FilePosition, Writes, Place
<1> QED BY <1>1, StreamInvariant, PTL

\* An output error stays in the flags: no call forgets it.
THEOREM ErrorsKept == Spec => []OutputErrorKept
<1>1. Inv => OutputErrorKept BY DEF Inv, Sound
<1> QED BY <1>1, StreamInvariant, PTL

\* When fwrite() to a line-buffered stream returns, no complete line waits in
\* the buffer: _fwrite divides its data at the last newline and flushes what
\* comes before, however the data is spread over buffers.
THEOREM LinesFlushed == Spec => []LinesAreFlushed
<1>1. Inv => LinesAreFlushed
  <2> SUFFICES ASSUME Inv, pc = "idle", mode = "line", ~broken, NEW k \in DOMAIN Pending
               PROVE  Pending[k] # NL
    BY DEF LinesAreFlushed
  <2>1. ~pf BY DEF Inv, Sound, Control
  <2>2. CASE ~Writes BY <2>2 DEF Pending, Writes
  <2>3. CASE Writes
    <3>1. bytes \in Nat BY DEF Inv, Sound, Types, SizeTypes
    <3>2. Pending = Bytes(0, bytes) BY <2>3 DEF Pending, Writes
    <3>3. k \in 1..bytes /\ Pending[k] = buf[0 + k - 1] BY <3>1, <3>2 DEF Bytes
    <3>4. 0 + k - 1 \in 0..(bytes - 1) BY <3>1, <3>3
    <3> QED BY <2>1, <2>3, <3>3, <3>4, Zenon DEF Inv, Lines
  <2> QED BY <2>2, <2>3
<1> QED BY <1>1, StreamInvariant, PTL

-----------------------------------------------------------------------------
(* The refinement: the stream implements OpenFile. *)

\* The file as the program sees it, as in the refinement mapping.
Content == Put(file, pos, Pending)

\* c is a and then b.
Joined(a, b, c) ==
    /\ Len(c) = Len(a) + Len(b)
    /\ \A k \in 1..Len(a) : c[k] = a[k]
    /\ \A k \in 1..Len(b) : c[Len(a) + k] = b[k]

\* Two writes one after the other are one write of both.
LEMMA PutTwice ==
    ASSUME NEW s \in Seq(Byte), NEW p \in Nat, p <= Len(s),
           NEW a \in Seq(Byte), NEW b \in Seq(Byte), NEW c \in Seq(Byte),
           Joined(a, b, c)
    PROVE  Put(Put(s, p, a), p + Len(a), b) = Put(s, p, c)
<1> USE DEF Joined
<1> DEFINE u == Put(s, p, a)
<1>1. /\ u \in Seq(Byte)
      /\ Len(u) = IF p + Len(a) <= Len(s) THEN Len(s) ELSE p + Len(a)
      /\ \A k \in 1..Len(u) : u[k] = IF p < k /\ k <= p + Len(a) THEN a[k - p] ELSE s[k]
  BY PutIs, Zenon
<1> HIDE DEF u
<1>2. PICK q \in Nat : q = p + Len(a) OBVIOUS
<1>3. q <= Len(u) BY <1>1, <1>2, SMTT(60)
<1> DEFINE v == Put(u, q, b)
           w == Put(s, p, c)
<1>4. /\ v \in Seq(Byte)
      /\ Len(v) = IF q + Len(b) <= Len(u) THEN Len(u) ELSE q + Len(b)
      /\ \A k \in 1..Len(v) : v[k] = IF q < k /\ k <= q + Len(b) THEN b[k - q] ELSE u[k]
  BY <1>1, <1>3, PutIs, ZenonT(60)
<1>5. /\ w \in Seq(Byte)
      /\ Len(w) = IF p + Len(c) <= Len(s) THEN Len(s) ELSE p + Len(c)
      /\ \A k \in 1..Len(w) : w[k] = IF p < k /\ k <= p + Len(c) THEN c[k - p] ELSE s[k]
  BY PutIs, Zenon
<1> HIDE DEF v, w
<1>6. Len(a) \in Nat /\ Len(b) \in Nat /\ Len(s) \in Nat BY SMTT(60)
<1>7. Len(v) = Len(w) BY <1>1, <1>2, <1>4, <1>5, <1>6, SMTT(60)
<1>8. ASSUME NEW k \in 1..Len(v) PROVE v[k] = w[k]
  <2>1. k \in 1..Len(w) /\ k \in Nat BY <1>4, <1>7, SMTT(60)
  <2>2. CASE q < k /\ k <= q + Len(b)
    <3>1. k - q \in 1..Len(b) /\ k - p = Len(a) + (k - q) BY <1>2, <1>6, <2>1, <2>2, SMTT(60)
    <3>2. c[k - p] = b[k - q] BY <3>1, Zenon
    <3>3. p < k /\ k <= p + Len(c) BY <1>2, <1>6, <2>1, <2>2, SMTT(60)
    <3> QED BY <1>4, <1>5, <2>1, <2>2, <3>2, <3>3, Zenon
  <2>3. CASE p < k /\ k <= q
    <3>1. k - p \in 1..Len(a) BY <1>2, <1>6, <2>1, <2>3
    <3>2. k \in 1..Len(u) /\ ~(q < k) /\ k <= p + Len(c) BY <1>2, <1>3, <1>6, <2>1, <2>3, <1>1, SMTT(60)
    <3>3. v[k] = u[k] /\ u[k] = a[k - p] BY <1>1, <1>2, <1>4, <2>3, <3>2, Zenon
    <3>4. w[k] = c[k - p] BY <1>5, <2>1, <2>3, <3>2, Zenon
    <3> QED BY <3>1, <3>3, <3>4, Zenon
  <2>4. CASE k <= p \/ k > q + Len(b)
    <3>1. k \in 1..Len(u) /\ ~(q < k /\ k <= q + Len(b)) /\ ~(p < k /\ k <= q)
          /\ ~(p < k /\ k <= p + Len(c))
      BY <1>1, <1>2, <1>4, <1>6, <2>1, <2>4, SMTT(60)
    <3>2. v[k] = u[k] /\ u[k] = s[k] BY <1>1, <1>2, <1>4, <3>1, Zenon
    <3>3. w[k] = s[k] BY <1>5, <2>1, <3>1, Zenon
    <3> QED BY <3>2, <3>3, Zenon
  <2> QED BY <1>2, <1>6, <2>1, <2>2, <2>3, <2>4, SMTT(60)
<1>9. v = w BY <1>4, <1>5, <1>7, <1>8, SameSeq, Zenon
<1> QED BY <1>2, <1>9, Zenon DEF u, v, w

\* A write of nothing changes nothing.
LEMMA PutNothing ==
    ASSUME NEW s \in Seq(Byte), NEW p \in Nat, p <= Len(s)
    PROVE  Put(s, p, <<>>) = s
<1>0. <<>> \in Seq(Byte) OBVIOUS
<1>1. PICK e \in Seq(Byte) : e = <<>> BY <1>0, Zenon
<1>2. Len(e) = 0 BY <1>1
<1> DEFINE w == Put(s, p, e)
<1>3. /\ w \in Seq(Byte)
      /\ Len(w) = IF p + Len(e) <= Len(s) THEN Len(s) ELSE p + Len(e)
      /\ \A k \in 1..Len(w) : w[k] = IF p < k /\ k <= p + Len(e) THEN e[k - p] ELSE s[k]
  BY PutIs, Zenon
<1> HIDE DEF w
<1>4. Len(w) = Len(s) /\ \A k \in 1..Len(w) : w[k] = s[k] BY <1>2, <1>3, SMTT(60)
<1>5. w = s BY <1>3, <1>4, SameSeq, Zenon
<1> QED BY <1>1, <1>5 DEF w

\* What waits to be written.
PendingBytes ==
    /\ Pending \in Seq(Byte)
    /\ Writes => /\ Len(Pending) = bytes
                 /\ \A k \in 1..bytes : Pending[k] = buf[from + k - 1]
    /\ ~Writes => Pending = <<>> /\ Content = file

\* What waits to be written is in the buffer.
LEMMA PendingIs == Inv => PendingBytes
<1> SUFFICES ASSUME Inv PROVE PendingBytes OBVIOUS
<1> USE Sizes DEF PendingBytes
<1>0. Types /\ Control /\ Room BY DEF Inv, Sound
<1>1. CASE Writes
  <2>1. from \in Nat /\ bytes \in Nat /\ from + bytes <= SLOP + BUFSIZ /\ buf \in [Cells -> Byte]
    BY <1>0, <1>1 DEF Types, FileTypes, SizeTypes, Room
  <2>2. Pending = Bytes(from, bytes)
    <3>1. Pending = Bytes(IF pc = "flush" THEN from ELSE 0, bytes) BY <1>1 DEF Pending, Writes
    <3>2. (IF pc = "flush" THEN from ELSE 0) = from BY <1>0 DEF Control
    <3> QED BY <3>1, <3>2, Zenon
  <2> QED BY <1>1, <2>1, <2>2, BytesAre, Zenon
<1>2. CASE ~Writes
  <2>1. Pending = <<>> BY <1>2 DEF Pending, Writes
  <2>2. Content = file BY <1>0, <2>1, PutNothing, Zenon DEF Content, Types, FileTypes
  <2>3. <<>> \in Seq(Byte) OBVIOUS
  <2> QED BY <1>2, <2>1, <2>2, <2>3, Zenon
<1> QED BY <1>1, <1>2, Zenon

\* The same after a step.
LEMMA PendingNext == Inv' => PendingBytes'
BY PendingIs, PTL

\* A write() moves bytes from the buffer to the file: the program sees no
\* difference, whatever part of the buffer it is.
LEMMA FlushUnseen ==
    ASSUME Inv, Inv', flush_write
    PROVE  Content' = Content /\ Place' = Place
<1> USE Sizes
<1>0. Types /\ Control /\ Room BY DEF Inv, Sound
<1>1. PICK rv \in 1..bytes :
         /\ rv \in Nat /\ rv > 0 /\ rv <= bytes
         /\ Bytes(from, rv) \in Seq(Byte) /\ Len(Bytes(from, rv)) = rv
         /\ file' = Put(file, pos, Bytes(from, rv))
         /\ pos' = pos + rv /\ from' = from + rv /\ bytes' = bytes - rv
  BY <1>0, WriteIs, Zenon
<1>2. Writes /\ Writes' /\ buf' = buf BY Zenon DEF flush_write, Writes
<1>3. /\ file \in Seq(Byte) /\ pos \in Nat /\ pos <= Len(file) /\ bytes \in Nat /\ from \in Nat
      /\ from + bytes <= BUFSIZ /\ buf \in [Cells -> Byte]
  BY <1>0, <1>2, Zenon DEF Types, FileTypes, SizeTypes, Room
<1> DEFINE a == Bytes(from, rv)
<1>4. \A k \in 1..rv : a[k] = buf[from + k - 1] BY DEF Bytes
<1>5. a \in Seq(Byte) /\ Len(a) = rv BY <1>1, Zenon
<1>6. Pending \in Seq(Byte) /\ Len(Pending) = bytes
      /\ \A k \in 1..bytes : Pending[k] = buf[from + k - 1]
  BY <1>2, PendingIs, Zenon DEF PendingBytes
<1>7. Pending' \in Seq(Byte) /\ Len(Pending') = bytes - rv
      /\ \A k \in 1..(bytes - rv) : Pending'[k] = buf[(from + rv) + k - 1]
  <2>1. /\ (Pending \in Seq(Byte))'
        /\ (Len(Pending) = bytes)' /\ (\A k \in 1..bytes : Pending[k] = buf[from + k - 1])'
    BY <1>2, PendingNext, Zenon DEF PendingBytes
  <2> QED BY <1>1, <1>2, <2>1, Zenon
<1> HIDE DEF a
<1>8. \A k \in 1..Len(a) : Pending[k] = a[k]
  <2>1. \A k \in 1..rv : k \in 1..bytes BY <1>1, <1>3, SMTT(60)
  <2> QED BY <1>4, <1>5, <1>6, <2>1, Zenon
<1>9. \A k \in 1..Len(Pending') : Pending[Len(a) + k] = Pending'[k]
  <2> SUFFICES ASSUME NEW k \in 1..(bytes - rv) PROVE Pending[rv + k] = Pending'[k]
    BY <1>5, <1>7, Zenon
  <2>1. rv + k \in 1..bytes /\ from + (rv + k) - 1 = (from + rv) + k - 1 BY <1>1, <1>3, SMTT(60)
  <2> QED BY <1>6, <1>7, <2>1, Zenon
<1>10. Len(Pending) = Len(a) + Len(Pending') BY <1>1, <1>3, <1>5, <1>6, <1>7, SMTT(60)
<1>11. PICK b \in Seq(Byte) : b = Pending' BY <1>7, Zenon
<1>12. PICK c \in Seq(Byte) : c = Pending BY <1>6, Zenon
<1>13. Put(Put(file, pos, a), pos + Len(a), b) = Put(file, pos, c)
  <2>1. Joined(a, b, c) BY <1>8, <1>9, <1>10, <1>11, <1>12, Zenon DEF Joined
  <2>2. a \in Seq(Byte) BY <1>5
  <2> QED BY ONLY <1>3, <2>2, b \in Seq(Byte), c \in Seq(Byte), <2>1, PutTwice, SMTT(60)
<1>14. Content' = Put(file', pos', Pending') BY DEF Content, Put
<1>15. file' = Put(file, pos, a) /\ pos' = pos + Len(a) BY <1>1, <1>5, Zenon DEF a
<1>16. Content' = Content BY <1>11, <1>12, <1>13, <1>14, <1>15, Zenon DEF Content
<1>17. Place' = Place
  <2>1. pos' + bytes' = pos + bytes BY <1>1, <1>3, SMTT(60)
  <2> QED BY <1>2, <2>1, Zenon DEF Place, Writes
<1> QED BY <1>16, <1>17, Zenon

\* fwrite_noflush writes where the program is, as far as the program sees.
LEMMA FillWrites ==
    ASSUME Inv, Inv', fill, ~broken
    PROVE  Content' = Put(Content, Place, moved') /\ Place' = Place + Len(moved')
<1> USE Sizes
<1>0. Types /\ Control /\ Room BY DEF Inv, Sound
<1>1. PICK nb \in Nat :
         /\ bytes + nb <= BUFSIZ
         /\ moved' \in Seq(Byte) /\ Len(moved') = nb
         /\ buf' = Store(bytes, moved')
         /\ bytes' = bytes + nb
         /\ flags' = IF nb > 0 THEN flags \cup {"WRITE"} ELSE flags
         /\ from' = 0 \/ from' = from
  BY <1>0, FillIs, Zenon
<1>2. pc = "fill" /\ file' = file /\ pos' = pos BY Zenon DEF fill
<1>3. last = "output" /\ from = 0 BY <1>0, <1>2, Zenon DEF Control
<1>4. /\ file \in Seq(Byte) /\ pos \in Nat /\ pos <= Len(file) /\ bytes \in Nat
      /\ bytes \in Int /\ buf \in [Cells -> Byte]
  BY <1>0 DEF Types, FileTypes, SizeTypes
<1>5. ~Writes => bytes = 0 BY <1>0, <1>3, Zenon DEF Room
<1>6. /\ Pending \in Seq(Byte) /\ Len(Pending) = bytes
      /\ \A k \in 1..bytes : Pending[k] = buf[k - 1]
  <2>1. CASE Writes BY <1>3, <1>4, <2>1, PendingIs, SMTT(60) DEF PendingBytes
  <2>2. CASE ~Writes
    <3>1. Pending \in Seq(Byte) /\ Pending = <<>> /\ bytes = 0 BY <1>5, <2>2, PendingIs, Zenon DEF PendingBytes
    <3> QED BY <3>1
  <2> QED BY <2>1, <2>2, Zenon
<1>7. Writes' \/ (bytes' = 0 /\ nb = 0)
  <2>1. CASE nb > 0 BY <1>1, <2>1, Zenon DEF Writes
  <2>2. CASE nb = 0 BY <1>1, <1>4, <1>5, <2>2, SMTT(60) DEF Writes
  <2> QED BY <2>1, <2>2
<1>8. /\ Pending' \in Seq(Byte) /\ Len(Pending') = bytes + nb
      /\ \A k \in 1..(bytes + nb) : Pending'[k] = buf'[k - 1]
  <2>1. CASE Writes'
    <3>1. /\ (Pending \in Seq(Byte))'
          /\ (Len(Pending) = bytes)' /\ (\A k \in 1..bytes : Pending[k] = buf[from + k - 1])'
      BY <2>1, PendingNext, Zenon DEF PendingBytes
    <3>2. from' = 0 BY <1>1, <1>3, Zenon
    <3> QED BY <1>1, <1>4, <3>1, <3>2, SMTT(60)
  <2>2. CASE ~Writes'
    <3>1. (Pending \in Seq(Byte))' /\ (Pending = <<>>)' BY <2>2, PendingNext, Zenon DEF PendingBytes
    <3>2. bytes + nb = 0 BY <1>1, <1>7, <2>2, Zenon
    <3> QED BY <3>1, <3>2
  <2> QED BY <2>1, <2>2, Zenon
<1>9. \A c \in Cells : buf'[c] =
          IF bytes <= c /\ c < bytes + Len(moved') THEN moved'[c - bytes + 1] ELSE buf[c]
  BY <1>1, <1>4, StoreIs, Zenon
<1>10. ASSUME NEW k \in 1..bytes PROVE Pending'[k] = Pending[k]
  <2>1. k - 1 \in Cells /\ k \in 1..(bytes + nb) /\ ~(bytes <= k - 1) BY <1>1, <1>4, SMTT(60) DEF Cells
  <2> QED BY <1>6, <1>8, <1>9, <2>1, Zenon
<1>11. ASSUME NEW k \in 1..nb PROVE Pending'[bytes + k] = moved'[k]
  <2>1. /\ bytes + k - 1 \in Cells /\ bytes + k \in 1..(bytes + nb)
        /\ bytes <= bytes + k - 1 /\ bytes + k - 1 < bytes + nb /\ (bytes + k - 1) - bytes + 1 = k
    BY <1>1, <1>4, SMTT(60) DEF Cells
  <2>2. PICK m \in 1..(bytes + nb) : m = bytes + k BY <2>1, Zenon
  <2>3. Pending'[m] = buf'[m - 1] BY <1>8, Zenon
  <2>4. buf'[bytes + k - 1] = moved'[(bytes + k - 1) - bytes + 1] BY <1>1, <1>9, <2>1, Zenon
  <2>5. m - 1 = bytes + k - 1 BY <1>4, <2>2
  <2>6. Pending'[m] = moved'[k] BY ONLY <2>1, <2>3, <2>4, <2>5, Zenon
  <2> QED BY ONLY <2>2, <2>6, Zenon
<1>12. PICK a \in Seq(Byte) : a = Pending BY <1>6, Zenon
<1>13. PICK b \in Seq(Byte) : b = moved' BY <1>1, Zenon
<1>14. PICK c \in Seq(Byte) : c = Pending' BY <1>8, Zenon
<1>15. /\ Len(a) = bytes /\ Len(b) = nb /\ Len(c) = bytes + nb
       /\ \A k \in 1..bytes : c[k] = a[k]
       /\ \A k \in 1..nb : c[bytes + k] = b[k]
  BY <1>1, <1>6, <1>8, <1>10, <1>11, <1>12, <1>13, <1>14, Zenon
<1>16. Put(Put(file, pos, a), pos + Len(a), b) = Put(file, pos, c)
  <2>1. Joined(a, b, c) BY <1>15, Zenon DEF Joined
  <2> QED BY ONLY <1>4, a \in Seq(Byte), b \in Seq(Byte), c \in Seq(Byte), <2>1, PutTwice, SMTT(60)
<1>17. Place = pos + Len(a) /\ Place' = Place + nb
  <2>1. Place = pos + bytes BY <1>4, <1>5 DEF Place
  <2>2. Place' = pos' + bytes'
    <3>1. CASE Writes' BY <3>1, Zenon DEF Place, Writes
    <3>2. CASE ~Writes'
      <4>1. bytes' = 0 /\ pos' \in Nat BY <1>2, <1>4, <1>7, <3>2, Zenon
      <4>2. Place' = pos' - bytes' BY <3>2, Zenon DEF Place, Writes
      <4> QED BY <4>1, <4>2
    <3> QED BY <3>1, <3>2, Zenon
  <2> QED BY <1>1, <1>2, <1>4, <1>15, <2>1, <2>2, SMTT(60)
<1>18. Content' = Put(file, pos, c) BY <1>2, <1>14, Zenon DEF Content, Put
<1>19. Content = Put(file, pos, a) BY <1>12 DEF Content
<1> QED BY <1>1, <1>13, <1>15, <1>16, <1>17, <1>18, <1>19, Zenon

\* fread() hands over what the file has at the place the program is at.
LEMMA TakeReads ==
    ASSUME Inv, Inv', take, ~broken
    PROVE  /\ Content' = Content
           /\ Place' \in Place..Len(Content)
           /\ moved' = SubSeq(Content, Place + 1, Place')
<1> USE Sizes
<1>0. Types /\ Control /\ Room BY DEF Inv, Sound
<1>1. PICK nb \in Nat :
         /\ nb <= bytes
         /\ moved' \in Seq(Byte) /\ Len(moved') = nb
         /\ \A k \in 1..nb : moved'[k] = buf[offset + k - 1]
         /\ bytes' = bytes - nb
         /\ flags' = IF nb > 0 /\ nb = bytes THEN flags \ {"READ"} ELSE flags
  BY <1>0, TakeIs, Zenon
<1>2. pc = "take" /\ file' = file /\ pos' = pos BY Zenon DEF take
<1>3. ~Writes /\ ~Writes'
  BY <1>0, <1>1, <1>2, Zenon DEF Inv, Faith, Control, Writes
<1>4. /\ file \in Seq(Byte) /\ pos \in Nat /\ pos <= Len(file) /\ bytes \in Nat /\ Len(file) \in Nat
      /\ bytes <= pos /\ \A k \in 1..bytes : buf[offset + k - 1] = file[pos - bytes + k]
  BY <1>0, <1>3, SMTT(60) DEF Types, FileTypes, SizeTypes, Inv, Faith
<1>5. Content = file /\ Content' = file
  <2>1. Content = file BY <1>3, PendingIs, Zenon DEF PendingBytes
  <2>2. Content' = file' BY <1>3, PendingNext, Zenon DEF PendingBytes
  <2> QED BY <1>2, <2>1, <2>2, Zenon
<1>6. PICK m \in Nat : m = pos - bytes BY <1>4, SMTT(60)
<1>7. PICK n \in Nat : n = m + nb BY <1>6
<1>8. Place = m /\ Place' = n
  <2>1. Place = pos - bytes BY <1>3 DEF Place
  <2>2. Place' = pos' - bytes' BY <1>3 DEF Place, Writes
  <2> QED BY <1>1, <1>2, <1>4, <1>6, <1>7, <2>1, <2>2, SMTT(60)
<1>9. m <= n /\ n <= Len(file) BY <1>1, <1>4, <1>6, <1>7, SMTT(60)
<1> DEFINE u == SubSeq(file, m + 1, n)
<1>10. u \in Seq(Byte) /\ Len(u) = n - m /\ \A k \in 1..(n - m) : u[k] = file[m + k]
  BY <1>4, <1>9, Cut, SMTT(60)
<1> HIDE DEF u
<1>11. Len(u) = nb /\ \A k \in 1..nb : u[k] = moved'[k]
  <2>1. n - m = nb BY <1>6, <1>7
  <2>2. \A k \in 1..nb : k \in 1..bytes BY <1>1, <1>4, SMTT(60)
  <2> QED BY <1>1, <1>4, <1>6, <1>10, <2>1, <2>2, Zenon
<1>12. moved' = u BY <1>1, <1>10, <1>11, SameSeq, Zenon
<1> QED BY <1>5, <1>8, <1>9, <1>12 DEF u

\* The steps that only read the file, or change nothing the program sees.
LEMMA OthersKeepContent ==
    ASSUME Inv, Inv', ~broken, refill \/ ungetc \/ seek \/ flush_end
    PROVE  /\ Content' = Content /\ Len(Content) \in Nat
           /\ refill \/ flush_end => Place' = Place
           /\ ungetc => Place > 0 /\ Place' = Place - 1
           /\ seek => Place' = Place \/ Place' \in 0..Len(Content)
<1> USE Sizes
<1>0. Types /\ Control /\ Room BY DEF Inv, Sound
<1>1. pos \in Nat /\ bytes \in Nat /\ file \in Seq(Byte) /\ Len(file) \in Nat
  BY <1>0 DEF Types, FileTypes, SizeTypes
<1>2. Writes => flush_end /\ bytes = 0
  BY <1>0, Zenon DEF Inv, Faith, Control, Writes, refill, ungetc, seek, flush_end
<1>3. ~Writes'
  BY <1>2 DEF Writes, refill, ungetc, seek, flush_end, FlushedFlags
<1>4. Content = file
  <2>1. CASE ~Writes BY <2>1, PendingIs, Zenon DEF PendingBytes
  <2>2. CASE Writes
    <3>1. Pending \in Seq(Byte) /\ Len(Pending) = 0 BY <1>2, <2>2, PendingIs, Zenon DEF PendingBytes
    <3>2. Pending = <<>> BY <3>1
    <3> QED BY <1>0, <3>2, PutNothing, Zenon DEF Content, Types, FileTypes
  <2> QED BY <2>1, <2>2
<1>5. file' = file BY DEF refill, ungetc, seek, flush_end
<1>6. Content' = file'  BY <1>3, PendingNext, Zenon DEF PendingBytes
<1>7. Place = pos - bytes
  BY <1>1, <1>2 DEF Place
<1>8. Place' = pos' - bytes' BY <1>3 DEF Place, Writes
<1>9. CASE refill
  <2>1. pc = "refill" BY <1>9, Zenon DEF refill
  <2>2. bytes = 0 BY <1>0, <2>1, Zenon DEF Room
  <2>3. \E rv \in Nat : bytes' = rv /\ pos' = pos + rv
    <3>1. \/ \E rv \in Nat : bytes' = rv /\ pos' = pos + rv
          \/ pos' = pos /\ bytes' = bytes
      BY <1>0, <1>9, RefillIs, Zenon
    <3> QED BY <1>1, <2>2, <3>1
  <2>4. pos' - bytes' = pos /\ pos - bytes = pos BY <1>1, <2>2, <2>3
  <2>5. ~flush_end /\ ~ungetc /\ ~seek BY <2>1 DEF flush_end, ungetc, seek
  <2> QED BY <1>1, <1>4, <1>5, <1>6, <1>7, <1>8, <2>4, <2>5, Zenon
<1>10. CASE flush_end
  <2>1. pos' = pos /\ bytes' = bytes /\ pc = "flush" BY <1>10 DEF flush_end
  <2>2. ~refill /\ ~ungetc /\ ~seek BY <2>1, Zenon DEF refill, ungetc, seek
  <2> QED BY <1>1, <1>4, <1>5, <1>6, <1>7, <1>8, <2>1, <2>2, Zenon
<1>11. CASE ungetc
  <2>1. pc = "idle" /\ pos' = pos /\ bytes' = bytes + 1 /\ pos - bytes > 0 BY <1>11, Zenon DEF ungetc
  <2>2. ~refill /\ ~flush_end /\ ~seek BY <2>1 DEF refill, flush_end, seek
  <2>3. pos' - bytes' = (pos - bytes) - 1 BY <1>1, <2>1
  <2> QED BY <1>1, <1>4, <1>5, <1>6, <1>7, <1>8, <2>1, <2>2, <2>3, Zenon
<1>12. CASE seek
  <2>1. /\ pc = "seek"
        /\ \/ bytes' = 0 /\ \E rv \in 0..Len(file) : pos' = rv
           \/ UNCHANGED <<pos, bytes>>
    BY <1>12, Zenon DEF seek, NothingBuffered
  <2>2. ~refill /\ ~flush_end /\ ~ungetc BY <2>1 DEF refill, flush_end, ungetc
  <2>3. pos' - bytes' = pos - bytes \/ pos' - bytes' \in 0..Len(file) BY <1>1, <2>1
  <2> QED BY <1>1, <1>4, <1>5, <1>6, <1>7, <1>8, <2>2, <2>3, Zenon
<1> QED BY <1>9, <1>10, <1>11, <1>12, Zenon

\* The calls that begin something change nothing the program sees.
LEMMA CallsUnseen ==
    ASSUME Inv, \/ fflush \/ fseek \/ \E n \in 1..MaxCount : fread(n)
                \/ \E bs \in Strings(MaxCount) : fwrite(bs)
    PROVE  Content' = Content /\ Place' = Place /\ moved' = moved /\ broken' = broken
<1>1. /\ pc = "idle" /\ UNCHANGED <<file, pos, buf, bytes, flags, moved, broken>>
      /\ pc' = "flush" => from' = 0
  BY Zenon DEF fflush, fseek, fread, fwrite, Calls
<1>2. Pending' = Pending
  <2>1. (IF pc' = "flush" THEN from' ELSE 0) = 0 /\ (IF pc = "flush" THEN from ELSE 0) = 0
    BY <1>1
  <2>2. Bytes(0, bytes)' = Bytes(0, bytes) BY <1>1 DEF Bytes
  <2>3. CASE "WRITE" \in flags
    <3>1. Pending = Bytes(0, bytes) BY <1>1, <2>3, Zenon DEF Pending
    <3>2. Pending' = Bytes(0, bytes)' BY <1>1, <2>1, <2>3, Zenon DEF Pending, Bytes
    <3> QED BY <2>2, <3>1, <3>2
  <2>4. CASE "WRITE" \notin flags BY <1>1, <2>4, Zenon DEF Pending
  <2> QED BY <2>3, <2>4
<1> QED BY <1>1, <1>2, Zenon DEF Content, Put, Place, Writes

\* A step of the stream is a step of the file, or leaves it as it is.
LEMMA StepImplements ==
    ASSUME Inv, Inv', [Next]_vars
    PROVE  [Promise!Next]_(Promise!vars)
<1> DEFINE Seen == Content' = Content /\ Place' = Place /\ moved' = moved /\ broken' = broken
<1>1. CASE broken' BY <1>1 DEF Promise!Next
<1>2. CASE ~broken'
  <2>1. ~broken \/ UNCHANGED vars
    BY <1>2, Zenon DEF Next, vars, fwrite, fread, ungetc, fflush, fseek, flush_write, flush_fails,
         flush_end, fill, take, refill, seek
  <2>2. ASSUME Seen PROVE [Promise!Next]_(Promise!vars)
    BY <2>2, Zenon DEF Promise!vars, Content, Put, Place, Writes
  <2>3. CASE UNCHANGED vars
    <3>1. Seen BY <2>3, Zenon DEF vars, Content, Put, Place, Writes, Pending, Bytes
    <3> QED BY <2>2, <3>1
  <2> SUFFICES ASSUME ~broken, Next PROVE [Promise!Next]_(Promise!vars)
    BY <2>1, <2>3
  <2>4. CASE \/ fflush \/ fseek \/ \E n \in 1..MaxCount : fread(n)
             \/ \E bs \in Strings(MaxCount) : fwrite(bs)
    BY <2>2, <2>4, CallsUnseen, Zenon
  <2>5. CASE flush_write
    <3>1. moved' = moved /\ broken' = broken BY <2>5, Zenon DEF flush_write
    <3> QED BY <2>2, <2>5, <3>1, FlushUnseen, Zenon
  <2>6. CASE flush_fails BY <1>2, <2>6, Zenon DEF flush_fails
  <2>7. CASE fill
    <3>1. Content' = Put(Content, Place, moved') /\ Place' = Place + Len(moved')
      BY <2>7, FillWrites
    <3>2. Promise!Write
      BY <3>1, Zenon DEF Promise!Write, Promise!Overlay, Content, Put, Place, Writes
    <3> QED BY <1>2, <3>2 DEF Promise!Next
  <2>8. CASE take
    <3>1. /\ Content' = Content
          /\ Place' \in Place..Len(Content)
          /\ moved' = SubSeq(Content, Place + 1, Place')
      BY <2>8, TakeReads
    <3>2. Promise!Read BY <3>1, Zenon DEF Promise!Read, Content, Put, Place, Writes
    <3> QED BY <1>2, <3>2 DEF Promise!Next
  <2>9. CASE refill \/ flush_end
    <3>1. moved' = moved /\ broken' = broken BY <2>9 DEF refill, flush_end
    <3> QED BY <2>2, <2>9, <3>1, OthersKeepContent, Zenon
  <2>10. CASE ungetc
    <3>1. Content' = Content /\ Place > 0 /\ Place' = Place - 1 BY <2>10, OthersKeepContent, Zenon
    <3>2. moved' = moved BY <2>10, Zenon DEF ungetc
    <3>3. Promise!Unread BY <3>1, <3>2, Zenon DEF Promise!Unread, Content, Put, Place, Writes
    <3> QED BY <1>2, <3>3 DEF Promise!Next
  <2>11. CASE seek
    <3>1. Content' = Content /\ (Place' = Place \/ Place' \in 0..Len(Content))
      BY <2>11, OthersKeepContent
    <3>2. moved' = moved /\ broken' = broken BY <2>11, Zenon DEF seek
    <3>3. CASE Place' = Place BY <2>2, <3>1, <3>2, <3>3, Zenon
    <3>4. CASE Place' \in 0..Len(Content)
      <4>1. Promise!Seek BY <3>1, <3>2, <3>4, Zenon DEF Promise!Seek, Content, Put, Place, Writes
      <4> QED BY <1>2, <4>1 DEF Promise!Next
    <3> QED BY <3>1, <3>3, <3>4, Zenon
  <2> QED BY <2>4, <2>5, <2>6, <2>7, <2>8, <2>9, <2>10, <2>11, Zenon DEF Next
<1> QED BY <1>1, <1>2

\* A stream implements OpenFile: whatever part of the data a read() or write()
\* moves, and however calls are mixed, the program sees one file read and
\* written at one place, until output fails.
THEOREM StreamImplementsFile == Spec => ImplementsFile
<1>1. Init => Promise!Init
  <2> SUFFICES ASSUME Init PROVE Promise!Init OBVIOUS
  <2>1. Inv BY InitInv
  <2>2. "WRITE" \notin flags /\ pos = 0 /\ bytes = 0 BY Zenon DEF Init
  <2>3. Content = file /\ file \in Seq(Byte)
    BY <2>1, <2>2, PendingIs, Zenon DEF PendingBytes, Writes, Inv, Sound, Types, FileTypes
  <2>4. Content \in Seq(Byte) BY <2>3
  <2>5. pos - bytes = 0 BY <2>2
  <2> QED BY <2>2, <2>4, <2>5, Zenon DEF Promise!Init, Init, Content, Put
<1>2. Inv /\ Inv' /\ [Next]_vars => [Promise!Next]_(Promise!vars) BY StepImplements
<1> QED BY <1>1, <1>2, StreamInvariant, PTL DEF Spec, ImplementsFile, Promise!Spec
=============================================================================
