----------------------------- MODULE ShellProofs -----------------------------
(***************************************************************************)
(* The interactive shell, for any pids, commands, traps and signals.  The  *)
(* inductive invariant Inv says what the C stack looks like, which of its   *)
(* frames have called INTOFF, and (with the module JobProofs) that the job  *)
(* table, the children and the frame above main() agree.                   *)
(***************************************************************************)
EXTENDS Shell, JobProofs

FrameFields == {"op", "pc", "j", "st"}

IsFrame(f) == f = [x \in FrameFields |-> f[x]]

Frames(s) == s # << >> /\ \E S : s \in Seq(S) /\ \A f \in S : IsFrame(f)

(* What the frames of the stack are, and how often they have called INTOFF. *)
Shape ==
    /\ stack[1].op = "main"
    /\ \/ /\ \A i \in 2..Len(stack) : stack[i].op \in {"dotrap", "action"}
          /\ suppressint = 0
       \/ Len(stack) = 2 /\ stack[2].op \in {"launch", "waitforjob", "here"} /\ suppressint = 1
       \/ Len(stack) = 2 /\ stack[2].op \in {"waitcmd", "showjobs"} /\ suppressint = 0
       \/ /\ Len(stack) = 3 /\ stack[3].op = "dowait"
          /\ \/ stack[2].op \in {"waitforjob", "here"} /\ suppressint = 2
             \/ stack[2].op \in {"waitcmd", "showjobs"} /\ suppressint = 1

(* An interrupt is held only while some INTOFF is in force, and signals are  *)
(* blocked only around the sigsuspend() of waitproc().                       *)
Held ==
    /\ intpending \in BOOLEAN /\ masked \in BOOLEAN
    /\ intpending => suppressint > 0
    /\ masked => top.op = "dowait" /\ top.pc \in {"check", "suspend", "suspended", "unmask"}

Interrupts == Frames(stack) /\ Shape /\ Held

Jobs ==
    /\ Sound(jt, procs, forks, strays) /\ Owes(jt, owed)
    /\ Len(stack) > 1 => FrameJob(stack[2], jt, owed)

Inv == Interrupts /\ Jobs

-----------------------------------------------------------------------------
(* A stack of frames. *)
LEMMA FramesOf ==
  ASSUME NEW s, NEW S, s \in Seq(S), s # << >>, \A f \in S : IsFrame(f)
  PROVE  Frames(s)
BY Zenon DEF Frames

Pushed(t, s, f) == t = Append(s, f)

(* The running frame becomes f. *)
LEMMA TopFrames ==
  ASSUME Frames(stack), NEW f, IsFrame(f), NEW s, s = Becomes(f)
  PROVE  /\ Frames(s) /\ Len(s) = Len(stack) /\ Len(stack) \in Nat \ {0}
         /\ \A i \in 1..(Len(stack) - 1) : s[i] = stack[i]
         /\ s[Len(stack)] = f
<1> DEFINE n == Len(stack)
<1>1. PICK S : stack \in Seq(S) /\ \A x \in S : IsFrame(x)
  BY DEF Frames
<1>2. n \in Nat \ {0}
  BY <1>1 DEF Frames
<1>3. s \in Seq(S \cup {f}) /\ Len(s) = n /\ \A i \in 1..n : s[i] = IF i = n THEN f ELSE stack[i]
  BY <1>1, <1>2 DEF Becomes
<1> HIDE DEF n
<1>4. Frames(s)
  <2>1. \A x \in S \cup {f} : IsFrame(x)
    BY <1>1
  <2>2. s # << >>
    BY <1>2, <1>3
  <2> QED BY <1>3, <2>1, <2>2, FramesOf
<1>5. (\A i \in 1..(n - 1) : s[i] = stack[i]) /\ s[n] = f
  BY <1>2, <1>3
<1> QED BY <1>2, <1>3, <1>4, <1>5 DEF n

(* The frame on top. *)
LEMMA TopIsFrame ==
  ASSUME Frames(stack)
  PROVE  IsFrame(top) /\ top = stack[Len(stack)] /\ Len(stack) \in DOMAIN stack
<1>1. PICK S : stack \in Seq(S) /\ \A x \in S : IsFrame(x)
  BY DEF Frames
<1>2. Len(stack) \in DOMAIN stack /\ stack[Len(stack)] \in S
  BY <1>1 DEF Frames
<1> QED BY <1>1, <1>2 DEF top

(* A step within a function keeps all of its frame but the pc. *)
LEMMA GotoFrame ==
  ASSUME Frames(stack), NEW pc, NEW f, f = [top EXCEPT !.pc = pc]
  PROVE  Goto(pc) = Becomes(f) /\ IsFrame(f) /\ Kept(f, top) /\ f.pc = pc
<1>1. IsFrame(top)
  BY TopIsFrame
<1> QED BY <1>1 DEF Goto, IsFrame, FrameFields, Kept

(* All frames but the running one are as they were, and that one has f. *)
LEMMA GotoFrames ==
  ASSUME Frames(stack), NEW pc, NEW s, s = Goto(pc)
  PROVE  /\ Frames(s) /\ Len(s) = Len(stack) /\ Len(stack) \in Nat \ {0}
         /\ \A i \in 1..Len(stack) : Kept(s[i], stack[i])
<1> DEFINE f == [top EXCEPT !.pc = pc]
           n == Len(stack)
<1>1. Goto(pc) = Becomes(f) /\ IsFrame(f) /\ Kept(f, top) /\ top = stack[n]
  BY GotoFrame, TopIsFrame
<1> HIDE DEF f
<1>4. /\ Frames(s) /\ Len(s) = n /\ n \in Nat \ {0}
      /\ \A i \in 1..(n - 1) : s[i] = stack[i]
      /\ s[n] = f
  BY <1>1, TopFrames
<1> HIDE DEF n
<1>6. \A i \in 1..n : Kept(s[i], stack[i])
  <2>1. \A i \in 1..n : i \in 1..(n - 1) \/ i = n
    BY <1>4
  <2> QED BY <1>1, <1>4, <2>1, Zenon DEF Kept
<1> QED BY <1>4, <1>6 DEF n

(* A call puts a frame on the stack ... *)
LEMMA PushFrames ==
  ASSUME NEW s, Frames(s), NEW f, IsFrame(f), NEW t, Pushed(t, s, f)
  PROVE  /\ Frames(t) /\ Len(t) = Len(s) + 1 /\ Len(s) \in Nat \ {0}
         /\ \A i \in 1..Len(s) : t[i] = s[i]
         /\ t[Len(s) + 1] = f
<1>1. PICK S : s \in Seq(S) /\ \A x \in S : IsFrame(x)
  BY DEF Frames
<1>2. \A x \in S \cup {f} : IsFrame(x)
  BY <1>1
<1>3. t \in Seq(S \cup {f}) /\ t # << >>
  BY <1>1 DEF Pushed
<1>4. Frames(t)
  BY <1>2, <1>3 DEF Frames
<1>5. Len(s) \in Nat \ {0}
  BY <1>1 DEF Frames
<1> QED BY <1>1, <1>4, <1>5 DEF Pushed

(* ... and a return takes one off. *)
LEMMA PopFrames ==
  ASSUME Frames(stack), Len(stack) > 1
  PROVE  /\ Frames(Caller) /\ Len(Caller) = Len(stack) - 1 /\ Len(stack) \in Nat
         /\ \A i \in 1..(Len(stack) - 1) : Caller[i] = stack[i]
<1>1. PICK S : stack \in Seq(S) /\ \A x \in S : IsFrame(x)
  BY DEF Frames
<1>2. /\ Caller \in Seq(S) /\ Len(Caller) = Len(stack) - 1 /\ Len(stack) \in Nat
      /\ \A i \in 1..(Len(stack) - 1) : Caller[i] = stack[i]
  BY <1>1 DEF Caller
<1>3. Caller # << >>
  BY <1>2
<1> QED BY <1>1, <1>2, <1>3 DEF Frames
(* The frame above that of main() is still the same. *)
Same == Len(stack') > 1 => Len(stack) > 1 /\ Kept(stack'[2], stack[2])

(* The running frame moves on, or one of its registers changes. *)
LEMMA BecomesIt ==
  ASSUME Interrupts, NEW f, IsFrame(f), f.op = top.op, stack' = Becomes(f),
         UNCHANGED suppressint, intpending' \in BOOLEAN, masked' \in BOOLEAN,
         intpending' => suppressint > 0,
         masked' => f.op = "dowait" /\ f.pc \in {"check", "suspend", "suspended", "unmask"}
  PROVE  Interrupts' /\ top' = f /\ (IF Len(stack) = 2 THEN stack'[2] = f ELSE Same)
<1> DEFINE n == Len(stack)
<1>1. /\ Frames(stack') /\ Len(stack') = n /\ n \in Nat \ {0}
      /\ \A i \in 1..(n - 1) : stack'[i] = stack[i]
      /\ stack'[n] = f /\ Len(stack) = n
  BY TopFrames DEF Interrupts
<1> HIDE DEF n
<1>2. \A i \in 1..n : stack'[i].op = stack[i].op
  BY <1>1 DEF top
<1>3. Shape'
  BY <1>1, <1>2 DEF Interrupts, Shape
<1>4. top' = f
  BY <1>1 DEF top
<1>5. Held'
  BY <1>4 DEF Held
<1>6. IF n = 2 THEN stack'[2] = f ELSE Same
  BY <1>1 DEF Same, Kept
<1> QED BY <1>1, <1>3, <1>4, <1>5, <1>6 DEF Interrupts

(* A step within a function keeps Interrupts. *)
LEMMA GoesTo ==
  ASSUME Interrupts, NEW pc, stack' = Goto(pc), UNCHANGED suppressint,
         intpending' \in BOOLEAN, masked' \in BOOLEAN, intpending' => suppressint > 0,
         masked' => top.op = "dowait" /\ pc \in {"check", "suspend", "suspended", "unmask"}
  PROVE  Interrupts' /\ Same
<1> DEFINE f == [top EXCEPT !.pc = pc]
<1>1. stack' = Becomes(f) /\ IsFrame(f) /\ Kept(f, top) /\ f.pc = pc /\ f.op = top.op
  BY GotoFrame DEF Interrupts, Kept
<1> HIDE DEF f
<1>2. Interrupts' /\ (IF Len(stack) = 2 THEN stack'[2] = f ELSE Same)
  BY <1>1, BecomesIt
<1>3. Len(stack) = 2 => top = stack[2]
  BY DEF top
<1>4. Len(stack) = 2 => Same
  <2> SUFFICES ASSUME Len(stack) = 2 PROVE Kept(stack'[2], stack[2])
    BY DEF Same
  <2> QED BY <1>1, <1>2, <1>3, Zenon
<1> QED BY <1>2, <1>4

(* An exception: back to the prompt. *)
LEMMA Unwinds ==
  ASSUME stack' = <<Main>>, suppressint' = 0, intpending' = FALSE, masked' = FALSE
  PROVE  Interrupts' /\ Len(stack') = 1
<1> DEFINE m == Main
           s == <<m>>
<1>1. IsFrame(m) /\ m.op = "main"
  BY DEF IsFrame, FrameFields, Main
<1> HIDE DEF m
<1>2. s \in Seq({m}) /\ s # << >> /\ Len(s) = 1 /\ s[1] = m
  OBVIOUS
<1>3. stack' = s
  BY DEF m
<1> HIDE DEF s
<1>4. Frames(s)
  <2>1. \A f \in {m} : IsFrame(f)
    BY <1>1
  <2> QED BY <1>2, <2>1, FramesOf
<1>5. Shape'
  BY <1>1, <1>2, <1>3 DEF Shape
<1> QED BY <1>2, <1>3, <1>4, <1>5, Zenon DEF Interrupts, Held

(* Only waitproc() blocks signals. *)
LEMMA Unmasked ==
  ASSUME Interrupts, top.op # "dowait" \/ top.pc \notin {"check", "suspend", "suspended", "unmask"}
  PROVE  masked = FALSE
BY DEF Interrupts, Held

(* So does a call that counts its INTOFF ... *)
LEMMA Pushes ==
  ASSUME Interrupts, NEW s, Frames(s), Len(s) = Len(stack),
         \A i \in 1..Len(stack) : Kept(s[i], stack[i]),
         NEW f, IsFrame(f), stack' = Append(s, f), UNCHANGED <<intpending, masked>>,
         \/ /\ Len(stack) = 1 /\ f.op \in {"launch", "here"} /\ suppressint' = suppressint + 1
         \/ /\ Len(stack) = 1 /\ f.op \in {"waitcmd", "showjobs"} /\ UNCHANGED suppressint
         \/ /\ top.op \in {"here", "waitcmd", "showjobs", "waitforjob"} /\ f.op = "dowait"
            /\ suppressint' = suppressint + 1
         \/ /\ top.op \in {"main", "dotrap", "action"} /\ f.op \in {"dotrap", "action"}
            /\ UNCHANGED suppressint
  PROVE  Interrupts' /\ (IF Len(stack) = 1 THEN stack'[2] = f ELSE Same)
<1> DEFINE n == Len(stack)
<1>1. /\ Frames(s) /\ Len(s) = n /\ n \in Nat \ {0}
      /\ \A i \in 1..n : s[i].op = stack[i].op
  BY DEF Interrupts, Kept, Frames
<1>3. /\ Frames(stack') /\ Len(stack') = n + 1
      /\ \A i \in 1..n : stack'[i] = s[i]
      /\ stack'[n + 1] = f
  <2>0. Pushed(stack', s, f)
    BY DEF Pushed
  <2>1. /\ Frames(stack') /\ Len(stack') = Len(s) + 1
        /\ \A i \in 1..Len(s) : stack'[i] = s[i]
        /\ stack'[Len(s) + 1] = f
    BY <2>0, PushFrames
  <2> QED BY <1>1, <2>1, Zenon
<1>4. (\A i \in 1..n : stack'[i].op = stack[i].op) /\ stack'[n + 1].op = f.op
  BY <1>1, <1>3, Zenon
<1>0. Shape /\ top.op = stack[n].op
  BY DEF Interrupts, top
<1>5. Shape' /\ (intpending => suppressint' > 0)
  <2> HIDE DEF n
  <2>1. stack'[1].op = "main" /\ Len(stack) = n
    BY <1>1, <1>4, <1>0 DEF Shape, n
  <2>2. CASE n = 1 /\ f.op \in {"launch", "here", "waitcmd", "showjobs"}
    <3>1. suppressint = 0
      BY <1>0, <2>1, <2>2 DEF Shape
    <3>2. Shape'
      BY <1>1, <1>3, <1>4, <1>0, <2>1, <2>2, <3>1 DEF Shape
    <3> QED BY <3>1, <3>2 DEF Interrupts, Held
  <2>3. CASE top.op \in {"here", "waitcmd", "showjobs", "waitforjob"} /\ f.op = "dowait"
    <3>1. n = 2 /\ top.op = stack[2].op
      BY <1>1, <1>0, <2>1, <2>3, SMTT(60) DEF Shape
    <3> QED BY <1>1, <1>3, <1>4, <1>0, <2>1, <2>3, <3>1 DEF Shape
  <2>4. CASE top.op \in {"main", "dotrap", "action"} /\ f.op \in {"dotrap", "action"}
    <3>1. (\A i \in 2..n : stack[i].op \in {"dotrap", "action"}) /\ suppressint = 0
      BY <1>1, <1>0, <2>1, <2>4, Zenon DEF Shape
    <3>2. \A i \in 2..(n + 1) : stack'[i].op \in {"dotrap", "action"}
      <4>1. \A i \in 2..(n + 1) : i \in 2..n \/ i = n + 1
        BY <1>1
      <4>2. \A i \in 2..n : i \in 1..n
        OBVIOUS
      <4> QED BY <1>4, <2>4, <3>1, <4>1, <4>2, Zenon
    <3>3. Shape'
      BY <1>3, <2>1, <2>4, <3>1, <3>2, Zenon DEF Shape
    <3> QED BY <3>1, <3>3, <2>4, Zenon DEF Interrupts, Held
  <2> QED BY <2>1, <2>2, <2>3, <2>4, Zenon
<1>6. masked = FALSE
  <2>1. top.op # "dowait"
    BY <1>0, <1>1, Zenon DEF Shape
  <2> QED BY <2>1, Unmasked
<1>7. Held'
  BY <1>5, <1>6, Zenon DEF Interrupts, Held
<1>8. IF n = 1 THEN stack'[2] = f ELSE Same
  BY <1>1, <1>3 DEF Same
<1> QED BY <1>3, <1>5, <1>7, <1>8, Zenon DEF Interrupts

(* ... as Call does it ... *)
LEMMA Calls ==
  ASSUME Interrupts, NEW f, IsFrame(f), NEW pc, stack' = Call(f, pc),
         UNCHANGED <<intpending, masked>>,
         \/ /\ Len(stack) = 1 /\ f.op \in {"launch", "here"} /\ suppressint' = suppressint + 1
         \/ /\ Len(stack) = 1 /\ f.op \in {"waitcmd", "showjobs"} /\ UNCHANGED suppressint
         \/ /\ top.op \in {"here", "waitcmd", "showjobs", "waitforjob"} /\ f.op = "dowait"
            /\ suppressint' = suppressint + 1
         \/ /\ top.op \in {"main", "dotrap", "action"} /\ f.op \in {"dotrap", "action"}
            /\ UNCHANGED suppressint
  PROVE  Interrupts' /\ (IF Len(stack) = 1 THEN stack'[2] = f ELSE Same)
<1> DEFINE s == Goto(pc)
<1>1. /\ Frames(s) /\ Len(s) = Len(stack)
      /\ \A i \in 1..Len(stack) : Kept(s[i], stack[i])
  BY GotoFrames, Zenon DEF Interrupts
<1>2. stack' = Append(s, f)
  BY DEF Call
<1> HIDE DEF s
<1> QED BY <1>1, <1>2, Pushes, Zenon

(* INTON and the return to the caller, or the interrupt that was held back. *)
LEMMA Returns ==
  ASSUME Interrupts, top.op \in {"launch", "waitforjob", "here", "dowait"}, masked = FALSE,
         NEW k, Frames(k), Len(k) = Len(stack) - 1,
         \A i \in 1..(Len(stack) - 1) : Kept(k[i], stack[i]), NEW st, INTON(k, st)
  PROVE  Interrupts' /\ Same /\ (Len(stack) = 2 => Len(stack') = 1)
<1> DEFINE n == Len(stack)
<1>0. Shape /\ top.op = stack[n].op /\ n \in Nat \ {0} /\ Len(stack) = n
  BY DEF Interrupts, top, Frames
<1>1. CASE suppressint = 1 /\ intpending
  <2>1. Interrupts' /\ Len(stack') = 1
    BY <1>1, Unwinds, Zenon DEF INTON, onint, Raise, FORCEINTON
  <2> QED BY <2>1 DEF Same
<1>2. CASE ~(suppressint = 1 /\ intpending)
  <2>1. /\ suppressint' = suppressint - 1 /\ stack' = k
        /\ UNCHANGED <<intpending, masked>>
    BY <1>2 DEF INTON
  <2>2. Len(k) = n - 1 /\ (\A i \in 1..(n - 1) : k[i].op = stack[i].op)
    BY DEF Kept
  <2>3. (n = 2 /\ suppressint = 1) \/ (n = 3 /\ top.op = "dowait")
    BY <1>0, SMTT(60) DEF Shape
  <2> HIDE DEF n
  <2>4. Shape' /\ (suppressint = 1 \/ suppressint' > 0)
    <3>2. CASE n = 2 /\ suppressint = 1
      <4>1. Len(k) = 1 /\ k[1].op = "main" /\ suppressint' = 0
        BY <2>1, <1>0, <2>2, <3>2 DEF Shape
      <4>2. \A i \in 2..Len(stack') : FALSE
        <5>1. Len(stack') = 1
          BY <2>1, <4>1, Zenon
        <5> QED BY ONLY <5>1
      <4>3. stack'[1].op = "main"
        BY <2>1, <4>1
      <4>4. Shape'
        BY <4>1, <4>2, <4>3, Zenon DEF Shape
      <4> QED BY <3>2, <4>4
    <3>3. CASE n = 3 /\ top.op = "dowait"
      BY <2>1, <1>0, <2>2, <3>3 DEF Shape
    <3> QED BY <3>2, <3>3, <2>3, Zenon
  <2>5. Held'
    BY <1>2, <2>1, <2>4 DEF Interrupts, Held
  <2>6. Same /\ (n = 2 => Len(stack') = 1)
    <3>1. n = 3 => Kept(k[2], stack[2])
      BY <1>0
    <3>2. n = 2 => Len(stack') = 1
      BY <2>1, <2>2
    <3>3. n = 3 => Len(stack) > 1 /\ Kept(stack'[2], stack[2])
      BY <2>1, <1>0, <3>1
    <3> QED BY <2>3, <3>2, <3>3 DEF Same
  <2> QED BY <1>0, <2>1, <2>4, <2>5, <2>6, Zenon DEF Interrupts
<1> QED BY <1>1, <1>2

(* ... and a return through INTON, where a held interrupt is raised. *)
LEMMA Leaves ==
  ASSUME Interrupts, top.op \in {"launch", "waitforjob", "here", "dowait"}, masked = FALSE,
         NEW st, INTON(Caller, st)
  PROVE  Interrupts' /\ Same /\ (Len(stack) = 2 => Len(stack') = 1)
<1>1. Len(stack) > 1
  BY DEF Interrupts, Shape, top, Frames
<1>2. /\ Frames(Caller) /\ Len(Caller) = Len(stack) - 1
      /\ \A i \in 1..(Len(stack) - 1) : Kept(Caller[i], stack[i])
  BY <1>1, PopFrames DEF Interrupts, Kept
<1> QED BY <1>2, Returns, Zenon

(* A return without INTON. *)
LEMMA Pops ==
  ASSUME Interrupts, top.op \in {"waitcmd", "showjobs", "dotrap", "action"}, stack' = Caller,
         UNCHANGED <<suppressint, intpending, masked>>
  PROVE  Interrupts' /\ Same /\ (top.op \in {"waitcmd", "showjobs"} => Len(stack') = 1)
<1> DEFINE n == Len(stack)
<1>0. Shape /\ top.op = stack[n].op /\ n \in Nat \ {0} /\ Len(stack) = n
  BY DEF Interrupts, top, Frames
<1>1. n > 1
  BY <1>0 DEF Shape
<1>2. /\ Frames(stack') /\ Len(stack') = n - 1
      /\ \A i \in 1..(n - 1) : stack'[i] = stack[i]
  BY <1>1, PopFrames DEF Interrupts
<1>3. masked = FALSE
  BY Unmasked, Zenon
<1> HIDE DEF n
<1>4. suppressint = 0 /\ Shape' /\ (top.op \in {"waitcmd", "showjobs"} => n = 2)
  <2>1. CASE n = 2 /\ top.op \in {"waitcmd", "showjobs"}
    <3>1. suppressint = 0 /\ stack'[1].op = "main" /\ Len(stack') = 1
      BY <1>0, <1>2, <2>1 DEF Shape
    <3>2. \A i \in 2..Len(stack') : FALSE
      BY ONLY <3>1
    <3> QED BY <2>1, <3>1, <3>2, Zenon DEF Shape
  <2>2. CASE top.op \in {"dotrap", "action"}
    <3>1. suppressint = 0 /\ \A i \in 2..n : stack[i].op \in {"dotrap", "action"}
      BY <1>0, <2>2 DEF Shape
    <3>2. stack'[1].op = "main" /\ \A i \in 2..Len(stack') : stack'[i].op \in {"dotrap", "action"}
      BY <1>0, <1>1, <1>2, <3>1 DEF Shape
    <3> QED BY <2>2, <3>1, <3>2, Zenon DEF Shape
  <2> QED BY <1>0, <2>1, <2>2, SMTT(60) DEF Shape
<1>5. Held'
  BY <1>3, <1>4 DEF Interrupts, Held
<1>6. Same
  BY <1>0, <1>2 DEF Same, Kept
<1> QED BY <1>2, <1>4, <1>5, <1>6 DEF Interrupts

-----------------------------------------------------------------------------
(* The frames that the code pushes, and what a step leaves alone. *)
LEMMA NewFrame ==
  ASSUME NEW op, NEW pc, NEW j, NEW st, NEW f, f = Frame(op, pc, j, st)
  PROVE  IsFrame(f) /\ f.op = op /\ f.pc = pc /\ f.j = j /\ f.st = st
BY DEF Frame, IsFrame, FrameFields

(* At the prompt nothing is held back. *)
LEMMA AtMain ==
  ASSUME Interrupts, top.op = "main"
  PROVE  Len(stack) = 1 /\ suppressint = 0 /\ intpending = FALSE /\ masked = FALSE
<1> DEFINE n == Len(stack)
<1>1. Shape /\ Held /\ top.op = stack[n].op /\ n \in Nat \ {0} /\ Len(stack) = n
  BY DEF Interrupts, top, Frames
<1> HIDE DEF n
<1>2. n = 1
  BY <1>1 DEF Shape
<1>3. suppressint = 0
  BY <1>1, <1>2 DEF Shape
<1> QED BY <1>1, <1>2, <1>3 DEF Held

(* Frames that run above main() alone. *)
LEMMA AboveMain ==
  ASSUME Interrupts, top.op \in {"launch", "waitforjob", "here", "waitcmd", "showjobs"}
  PROVE  /\ Len(stack) = 2 /\ top = stack[2] /\ masked = FALSE
         /\ top.op \in {"launch", "waitforjob", "here"} => suppressint = 1
         /\ top.op \in {"waitcmd", "showjobs"} => suppressint = 0 /\ intpending = FALSE
<1> DEFINE n == Len(stack)
<1>1. Shape /\ Held /\ top = stack[n] /\ n \in Nat \ {0} /\ Len(stack) = n
  BY DEF Interrupts, top, Frames
<1> HIDE DEF n
<1>2. n = 2
  BY <1>1 DEF Shape
<1>3. /\ top.op \in {"launch", "waitforjob", "here"} => suppressint = 1
      /\ top.op \in {"waitcmd", "showjobs"} => suppressint = 0
  BY <1>1, <1>2 DEF Shape
<1> QED BY <1>1, <1>2, <1>3 DEF Held

(* A frame keeps its claim on a job when its pc changes. *)
LEMMA FrameKept ==
  ASSUME NEW t, NEW ow, NEW f, NEW g, FrameJob(f, t, ow), Kept(g, f)
  PROVE  FrameJob(g, t, ow)
BY Zenon DEF FrameJob, Kept

Still == UNCHANGED <<jt, procs, forks, strays, owed>>

(* A step that touches neither table nor children keeps Jobs. *)
LEMMA JobsSame ==
  ASSUME Jobs, Still, Same
  PROVE  Jobs'
<1>1. Len(stack') > 1 => FrameJob(stack'[2], jt, owed)
  BY FrameKept, Zenon DEF Jobs, Same
<1> QED BY <1>1, Zenon DEF Jobs, Still

(* Without a frame that works on a job, the table is all there is to Jobs. *)
LEMMA JobsNone ==
  ASSUME Sound(jt', procs', forks', strays'), Owes(jt', owed'),
         Len(stack') > 1 => stack'[2].op \notin {"launch", "waitforjob", "waitcmd", "showjobs"}
  PROVE  Jobs'
<1>1. Len(stack') > 1 => FrameJob(stack'[2], jt', owed')
  BY Zenon DEF FrameJob
<1> QED BY <1>1, Zenon DEF Jobs

-----------------------------------------------------------------------------
(* Steps that read a command. *)
LEMMA JobsOf ==
  ASSUME Inv
  PROVE  /\ Interrupts /\ Jobs /\ Sound(jt, procs, forks, strays) /\ Owes(jt, owed)
         /\ jt \in Table /\ Listed(jt) /\ procs \in [Pids -> Proc] /\ forks \in Nat
         /\ Len(stack) > 1 => FrameJob(stack[2], jt, owed)
BY DEF Inv, Jobs, Sound

(* evalpipe and evaltree: a job of n processes is begun. *)
LEMMA LaunchInv ==
  ASSUME Inv, NEW kind, NEW n \in Nat \ {0}, Launch(kind, n)
  PROVE  Inv'
<1> DEFINE f == Frame("launch", kind, MakeSlot(jt), n)
<1>1. IsFrame(f) /\ f.op = "launch" /\ f.j = MakeSlot(jt) /\ f.st = n
  BY NewFrame
<1>2. /\ stack' = Call(f, "ended") /\ suppressint' = suppressint + 1
      /\ UNCHANGED <<intpending, masked>>
      /\ jt' = makejob(jt) /\ UNCHANGED <<procs, forks, strays, owed>> /\ top.op = "main"
  BY DEF Launch, Reads, In, kernel
<1> HIDE DEF f
<1>3. Len(stack) = 1
  BY <1>2, AtMain DEF Inv
<1>4. Interrupts' /\ stack'[2] = f
  BY <1>1, <1>2, <1>3, Calls, Zenon DEF Inv
<1>5. Sound(jt', procs, forks, strays)
  BY <1>2, JobsOf, MakeSound, Zenon
<1>6. Owes(jt', owed) /\ FrameJob(f, jt', owed)
  BY <1>1, <1>2, JobsOf, MakeOwes, Zenon
<1> QED BY <1>2, <1>4, <1>5, <1>6, Zenon DEF Inv, Jobs

(* A step that only moves the running frame on, with no signal blocked. *)
LEMMA MovesOn ==
  ASSUME Inv, NEW pc, stack' = Goto(pc), UNCHANGED <<suppressint, intpending>>,
         masked = FALSE, masked' = FALSE, Still
  PROVE  Inv'
<1>1. intpending' \in BOOLEAN /\ (intpending' => suppressint > 0)
  BY DEF Inv, Interrupts, Held
<1>2. Interrupts' /\ Same
  BY <1>1, GoesTo, Zenon DEF Inv
<1> QED BY <1>2, JobsSame DEF Inv

(* openhere: a writer is forked for a here-document. *)
LEMMA openhereInv ==
  ASSUME Inv, openhere
  PROVE  Inv'
<1> DEFINE f == Frame("here", "fork", 0, 0)
<1>1. IsFrame(f) /\ f.op = "here"
  BY NewFrame
<1>2. /\ stack' = Call(f, "ended") /\ suppressint' = suppressint + 1
      /\ UNCHANGED <<intpending, masked>> /\ Still /\ top.op = "main"
  BY DEF openhere, Reads, In, kernel, table, Still
<1> HIDE DEF f
<1>3. Len(stack) = 1
  BY <1>2, AtMain DEF Inv
<1>4. Interrupts' /\ stack'[2] = f
  BY <1>1, <1>2, <1>3, Calls, Zenon DEF Inv
<1>5. Sound(jt', procs', forks', strays') /\ Owes(jt', owed')
  BY <1>2, JobsOf DEF Still
<1>6. Jobs'
  BY <1>1, <1>4, <1>5, JobsNone
<1> QED BY <1>4, <1>6 DEF Inv

(* A builtin that waits is called ... *)
LEMMA CallsBuiltin ==
  ASSUME Inv, NEW op \in {"waitcmd", "showjobs"}, NEW pc, NEW j, NEW st, NEW x,
         Builtin(Call(Frame(op, pc, j, st), "ended"), x),
         j = 0 \/ (j \in DOMAIN jt.tab /\ jt.tab[j].used)
  PROVE  Inv'
<1> DEFINE f == Frame(op, pc, j, st)
<1>1. IsFrame(f) /\ f.op = op /\ f.j = j
  BY NewFrame
<1>2. /\ stack' = Call(f, "ended") /\ UNCHANGED <<suppressint, intpending, masked>>
      /\ Still /\ top.op = "main"
  BY DEF Builtin, Reads, In, kernel, table, ints, Still
<1> HIDE DEF f
<1>3. Len(stack) = 1
  BY <1>2, AtMain DEF Inv
<1>4. Interrupts' /\ stack'[2] = f
  BY <1>1, <1>2, <1>3, Calls, Zenon DEF Inv
<1>5. Sound(jt', procs', forks', strays') /\ Owes(jt', owed')
  BY <1>2, JobsOf, Zenon DEF Still
<1>6. FrameJob(f, jt, owed)
  BY <1>1, Zenon DEF FrameJob
<1> QED BY <1>2, <1>4, <1>5, <1>6, Zenon DEF Inv, Jobs, Still

(* ... and one ends at once. *)
LEMMA EndsBuiltin ==
  ASSUME Inv, NEW x, Builtin(Ends, x)
  PROVE  Inv'
<1>1. /\ stack' = Goto("ended") /\ UNCHANGED <<suppressint, intpending, masked>>
      /\ Still /\ top.op = "main"
  BY DEF Builtin, Reads, In, kernel, table, ints, Still, Ends
<1>2. masked = FALSE
  BY <1>1, AtMain DEF Inv
<1> QED BY <1>1, <1>2, MovesOn, Zenon

(* The call of wait. *)
LEMMA waitcmdInv ==
  ASSUME Inv, waitcmd
  PROVE  Inv'
<1>1. jt \in Table /\ Listed(jt)
  BY JobsOf
<1>2. ASSUME NEW j, WaitFor(j), j = 0 \/ (j \in DOMAIN jt.tab /\ jt.tab[j].used) PROVE Inv'
  BY <1>2, CallsBuiltin DEF WaitFor
<1>3. CASE WaitFor(0)
  BY <1>2, <1>3
<1>4. ASSUME NEW p \in Pids,
             IF JobOfPid(jt, p) = 0 THEN Builtin(Ends, 127) ELSE WaitFor(JobOfPid(jt, p))
      PROVE  Inv'
  <2> DEFINE j == JobOfPid(jt, p)
  <2>1. CASE j = 0
    BY <1>4, <2>1, EndsBuiltin
  <2>2. CASE j # 0
    <3>1. WaitFor(j) /\ (\E q \in Pids : j = JobOfPid(jt, q))
      BY <1>4, <2>2
    <3> HIDE DEF j
    <3>2. j \in DOMAIN jt.tab /\ jt.tab[j].used
      BY <1>1, <2>2, <3>1, Named
    <3> QED BY <1>2, <3>1, <3>2
  <2> QED BY <2>1, <2>2
<1>5. ASSUME NEW j \in Operands(jt), IF j = 0 THEN Builtin(Ends, 2) ELSE WaitFor(j) PROVE Inv'
  <2>1. CASE j = 0
    BY <1>5, <2>1, EndsBuiltin
  <2>2. CASE j # 0
    <3>1. WaitFor(j)
      BY <1>5, <2>2
    <3>2. j \in DOMAIN jt.tab /\ jt.tab[j].used
      BY <1>1, <2>2, Named
    <3> QED BY <1>2, <3>1, <3>2
  <2> QED BY <2>1, <2>2
<1> QED BY <1>3, <1>4, <1>5 DEF waitcmd

(* The call of jobs. *)
LEMMA jobscmdInv ==
  ASSUME Inv, jobscmd
  PROVE  Inv'
<1>1. jt \in Table /\ Listed(jt)
  BY JobsOf
<1>2. PICK mode \in {"", "-p"} :
        \/ Builtin(Call(Frame("showjobs", "loop", 0, mode), "ended"), exitstatus)
        \/ \E j \in Operands(jt) :
             IF j = 0 THEN Builtin(Ends, 2)
             ELSE Builtin(Call(Frame("showjobs", "one", j, mode), "ended"), exitstatus)
  BY DEF jobscmd
<1>3. CASE Builtin(Call(Frame("showjobs", "loop", 0, mode), "ended"), exitstatus)
  BY <1>3, CallsBuiltin, Zenon
<1>4. ASSUME NEW j \in Operands(jt),
             IF j = 0 THEN Builtin(Ends, 2)
             ELSE Builtin(Call(Frame("showjobs", "one", j, mode), "ended"), exitstatus)
      PROVE  Inv'
  <2>1. CASE j = 0
    BY <1>4, <2>1, EndsBuiltin
  <2>2. CASE j # 0
    <3>1. j \in DOMAIN jt.tab /\ jt.tab[j].used
      BY <1>1, <2>2, Named, Zenon
    <3> QED BY <1>4, <2>2, <3>1, CallsBuiltin, Zenon
  <2> QED BY <2>1, <2>2
<1> QED BY <1>2, <1>3, <1>4, Zenon

(* trap and a command that does nothing. *)
LEMMA PlainInv ==
  ASSUME Inv, trapcmd \/ truecmd
  PROVE  Inv'
<1>1. /\ stack' = Goto("ended") /\ UNCHANGED <<suppressint, intpending, masked>>
      /\ Still /\ top.op = "main"
  BY DEF trapcmd, truecmd, Reads, In, kernel, table, ints, Still, Ends, still
<1>2. masked = FALSE
  BY <1>1, AtMain DEF Inv
<1> QED BY <1>1, <1>2, MovesOn, Zenon

(* Every command that cmdloop() may read. *)
LEMMA ReadingInv ==
  ASSUME Inv, Reading
  PROVE  Inv'
<1>1. CASE evalcommand \/ evalsubshell \/ evalpipe
  <2>1. PICK kind \in {"command", "background", "pipeline"}, n \in {1, 2} : Launch(kind, n)
    BY <1>1 DEF evalcommand, evalsubshell, evalpipe
  <2> QED BY <2>1, LaunchInv
<1> QED BY <1>1, openhereInv, waitcmdInv, jobscmdInv, PlainInv DEF Reading

-----------------------------------------------------------------------------
(* Starting the processes of a job. *)
LEMMA forkshellInv ==
  ASSUME Inv, forkshell
  PROVE  Inv'
<1>1. PICK p \in Pids :
        /\ p \in Free /\ forks' = forks + 1
        /\ procs' = [procs EXCEPT ![p] = [state |-> "running", id |-> forks + 1]]
        /\ jt' = forkparent(jt, top.j, forks + 1, p, Background)
  BY Zenon DEF forkshell, Forks
<1>2. /\ UNCHANGED <<strays, owed, suppressint, intpending, masked>> /\ top.op = "launch" /\ top.st > 0
      /\ stack' = Becomes([top EXCEPT !.st = @ - 1])
  BY DEF forkshell, Forks, ints, Launching
<1>3. Len(stack) = 2 /\ top = stack[2] /\ masked = FALSE /\ IsFrame(top)
  BY <1>2, AboveMain, TopIsFrame DEF Inv, Interrupts
<1> DEFINE f == top
           g == [f EXCEPT !.st = @ - 1]
<1>4. IsFrame(g) /\ g.op = f.op /\ g.j = f.j /\ g.st = f.st - 1
  BY <1>3 DEF IsFrame, FrameFields
<1>5. stack' = Becomes(g)
  BY <1>2
<1> HIDE DEF g
<1>6. Interrupts' /\ stack'[2] = g
  <2>1. intpending' \in BOOLEAN /\ masked' = FALSE /\ (intpending' => suppressint > 0)
    BY <1>2, <1>3 DEF Inv, Interrupts, Held
  <2> QED BY <1>2, <1>3, <1>4, <1>5, <2>1, BecomesIt, Zenon DEF Inv
<1>7. FrameJob(f, jt, owed) /\ f.op = "launch" /\ f.st > 0
  BY <1>2, <1>3, JobsOf
<1> HIDE DEF f
<1> DEFINE j == f.j
           bg == Background
<1>8. /\ jt.cur # << >> /\ j = jt.cur[1] /\ jt.tab[j].state = "running"
      /\ \A m \in DOMAIN jt.tab[j].ps : jt.tab[j].ps[m].status = Unset
  BY <1>7, Zenon DEF FrameJob, Unwaited
<1>9. bg \in BOOLEAN /\ procs[p].state = "none" /\ jt' = forkparent(jt, j, forks + 1, p, bg)
  BY <1>1 DEF Background, Free, f
<1> HIDE DEF j, bg
<1>10. Sound(jt', procs', forks', strays')
  <2>1. Sound(jt, procs, forks, strays)
    BY JobsOf
  <2>2. Sound(jt', Spawned(procs, p, forks + 1), forks + 1, strays)
    BY ONLY <1>8, <1>9, <2>1, p \in Pids, ForkSound, Zenon
  <2> QED BY <1>1, <1>2, <2>2 DEF Spawned
<1>11. Owes(jt', owed) /\ FrameJob(g, jt', owed)
  <2>1. PICK k : k = forks + 1
    OBVIOUS
  <2>2. /\ Sound(jt, procs, forks, strays) /\ Owes(jt, owed)
        /\ jt' = forkparent(jt, f.j, k, p, bg)
    BY <1>9, <2>1, JobsOf DEF j
  <2> QED BY ONLY <1>4, <1>7, <1>9, <2>1, <2>2, p \in Pids, ForkOwes, Zenon
<1> QED BY <1>2, <1>6, <1>10, <1>11 DEF Inv, Jobs

(* forkshell() fails, and the exception frees the job. *)
LEMMA ForkFailsInv ==
  ASSUME Inv, ForkFails
  PROVE  Inv'
<1>1. /\ top.op = "launch" /\ jt' = freejob(jt, top.j) /\ UNCHANGED <<procs, forks, owed>>
      /\ strays' = strays \cup {e.id : e \in Range(jt.tab[top.j].ps)}
      /\ stack' = <<Main>> /\ suppressint' = 0 /\ intpending' = FALSE /\ masked' = FALSE
  BY Zenon DEF ForkFails, Launching, Raise, FORCEINTON
<1>2. Interrupts' /\ Len(stack') = 1
  BY <1>1, Unwinds, Zenon
<1>3. FrameJob(top, jt, owed)
  <2>1. Len(stack) = 2 /\ top = stack[2]
    BY <1>1, AboveMain, Zenon DEF Inv
  <2> QED BY <2>1, JobsOf
<1> DEFINE j == top.j
<1>4. jt.cur # << >> /\ j = jt.cur[1] /\ Unowed(jt.tab[j].ps, owed)
  BY <1>1, <1>3, Zenon DEF FrameJob
<1>5. jt' = freejob(jt, j) /\ strays' = strays \cup {e.id : e \in Range(jt.tab[j].ps)}
  BY <1>1, Zenon
<1> HIDE DEF j
<1>6. jt \in Table /\ Listed(jt) /\ j \in DOMAIN jt.tab /\ jt.tab[j].used
  BY <1>4, JobsOf, SMTT(60) DEF Listed, Table
<1>7. Sound(jt', procs, forks, strays')
  BY <1>5, <1>6, JobsOf, FreeStrays, Zenon
<1>8. Owes(jt', owed)
  <2>1. \A id \in owed : ~LastIs(jt.tab[j].ps, id)
    BY <1>4, <1>6, EntryOf, UnownedLast, Zenon
  <2> QED BY <1>5, <1>6, <2>1, JobsOf, FreeOwes, Zenon
<1>9. Jobs'
  BY <1>1, <1>2, <1>7, <1>8, JobsNone, SMTT(60)
<1> QED BY <1>2, <1>9 DEF Inv

(* The job has all its processes: it is waited for, or left in the *)
(* background.                                                     *)
LEMMA LaunchedInv ==
  ASSUME Inv, Launched
  PROVE  Inv'
<1>1. top.op = "launch" /\ top.st = 0 /\ UNCHANGED <<jt, strays, procs, forks>>
  BY Zenon DEF Launched, Launching
<1>2. /\ Len(stack) = 2 /\ top = stack[2] /\ masked = FALSE /\ suppressint = 1
      /\ FrameJob(top, jt, owed)
  <2>1. Len(stack) = 2 /\ top = stack[2] /\ masked = FALSE /\ suppressint = 1
    BY <1>1, AboveMain DEF Inv
  <2> QED BY <2>1, JobsOf
<1>3. CASE Background
  <2>1. PICK st : INTON(Caller, st) /\ owed' = owed \cup {lastproc(jt.tab[top.j]).id}
    BY <1>3, Zenon DEF Launched
  <2>2. Interrupts' /\ Len(stack') = 1
    BY <1>1, <1>2, <2>1, Leaves, JobsOf, Zenon
  <2>3. Owes(jt, owed')
    BY <1>1, <1>2, <2>1, JobsOf, LaunchedOwes, Zenon
  <2>4. Jobs'
    BY <1>1, <2>2, <2>3, JobsOf, JobsNone, SMTT(60)
  <2> QED BY <2>2, <2>4 DEF Inv
<1>4. CASE ~Background
  <2> DEFINE g == Frame("waitforjob", "loop", top.j, 0)
             f == top
  <2>1. stack' = Append(Caller, g) /\ UNCHANGED <<owed, suppressint, intpending, masked>>
    BY <1>4, Zenon DEF Launched, ints
  <2>2. IsFrame(g) /\ g.op = "waitforjob" /\ g.j = f.j
    BY NewFrame
  <2> HIDE DEF g, f
  <2>3. Frames(Caller) /\ Len(Caller) = 1 /\ Caller[1] = stack[1] /\ stack[1].op = "main"
    BY <1>2, PopFrames, SMTT(60) DEF Inv, Interrupts, Shape
  <2>4. /\ Frames(stack') /\ Len(stack') = 2
        /\ stack'[1] = stack[1] /\ stack'[2] = g
    <3> DEFINE c == Caller
    <3>1. Frames(c) /\ Len(c) = 1 /\ c[1] = stack[1] /\ stack' = Append(c, g)
      BY <2>1, <2>3, Zenon
    <3> HIDE DEF c
    <3>0. Pushed(stack', c, g)
      BY <3>1 DEF Pushed
    <3>2. /\ Frames(stack') /\ Len(stack') = Len(c) + 1
          /\ \A i \in 1..Len(c) : stack'[i] = c[i]
          /\ stack'[Len(c) + 1] = g
      BY ONLY <2>2, <3>0, <3>1, PushFrames
    <3> QED BY <3>1, <3>2
  <2>5. Shape'
    BY <1>2, <2>1, <2>2, <2>3, <2>4, Zenon DEF Shape
  <2>6. Held'
    BY <1>2, <2>1, Zenon DEF Inv, Interrupts, Held
  <2>7. FrameJob(g, jt, owed)
    <3>1. f.op = "launch" /\ FrameJob(f, jt, owed) /\ Sound(jt, procs, forks, strays)
      BY <1>1, <1>2, JobsOf, Zenon DEF f
    <3> QED BY <2>2, <3>1, LaunchedFrame
  <2>8. Jobs'
    BY <1>1, <2>1, <2>4, <2>7, JobsOf, Zenon DEF Jobs
  <2> QED BY <2>4, <2>5, <2>6, <2>8 DEF Inv, Interrupts
<1> QED BY <1>3, <1>4

-----------------------------------------------------------------------------
(* Here documents. *)
LEMMA HereForksInv ==
  ASSUME Inv, HereForks
  PROVE  Inv'
<1>1. PICK p \in Pids :
        /\ p \in Free /\ forks' = forks + 1
        /\ procs' = [procs EXCEPT ![p] = [state |-> "running", id |-> forks + 1]]
  BY Zenon DEF HereForks, Forks
<1>2. /\ UNCHANGED <<jt, owed, suppressint, intpending, masked>> /\ top.op = "here"
      /\ stack' = Goto("loop") /\ strays' = strays \cup {forks + 1}
  BY Zenon DEF HereForks, Forks, ints, In
<1>3. Len(stack) = 2 /\ top = stack[2] /\ masked = FALSE
  BY <1>2, AboveMain DEF Inv
<1>4. Interrupts' /\ Same
  <2>1. intpending' \in BOOLEAN /\ masked' = FALSE /\ (intpending' => suppressint > 0)
    BY <1>2, <1>3, Zenon DEF Inv, Interrupts, Held
  <2> QED BY <1>2, <2>1, GoesTo, Zenon DEF Inv
<1>5. Sound(jt', procs', forks', strays')
  <2>1. Sound(jt, Spawned(procs, p, forks + 1), forks + 1, strays \cup {forks + 1})
    BY <1>1, JobsOf, HereSound, Zenon DEF Free
  <2> QED BY <1>1, <1>2, <2>1, Zenon DEF Spawned
<1>6. Jobs'
  <2>1. Len(stack') > 1 => stack'[2].op \notin {"launch", "waitforjob", "waitcmd", "showjobs"}
    BY <1>2, <1>3, <1>4, Zenon DEF Same, Kept
  <2> QED BY <1>2, <1>5, <2>1, JobsOf, JobsNone, Zenon
<1> QED BY <1>4, <1>6 DEF Inv

(* The fork of the writer fails. *)
LEMMA HereFailsInv ==
  ASSUME Inv, HereFails
  PROVE  Inv'
<1>1. top.op = "here" /\ INTON(Caller, 2) /\ Still
  BY DEF HereFails, In, table, Still
<1>2. masked = FALSE
  BY <1>1, AboveMain DEF Inv
<1>3. Interrupts' /\ Same
  BY <1>1, <1>2, Leaves, Zenon DEF Inv
<1> QED BY <1>1, <1>3, JobsSame DEF Inv

(* The writer has been forked and is counted in jobless. *)
LEMMA HereCountsInv ==
  ASSUME Inv, HereCounts
  PROVE  Inv'
<1>1. /\ top.op = "here" /\ INTON(Caller, 0) /\ UNCHANGED <<strays, owed, procs, forks>>
      /\ jt' = [jt EXCEPT !.jobless = @ + 1]
  BY DEF HereCounts, In
<1>2. masked = FALSE /\ Len(stack) = 2
  BY <1>1, AboveMain DEF Inv
<1>3. Interrupts' /\ Len(stack') = 1
  BY <1>1, <1>2, Leaves, Zenon DEF Inv
<1>a. jt \in Table BY JobsOf, Zenon
<1>4. jt' \in Table /\ jt'.tab = jt.tab /\ jt'.cur = jt.cur
  BY ONLY <1>1, <1>a DEF Table
<1>5. Sound(jt', procs, forks, strays)
  BY <1>4, JobsOf, SameSound, Zenon
<1>6. Owes(jt', owed)
  BY <1>4, JobsOf, Zenon DEF Owes
<1>7. Jobs'
  BY <1>1, <1>3, <1>5, <1>6, JobsNone
<1> QED BY <1>3, <1>7 DEF Inv

(* A call of dowait() that changes nothing else. *)
LEMMA CallsDowait ==
  ASSUME Inv, top.op \in {"here", "waitcmd", "showjobs"}, NEW pc, NEW j, NEW st, NEW to,
         stack' = Call(Frame("dowait", pc, j, st), to), suppressint' = suppressint + 1,
         UNCHANGED <<intpending, masked>>
  PROVE  Interrupts' /\ Same
<1> DEFINE f == Frame("dowait", pc, j, st)
<1>1. IsFrame(f) /\ f.op = "dowait" /\ stack' = Call(f, to)
  BY NewFrame
<1> HIDE DEF f
<1>2. Len(stack) = 2
  BY AboveMain, Zenon DEF Inv
<1> QED BY <1>1, <1>2, Calls, SMTT(60) DEF Inv

(* forkparent() first waits for the children that are counted in jobless. *)
LEMMA HereReapsInv ==
  ASSUME Inv, HereReaps
  PROVE  Inv'
<1>1. /\ top.op = "here" /\ Still /\ suppressint' = suppressint + 1 /\ UNCHANGED <<intpending, masked>>
      /\ stack' = Call(Frame("dowait", "clear", 0, "normal"), "loop")
  BY DEF HereReaps, In, Still, table, kernel
<1>2. Interrupts' /\ Same
  BY <1>1, CallsDowait, Zenon
<1> QED BY <1>1, <1>2, JobsSame, Zenon DEF Inv

-----------------------------------------------------------------------------
(* Waiting. *)
LEMMA waitforjobInv ==
  ASSUME Inv, waitforjob
  PROVE  Inv'
<1>1. top.op = "waitforjob" /\ UNCHANGED <<strays, owed, procs, forks>>
  BY Zenon DEF waitforjob
<1>2. Len(stack) = 2 /\ top = stack[2] /\ masked = FALSE
  BY <1>1, AboveMain, Zenon DEF Inv
<1> DEFINE j == top.j
<1>3. j \in DOMAIN jt.tab /\ jt.tab[j].used /\ Unowed(jt.tab[j].ps, owed)
  <2>1. Len(stack) > 1 BY <1>2
  <2>2. FrameJob(top, jt, owed) BY <1>2, <2>1, JobsOf, Zenon
  <2> QED BY <1>1, <2>2, Zenon DEF FrameJob
<1>4. CASE jt.tab[j].state = "running"
  <2> DEFINE f == Frame("dowait", "clear", j, "block")
             s == stack
  <2>1. IsFrame(f) /\ f.op = "dowait"
    BY NewFrame
  <2>2. /\ stack' = Append(s, f) /\ suppressint' = suppressint + 1
        /\ UNCHANGED <<jt, intpending, masked>> /\ s = stack
    BY <1>4, Zenon DEF waitforjob
  <2> HIDE DEF f, s
  <2>3. \A i \in 1..Len(stack) : Kept(s[i], stack[i])
    BY <2>2, Zenon DEF Kept
  <2>4. Interrupts' /\ Same
    BY <1>1, <1>2, <2>1, <2>2, <2>3, Pushes, SMTT(60) DEF Inv, Interrupts
  <2> QED BY <1>1, <2>2, <2>4, JobsSame, Zenon DEF Inv, Still
<1>5. CASE jt.tab[j].state # "running"
  <2>1. PICK st : INTON(Caller, st) /\ jt' = freejob(jt, j)
    BY <1>5, Zenon DEF waitforjob
  <2>2. Interrupts' /\ Len(stack') = 1
    BY <1>1, <1>2, <2>1, Leaves, JobsOf, Zenon
  <2> HIDE DEF j
  <2>3. jt.tab[j].state = "done" /\ jt.tab[j].ps \in Seq(Entry)
    BY <1>3, <1>5, JobsOf, EntryOf, Zenon
  <2>4. Sound(jt', procs, forks, strays)
    BY <1>3, <2>1, <2>3, JobsOf, FreeDone, Zenon
  <2>5. Owes(jt', owed)
    <3>1. \A id \in owed : ~LastIs(jt.tab[j].ps, id)
      BY <1>3, <2>3, UnownedLast, Zenon
    <3> QED BY <1>3, <2>1, <3>1, JobsOf, FreeOwes, Zenon
  <2>6. Jobs'
    BY <1>1, <2>2, <2>4, <2>5, JobsNone, SMTT(60)
  <2> QED BY <2>2, <2>6 DEF Inv
<1> QED BY <1>4, <1>5, Zenon

(* A turn of the loop of waitcmd(). *)
LEMMA WaitLoopInv ==
  ASSUME Inv, WaitLoop
  PROVE  Inv'
<1>1. top.op = "waitcmd" /\ UNCHANGED <<strays, procs, forks, intpending, masked>>
  BY DEF WaitLoop, In, kernel
<1>2. Len(stack) = 2 /\ top = stack[2] /\ FrameJob(top, jt, owed)
  <2>1. Len(stack) = 2 /\ top = stack[2]
    BY <1>1, AboveMain, Zenon DEF Inv
  <2> QED BY <2>1, JobsOf
<1>3. Marks(jt, jt')
  <2>1. CASE top.j = 0
    BY <2>1, JobsOf, MarkAll DEF WaitLoop
  <2>2. CASE top.j # 0 /\ jt.tab[top.j].state = "done"
    <3> DEFINE j == top.j
    <3>1. jt' = [jt EXCEPT !.tab[j].waited = TRUE]
      BY <2>2 DEF WaitLoop
    <3>2. j \in DOMAIN jt.tab
      BY <1>1, <1>2, <2>2, Zenon DEF FrameJob
    <3> HIDE DEF j
    <3> QED BY <3>1, <3>2, JobsOf, MarkOne
  <2>3. CASE top.j # 0 /\ jt.tab[top.j].state # "done"
    <3>1. jt' = jt
      BY <2>3 DEF WaitLoop
    <3> QED BY <3>1, JobsOf, Zenon DEF Marks
  <2> QED BY <2>1, <2>2, <2>3, Zenon
<1>4. owed' = owed \ {e \in owed : \E j \in Range(jt'.cur) : jt'.tab[j].waited /\ lastproc(jt'.tab[j]).id = e}
  BY Zenon DEF WaitLoop, Told
<1>5. Interrupts' /\ Same
  <2>1. CASE stack' = Call(Frame("dowait", "clear", 0, "waitcmd"), "loop") /\ suppressint' = suppressint + 1
    BY <1>1, <2>1, CallsDowait, Zenon
  <2>2. CASE stack' = Caller /\ UNCHANGED suppressint
    BY <1>1, <2>2, Pops DEF Inv
  <2> QED BY <2>1, <2>2, Zenon DEF WaitLoop
<1> DEFINE f == top
<1>6. f.op = "waitcmd" /\ FrameJob(f, jt, owed) /\ Sound(jt, procs, forks, strays) /\ Owes(jt, owed)
  BY <1>1, <1>2, JobsOf, Zenon
<1>7. ASSUME NEW g, Kept(g, f)
      PROVE  Sound(jt', procs, forks, strays) /\ Owes(jt', owed') /\ FrameJob(g, jt', owed')
  <2> HIDE DEF f
  <2> QED BY <1>3, <1>4, <1>6, <1>7, MarkSound, Zenon
<1>8. Sound(jt', procs, forks, strays) /\ Owes(jt', owed')
  BY <1>7, Zenon DEF Kept
<1>9. Len(stack') > 1 => FrameJob(stack'[2], jt', owed')
  BY <1>2, <1>5, <1>7, Zenon DEF Same
<1> QED BY <1>1, <1>5, <1>8, <1>9, Zenon DEF Inv, Jobs

(* waitcmd() returns for a signal that has a trap. *)
LEMMA WaitSignalledInv ==
  ASSUME Inv, WaitSignalled
  PROVE  Inv'
<1>1. /\ top.op = "waitcmd" /\ stack' = Caller /\ UNCHANGED <<suppressint, intpending, masked>> /\ Still
  BY DEF WaitSignalled, In, kernel, table, ints, Still
<1>2. Interrupts' /\ Same
  BY <1>1, Pops, Zenon DEF Inv
<1> QED BY <1>1, <1>2, JobsSame DEF Inv

-----------------------------------------------------------------------------
(* Showing jobs. *)
LEMMA ShowingJob ==
  ASSUME Inv, top.op = "showjobs"
  PROVE  /\ Len(stack) = 2 /\ top = stack[2] /\ masked = FALSE /\ suppressint = 0
         /\ intpending = FALSE /\ IsFrame(top)
         /\ top.j = 0 \/ (top.j \in DOMAIN jt.tab /\ jt.tab[top.j].used)
<1>1. /\ Len(stack) = 2 /\ top = stack[2] /\ masked = FALSE /\ suppressint = 0
      /\ intpending = FALSE
  BY AboveMain, Zenon DEF Inv
<1>2. IsFrame(top)
  BY TopIsFrame, Zenon DEF Inv, Interrupts
<1>3. FrameJob(top, jt, owed)
  BY <1>1, JobsOf, SMTT(60)
<1> QED BY <1>1, <1>2, <1>3, Zenon DEF FrameJob

(* The frame of showjobs() changes, the job it shows included. *)
LEMMA ShowsAs ==
  ASSUME Inv, top.op = "showjobs", NEW f, IsFrame(f), f.op = "showjobs", stack' = Becomes(f),
         UNCHANGED <<suppressint, intpending, masked>>
  PROVE  Interrupts' /\ stack'[2] = f
<1>1. Len(stack) = 2 /\ masked' = FALSE /\ intpending' = FALSE
  BY ShowingJob, Zenon
<1> QED BY <1>1, BecomesIt, Zenon DEF Inv

(* showjobs() takes in the children that have ended. *)
LEMMA showjobsInv ==
  ASSUME Inv, showjobs
  PROVE  Inv'
<1>1. top.op = "showjobs" /\ Still /\ UNCHANGED <<intpending, masked>>
  BY Zenon DEF showjobs, Still, kernel, table
<1>2. CASE top.pc = "none"
  <2> DEFINE f == Frame("showjobs", "list", CurrentJob(jt), top.st)
  <2>1. IsFrame(f) /\ f.op = "showjobs" /\ f.j = CurrentJob(jt)
    BY NewFrame, SMTT(60)
  <2>2. stack' = Becomes(f) /\ UNCHANGED suppressint
    BY <1>2, Zenon DEF showjobs
  <2> HIDE DEF f
  <2>3. Interrupts' /\ stack'[2] = f
    BY <1>1, <2>1, <2>2, ShowsAs, Zenon
  <2>4. CurrentJob(jt) \in Operands(jt)
    BY DEF Operands
  <2>5. FrameJob(f, jt, owed)
    <3>1. f.j # 0 => f.j \in DOMAIN jt.tab /\ jt.tab[f.j].used
      BY <2>1, <2>4, JobsOf, Named, Zenon
    <3> QED BY <2>1, <3>1, Zenon DEF FrameJob
  <2> QED BY <1>1, <2>3, <2>5, JobsOf, Zenon DEF Inv, Jobs, Still
<1>3. CASE top.pc # "none"
  <2>1. /\ suppressint' = suppressint + 1
        /\ stack' = Call(Frame("dowait", "clear", 0, "normal"), "loop")
    BY <1>3, Zenon DEF showjobs
  <2>2. Interrupts' /\ Same
    BY <1>1, <2>1, CallsDowait, Zenon
  <2> QED BY <1>1, <2>2, JobsSame, Zenon DEF Inv
<1> QED BY <1>2, <1>3

(* What showing a job does to the table, and the job that comes next. *)
LEMMA Shows ==
  ASSUME Inv, NEW j, j \in DOMAIN jt.tab, jt.tab[j].used, showjob(j),
         UNCHANGED <<procs, forks, strays>>
  PROVE  /\ Sound(jt', procs', forks', strays') /\ Owes(jt', owed')
         /\ \A f : f.op = "showjobs" /\ f.j = prev_job(jt, j) => FrameJob(f, jt', owed')
<1>1. CASE jt' = freejob(jt, j) /\ owed' = owed \ {lastproc(jt.tab[j]).id} /\ jt.tab[j].state = "done"
  <2>1. Sound(jt, procs, forks, strays) /\ Owes(jt, owed)
    BY JobsOf, Zenon
  <2>2. PICK u, less : u = jt' /\ less = owed'
    OBVIOUS
  <2>3. u = freejob(jt, j) /\ less = owed \ {lastproc(jt.tab[j]).id}
    BY <1>1, <2>2, Zenon
  <2>4. j \in DOMAIN jt.tab /\ jt.tab[j].used /\ jt.tab[j].state = "done"
    BY <1>1, Zenon
  <2>5. Showed(jt, owed, j, u, less)
    BY <2>1, <2>3, <2>4, Zenon DEF Showed
  <2>6. Sound(u, procs, forks, strays) /\ Owes(u, less) /\ NextShown(jt, j, u, less)
    BY ONLY <2>1, <2>5, ShowSound, Zenon
  <2> QED BY <2>2, <2>6, Zenon DEF NextShown
<1>2. CASE UNCHANGED <<jt, owed>>
  <2>1. \A f : f.op = "showjobs" /\ f.j = prev_job(jt, j) => FrameJob(f, jt, owed)
    <3> SUFFICES ASSUME NEW f, f.op = "showjobs", f.j = prev_job(jt, j) PROVE FrameJob(f, jt, owed)
      BY Zenon
    <3>1. f.j # 0 => f.j \in DOMAIN jt.tab /\ jt.tab[f.j].used
      BY JobsOf, Following, Zenon
    <3> QED BY <3>1, Zenon DEF FrameJob
  <2> QED BY <1>2, <2>1, JobsOf, Zenon
<1> QED BY <1>1, <1>2, Zenon DEF showjob

(* showjobs() shows one job and frees it if it is done. *)
LEMMA ShowNextInv ==
  ASSUME Inv, ShowNext
  PROVE  Inv'
<1> DEFINE f == [top EXCEPT !.j = prev_job(jt, @)]
           j == top.j
<1>1. /\ top.op = "showjobs" /\ j # 0 /\ showjob(j) /\ stack' = Becomes(f)
      /\ UNCHANGED <<procs, forks, strays, suppressint, intpending, masked>>
  BY DEF ShowNext, In, kernel, ints
<1>2. IsFrame(top) /\ j \in DOMAIN jt.tab /\ jt.tab[j].used
  BY <1>1, ShowingJob, Zenon
<1>3. IsFrame(f) /\ f.op = "showjobs" /\ f.j = prev_job(jt, j)
  BY <1>1, <1>2, Zenon DEF IsFrame, FrameFields
<1> HIDE DEF f, j
<1>4. Interrupts' /\ stack'[2] = f
  BY <1>1, <1>3, ShowsAs, Zenon
<1>5. Sound(jt', procs', forks', strays') /\ Owes(jt', owed') /\ FrameJob(f, jt', owed')
  BY <1>1, <1>2, <1>3, Shows, Zenon
<1> QED BY <1>4, <1>5, Zenon DEF Inv, Jobs

(* The end of jobs. *)
LEMMA ShowEndsInv ==
  ASSUME Inv, ShowEnds
  PROVE  Inv'
<1>1. /\ top.op = "showjobs" /\ stack' = Caller
      /\ UNCHANGED <<procs, forks, strays, suppressint, intpending, masked>>
  BY Zenon DEF ShowEnds, In, kernel, ints
<1>2. Interrupts' /\ Len(stack') = 1
  BY <1>1, Pops, Zenon DEF Inv
<1>3. Sound(jt', procs', forks', strays') /\ Owes(jt', owed')
  <2>1. CASE UNCHANGED <<jt, owed>>
    BY <1>1, <2>1, JobsOf, Zenon
  <2>2. CASE top.j # 0 /\ showjob(top.j)
    BY <1>1, <2>2, ShowingJob, Shows, Zenon
  <2> QED BY <2>1, <2>2, Zenon DEF ShowEnds
<1>4. Jobs'
  BY <1>2, <1>3, JobsNone, SMTT(60)
<1> QED BY <1>2, <1>4 DEF Inv

-----------------------------------------------------------------------------
(* waitproc(). *)
LEMMA InDowait ==
  ASSUME Inv, top.op = "dowait"
  PROVE  /\ Len(stack) = 3 /\ suppressint > 0 /\ intpending \in BOOLEAN /\ masked \in BOOLEAN
         /\ stack[2].op # "launch"
<1> DEFINE n == Len(stack)
<1>1. Shape /\ Held /\ top = stack[n] /\ n \in Nat \ {0} /\ Len(stack) = n
  BY DEF Inv, Interrupts, top, Frames
<1> HIDE DEF n
<1>2. n = 3
  BY <1>1, SMTT(60) DEF Shape
<1>3. stack[3].op = "dowait"
  BY <1>1, <1>2, Zenon
<1>4. suppressint > 0 /\ stack[2].op # "launch"
  BY <1>1, <1>2, <1>3, SMTT(60) DEF Shape
<1> QED BY <1>1, <1>2, <1>4, Zenon DEF Held

(* The second element of a sequence of two. *)
LEMMA TwoLong ==
  ASSUME NEW S, NEW s \in Seq(S), Len(s) = 2
  PROVE  s # << >> /\ s[2] \in S
OBVIOUS

(* dowait() tells its caller what waitproc() found. *)
LEMMA GivesBack ==
  ASSUME Inv, top.op = "dowait", masked = FALSE, NEW pc, Gives(pc)
  PROVE  Interrupts' /\ Same
<1> DEFINE c == Caller
           n == Len(c)
           g == [c[n] EXCEPT !.pc = pc]
           k == [c EXCEPT ![n] = g]
<1>1. Frames(c) /\ Len(c) = Len(stack) - 1 /\ Len(stack) = 3 /\ \A i \in 1..(Len(stack) - 1) : c[i] = stack[i]
  BY InDowait, PopFrames, SMTT(60) DEF Inv, Interrupts
<1>2. PICK st : INTON(k, st)
  BY DEF Gives
<1> HIDE DEF c
<1>3. PICK S : c \in Seq(S) /\ \A x \in S : IsFrame(x)
  BY <1>1, Zenon DEF Frames
<1>4. n = 2 /\ IsFrame(c[n])
  <2>1. n = 2
    BY <1>1
  <2>2. c[2] \in S
    BY <1>3, <2>1, TwoLong, Zenon DEF n
  <2> QED BY <1>3, <2>1, <2>2, Zenon
<1>5. IsFrame(g) /\ Kept(g, c[n])
  BY <1>4 DEF IsFrame, FrameFields, Kept
<1> HIDE DEF g, n
<1>6. k \in Seq(S \cup {g}) /\ Len(k) = 2 /\ k[1] = c[1] /\ k[2] = g
  BY ONLY <1>3, <1>4, n = Len(c), SMTT(60) DEF n
<1> HIDE DEF k
<1>7. Frames(k)
  <2>1. \A x \in S \cup {g} : IsFrame(x)
    BY <1>3, <1>5, Zenon
  <2>2. k # << >>
    BY <1>6, TwoLong, Zenon
  <2> QED BY <1>6, <2>1, <2>2, FramesOf, Zenon
<1>8. \A i \in 1..(Len(stack) - 1) : Kept(k[i], stack[i])
  <2>1. Kept(k[1], stack[1]) /\ Kept(k[2], stack[2])
    BY <1>1, <1>4, <1>5, <1>6, SMTT(60) DEF Kept
  <2>2. \A i \in 1..(Len(stack) - 1) : i = 1 \/ i = 2
    BY <1>1
  <2> QED BY <2>1, <2>2, Zenon
<1>9. Len(k) = Len(stack) - 1
  BY <1>1, <1>6, SMTT(60)
<1> QED BY <1>2, <1>7, <1>8, <1>9, Returns, Zenon DEF Inv

(* wait3() returns a child, which dowait() then credits. *)
LEMMA wait3Inv ==
  ASSUME Inv, wait3
  PROVE  Inv'
<1>1. PICK p \in Zombies :
        /\ procs' = [procs EXCEPT ![p] = NoProc]
        /\ jt' = Reaped(jt, p, procs[p].id)
        /\ Gives("reaped")
  BY Zenon DEF wait3
<1>2. /\ top.op = "dowait" /\ top.pc = "wait3" /\ UNCHANGED <<strays, owed, forks>>
  BY Zenon DEF wait3, Waiting, In, waitfixed
<1>3. masked = FALSE /\ Len(stack) = 3 /\ stack[2].op # "launch"
  BY <1>2, Unmasked, InDowait, Zenon DEF Inv
<1>4. Interrupts' /\ Same
  BY <1>1, <1>2, <1>3, GivesBack, Zenon
<1>5. p \in Pids /\ procs[p].state # "none" /\ procs[p].id \in Nat
  BY <1>1, JobsOf, Zenon DEF Zombies, Proc
<1>6. Sound(jt', procs', forks, strays)
  <2>1. Sound(jt', Gone(procs, p), forks, strays)
    BY <1>1, <1>5, JobsOf, ReapSound, Zenon
  <2> QED BY <1>1, <2>1, Zenon DEF Gone, GoneProc, NoProc
<1> DEFINE f == stack[2]
           id == procs[p].id
<1>7. FrameJob(f, jt, owed) /\ f.op # "launch" /\ Sound(jt, procs, forks, strays) /\ Owes(jt, owed)
  <2>1. Len(stack) > 1 BY <1>3
  <2>2. FrameJob(f, jt, owed) BY <2>1, JobsOf, Zenon
  <2> QED BY <1>3, <2>2, JobsOf, Zenon
<1>8. id \in Nat /\ p \in Pids /\ jt' = Reaped(jt, p, id)
  BY <1>1, <1>5, Zenon
<1>9. ASSUME NEW g, Kept(g, f) PROVE Owes(jt', owed) /\ FrameJob(g, jt', owed)
  <2> HIDE DEF f, id
  <2> QED BY ONLY <1>7, <1>8, <1>9, ReapOwes, Zenon
<1>10. Owes(jt', owed)
  BY <1>9, Zenon DEF Kept
<1>11. Len(stack') > 1 => FrameJob(stack'[2], jt', owed)
  BY <1>4, <1>9, Zenon DEF Same
<1> QED BY <1>2, <1>4, <1>6, <1>10, <1>11, Zenon DEF Inv, Jobs

(* The steps of waitproc() that reap nothing. *)
LEMMA WaitStepInv ==
  ASSUME Inv, waitproc, ~wait3
  PROVE  Inv'
<1>1. top.op = "dowait" /\ Still
  BY Zenon DEF waitproc, WaitClears, WaitFindsNone, WaitInterrupted, WaitMasks, WaitChecks, sigsuspend,
         WaitUnmasks, WaitAgain, Waiting, In, waitfixed, Still
<1>2. Len(stack) = 3 /\ suppressint > 0 /\ intpending \in BOOLEAN /\ masked \in BOOLEAN
  BY <1>1, InDowait, Zenon
<1>3. ASSUME Interrupts' /\ Same PROVE Inv'
  BY <1>1, <1>3, JobsSame DEF Inv
<1>4. ASSUME top.pc \notin {"check", "suspend", "suspended", "unmask"} PROVE masked = FALSE
  BY <1>4, Unmasked DEF Inv
<1>5. ASSUME NEW pc, stack' = Goto(pc), UNCHANGED <<suppressint, intpending>>, masked' \in BOOLEAN,
             masked' => pc \in {"check", "suspend", "suspended", "unmask"}
      PROVE  Inv'
  <2>1. Interrupts' /\ Same
    BY <1>1, <1>2, <1>5, GoesTo, Zenon DEF Inv
  <2> QED BY <1>3, <2>1, Zenon
<1>6. ASSUME NEW pc, Gives(pc), masked = FALSE PROVE Inv'
  BY <1>1, <1>3, <1>6, GivesBack, Zenon
<1>7. CASE WaitClears
  <2>1. stack' = Goto("wait3") /\ UNCHANGED <<suppressint, intpending, masked>> /\ top.pc = "clear"
    BY <1>7, Zenon DEF WaitClears, Steps, Waiting, In, ints
  <2> QED BY <1>4, <1>5, <2>1, Zenon
<1>8. CASE WaitFindsNone
  <2>1. top.pc = "wait3" /\ (Gives("none") \/ Steps("mask"))
    BY <1>8, Zenon DEF WaitFindsNone, Waiting, In
  <2>2. CASE Gives("none")
    BY <1>4, <1>6, <2>1, <2>2, Zenon
  <2>3. CASE Steps("mask")
    BY <1>4, <1>5, <2>1, <2>3, Zenon DEF Steps, ints
  <2> QED BY <2>1, <2>2, <2>3, Zenon
<1>9. CASE WaitInterrupted
  <2>1. top.pc = "eintr" /\ Gives("none")
    BY <1>9, Zenon DEF WaitInterrupted, Waiting, In
  <2> QED BY <1>4, <1>6, <2>1
<1>10. CASE WaitMasks
  <2>1. stack' = Goto("check") /\ UNCHANGED <<suppressint, intpending>> /\ masked' = TRUE
    BY <1>10, Zenon DEF WaitMasks, Blocks, ints
  <2> QED BY <1>5, <2>1, Zenon
<1>11. CASE WaitChecks
  <2>1. PICK pc \in {"suspend", "unmask"} : Steps(pc)
    BY <1>11, Zenon DEF WaitChecks
  <2> QED BY <1>2, <1>5, <2>1, Zenon DEF Steps, ints
<1>12. CASE sigsuspend
  <2>1. stack' = Goto("suspended") /\ UNCHANGED <<suppressint, intpending, masked>>
    BY <1>12, Zenon DEF sigsuspend, Steps, ints
  <2> QED BY <1>2, <1>5, <2>1, Zenon
<1>13. CASE WaitUnmasks
  <2>1. stack' = Goto("again") /\ UNCHANGED <<suppressint, intpending>> /\ masked' = FALSE
    BY <1>13, Zenon DEF WaitUnmasks, ints
  <2> QED BY <1>5, <2>1, Zenon
<1>14. CASE WaitAgain
  <2>1. masked = FALSE
    BY <1>4, <1>14, Zenon DEF WaitAgain, Waiting, In
  <2>2. CASE gotsigchld
    <3> DEFINE f == Frame("dowait", "clear", top.j, "again")
    <3>1. IsFrame(f) /\ f.op = "dowait"
      BY NewFrame, SMTT(60)
    <3>2. stack' = Becomes(f) /\ UNCHANGED <<suppressint, intpending, masked>>
      BY <1>14, <2>2, Zenon DEF WaitAgain, ints
    <3> HIDE DEF f
    <3>3. Interrupts' /\ Same
      BY <1>1, <1>2, <2>1, <3>1, <3>2, BecomesIt, SMTT(60) DEF Inv
    <3> QED BY <1>3, <3>3
  <2>3. CASE ~gotsigchld
    <3>1. Gives("none")
      BY <1>14, <2>3, Zenon DEF WaitAgain
    <3> QED BY <1>6, <2>1, <3>1, Zenon
  <2> QED BY <2>2, <2>3, Zenon
<1> QED BY <1>7, <1>8, <1>9, <1>10, <1>11, <1>12, <1>13, <1>14, Zenon DEF waitproc

-----------------------------------------------------------------------------
(* Traps. *)
LEMMA dotrapInv ==
  ASSUME Inv, dotrap
  PROVE  Inv'
<1> DEFINE f == Frame("dotrap", "scan", 1, exitstatus)
<1>1. IsFrame(f) /\ f.op = "dotrap"
  BY NewFrame
<1>2. /\ stack' = Call(f, "back") /\ UNCHANGED <<suppressint, intpending, masked>> /\ Still
      /\ top.op \in {"main", "action"}
  BY Zenon DEF dotrap, TrapsPending, Ended, In, still, table, kernel, ints, Still
<1> HIDE DEF f
<1>3. Interrupts' /\ (IF Len(stack) = 1 THEN stack'[2] = f ELSE Same)
  BY <1>1, <1>2, Calls, Zenon DEF Inv
<1>4. CASE Len(stack) = 1
  BY <1>1, <1>2, <1>3, <1>4, JobsOf, JobsNone, Zenon DEF Inv, Still
<1>5. CASE Len(stack) # 1
  BY <1>2, <1>3, <1>5, JobsSame DEF Inv
<1> QED BY <1>4, <1>5, Zenon

(* A frame of the scan or of an action returns. *)
LEMMA PopsInv ==
  ASSUME Inv, top.op \in {"dotrap", "action"}, stack' = Caller,
         UNCHANGED <<suppressint, intpending, masked>>, Still
  PROVE  Inv'
<1>1. Interrupts' /\ Same
  BY Pops, Zenon DEF Inv
<1> QED BY <1>1, JobsSame, Zenon DEF Inv

(* The scan goes on with the next signal. *)
LEMMA ScansOn ==
  ASSUME Inv, top.op = "dotrap", stack' = Next_i("scan"),
         UNCHANGED <<suppressint, intpending, masked>>, Still
  PROVE  Inv'
<1> DEFINE f == [top EXCEPT !.j = @ + 1, !.pc = "scan"]
<1>1. stack' = Becomes(f)
  BY DEF Next_i
<1>2. IsFrame(top)
  BY TopIsFrame, Zenon DEF Inv, Interrupts
<1>3. IsFrame(f) /\ f.op = "dotrap"
  BY <1>2, Zenon DEF IsFrame, FrameFields
<1> HIDE DEF f
<1>4. masked = FALSE /\ intpending \in BOOLEAN /\ (intpending => suppressint > 0)
  BY Unmasked, Zenon DEF Inv, Interrupts, Held
<1>5. Interrupts' /\ (IF Len(stack) = 2 THEN stack'[2] = f ELSE Same)
  BY <1>1, <1>3, <1>4, BecomesIt, Zenon DEF Inv
<1>6. CASE Len(stack) = 2
  BY <1>3, <1>5, <1>6, JobsOf, JobsNone, Zenon DEF Inv, Still
<1>7. CASE Len(stack) # 2
  BY <1>5, <1>7, JobsSame DEF Inv
<1> QED BY <1>6, <1>7, Zenon

(* The end of a command or of a trap, with nothing pending. *)
LEMMA EvalDoneInv ==
  ASSUME Inv, EvalDone
  PROVE  Inv'
<1>1. UNCHANGED <<suppressint, intpending, masked>> /\ Still /\ top.op \in {"main", "action"}
  BY Zenon DEF EvalDone, Ended, In, still, table, kernel, ints, Still
<1>2. CASE top.op = "main"
  <2>1. stack' = <<Main>> /\ suppressint' = 0 /\ intpending' = FALSE /\ masked' = FALSE
    BY <1>1, <1>2, AtMain, Zenon DEF EvalDone, Inv
  <2>2. Interrupts' /\ Len(stack') = 1
    BY <2>1, Unwinds, Zenon
  <2> QED BY <1>1, <2>2, JobsOf, JobsNone, SMTT(60) DEF Inv, Still
<1>3. CASE top.op # "main"
  <2>1. stack' = Caller
    BY <1>3, Zenon DEF EvalDone
  <2> QED BY <1>1, <1>3, <2>1, PopsInv, Zenon
<1> QED BY <1>2, <1>3

(* dotrap() looks for the next flagged signal. *)
LEMMA TrapScanInv ==
  ASSUME Inv, TrapScan
  PROVE  Inv'
<1>1. top.op = "dotrap" /\ UNCHANGED <<suppressint, intpending, masked>> /\ Still
  BY Zenon DEF TrapScan, In, still, table, kernel, ints, Still
<1> DEFINE f == Frame("action", "run", top.j, 0)
<1>2. stack' = Caller \/ stack' = Next_i("scan") \/ stack' = Call(f, "after")
  BY Zenon DEF TrapScan
<1>3. IsFrame(f) /\ f.op = "action"
  BY NewFrame, SMTT(60)
<1> HIDE DEF f
<1>4. CASE stack' = Caller
  BY <1>1, <1>4, PopsInv
<1>5. CASE stack' = Next_i("scan")
  BY <1>1, <1>5, ScansOn, Zenon
<1>6. CASE stack' = Call(f, "after")
  <2>1. Len(stack) # 1
    BY <1>1, Zenon DEF Inv, Interrupts, Shape, top
  <2>2. Interrupts' /\ Same
    BY <1>1, <1>3, <1>6, <2>1, Calls, Zenon DEF Inv
  <2> QED BY <1>1, <2>2, JobsSame, Zenon DEF Inv
<1> QED BY <1>2, <1>4, <1>5, <1>6, Zenon

(* The action of a trap runs. *)
LEMMA TrapActionInv ==
  ASSUME Inv, TrapAction
  PROVE  Inv'
<1>1. /\ top.op = "action" /\ UNCHANGED <<suppressint, intpending, masked>> /\ Still
      /\ stack' = Goto("ended")
  BY Zenon DEF TrapAction, In, still, table, kernel, ints, Still
<1>2. masked = FALSE
  BY <1>1, Unmasked, Zenon DEF Inv
<1> QED BY <1>1, <1>2, MovesOn, Zenon

(* dotrap() goes on after an action, or ends its scan. *)
LEMMA TrapAfterInv ==
  ASSUME Inv, TrapAfter
  PROVE  Inv'
<1>1. /\ top.op = "dotrap" /\ UNCHANGED <<suppressint, intpending, masked>> /\ Still
      /\ stack' = Caller \/ stack' = Next_i("scan")
  BY Zenon DEF TrapAfter, In, still, table, kernel, ints, Still
<1> QED BY <1>1, PopsInv, ScansOn, Zenon

-----------------------------------------------------------------------------
(* Signals and children. *)
LEMMA HandlerReturns ==
  ASSUME Inv, Returned, UNCHANGED suppressint, intpending' \in BOOLEAN,
         intpending' => suppressint > 0, Still
  PROVE  Inv'
<1>1. ASSUME NEW pc, stack' = Goto(pc), masked' \in BOOLEAN,
             masked' => top.op = "dowait" /\ pc \in {"check", "suspend", "suspended", "unmask"}
      PROVE  Inv'
  <2>1. Interrupts' /\ Same
    BY <1>1, GoesTo, Zenon DEF Inv
  <2> QED BY <2>1, JobsSame, Zenon DEF Inv
<1>2. CASE Suspended
  <2>1. stack' = Goto("check") /\ masked' = TRUE /\ top.op = "dowait"
    BY <1>2, Zenon DEF Returned, Suspended, In
  <2> QED BY <1>1, <2>1, Zenon
<1>3. CASE ~Suspended /\ stack' = stack
  <2>1. masked' = masked
    BY <1>3 DEF Returned
  <2>2. Interrupts'
    BY <1>3, <2>1, Zenon DEF Inv, Interrupts, Shape, Held, top
  <2>3. Same
    BY <1>3, Zenon DEF Same, Kept
  <2> QED BY <2>2, <2>3, JobsSame DEF Inv
<1>4. CASE ~Suspended /\ In("dowait", "wait3") /\ stack' = Goto("eintr")
  <2>1. masked' = FALSE
    BY <1>4, Unmasked, Zenon DEF Returned, In, Inv
  <2> QED BY <1>1, <1>4, <2>1, Zenon
<1> QED BY <1>2, <1>3, <1>4, Zenon DEF Returned

(* A signal arrives, wherever the shell is. *)
LEMMA TakenInv ==
  ASSUME Inv, NEW s, Taken(s)
  PROVE  Inv'
<1>1. Still /\ intpending \in BOOLEAN /\ (intpending => suppressint > 0)
  BY Zenon DEF Taken, table, Still, Inv, Interrupts, Held
<1>2. CASE onsigchld
  <2>1. Returned /\ UNCHANGED <<suppressint, intpending>>
    BY <1>2, Zenon DEF onsigchld, Returned, ints
  <2> QED BY <1>1, <2>1, HandlerReturns
<1>3. CASE onsig(s)
  <2>1. CASE onint
    <3>1. stack' = <<Main>> /\ suppressint' = 0 /\ intpending' = FALSE /\ masked' = FALSE
      BY <2>1, Zenon DEF onint, Raise, FORCEINTON
    <3>2. Interrupts' /\ Len(stack') = 1
      BY <3>1, Unwinds, Zenon
    <3> QED BY <1>1, <3>2, JobsOf, JobsNone, SMTT(60) DEF Inv, Still
  <2>2. CASE suppressint # 0 /\ intpending' = TRUE /\ Returned /\ UNCHANGED suppressint
    <3>1. suppressint > 0
      BY <2>2, SMTT(60) DEF Inv, Interrupts, Shape
    <3> QED BY <1>1, <2>2, <3>1, HandlerReturns, Zenon
  <2>3. CASE Returned /\ UNCHANGED <<suppressint, intpending>>
    BY <1>1, <2>3, HandlerReturns
  <2> QED BY <1>3, <2>1, <2>2, <2>3, Zenon DEF onsig, ints
<1> QED BY <1>2, <1>3, Zenon DEF Taken

(* A child ends. *)
LEMMA ExitsInv ==
  ASSUME Inv, NEW p \in Pids, Exits(p)
  PROVE  Inv'
<1>1. /\ procs[p].state = "running" /\ procs' = [procs EXCEPT ![p].state = "zombie"]
      /\ UNCHANGED <<jt, strays, owed, masked, forks, stack, suppressint, intpending>>
  BY DEF Exits, table, ints
<1>2. Sound(jt, procs', forks, strays)
  BY <1>1, JobsOf, ExitSound, Zenon
<1>3. Interrupts'
  BY <1>1, SMTT(60) DEF Inv, Interrupts, Shape, Held, top
<1> QED BY <1>1, <1>2, <1>3 DEF Inv, Jobs

-----------------------------------------------------------------------------
(* The shell starts at the prompt, without jobs. *)
LEMMA InitInv ==
  Init => Inv
<1> SUFFICES ASSUME Init PROVE Inv
  OBVIOUS
<1>1. /\ stack = <<Main>> /\ suppressint = 0 /\ intpending = FALSE /\ masked = FALSE
      /\ jt = EmptyTable /\ procs = [p \in Pids |-> NoProc] /\ forks = 0 /\ strays = {} /\ owed = {}
  BY Zenon DEF Init
<1>2. Interrupts /\ Len(stack) = 1
  <2> DEFINE m == Main
             s == <<m>>
  <2>1. IsFrame(m) /\ m.op = "main"
    BY Zenon DEF IsFrame, FrameFields, Main
  <2>2. stack = s
    BY <1>1, Zenon
  <2> HIDE DEF m
  <2>3. s \in Seq({m}) /\ s # << >> /\ Len(s) = 1 /\ s[1] = m
    OBVIOUS
  <2> HIDE DEF s
  <2>4. Frames(s)
    <3>1. \A f \in {m} : IsFrame(f)
      BY <2>1
    <3> QED BY <2>3, <3>1, FramesOf
  <2>5. Shape
    BY <1>1, <2>1, <2>2, <2>3, SMTT(60) DEF Shape
  <2> QED BY <1>1, <2>2, <2>3, <2>4, <2>5, Zenon DEF Interrupts, Held
<1>3. jt \in Table /\ jt.tab = << >> /\ jt.cur = << >>
  BY <1>1, SMTT(60) DEF EmptyTable, Table
<1>4. procs \in [Pids -> Proc] /\ \A p \in Pids : procs[p].id = 0 /\ procs[p].state = "none"
  BY <1>1, Zenon DEF NoProc, Proc
<1>5. Listed(jt) /\ Numbered(jt, 0) /\ Owes(jt, owed)
  <2>1. Listed(jt) BY <1>3 DEF Listed
  <2>2. Numbered(jt, 0) BY <1>3 DEF Numbered
  <2>3. Owes(jt, owed) BY <1>1, <1>3 DEF Owes
  <2> QED BY <2>1, <2>2, <2>3
<1>6. Credits(jt, procs, strays)
  BY <1>3, <1>4, SMTT(60) DEF Credits
<1>7. Sound(jt, procs, forks, strays)
  BY <1>1, <1>3, <1>4, <1>5, <1>6, SMTT(60) DEF Sound
<1> QED BY <1>2, <1>5, <1>7 DEF Inv, Jobs

(* Every step of the shell itself. *)
LEMMA RunningInv ==
  ASSUME Inv, Running
  PROVE  Inv'
<1>1. CASE waitproc
  BY <1>1, wait3Inv, WaitStepInv
<1> QED BY Zenon, <1>1, forkshellInv, ForkFailsInv, LaunchedInv, HereForksInv, HereFailsInv, HereCountsInv,
           HereReapsInv, waitforjobInv, WaitLoopInv, WaitSignalledInv, showjobsInv, ShowNextInv,
           ShowEndsInv, dotrapInv, EvalDoneInv, TrapScanInv, TrapActionInv, TrapAfterInv DEF Running

(* Every step of shell, children and signals keeps Inv. *)
LEMMA NextInv ==
  Inv /\ [Next]_vars => Inv'
<1> SUFFICES ASSUME Inv, [Next]_vars PROVE Inv'
  OBVIOUS
<1>1. CASE Reading
  BY <1>1, ReadingInv
<1>2. CASE truecmd
  BY <1>2, PlainInv
<1>3. CASE Running
  BY <1>3, RunningInv
<1>4. ASSUME UNCHANGED <<jt, procs, forks, strays, owed, stack, suppressint, intpending, masked>>
      PROVE  Inv'
  BY <1>4, Zenon DEF Inv, Interrupts, Shape, Held, top, Jobs
<1>5. CASE \E s \in Sigs : Sent(s)
  BY <1>4, <1>5, Zenon DEF Sent, table, ints
<1>6. CASE \E s \in Sigs \cup {CHLD} : Taken(s)
  BY <1>6, TakenInv
<1>7. CASE \E p \in Pids : Exits(p)
  BY <1>7, ExitsInv
<1>8. CASE UNCHANGED vars
  BY <1>4, <1>8, Zenon DEF vars, table, kernel, ints
<1> QED BY <1>1, <1>2, <1>3, <1>5, <1>6, <1>7, <1>8, Zenon DEF Next

(* The C stack, the interrupt counters, the job table and the children agree *)
(* at every step of the shell.                                               *)
THEOREM ShellSound == Spec => []Inv
BY InitInv, NextInv, PTL DEF Spec

(* cmdloop() reads the next command with interrupts on, none held back and no *)
(* signal blocked: each INTOFF has had its INTON, or FORCEINTON in main() has *)
(* undone it after an exception, and waitproc() has unblocked the signals.    *)
THEOREM PromptTakesInterrupts == Spec => []PromptInterruptible
<1>1. Inv => PromptInterruptible
  BY AtMain, Zenon DEF Inv, PromptInterruptible, In
<1> QED BY <1>1, ShellSound, PTL

(* dowait() never records a status in the entry of a process that it did not *)
(* come from, unless that child is of no job: a pid that is used again is    *)
(* expected first by the youngest job of the list.                           *)
THEOREM StatusesGoHome == Spec => []StatusGoesHome
<1>1. Inv => StatusGoesHome
  <2> SUFFICES ASSUME Inv, NEW j \in Range(jt.cur), NEW e \in Range(jt.tab[j].ps)
               PROVE  e.status \in {Unset, e.id} \cup strays
    BY Zenon DEF StatusGoesHome
  <2>0. Listed(jt) BY JobsOf, Zenon
  <2>1. j \in DOMAIN jt.tab
    BY ONLY <2>0, j \in Range(jt.cur) DEF Range, Listed
  <2>2. PICK m \in DOMAIN jt.tab[j].ps : e = jt.tab[j].ps[m]
    BY Zenon DEF Range
  <2>3. AllOK(jt.tab[j].ps, jt.tab[j].state, procs, strays)
    BY <2>1, JobsOf, Zenon DEF Sound, Credits
  <2> QED BY <2>2, <2>3, Zenon DEF AllOK, EntryOK
<1> QED BY <1>1, ShellSound, PTL

(* makejob(), freejob() and set_curjob() keep the list from curjob and the    *)
(* slots in use the same set, and no slot is freed or taken while its job is  *)
(* one that "wait" or "jobs" still has to tell of.                            *)
THEOREM BackgroundJobsRemembered == Spec => []BackgroundRemembered
<1>1. Inv => BackgroundRemembered
  <2> SUFFICES ASSUME Inv PROVE BackgroundRemembered
    OBVIOUS
  <2>1. Listed(jt) /\ Owes(jt, owed) /\ jt \in Table
    BY JobsOf, Zenon
  <2>2. Range(jt.cur) = {j \in DOMAIN jt.tab : jt.tab[j].used} /\ IsInjective(jt.cur)
    BY <2>1, SMTT(60) DEF Listed, Range, IsInjective
  <2>3. ASSUME NEW id \in owed
        PROVE  \E j \in Range(jt.cur) : jt.tab[j].ps # << >> /\ lastproc(jt.tab[j]).id = id
    <3>1. PICK j \in DOMAIN jt.tab : LastIs(jt.tab[j].ps, id)
      BY <2>1, Zenon DEF Owes
    <3>2. j \in Range(jt.cur)
      BY <2>1, <2>2, <3>1, Zenon DEF Listed, LastIs, Table, Job
    <3> QED BY <3>1, <3>2, Zenon DEF LastIs, lastproc
  <2> QED BY <2>2, <2>3, Zenon DEF BackgroundRemembered
<1> QED BY <1>1, ShellSound, PTL
=============================================================================
