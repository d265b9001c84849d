-------------------------------- MODULE Shell --------------------------------
(***************************************************************************)
(* An interactive dash of the klibc build that starts commands, waits for  *)
(* them and takes signals meanwhile: the launching of jobs in              *)
(* usr/dash/eval.c and redir.c, waiting in jobs.c, traps in trap.c and the *)
(* interrupt bookkeeping of error.c, error.h and main.c.  The C stack is   *)
(* the variable stack; its last frame runs.  A step is what happens        *)
(* between two points at which a signal may be taken with a difference.    *)
(* The kernel gives a new process any pid that is not in use.  The exit    *)
(* status of a process is the number of its fork, so that a status says    *)
(* which process it came from.  SIGCHLD has no trap; a trap is not set to  *)
(* ignore; a command run by a trap is one builtin.                         *)
(***************************************************************************)
EXTENDS JobTable

CONSTANTS Actions,      \* what a trap may do: "plain", or "skip" (break, return)
          MaxForks, MaxCommands, MaxSignals   \* bounds of a run

ASSUME ShellAssumption ==
  /\ Pids \subseteq Nat \ {0} /\ Actions \subseteq {"plain", "skip"}
  /\ {MaxForks, MaxCommands, MaxSignals} \subseteq Nat

HUP  == 1
INT  == 2
Sigs == {HUP, INT}
CHLD == 17

VARIABLES
  jt,            \* the job table
  procs,         \* [Pids -> the children of the shell]
  stack,         \* frames of the shell's C stack, the running one last
  exitstatus,    \* $?
  trap, gotsig, pendingsigs, gotsigchld, evalskip,
  kpend, masked, \* the signals sent and not yet taken; all signals blocked
  suppressint, intpending,
  forks, commands, signals,   \* what was used of the bounds
  strays,        \* forks without an entry in the job table
  owed           \* last processes of background jobs nobody was told about

table  == <<jt, strays, owed>>
kernel == <<procs, kpend, masked, forks>>
flags  == <<trap, gotsig, pendingsigs, gotsigchld, evalskip>>
ints   == <<suppressint, intpending>>
bounds == <<commands, signals>>
vars   == <<table, kernel, stack, exitstatus, flags, ints, bounds>>

NoProc == [state |-> "none", id |-> 0]
Main   == [op |-> "main", pc |-> "read", j |-> 0, st |-> 0]
Frame(op, pc, j, st) == [op |-> op, pc |-> pc, j |-> j, st |-> st]

Init ==
  /\ jt = EmptyTable /\ procs = [p \in Pids |-> NoProc]
  /\ stack = <<Main>> /\ exitstatus = 0
  /\ trap = [s \in Sigs |-> "default"] /\ gotsig = [s \in Sigs |-> FALSE]
  /\ pendingsigs = 0 /\ gotsigchld = FALSE /\ evalskip = FALSE
  /\ kpend = {} /\ masked = FALSE /\ suppressint = 0 /\ intpending = FALSE
  /\ forks = 0 /\ commands = 0 /\ signals = 0 /\ strays = {} /\ owed = {}

top == stack[Len(stack)]
In(op, pc) == top.op = op /\ top.pc = pc
Caller == SubSeq(stack, 1, Len(stack) - 1)
Becomes(f) == [stack EXCEPT ![Len(stack)] = f]
Goto(pc) == Becomes([top EXCEPT !.pc = pc])
Call(f, pc) == Append(Goto(pc), f)

-----------------------------------------------------------------------------
\* Interrupts.  An exception ends in main(): reset() and FORCEINTON.  The
\* status is 130 when a builtin was interrupted.
FORCEINTON_missing == suppressint' = suppressint + 1 /\ intpending' = FALSE

FORCEINTON == suppressint' = 0 /\ intpending' = FALSE

Raise(status) ==
  /\ FORCEINTON
  /\ stack' = <<Main>> /\ evalskip' = FALSE /\ exitstatus' = status
  /\ masked' = FALSE

InterruptStatus ==
  IF \E i \in DOMAIN stack : stack[i].op \in {"waitcmd", "showjobs"} THEN 130 ELSE exitstatus

onint == Raise(InterruptStatus)

\* The macro INTON, the rest of a function and its return to the frames in k
\* with the status st.
INTON(k, st) ==
  IF suppressint = 1 /\ intpending THEN onint
  ELSE /\ suppressint' = suppressint - 1 /\ stack' = k /\ exitstatus' = st
       /\ UNCHANGED <<intpending, evalskip, masked>>

-----------------------------------------------------------------------------
\* Signals.
Sent(s) ==
  /\ signals < MaxSignals /\ signals' = signals + 1
  /\ s = INT \/ trap[s] # "default"
  /\ kpend' = kpend \cup {s}
  /\ UNCHANGED <<table, procs, masked, forks, stack, exitstatus, flags, ints, commands>>

Suspended == In("dowait", "suspended")

\* The handler has returned: sigsuspend() ends with the mask it began with, and
\* a wait3() that blocks may fail with EINTR.
Returned ==
  IF Suspended THEN stack' = Goto("check") /\ masked' = TRUE
  ELSE /\ \/ stack' = stack
          \/ (In("dowait", "wait3") /\ top.st = "block" /\ stack' = Goto("eintr"))
       /\ UNCHANGED masked

onsigchld ==
  /\ gotsigchld' = TRUE
  /\ IF Suspended THEN stack' = Goto("check") /\ masked' = TRUE
     ELSE UNCHANGED <<stack, masked>>
  /\ UNCHANGED <<gotsig, pendingsigs, exitstatus, evalskip, ints>>

onsig(s) ==
  /\ gotsig' = [gotsig EXCEPT ![s] = TRUE] /\ pendingsigs' = s
  /\ IF s = INT /\ trap[INT] = "default"
     THEN IF suppressint = 0 THEN onint
          ELSE /\ intpending' = TRUE /\ Returned
               /\ UNCHANGED <<suppressint, exitstatus, evalskip>>
     ELSE Returned /\ UNCHANGED <<exitstatus, evalskip, ints>>
  /\ UNCHANGED gotsigchld

Taken(s) ==
  /\ s \in kpend /\ (~masked \/ Suspended)
  /\ kpend' = kpend \ {s}
  /\ IF s = CHLD THEN onsigchld ELSE onsig(s)
  /\ UNCHANGED <<table, procs, forks, trap, bounds>>

Exits(p) ==
  /\ procs[p].state = "running"
  /\ procs' = [procs EXCEPT ![p].state = "zombie"]
  /\ kpend' = kpend \cup {CHLD}
  /\ UNCHANGED <<table, masked, forks, stack, exitstatus, flags, ints, bounds>>

-----------------------------------------------------------------------------
\* Commands, read one after the other.
Reads == In("main", "read") /\ commands < MaxCommands /\ commands' = commands + 1

\* evaltree() ends by running traps; see Ended below.
Ends == Goto("ended")

\* INTOFF, makejob(): a job whose processes the frame "launch" forks; st holds
\* how many, and the caller that set up the pipe or the command.
Launch(kind, n) ==
  /\ Reads
  /\ jt' = makejob(jt)
  /\ suppressint' = suppressint + 1
  /\ stack' = Call(Frame("launch", kind, MakeSlot(jt), n), "ended")
  /\ UNCHANGED <<kernel, exitstatus, flags, intpending, signals, strays, owed>>

evalcommand  == Launch("command", 1)
evalsubshell == Launch("background", 1)
evalpipe     == \E bg \in {"command", "pipeline"} : Launch(bg, 2)

Launching == top.op = "launch"
Background == top.pc # "command"

Free == {p \in Pids : procs[p].state = "none"}

Forks(p) ==
  /\ forks < MaxForks /\ p \in Free /\ forks' = forks + 1
  /\ procs' = [procs EXCEPT ![p] = [state |-> "running", id |-> forks + 1]]
  /\ UNCHANGED <<kpend, masked>>

forkshell ==
  /\ Launching /\ top.st > 0
  /\ \E p \in Pids :
       /\ Forks(p)
       /\ jt' = forkparent(jt, top.j, forks + 1, p, Background)
  /\ stack' = Becomes([top EXCEPT !.st = @ - 1])
  /\ UNCHANGED <<strays, owed, exitstatus, flags, ints, bounds>>

\* fork() fails: the job is freed, and its processes so far become strays.
ForkFails ==
  /\ Launching /\ top.st > 0
  /\ jt' = freejob(jt, top.j)
  /\ strays' = strays \cup {e.id : e \in Range(jt.tab[top.j].ps)}
  /\ Raise(2)
  /\ UNCHANGED <<procs, kpend, forks, owed, bounds,
                 trap, gotsig, pendingsigs, gotsigchld>>

\* A background job is left running.  evalsubshell() sets the status and
\* evalpipe() leaves it.
Launched ==
  /\ Launching /\ top.st = 0
  /\ IF Background
     THEN /\ owed' = owed \cup {lastproc(jt.tab[top.j]).id}
          /\ INTON(Caller, IF top.pc = "background" THEN 0 ELSE exitstatus)
     ELSE /\ stack' = Append(Caller, Frame("waitforjob", "loop", top.j, 0))
          /\ UNCHANGED <<owed, exitstatus, ints, evalskip, masked>>
  /\ UNCHANGED <<jt, strays, procs, kpend, forks, bounds,
                 trap, gotsig, pendingsigs, gotsigchld>>

\* A long here document: redirect() calls INTOFF, openhere() forks a writer
\* without a job, and forkparent() first reaps others like it.
openhere ==
  /\ Reads
  /\ suppressint' = suppressint + 1
  /\ stack' = Call(Frame("here", "fork", 0, 0), "ended")
  /\ UNCHANGED <<table, kernel, exitstatus, flags, intpending, signals>>

HereForks ==
  /\ In("here", "fork")
  /\ \E p \in Pids : Forks(p)
  /\ strays' = strays \cup {forks + 1}
  /\ stack' = Goto("loop")
  /\ UNCHANGED <<jt, owed, exitstatus, flags, ints, bounds>>

\* redirectsafe() catches the error and restores suppressint.
HereFails ==
  /\ In("here", "fork")
  /\ INTON(Caller, 2)
  /\ UNCHANGED <<table, procs, kpend, forks, bounds,
                 trap, gotsig, pendingsigs, gotsigchld>>

HereCounts ==
  /\ \/ In("here", "loop") /\ jt.jobless = 0
     \/ In("here", "reaped") /\ jt.jobless = 0
     \/ In("here", "none")
  /\ jt' = [jt EXCEPT !.jobless = @ + 1]
  /\ INTON(Caller, 0)
  /\ UNCHANGED <<strays, owed, procs, kpend, forks, bounds,
                 trap, gotsig, pendingsigs, gotsigchld>>

HereReaps ==
  /\ In("here", "loop") \/ In("here", "reaped")
  /\ jt.jobless # 0
  /\ suppressint' = suppressint + 1
  /\ stack' = Call(Frame("dowait", "clear", 0, "normal"), "loop")
  /\ UNCHANGED <<table, kernel, exitstatus, flags, intpending, bounds>>

-----------------------------------------------------------------------------
\* Waiting.
waitforjob ==
  /\ top.op = "waitforjob"
  /\ IF jt.tab[top.j].state = "running"
     THEN /\ suppressint' = suppressint + 1
          /\ stack' = Append(stack, Frame("dowait", "clear", top.j, "block"))
          /\ UNCHANGED <<jt, exitstatus, intpending, evalskip, masked>>
     ELSE /\ jt' = freejob(jt, top.j)
          /\ INTON(Caller, getstatus(jt, top.j))
  /\ UNCHANGED <<strays, owed, procs, kpend, forks, bounds,
                 trap, gotsig, pendingsigs, gotsigchld>>

\* "wait", "wait pid", "wait %n" and "jobs".
Builtin(k, st) ==
  /\ Reads
  /\ stack' = k /\ exitstatus' = st
  /\ UNCHANGED <<table, kernel, flags, ints, signals>>

WaitFor(j) == Builtin(Call(Frame("waitcmd", "loop", j, 0), "ended"), exitstatus)

\* The operand names no job: an unknown pid, or a job that getjob() rejects.
waitcmd ==
  /\ In("main", "read")
  /\ \/ WaitFor(0)
     \/ \E p \in Pids :
          IF JobOfPid(jt, p) = 0 THEN Builtin(Ends, 127) ELSE WaitFor(JobOfPid(jt, p))
     \/ \E j \in Operands(jt) : IF j = 0 THEN Builtin(Ends, 2) ELSE WaitFor(j)

\* The jobs that may be told about: of "wait" without operand, all that
\* MarkWaited marks.
Told(t) == {e \in owed : \E j \in Range(t.cur) : t.tab[j].waited /\ lastproc(t.tab[j]).id = e}

WaitLoop ==
  /\ In("waitcmd", "loop") \/ In("waitcmd", "reaped")
  /\ LET marked == IF top.j = 0 THEN MarkWaited(jt)
                   ELSE IF jt.tab[top.j].state = "done"
                   THEN [jt EXCEPT !.tab[top.j].waited = TRUE] ELSE jt
         waits  == IF top.j = 0 THEN FirstRunning(jt) # 0 ELSE jt.tab[top.j].state = "running"
     IN /\ jt' = marked /\ owed' = owed \ Told(marked)
        /\ IF waits
           THEN /\ suppressint' = suppressint + 1
                /\ stack' = Call(Frame("dowait", "clear", 0, "waitcmd"), "loop")
                /\ UNCHANGED exitstatus
           ELSE /\ stack' = Caller
                /\ exitstatus' = IF top.j = 0 THEN 0 ELSE getstatus(jt, top.j)
                /\ UNCHANGED suppressint
  /\ UNCHANGED <<strays, kernel, flags, intpending, bounds>>

WaitSignalled ==
  /\ In("waitcmd", "none")
  /\ stack' = Caller /\ exitstatus' = 128 + pendingsigs
  /\ UNCHANGED <<table, kernel, flags, ints, bounds>>

\* "jobs" and "jobs %n"; with the option -p nothing is freed.
jobscmd ==
  /\ In("main", "read")
  /\ \E mode \in {"", "-p"} :
       \/ Builtin(Call(Frame("showjobs", "loop", 0, mode), "ended"), exitstatus)
       \/ \E j \in Operands(jt) :
            IF j = 0 THEN Builtin(Ends, 2)
            ELSE Builtin(Call(Frame("showjobs", "one", j, mode), "ended"), exitstatus)

\* A job that is done is freed after it has been shown.
showjob(j) ==
  IF jt.tab[j].state = "done" /\ top.st # "-p"
  THEN jt' = freejob(jt, j) /\ owed' = owed \ {lastproc(jt.tab[j]).id}
  ELSE UNCHANGED <<jt, owed>>

\* Everything that ended is reaped before the list is shown.
showjobs ==
  /\ top.op = "showjobs" /\ top.pc \in {"loop", "reaped", "none"}
  /\ IF top.pc = "none"
     THEN /\ stack' = Becomes(Frame("showjobs", "list", CurrentJob(jt), top.st))
          /\ UNCHANGED suppressint
     ELSE /\ suppressint' = suppressint + 1
          /\ stack' = Call(Frame("dowait", "clear", 0, "normal"), "loop")
  /\ UNCHANGED <<table, kernel, exitstatus, flags, intpending, bounds>>

ShowNext ==
  /\ In("showjobs", "list") /\ top.j # 0
  /\ showjob(top.j)
  /\ stack' = Becomes([top EXCEPT !.j = prev_job(jt, @)])
  /\ UNCHANGED <<strays, kernel, exitstatus, flags, ints, bounds>>

ShowEnds ==
  /\ In("showjobs", "one") \/ (In("showjobs", "list") /\ top.j = 0)
  /\ IF top.j = 0 THEN UNCHANGED <<jt, owed>> ELSE showjob(top.j)
  /\ stack' = Caller /\ exitstatus' = 0
  /\ UNCHANGED <<strays, kernel, flags, ints, bounds>>

-----------------------------------------------------------------------------
\* waitproc(), called by dowait() with interrupts off.  The frame's st is the
\* parameter block; "again" is block = 0 with the flag WNOHANG.
Waiting(pc) == In("dowait", pc)
Nonblocking == top.st # "block"
Steps(pc) == stack' = Goto(pc) /\ UNCHANGED <<ints, exitstatus, evalskip, masked>>
\* dowait() returns to its caller: a pid was reaped, or none.
Gives(pc) == INTON([Caller EXCEPT ![Len(Caller)].pc = pc], exitstatus)
Zombies  == {p \in Pids : procs[p].state = "zombie"}
Children == {p \in Pids : procs[p].state # "none"}
waitfixed == <<trap, gotsig, pendingsigs, bounds, strays, owed, kpend, forks>>

WaitClears ==
  /\ Waiting("clear") /\ gotsigchld' = FALSE /\ Steps("wait3")
  /\ UNCHANGED <<waitfixed, jt, procs>>

\* A status is reaped and recorded.
wait3 ==
  /\ Waiting("wait3")
  /\ \E p \in Zombies :
       /\ procs' = [procs EXCEPT ![p] = NoProc]
       /\ jt' = Reaped(jt, p, procs[p].id)
       /\ Gives("reaped")
  /\ UNCHANGED <<waitfixed, gotsigchld>>

\* None has ended; a wait3() that blocks stays where it is.
WaitFindsNone ==
  /\ Waiting("wait3") /\ Zombies = {}
  /\ \/ /\ Children = {} /\ Gives("none")
     \/ /\ Children # {} /\ top.st = "waitcmd" /\ Steps("mask")
     \/ /\ Children # {} /\ top.st \in {"normal", "again"} /\ Gives("none")
  /\ UNCHANGED <<waitfixed, gotsigchld, jt, procs>>

WaitInterrupted ==
  /\ Waiting("eintr") /\ Gives("none")
  /\ UNCHANGED <<waitfixed, gotsigchld, jt, procs>>

\* Faulty: sigsuspend() alone is to keep the signals out.
BlocksNothing == masked' = masked

\* sigprocmask() before the flags are looked at.
Blocks == masked' = TRUE

WaitMasks ==
  /\ Waiting("mask") /\ Blocks /\ stack' = Goto("check")
  /\ UNCHANGED <<ints, exitstatus, evalskip>>
  /\ UNCHANGED <<waitfixed, gotsigchld, jt, procs>>

WaitChecks ==
  /\ Waiting("check")
  /\ Steps(IF ~gotsigchld /\ pendingsigs = 0 THEN "suspend" ELSE "unmask")
  /\ UNCHANGED <<waitfixed, gotsigchld, jt, procs>>

sigsuspend ==
  /\ Waiting("suspend") /\ Steps("suspended")
  /\ UNCHANGED <<waitfixed, gotsigchld, jt, procs>>

\* sigclearmask(); the loop condition is read after it.
WaitUnmasks ==
  /\ Waiting("unmask") /\ stack' = Goto("again") /\ masked' = FALSE
  /\ UNCHANGED <<waitfixed, gotsigchld, jt, procs, ints, exitstatus, evalskip>>

WaitAgain ==
  /\ Waiting("again")
  /\ IF gotsigchld
     THEN /\ stack' = Becomes(Frame("dowait", "clear", top.j, "again"))
          /\ UNCHANGED <<ints, exitstatus, evalskip, masked>>
     ELSE Gives("none")
  /\ UNCHANGED <<waitfixed, gotsigchld, jt, procs>>

waitproc == \/ WaitClears \/ wait3 \/ WaitFindsNone \/ WaitInterrupted
            \/ WaitMasks \/ WaitChecks \/ sigsuspend \/ WaitUnmasks \/ WaitAgain

-----------------------------------------------------------------------------
\* Traps.
still == <<table, kernel, ints, bounds>>

\* "trap action s" and "trap - s"; no signal is on its way that would now kill
\* the shell.
trapcmd ==
  /\ Reads
  /\ \E s \in Sigs, a \in Actions \cup {"default"} :
       /\ trap[s] # a /\ (a = "default" /\ s # INT => s \notin kpend)
       /\ trap' = [trap EXCEPT ![s] = a]
  /\ stack' = Ends /\ exitstatus' = 0
  /\ UNCHANGED <<table, kernel, ints, signals, gotsig, pendingsigs, gotsigchld, evalskip>>

\* A builtin that does nothing to this state; not counted, so that the shell
\* may always go on.
truecmd ==
  /\ In("main", "read") /\ stack' = Ends /\ exitstatus' = 0
  /\ UNCHANGED <<still, flags>>

\* evaltree() ends: of a command (the frame main) or of a trap's action.
Ended == In("main", "ended") \/ In("action", "ended")

TrapsPending == Ended /\ pendingsigs # 0

dotrap ==
  /\ TrapsPending
  /\ pendingsigs' = 0
  /\ stack' = Call(Frame("dotrap", "scan", 1, exitstatus), "back")
  /\ UNCHANGED <<still, exitstatus, trap, gotsig, gotsigchld, evalskip>>

\* The loop around the command, or cmdloop(), takes what evalskip asks for.
EvalDone ==
  /\ (Ended /\ pendingsigs = 0) \/ In("main", "back") \/ In("action", "back")
  /\ IF top.op = "main" THEN stack' = <<Main>> /\ evalskip' = FALSE
     ELSE stack' = Caller /\ UNCHANGED evalskip
  /\ UNCHANGED <<still, exitstatus, trap, gotsig, pendingsigs, gotsigchld>>

Next_i(pc) == Becomes([top EXCEPT !.j = @ + 1, !.pc = pc])

\* One signal of the scan; a signal may arrive before the next.
TrapScan ==
  /\ In("dotrap", "scan")
  /\ IF top.j \notin Sigs THEN stack' = Caller /\ UNCHANGED gotsig
     ELSE /\ gotsig' = [gotsig EXCEPT ![top.j] = FALSE]
          /\ stack' = IF gotsig[top.j] /\ trap[top.j] # "default"
                      THEN Call(Frame("action", "run", top.j, 0), "after")
                      ELSE Next_i("scan")
  /\ UNCHANGED <<still, exitstatus, trap, pendingsigs, gotsigchld, evalskip>>

TrapAction ==
  /\ In("action", "run")
  /\ evalskip' = (evalskip \/ trap[top.j] = "skip")
  /\ stack' = Goto("ended") /\ exitstatus' = 0
  /\ UNCHANGED <<still, trap, gotsig, pendingsigs, gotsigchld>>

TrapAfter ==
  /\ In("dotrap", "after")
  /\ exitstatus' = top.st
  /\ stack' = IF evalskip THEN Caller ELSE Next_i("scan")
  /\ UNCHANGED <<still, flags>>

-----------------------------------------------------------------------------
Reading == evalcommand \/ evalsubshell \/ evalpipe \/ openhere \/ waitcmd \/ jobscmd \/ trapcmd

Running ==
  \/ forkshell \/ ForkFails \/ Launched \/ HereForks \/ HereFails \/ HereCounts \/ HereReaps
  \/ waitforjob \/ WaitLoop \/ WaitSignalled
  \/ showjobs \/ ShowNext \/ ShowEnds \/ waitproc
  \/ dotrap \/ EvalDone \/ TrapScan \/ TrapAction \/ TrapAfter

Next ==
  \/ Reading \/ truecmd \/ Running
  \/ \E s \in Sigs : Sent(s)
  \/ \E s \in Sigs \cup {CHLD} : Taken(s)
  \/ \E p \in Pids : Exits(p)

Spec == Init /\ [][Next]_vars

\* The shell runs, reads on, the kernel delivers what is pending and processes
\* end.
FairSpec ==
  /\ Spec /\ WF_vars(Running) /\ WF_vars(truecmd)
  /\ WF_vars(\E s \in Sigs \cup {CHLD} : Taken(s))
  /\ WF_vars(\E p \in Pids : Exits(p))

-----------------------------------------------------------------------------
\* The status in a job's entry came from the process the entry was made for,
\* also when the pid has been given out again since, or from a child that no
\* job has.
StatusGoesHome ==
  \A j \in Range(jt.cur) : \A e \in Range(jt.tab[j].ps) :
    e.status \in {Unset, e.id} \cup strays

\* The list from curjob holds every job of the table once, and among them every
\* background job until "wait" or "jobs" has told of its end.
BackgroundRemembered ==
  /\ Range(jt.cur) = {j \in DOMAIN jt.tab : jt.tab[j].used} /\ IsInjective(jt.cur)
  /\ \A id \in owed : \E j \in Range(jt.cur) :
       jt.tab[j].ps # << >> /\ lastproc(jt.tab[j]).id = id

\* When the shell reads a command, interrupts are enabled and none is held, no
\* signal is blocked, whatever failed or was interrupted before.
PromptInterruptible ==
  In("main", "read") => suppressint = 0 /\ ~intpending /\ ~masked

\* The shell always comes back to reading commands: no wakeup is missed in
\* waitproc() and nothing else waits for ever, if all children end.
ShellReturns == (~In("main", "read")) ~> In("main", "read")

\* "Cause the shell to parse and execute action when any of the specified
\* signals are received" (sh.1): a flag that onsig() sets is seen by dotrap().
TrapsRun ==
  \A s \in Sigs : (gotsig[s] /\ trap[s] # "default") ~> (~gotsig[s] \/ trap[s] = "default")
=============================================================================
