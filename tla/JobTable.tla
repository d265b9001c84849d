------------------------------ MODULE JobTable ------------------------------
(***************************************************************************)
(* The job table of dash, usr/dash/jobs.c, as the klibc build compiles it  *)
(* (usr/dash/Kbuild: -DJOBS=0, no job control, so a job is running or      *)
(* done).  A table is a record                                             *)
(*   tab         jobtab: slots that growjobtab adds Grow at a time         *)
(*   cur         the list that starts at curjob and follows prev_job       *)
(*   jobless     the count of untracked children                           *)
(* A pointer to a job is its slot number, so the relocation of pointers in *)
(* growjobtab has nothing to change.  Left out: the texts of commands,     *)
(* backgndpid (an operand of "wait" may be any pid) and the flag changed,  *)
(* which only job control reads.  A process entry carries, beside the pid  *)
(* and the status of struct procstat, the number "id" of the fork that     *)
(* made it, which the code does not have.                                  *)
(***************************************************************************)
EXTENDS Integers, Sequences, Functions

CONSTANTS Grow,     \* the slots growjobtab adds at a time (4 in the code)
          Pids      \* process identifiers, a set of positive numbers

ASSUME GrowAssumption == Grow \in Nat \ {0}

Unset == -1   \* the status of a process that has not been waited for

Entry == [pid : Pids, status : Nat \cup {Unset}, id : Nat]
Job   == [used : BOOLEAN, ps : Seq(Entry), state : {"running", "done"}, waited : BOOLEAN]
Table == [tab : Seq(Job), cur : Seq(Nat), jobless : Int]

FreeSlot == [used |-> FALSE, ps |-> << >>, state |-> "running",
             waited |-> FALSE]

EmptyTable == [tab |-> << >>, cur |-> << >>, jobless |-> 0]

\* Where the list from curjob first has one of the jobs js, or 0.
Place(jt, js) ==
  LET first == {i \in DOMAIN jt.cur :
                  jt.cur[i] \in js /\ \A k \in 1 .. i - 1 : jt.cur[k] \notin js}
  IN IF first = {} THEN 0 ELSE CHOOSE i \in first : TRUE

FirstOf(jt, js) == IF Place(jt, js) = 0 THEN 0 ELSE jt.cur[Place(jt, js)]

\* prev_job: the next of the list, or 0 at its end.
prev_job(jt, j) ==
  IF Place(jt, {j}) = Len(jt.cur) THEN 0 ELSE jt.cur[Place(jt, {j}) + 1]

\* The list without the job j.
Rest(jt, j) ==
  LET at == Place(jt, {j})
  IN SubSeq(jt.cur, 1, at - 1) \o SubSeq(jt.cur, at + 1, Len(jt.cur))

\* CUR_DELETE takes the job out; CUR_RUNNING puts it first, there being no
\* stopped jobs to put it after.
set_curjob(jt, j, mode) ==
  [jt EXCEPT !.cur = IF mode = "delete" THEN Rest(jt, j) ELSE <<j>> \o Rest(jt, j)]

\* The other fields of an unused slot are never read.
freejob(jt, j) == set_curjob([jt EXCEPT !.tab[j] = FreeSlot], j, "delete")

growjobtab(jt) == [jt EXCEPT !.tab = @ \o [i \in 1 .. Grow |-> FreeSlot]]

\* Faulty: a job need not have been waited for.
TakesUnwaited(job) == ~job.used \/ job.state = "done"

\* A slot makejob may take: an unused one, or a done job that was waited for.
Takes(job) == ~job.used \/ (job.state = "done" /\ job.waited)

MakeSlot(jt) ==
  LET first == {i \in DOMAIN jt.tab :
                  Takes(jt.tab[i]) /\ \A k \in 1 .. i - 1 : ~Takes(jt.tab[k])}
  IN IF first = {} THEN Len(jt.tab) + 1 ELSE CHOOSE i \in first : TRUE

makejob(jt) ==
  LET j == MakeSlot(jt)
      grown == IF j > Len(jt.tab) THEN growjobtab(jt) ELSE jt
      freed == IF grown.tab[j].used THEN freejob(grown, j) ELSE grown
  IN [freed EXCEPT !.tab[j] = [FreeSlot EXCEPT !.used = TRUE], !.cur = <<j>> \o @]

\* forkparent for a job: the new process is its last.
forkparent(jt, j, id, pid, bg) ==
  LET moved == IF bg THEN set_curjob(jt, j, "running") ELSE jt
  IN [moved EXCEPT !.tab[j].ps = Append(@, [pid |-> pid, status |-> Unset, id |-> id])]

\* A job that is not done and has an entry for pid.
Expects(job, pid) == job.state # "done" /\ \E e \in Range(job.ps) : e.pid = pid

\* Faulty: the oldest such job.
CreditsOldest(jt, pid) ==
  LET last == {i \in DOMAIN jt.cur :
                 /\ Expects(jt.tab[jt.cur[i]], pid)
                 /\ \A k \in i + 1 .. Len(jt.cur) : ~Expects(jt.tab[jt.cur[k]], pid)}
  IN IF last = {} THEN 0 ELSE jt.cur[CHOOSE i \in last : TRUE]

\* The job dowait credits with pid: the first of the list, or 0.
Credited(jt, pid) == FirstOf(jt, {j \in Range(jt.cur) : Expects(jt.tab[j], pid)})

\* What dowait does to the table with a status that waitproc returned.
Reaped(jt, pid, status) ==
  LET j == Credited(jt, pid)
      ps == [i \in DOMAIN jt.tab[j].ps |->
               IF jt.tab[j].ps[i].pid = pid THEN [jt.tab[j].ps[i] EXCEPT !.status = status]
                                            ELSE jt.tab[j].ps[i]]
      over == \A i \in DOMAIN ps : ps[i].status # Unset
  IN IF j = 0 THEN [jt EXCEPT !.jobless = @ - 1]
     ELSE [jt EXCEPT !.tab[j] =
             [jt.tab[j] EXCEPT !.ps = ps, !.state = IF over THEN "done" ELSE jt.tab[j].state]]

lastproc(job) == job.ps[Len(job.ps)]

getstatus(jt, j) == lastproc(jt.tab[j]).status

\* waitcmd's search: the first job of the list whose last process is pid, or 0.
JobOfPid(jt, pid) == FirstOf(jt, {j \in Range(jt.cur) : lastproc(jt.tab[j]).pid = pid})

\* getjob of "%num": the number must be below njobs (so the last slot of the
\* table has no number), and with no job control no job has a text to match.
getjob(jt, num) == IF num < Len(jt.tab) /\ jt.tab[num].used THEN num ELSE 0

\* getjob of "%+" and "%-".
CurrentJob(jt) == IF jt.cur = << >> THEN 0 ELSE jt.cur[1]
PreviousJob(jt) == IF Len(jt.cur) < 2 THEN 0 ELSE jt.cur[2]

\* What the operand %... of a builtin may lead getjob to; 0 is an error.
Operands(jt) ==
  {getjob(jt, n) : n \in 1 .. Len(jt.tab) + 1} \cup {CurrentJob(jt), PreviousJob(jt)}

\* "wait" without operands marks the jobs before the first running one, and
\* returns when there is none running.
FirstRunning(jt) == Place(jt, {j \in Range(jt.cur) : jt.tab[j].state = "running"})

MarkWaited(jt) ==
  LET n == FirstRunning(jt)
      seen == {jt.cur[i] : i \in {i \in DOMAIN jt.cur : n = 0 \/ i < n}}
  IN [jt EXCEPT !.tab = [j \in DOMAIN @ |->
        IF j \in seen THEN [@[j] EXCEPT !.waited = TRUE] ELSE @[j]]]
=============================================================================
