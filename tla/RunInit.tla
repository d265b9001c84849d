------------------------------ MODULE RunInit ------------------------------
(***************************************************************************)
(* run_init (usr/kinit/run-init/runinitlib.c): the end of an initramfs.    *)
(* It deletes the files of the initramfs, moves the real root file system  *)
(* over it and executes init there.  The steps are those of the system     *)
(* calls, because other processes of the initramfs may still be running.   *)
(*                                                                         *)
(* A directory or file is a node <<fs, path>>: the file system it is on    *)
(* and the names that lead to it there.  at gives the directory a file     *)
(* system is mounted on.  A path is looked up from the root directory of   *)
(* the process, which is itself never followed to what is mounted on it.   *)
(***************************************************************************)
EXTENDS Naturals, Sequences

CONSTANTS
    FileSystems,   \* those that may be mounted, "rootfs" among them
    Ramfs,         \* those whose f_type is RAMFS_MAGIC or TMPFS_MAGIC
    Filenames,     \* the names that files and directories may have
    Regular,       \* the names that files have; all others are directories
    DaemonFiles,   \* files another process creates and removes ...
    MaxDaemon      \* ... at most so many times

\* A path without its last name, and that name; also for the calls of nuke_dir.
Front(s) == SubSeq(s, 1, Len(s) - 1)
Last(s)  == s[Len(s)]

None    == <<"none", <<>> >>   \* the place of what is not mounted
Console == <<"console">>

VARIABLES
    pc,         \* the system call that is next
    at,         \* file system -> the node it is mounted on, or None
    tree,       \* the nodes there are, the file systems' roots left out
    root, cwd,  \* the root and the working directory of the process
    realroot, init,     \* run_init's arguments
    dirs,       \* the calls of nuke_dir under way, outermost first
    what,       \* the path nuke is called for
    daemon      \* what the other process has done so far

rvars == <<pc, at, tree, root, cwd, realroot, init, dirs, what, daemon>>

------------------------------------------------------------------------------
(* The kernel's name space *)

IsDir(n)  == n[2] = <<>> \/ Last(n[2]) \notin Regular
Exists(n) == n[2] = <<>> \/ n \in tree
Child(n, x) == <<n[1], Append(n[2], x)>>
Names(n)  == {Last(m[2]) : m \in {k \in tree : k[1] = n[1] /\ Front(k[2]) = n[2]}}

\* What is mounted on a node, what a lookup of it finds, and the lookup of a
\* path, when file systems are mounted as m says
OnIn(m, n)  == {f \in FileSystems : m[f] = n}
TopIn(m, n) == IF OnIn(m, n) = {} THEN n ELSE <<CHOOSE f \in OnIn(m, n) : TRUE, <<>> >>
WalkIn(m, base, path) ==
    LET after[i \in 0..Len(path)] ==
            IF i = 0 THEN base ELSE TopIn(m, Child(after[i - 1], path[i]))
    IN  after[Len(path)]

On(n) == OnIn(at, n)
Walk(base, path) == WalkIn(at, base, path)

\* What unlink and rmdir work on: the last name is not followed to a mount.
Entry(path) == Child(Walk(root, Front(path)), Last(path))

IsMountRoot(n) == n[2] = <<>> /\ at[n[1]] # None

------------------------------------------------------------------------------
(* run_init *)

Returns == pc' = "returned" /\ dirs' = <<>>

\* chdir(realroot)
ChangesDir ==
    /\ pc = "chdir"
    /\ LET d == Walk(root, realroot)
       IN  IF Exists(d) /\ IsDir(d)
           THEN cwd' = d /\ pc' = "check" /\ UNCHANGED dirs
           ELSE Returns /\ UNCHANGED cwd
    /\ UNCHANGED <<at, tree, root, realroot, init, what, daemon>>

SafeOnAnyRoot == root[1] # cwd[1]
SafeOnRamfs   == root[1] \in Ramfs

\* "Take some extra precautions."
Safe == root[1] # cwd[1] /\ root[1] \in Ramfs

Checks ==
    /\ pc = "check"
    /\ IF Safe THEN pc' = "open" /\ what' = <<>> /\ UNCHANGED dirs
               ELSE Returns /\ UNCHANGED what
    /\ UNCHANGED <<at, tree, root, cwd, realroot, init, daemon>>

\* nuke_dir: lstat, opendir and the getdents behind the first readdir.  Root
\* may read every directory, so there is no EACCES.
OpensDir ==
    /\ pc = "open"
    /\ LET d == Walk(root, what)
       IN  IF Exists(d)
           THEN /\ dirs' = Append(dirs, [dir |-> what, me |-> d[1], todo |-> Names(d)])
                /\ pc' = "read"
           ELSE Returns
    /\ UNCHANGED <<at, tree, root, cwd, realroot, init, what, daemon>>

RecursesAnywhere(n, me) == TRUE

\* "DO NOT recurse down mount points!!!!!"
Recurses(n, me) == n[1] = me

\* The next entry of the innermost directory, in the order the file system
\* keeps them: readdir and nuke_dirent's lstat.
ReadsEntry ==
    /\ pc = "read" /\ Last(dirs).todo # {}
    /\ LET x == CHOOSE y \in Last(dirs).todo : TRUE
           p == Append(Last(dirs).dir, x)
           n == Walk(root, p)
       IN    IF ~Exists(n)
             THEN Returns /\ UNCHANGED what
             ELSE /\ dirs' = [dirs EXCEPT ![Len(dirs)].todo = @ \ {x}]
                  /\ IF Recurses(n, Last(dirs).me)
                     THEN pc' = "unlink" /\ what' = p
                     ELSE UNCHANGED <<pc, what>>
    /\ UNCHANGED <<at, tree, root, cwd, realroot, init, daemon>>

\* nuke: unlink, which tells whether it is a directory
Unlinks ==
    /\ pc = "unlink"
    /\ LET n == Entry(what)
       IN  CASE ~Exists(n) -> Returns /\ UNCHANGED tree
             [] Exists(n) /\ IsDir(n) -> pc' = "open" /\ UNCHANGED <<tree, dirs>>
             [] Exists(n) /\ ~IsDir(n) -> pc' = "read" /\ tree' = tree \ {n} /\ UNCHANGED dirs
    /\ UNCHANGED <<at, root, cwd, realroot, init, what, daemon>>

ClosesDirOnly ==
    /\ pc = "read" /\ Last(dirs).todo = {}
    /\ IF Len(dirs) = 1 THEN pc' = "move" /\ dirs' = <<>>
                        ELSE dirs' = Front(dirs) /\ UNCHANGED pc
    /\ UNCHANGED <<at, tree, root, cwd, realroot, init, what, daemon>>

\* The end of a directory: closedir and, but for "/", rmdir.
ClosesDir ==
    /\ pc = "read" /\ Last(dirs).todo = {}
    /\ IF Len(dirs) = 1
       THEN pc' = "move" /\ dirs' = <<>> /\ UNCHANGED tree
       ELSE LET n == Entry(Last(dirs).dir)
            IN  IF Exists(n) /\ Names(n) = {} /\ On(n) = {}
                THEN dirs' = Front(dirs) /\ tree' = tree \ {n} /\ UNCHANGED pc
                ELSE Returns /\ UNCHANGED tree
    /\ UNCHANGED <<at, root, cwd, realroot, init, what, daemon>>

MovesNothing ==
    /\ pc = "move" /\ pc' = "chroot"
    /\ UNCHANGED <<at, tree, root, cwd, realroot, init, dirs, what, daemon>>

\* mount(".", "/", NULL, MS_MOVE, NULL): only a whole file system can move.
Moves ==
    /\ pc = "move"
    /\ \/ /\ IsMountRoot(cwd)
          /\ at' = [at EXCEPT ![cwd[1]] = root]
          /\ pc' = "chroot" /\ UNCHANGED dirs
       \/ Returns /\ UNCHANGED at
    /\ UNCHANGED <<tree, root, cwd, realroot, init, what, daemon>>

Chroots ==
    /\ pc = "chroot"
    /\ \/ root' = cwd /\ pc' = "console" /\ UNCHANGED dirs
       \/ Returns /\ UNCHANGED root
    /\ UNCHANGED <<at, tree, cwd, realroot, init, what, daemon>>

OpensConsole ==
    /\ pc = "console"
    /\ IF Exists(Walk(root, Console)) THEN pc' = "exec" /\ UNCHANGED dirs ELSE Returns
    /\ UNCHANGED <<at, tree, root, cwd, realroot, init, what, daemon>>

Execs ==
    /\ pc = "exec"
    /\ \/ Exists(Walk(root, init)) /\ pc' = "init" /\ UNCHANGED dirs
       \/ Returns
    /\ UNCHANGED <<at, tree, root, cwd, realroot, init, what, daemon>>

run_init == \/ ChangesDir \/ Checks \/ OpensDir \/ ReadsEntry \/ Unlinks
            \/ ClosesDir \/ Moves \/ Chroots \/ OpensConsole \/ Execs

Nuking == {"open", "read", "unlink"}

\* Another process of the initramfs, while its files are deleted.
Daemon ==
    /\ pc \in Nuking /\ daemon < MaxDaemon
    /\ \E n \in DaemonFiles :
         \/ n \notin tree /\ Exists(<<n[1], Front(n[2])>>) /\ tree' = tree \cup {n}
         \/ n \in tree /\ tree' = tree \ {n}
    /\ daemon' = daemon + 1
    /\ UNCHANGED <<pc, at, root, cwd, realroot, init, dirs, what>>
=============================================================================
