------------------------------- MODULE Kinit -------------------------------
(***************************************************************************)
(* kinit (usr/kinit): the first process of an initramfs.  It resumes a     *)
(* suspended system, configures the network, mounts the real root file     *)
(* system -- from a device, over NFS, from a ramdisk, or by the old initrd *)
(* protocol with /linuxrc -- and hands over with run_init.  A second way   *)
(* to begin is the program run-init, called by a shell script that has     *)
(* mounted the real root itself.                                           *)
(*                                                                         *)
(* Every system call that a configuration can make fail may fail.  What    *)
(* the kernel command line says is the record arg; a device is named for   *)
(* what its root= would be.                                                *)
(***************************************************************************)
EXTENDS RunInit

CONSTANTS
    Contents,      \* the nodes of all file systems before kinit starts
    Args,          \* kernel command lines
    Roots,         \* the devices of a root= with commas, in order
    Layouts,       \* what run-init's script may have mounted, and where
    DefaultInits,  \* find_init's init_paths, in order
    Tokens         \* the capability names of drop_capabilities=, in order

Devices == {"ram0", "disk", "disk2", "nfs", "bad", "multi"}
Disks   == {"disk", "disk2", "nfs"}
Arg     == [root : Devices, resume : BOOLEAN, load_ramdisk : BOOLEAN,
            drop : BOOLEAN, init : Seq(Filenames)]
Helpers == <<"helper bset", "helper inheritable">>

Rootfs  == <<"rootfs", <<>> >>
Node    == FileSystems \X Seq(Filenames)

\* The initrd has the file system of a block device, and what another process
\* of the initramfs creates is in the initramfs.
ASSUME KinitAssumption ==
    /\ {"rootfs", "proc", "sysfs", "initrd"} \cup Disks \subseteq FileSystems
    /\ "none" \notin FileSystems
    /\ {"proc", "sys", "root", "old", "initrd", "initrd.image"} \cup Regular \subseteq Filenames
    /\ "rootfs" \in Ramfs /\ "initrd" \notin Ramfs /\ MaxDaemon \in Nat
    /\ Args \subseteq Arg /\ Roots \in Seq(Disks \cup {"bad"}) /\ Roots # <<>>
    /\ DefaultInits \in Seq(Seq(Filenames))
    /\ \A n \in Contents \cup DaemonFiles : n \in Node /\ n[2] # <<>>
    /\ \A n \in Contents : Len(n[2]) > 1 => <<n[1], Front(n[2])>> \in Contents
    /\ \A n \in DaemonFiles : n[1] = "rootfs"

\* The script that calls run-init has mounted file systems on directories, and
\* the real root is not a directory of /proc or /sys.
ASSUME LayoutAssumption ==
    \A l \in Layouts :
        /\ l.at \in [FileSystems -> Contents \cup {None}] /\ l.at["rootfs"] = None
        /\ l.realroot \in Seq(Filenames)
        /\ WalkIn(l.at, Rootfs, l.realroot)[1] \notin {"proc", "sysfs"}

VARIABLES
    prog,       \* the program: "kinit" or "run-init"
    arg,        \* the effective command line
    mnt,        \* mnt_procfs and mnt_sysfs
    net,        \* an interface has an address and a server
    ram0,       \* what is on /dev/ram0: "initrd", "floppy" or "empty"
    root_dev,   \* root_dev of do_mounts
    devs,       \* the devices mount_roots has not tried yet
    rrd,        \* /proc/sys/kernel/real-root-dev
    token, file,    \* places in drop_capabilities= and in Helpers
    dropped,    \* where each of the capabilities has been dropped
    ret         \* the exit status

space == <<at, tree, root, cwd>>
boot  == <<prog, arg, mnt, net, ret>>
disk  == <<ram0, root_dev, devs, rrd>>
caps  == <<token, file, dropped>>
vars  == <<rvars, boot, disk, caps>>

Dir(x) == <<"rootfs", <<x>> >>
Goes(l) == pc' = l /\ UNCHANGED <<realroot, init, dirs, what, daemon>>
Exits(l, n) == Goes(l) /\ ret' = n

Init ==
    /\ root = Rootfs /\ cwd = Rootfs
    /\ dirs = <<>> /\ what = <<>> /\ daemon = 0
    /\ arg \in Args /\ mnt = {} /\ net = FALSE /\ ret = 0
    /\ ram0 = "empty" /\ root_dev = "bad" /\ devs = <<>> /\ rrd = "bad"
    /\ token = 1 /\ file = 1 /\ dropped = [i \in DOMAIN Tokens |-> {}]
    /\ \/ /\ prog = "kinit" /\ pc = "proc" /\ realroot = <<"root">> /\ init = <<>>
          /\ \/ at = [f \in FileSystems |-> None] /\ tree = Contents
             \/ /\ at = [f \in FileSystems |-> IF f = "proc" THEN Dir("proc") ELSE None]
                /\ tree = Contents \cup {Dir("proc")}
       \/ /\ prog = "run-init" /\ pc = "chdir" /\ init = arg.init /\ ~arg.resume
          /\ tree = Contents
          /\ \E l \in Layouts : realroot = l.realroot /\ at = l.at

------------------------------------------------------------------------------
(* The beginning of main *)

MountsUnmade(dir) == UNCHANGED tree

\* mkdir, whose result is not looked at
Makes(dir) == tree' = tree \cup {Dir(dir)}

\* mount_sys_fs for /proc and for /sys
mount_sys_fs(l, fs, dir, next) ==
    /\ pc = l
    /\ \/ /\ at[fs] # None /\ UNCHANGED <<tree, at, ret>>
          /\ mnt' = mnt \cup {fs} /\ Goes(next)
       \/ /\ at[fs] = None /\ Makes(dir)
          /\ \/ /\ at' = [at EXCEPT ![fs] = Dir(dir)] /\ mnt' = mnt \cup {fs}
                /\ Goes(next) /\ UNCHANGED ret
             \/ Exits("bail", 1) /\ UNCHANGED <<at, mnt>>
    /\ UNCHANGED <<root, cwd, prog, arg, net, disk, caps>>

MountsProc == mount_sys_fs("proc", "proc", "proc", "sys")
MountsSys  == mount_sys_fs("sys", "sysfs", "sys", "cmdline")

\* readfile of /proc/cmdline, and split_cmdline
ReadsCmdline ==
    /\ pc = "cmdline"
    /\ \/ Goes("resume") /\ UNCHANGED ret
       \/ Exits("bail", 1)
    /\ UNCHANGED <<space, prog, arg, mnt, net, disk, caps>>

ResumesLate ==
    /\ \/ pc = "resume" /\ Goes("ipconfig")
       \/ pc = "caps" /\ arg.resume /\ Goes("resumed")
    /\ UNCHANGED <<space, boot, disk, caps>>

\* "If successful, does not return"
do_resume ==
    /\ pc = "resume"
    /\ \/ Goes("ipconfig")
       \/ arg.resume /\ Goes("resumed")
    /\ UNCHANGED <<space, boot, disk, caps>>

\* do_ipconfig, whose details are in IpConfig
do_ipconfig ==
    /\ pc = "ipconfig"
    /\ net' \in BOOLEAN
    /\ Goes("check_path")
    /\ UNCHANGED <<space, prog, arg, mnt, ret, disk, caps>>

\* check_path("/root")
check_path ==
    /\ pc = "check_path"
    /\ \/ tree' = tree \cup {Dir("root")} /\ Goes("do_mounts") /\ UNCHANGED ret
       \/ Dir("root") \notin tree /\ Exits("exit", 1) /\ UNCHANGED tree
    /\ UNCHANGED <<at, root, cwd, prog, arg, mnt, net, disk, caps>>

------------------------------------------------------------------------------
(* do_mounts *)

FsOn(d) == IF d = "ram0" THEN ram0 ELSE d

\* Mounting the file system of a device on /root; mount_root then enters it.
MountsRoot(d) ==
    /\ FsOn(d) \in FileSystems /\ at[FsOn(d)] = None
    /\ at' = [at EXCEPT ![FsOn(d)] = Walk(root, <<"root">>)]
    /\ cwd' = <<FsOn(d), <<>> >>

\* mount_root, which goes on to a label on success and to one on failure.
\* mount_nfs_root exits when it knows no server.
mount_root(d, good, bad) ==
    \/ d # "bad" /\ MountsRoot(d) /\ Goes(good) /\ UNCHANGED ret
    \/ UNCHANGED <<at, cwd, ret>> /\ Goes(bad)
    \/ d = "nfs" /\ ~net /\ Exits("exit", 1) /\ UNCHANGED <<at, cwd>>

\* Up to initrd_load: rootdelay, md_run and root_dev
do_mounts ==
    /\ pc = "do_mounts"
    /\ root_dev' = arg.root
    /\ Goes("initrd_load")
    /\ UNCHANGED <<space, boot, ram0, devs, rrd, caps>>

Image == Dir("initrd.image")

\* initrd_load, up to run_linuxrc.  rd_copy_image may fail, and so may unlink.
initrd_load ==
    /\ pc = "initrd_load"
    /\ \/ Image \notin tree /\ Goes("ramdisk_load") /\ UNCHANGED <<tree, ram0>>
       \/ Image \in tree /\ ram0' \in {"empty", "initrd"} /\ Goes("ramdisk_load") /\ UNCHANGED tree
       \/ /\ Image \in tree
          /\ tree' = tree \ {Image} /\ ram0' = "initrd"
          /\ Goes(IF root_dev \in {"multi", "ram0"} THEN "ramdisk_load" ELSE "linuxrc")
    /\ UNCHANGED <<at, root, cwd, boot, root_dev, devs, rrd, caps>>

\* ramdisk_load, if the command line asks for it
ramdisk_load ==
    /\ pc = "ramdisk_load"
    /\ \/ UNCHANGED root_dev /\ ram0' \in {ram0} \cup (IF arg.load_ramdisk THEN {"empty"} ELSE {})
       \/ arg.load_ramdisk /\ root_dev' = "ram0" /\ ram0' = "floppy"
    /\ devs' = IF root_dev' = "multi" THEN Roots ELSE <<root_dev'>>
    /\ Goes("mount_roots")
    /\ UNCHANGED <<space, boot, rrd, caps>>

RetriesRoot ==
    /\ pc = "mount_roots"
    /\ UNCHANGED devs
    /\ mount_root(Head(devs), "caps", "mount_roots")
    /\ UNCHANGED <<tree, root, prog, arg, mnt, net, ram0, root_dev, rrd, caps>>

\* The devices of mount_roots, or the one device there is; main does not look
\* at what do_mounts returns.
mount_roots ==
    /\ pc = "mount_roots"
    /\ devs' = Tail(devs)
    /\ mount_root(Head(devs), "caps", IF Len(devs) > 1 THEN "mount_roots" ELSE "caps")
    /\ UNCHANGED <<tree, root, prog, arg, mnt, net, ram0, root_dev, rrd, caps>>

------------------------------------------------------------------------------
(* run_linuxrc: the initrd becomes the root while /linuxrc runs, is put     *)
(* aside in /old, and then becomes the real root or makes room for it.      *)

Initrd == <<ram0, <<>> >>
UnchangedLinuxrc == UNCHANGED <<prog, arg, mnt, net, ram0, root_dev, devs, caps>>

\* mount_block("/dev/ram0", "/root")
MountsInitrd ==
    /\ pc = "linuxrc"
    /\ \/ at' = [at EXCEPT ![ram0] = Dir("root")] /\ Goes("rrd")
       \/ UNCHANGED at /\ Goes("caps")
    /\ UNCHANGED <<tree, root, cwd, ret, rrd>> /\ UnchangedLinuxrc

\* Storing the real root device, whose fopen is not checked; mkdir("/old") and
\* the descriptors of / and /old.
StoresDevice ==
    /\ pc = "rrd"
    /\ \/ /\ rrd' = root_dev /\ tree' = tree \cup {Dir("old")}
          /\ \E l \in {"enter", "caps"} : Goes(l)
       \/ Goes("crashed") /\ UNCHANGED <<rrd, tree>>
    /\ UNCHANGED <<at, root, cwd, ret>> /\ UnchangedLinuxrc

\* chdir("/root"), mount(".", "/", MS_MOVE), chroot(".")
EntersInitrd ==
    /\ pc = "enter"
    /\ \/ UNCHANGED <<at, root>> /\ cwd' \in {cwd, Initrd} /\ Goes("caps")
       \/ /\ at' = [at EXCEPT ![ram0] = Rootfs] /\ cwd' = Initrd
          /\ \/ root' = Initrd /\ Goes("child")
             \/ UNCHANGED root /\ Goes("caps")
    /\ UNCHANGED <<tree, ret, rrd>> /\ UnchangedLinuxrc

\* vfork, and /linuxrc, which may store another device before it ends
RunsLinuxrc ==
    /\ pc = "child"
    /\ \/ rrd' \in {rrd, "ram0", "disk"} /\ Goes("leave")
       \/ UNCHANGED rrd /\ Goes("caps")
    /\ UNCHANGED <<space, ret>> /\ UnchangedLinuxrc

\* fchdir(old_fd), mount("/", ".", MS_MOVE), fchdir(root_fd), chroot(".")
LeavesInitrd ==
    /\ pc = "leave"
    /\ \/ UNCHANGED <<at, root>> /\ cwd' \in {cwd, Dir("old")} /\ Goes("caps")
       \/ /\ at' = [at EXCEPT ![ram0] = Dir("old")] /\ cwd' = Rootfs
          /\ \/ root' = Rootfs /\ Goes("realroot")
             \/ UNCHANGED root /\ Goes("caps")
    /\ UNCHANGED <<tree, ret, rrd>> /\ UnchangedLinuxrc

\* "If realroot is Root_RAM0, then the initrd did any necessary work";
\* otherwise mount_root, whose result is not looked at.  realroot is Root_RAM0
\* too when getintfile cannot open the file.
MountsRealRoot ==
    /\ pc = "realroot"
    /\ \E d \in {rrd, "ram0"} :
         \/ d # "ram0" /\ mount_root(d, "old", "old") /\ UNCHANGED tree
         \/ /\ d = "ram0" /\ at' = [at EXCEPT ![ram0] = Dir("root")]
            /\ tree' = tree \ {Dir("old")}
            /\ Goes("caps") /\ UNCHANGED <<cwd, ret>>
         \/ d = "ram0" /\ Goes("caps") /\ UNCHANGED <<at, tree, cwd, ret>>
    /\ UNCHANGED <<root, rrd>> /\ UnchangedLinuxrc

LeavesOld ==
    /\ pc = "old"
    /\ LET n == Walk(root, <<"root", "initrd">>)
       IN  \/ Exists(n) /\ at' = [at EXCEPT ![ram0] = n]
           \/ UNCHANGED at
    /\ UNCHANGED tree
    /\ Goes("caps")
    /\ UNCHANGED <<root, cwd, ret, rrd>> /\ UnchangedLinuxrc

\* "If /root/initrd exists, move the initrd there, otherwise discard"
MovesInitrd ==
    /\ pc = "old"
    /\ LET n == Walk(root, <<"root", "initrd">>)
       IN  \/ Exists(n) /\ at' = [at EXCEPT ![ram0] = n]
           \/ at' = [at EXCEPT ![ram0] = None]
    /\ tree' = tree \ {Dir("old")}
    /\ Goes("caps")
    /\ UNCHANGED <<root, cwd, ret, rrd>> /\ UnchangedLinuxrc

run_linuxrc == \/ MountsInitrd \/ StoresDevice \/ EntersInitrd \/ RunsLinuxrc
               \/ LeavesInitrd \/ MountsRealRoot \/ MovesInitrd

------------------------------------------------------------------------------
(* drop_capabilities *)

UnchangedCaps == UNCHANGED <<space, prog, arg, mnt, net, disk>>

\* strtok_r and find_capability
NextToken ==
    /\ pc = "caps"
    /\ \/ ~arg.drop /\ Goes("umount") /\ UNCHANGED ret
       \/ arg.drop /\ token > Len(Tokens) /\ Goes("umount") /\ UNCHANGED ret
       \/ /\ arg.drop /\ token \in DOMAIN Tokens
          /\ IF Tokens[token] = "unknown" THEN Exits("exit", 1)
                                          ELSE Goes("helper") /\ UNCHANGED ret
    /\ UNCHANGED <<token, file, dropped>> /\ UnchangedCaps

\* if (ret != 0) fail("Failed to commit usermode helper bitmasks")
CommitFails(n) == n # 0

\* do_usermodehelper_file.  What fwrite takes reaches the kernel: fclose
\* flushes it, and so does exit.
do_usermodehelper_file ==
    /\ pc = "helper"
    /\ \/ \E n \in {0, 1} :
            /\ dropped' = [dropped EXCEPT ![token] = @ \cup (IF n = 0 THEN {} ELSE {Helpers[file]})]
            /\ IF CommitFails(n)
               THEN Exits("commit failed", 1) /\ UNCHANGED file
               ELSE /\ file' = (file % Len(Helpers)) + 1
                    /\ Goes(IF file = Len(Helpers) THEN "bset" ELSE "helper")
                    /\ UNCHANGED ret
       \/ Exits("exit", 1) /\ UNCHANGED <<file, dropped>>
    /\ UNCHANGED token /\ UnchangedCaps

\* do_bset and do_capset
DropsCapability ==
    /\ pc = "bset"
    /\ \/ /\ dropped' = [dropped EXCEPT ![token] = @ \cup {"bset", "inheritable"}]
          /\ token' = token + 1 /\ Goes("caps") /\ UNCHANGED ret
       \/ /\ \E d \in {{}, {"bset"}} : dropped' = [dropped EXCEPT ![token] = @ \cup d]
          /\ Exits("exit", 1) /\ UNCHANGED token
    /\ UNCHANGED file /\ UnchangedCaps

drop_capabilities == NextToken \/ do_usermodehelper_file \/ DropsCapability

------------------------------------------------------------------------------
(* The end of main *)

\* umount2 of /proc and /sys: each may be busy, and only what is mounted there
\* in this root is unmounted.
umount2(fss) ==
    \E s \in SUBSET {f \in fss : at[f] \in {Child(root, "proc"), Child(root, "sys")}} :
        at' = [f \in FileSystems |-> IF f \in s THEN None ELSE at[f]]

Unmounts ==
    /\ pc = "umount"
    /\ umount2(mnt) /\ mnt' = {}
    /\ Goes("find_init")
    /\ UNCHANGED <<tree, root, cwd, prog, arg, net, ret, disk, caps>>

find_init ==
    /\ pc = "find_init"
    /\ LET d     == Walk(root, realroot)
           paths == <<arg.init>> \o DefaultInits
           found == {i \in DOMAIN paths : Exists(Walk(d, paths[i]))}
       IN  \/ ~Exists(d) /\ Exits("exit", 1) /\ UNCHANGED cwd
           \/ /\ Exists(d) /\ cwd' = root
              /\ \E i \in found : (\A j \in found : i <= j) /\ init' = paths[i]
              /\ pc' = "chdir" /\ UNCHANGED <<ret, realroot, dirs, what, daemon>>
           \/ Exists(d) /\ found = {} /\ cwd' = root /\ Exits("bail", 2)
    /\ UNCHANGED <<at, tree, root, prog, arg, mnt, net, disk, caps>>

\* "If run_init returned, something went bad"
Returned ==
    /\ pc = "returned"
    /\ IF prog = "kinit" THEN Exits("bail", 2) ELSE Exits("exit", 1)
    /\ UNCHANGED <<space, prog, arg, mnt, net, disk, caps>>

Bails ==
    /\ pc = "bail"
    /\ umount2(mnt)
    /\ Goes("exit")
    /\ UNCHANGED <<tree, root, cwd, boot, disk, caps>>

main == \/ MountsProc \/ MountsSys \/ ReadsCmdline \/ do_resume \/ do_ipconfig
        \/ check_path \/ do_mounts \/ initrd_load \/ ramdisk_load \/ mount_roots
        \/ run_linuxrc \/ drop_capabilities \/ Unmounts \/ find_init
        \/ Returned \/ Bails

Next == \/ main
        \/ (run_init \/ Daemon) /\ UNCHANGED <<boot, disk, caps>>

Spec == Init /\ [][Next]_vars

\* kinit is the only process that must make progress; it is never blocked for
\* ever, since its system calls and /linuxrc end.
FairSpec == Spec /\ WF_vars(main \/ (run_init /\ UNCHANGED <<boot, disk, caps>>))

------------------------------------------------------------------------------
(* What is checked *)

Final  == {"init", "resumed", "exit", "crashed", "commit failed"}
Labels == Final \cup Nuking \cup
    {"proc", "sys", "cmdline", "resume", "ipconfig", "check_path", "do_mounts",
     "initrd_load", "ramdisk_load", "mount_roots", "linuxrc", "rrd", "enter",
     "child", "leave", "realroot", "old", "caps", "helper", "bset", "umount",
     "find_init", "chdir", "check", "move", "chroot", "console", "exec",
     "returned", "bail"}
Mountable == Contents \cup DaemonFiles \cup {Dir(x) : x \in {"proc", "sys", "root", "old"}}
Rootdirs  == {<<f, <<>> >> : f \in FileSystems}

\* The type invariant; what is mounted is mounted on a directory there is.
TypeOK ==
    /\ pc \in Labels /\ at \in [FileSystems -> Mountable \cup {Rootfs, None}]
    /\ tree \subseteq Mountable /\ root \in Rootdirs
    /\ cwd \in Rootdirs \cup Mountable
    /\ mnt \subseteq {"proc", "sysfs"} /\ ram0 \in {"empty", "initrd", "floppy"}
    /\ {root_dev, rrd} \subseteq Devices /\ ret \in 0..2
    /\ \A i \in DOMAIN dirs : dirs[i].me \in FileSystems
    /\ \A f \in FileSystems : at[f] # None => Exists(at[f])

\* No file of another file system than the initramfs is ever deleted, whatever
\* is mounted in it: nuke_dirent does not go down mount points, and run_init
\* deletes nothing when the process has stayed in the initrd.
ForeignFilesKept == \A n \in Contents : n[1] # "rootfs" => n \in tree

\* The initramfs loses a file that kinit does not remove elsewhere only when
\* there is another file system to go on with, in which init was seen: a boot
\* that found no root file system leaves everything to look at.
WipedOnlyToSwitch ==
    (\E n \in Contents \ (DaemonFiles \cup {Image, Dir("old")}) : n[1] = "rootfs" /\ n \notin tree)
        => \E f \in FileSystems \ {"rootfs"} :
             /\ at[f] # None
             /\ prog = "kinit" => Exists(Walk(<<f, <<>> >>, init))

\* "Delete all files in the initramfs": when init runs, nothing is left there
\* but what others have created meanwhile, the directory realroot was mounted
\* on, other such directories, and what one of them had in it before.
AllFilesDeleted ==
    pc = "init" =>
        \A n \in tree : n[1] = "rootfs" =>
            \/ n \in DaemonFiles \/ n[2] = realroot
            \/ \E i \in 1..Len(n[2]) : On(<<"rootfs", SubSeq(n[2], 1, i)>>) # {}

\* init runs with the file system that was at realroot as its root, moved over
\* the initramfs, and it is the program that find_init saw there.
InitInRealRoot ==
    pc = "init" =>
        /\ root[2] = <<>> /\ root[1] \notin {"rootfs", "proc", "sysfs"}
        /\ at[root[1]] = Rootfs /\ cwd = root /\ Exists(Walk(root, init))

\* The system is resumed before kinit has mounted, or let /linuxrc mount, any
\* file system of the suspended system.
ResumedFirst == pc = "resumed" => \A f \in Disks \cup {"initrd"} : at[f] = None /\ ram0 = "empty"

\* An initrd that has made way for another root is not left behind in the
\* initramfs: it is in /initrd of the root that init runs in, or not mounted.
InitrdReleased ==
    (pc = "init" /\ prog = "kinit" /\ root # <<"initrd", <<>> >>) =>
        at["initrd"] \in {None, Child(root, "initrd")}

\* kinit and run-init end: they run init, resume, or give up.
Ends == <>(pc \in Final)
=============================================================================
