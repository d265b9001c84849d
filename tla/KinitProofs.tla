---------------------------- MODULE KinitProofs ----------------------------
(***************************************************************************)
(* kinit and run-init, for any file systems with any files, any command    *)
(* lines, any layouts and any calls that fail.                             *)
(***************************************************************************)
EXTENDS Kinit, WellFoundedInduction, TLAPS

(***************************************************************************)
(* Where pc is: before any root file system is mounted, with the mounting  *)
(* done or given up, while the initramfs is deleted, and after the move.   *)
(***************************************************************************)
Early     == {"proc", "sys", "cmdline", "resume", "resumed", "ipconfig", "check_path",
              "do_mounts", "initrd_load", "ramdisk_load", "mount_roots", "linuxrc"}
Linuxrc   == {"linuxrc", "rrd", "enter", "child", "leave", "realroot", "old"}
Switching == Nuking \cup {"move"}
Mounted   == {"caps", "helper", "bset", "umount", "find_init", "chdir", "check"} \cup Switching
Switched  == {"console", "exec", "init"}
Real      == FileSystems \ {"rootfs", "proc", "sysfs", "initrd"}
OldRoot   == <<"initrd", <<>> >>

Call == [dir : Seq(Filenames), me : FileSystems, todo : SUBSET Filenames]

SpaceTypes ==
    /\ at \in [FileSystems -> Node \cup {None}] /\ at["rootfs"] = None
    /\ tree \subseteq {n \in Node : n[2] # <<>>}
    /\ root \in Node /\ cwd \in Node

BootTypes ==
    /\ pc \in Labels /\ prog \in {"kinit", "run-init"} /\ arg \in Args
    /\ realroot \in Seq(Filenames) /\ init \in Seq(Filenames) /\ what \in Seq(Filenames)
    /\ dirs \in Seq(Call)
    /\ mnt \subseteq {"proc", "sysfs"} /\ ram0 \in {"empty", "initrd", "floppy"}
    /\ root_dev \in Devices /\ rrd \in Devices /\ devs \in Seq(Devices)

Types == SpaceTypes /\ BootTypes

Control ==
    /\ prog = "kinit" => realroot = <<"root">>
    /\ prog = "run-init" =>
         /\ pc \in {"chdir", "check", "chroot", "returned", "exit"} \cup Switching \cup Switched
         /\ pc \in {"chdir", "check"} \cup Switching =>
              root = Rootfs /\ \E l \in Layouts : realroot = l.realroot /\ at = l.at
    /\ pc \in {"find_init", "chdir", "check", "chroot", "returned"} \cup Switching \cup Switched
         => mnt = {}
    /\ pc = "mount_roots" => devs # <<>>
    /\ pc \in Early \ {"ramdisk_load", "mount_roots", "linuxrc"} => ram0 = "empty"
    /\ pc \in Linuxrc => ram0 = "initrd"

(***************************************************************************)
(* What kinit has mounted, and where.                                      *)
(***************************************************************************)
Only(S) == \A f \in FileSystems \ ({"proc", "sysfs"} \cup S) : at[f] = None

NoRoot     == Only({"initrd"}) /\ (at["initrd"] = None \/ at["initrd"][1] = "rootfs")
OneRoot(d) == Only({"initrd", d}) /\ at[d] = Dir("root")
Ready      == \/ NoRoot
              \/ \E d \in Real : OneRoot(d) /\ at["initrd"] \in {None, Child(<<d, <<>> >>, "initrd")}

Mounts ==
    prog = "kinit" =>
        /\ at["proc"] \in {None, Dir("proc")} /\ at["sysfs"] \in {None, Dir("sys")}
        /\ pc \in Early => root = Rootfs /\ Only({})
        /\ pc \in {"rrd", "enter"} => root = Rootfs /\ Only({"initrd"}) /\ at["initrd"] = Dir("root")
        /\ pc \in {"child", "leave"} => root = OldRoot /\ Only({"initrd"}) /\ at["initrd"] = Rootfs
        /\ pc \in {"realroot", "old"} => root = Rootfs /\ at["initrd"] = Dir("old")
        /\ pc = "realroot" => Only({"initrd"})
        /\ pc = "old" => Only({"initrd"}) \/ \E d \in Real : OneRoot(d)
        /\ pc \in Mounted => root = OldRoot \/ (root = Rootfs /\ Ready)

(***************************************************************************)
(* The deletion: its calls are for directories of the initramfs.           *)
(***************************************************************************)
InRootfs(p) == Walk(root, p)[1] = "rootfs"

Nukes ==
    /\ pc \notin Nuking => dirs = <<>>
    /\ \A i \in DOMAIN dirs : /\ dirs[i].me = "rootfs" /\ InRootfs(dirs[i].dir)
                              /\ i > 1 => InRootfs(Front(dirs[i].dir))
    /\ pc \in {"open", "unlink"} => InRootfs(what) /\ (dirs # <<>> => InRootfs(Front(what)))
    /\ pc \in {"read", "unlink"} => dirs # <<>>

(***************************************************************************)
(* What run_init switches to.                                              *)
(***************************************************************************)
SeenIn(d) == prog = "kinit" => Exists(Walk(d, init))
Moved ==
    /\ cwd[2] = <<>> /\ cwd[1] \notin {"rootfs", "proc", "sysfs"} /\ at[cwd[1]] = Rootfs
    /\ SeenIn(cwd)
    /\ prog = "kinit" => cwd[1] = "initrd" \/ at["initrd"] \in {None, Child(cwd, "initrd")}

Wiped == \E n \in Contents \ (DaemonFiles \cup {Image, Dir("old")}) : n[1] = "rootfs" /\ n \notin tree
Target == \E f \in FileSystems \ {"rootfs"} : at[f] # None /\ SeenIn(<<f, <<>> >>)

Switch ==
    /\ pc \in {"chdir", "check"} => SeenIn(Walk(root, realroot))
    /\ pc \in {"check"} \cup Switching => cwd = Walk(root, realroot)
    /\ pc \in Switching => root = Rootfs /\ cwd[1] # "rootfs" /\ SeenIn(cwd)
    /\ pc = "chroot" => root = Rootfs /\ Moved
    /\ pc \in Switched => root = cwd /\ Moved
    /\ pc = "init" => Exists(Walk(root, init))
    /\ Wiped => /\ pc \in {"chroot", "returned", "bail", "exit"} \cup Switching \cup Switched
                /\ mnt = {} /\ Target

Inv == Types /\ Control /\ Mounts /\ Nukes /\ Switch /\ ForeignFilesKept

------------------------------------------------------------------------------
(* Looking up paths *)

\* A set of natural numbers has a least element.
LEMMA LeastOf ==
    ASSUME NEW T \in SUBSET Nat, T # {}
    PROVE  \E x \in T : \A y \in T : x <= y
<1> DEFINE R == OpToRel(<, Nat)
<1>1. IsWellFoundedOn(R, Nat) BY NatLessThanWellFounded
<1>2. \A x, y \in Nat : x < y => <<x, y>> \in R BY DEF OpToRel
<1> HIDE DEF R
<1>3. PICK x \in T : \A y \in T : ~(<<y, x>> \in R)
  BY <1>1, WFMin, Zenon
<1>4. \A y \in T : ~(y < x) BY <1>2, <1>3, Zenon
<1>5. \A y \in T : x <= y BY <1>4
<1> QED BY <1>5, SMTT(60)

\* The places a lookup comes through: after no name, after one, and so on.
Steps(m, base, path, n, f) ==
    f = [i \in 0..n |-> IF i = 0 THEN base ELSE TopIn(m, Child(f[i - 1], path[i]))]

\* The places that a lookup comes through, component by component.
LEMMA StepsExist ==
    ASSUME NEW m, NEW base, NEW path, NEW n \in Nat
    PROVE  \E f : Steps(m, base, path, n, f)
<1> DEFINE Bad == {k \in Nat : ~ \E f : Steps(m, base, path, k, f)}
<1>1. SUFFICES ASSUME Bad # {} PROVE FALSE
  BY DEF Bad
<1>2. PICK k \in Bad : \A j \in Bad : k <= j
  BY <1>1, LeastOf, Zenon
<1>3. k \in Nat /\ ~ \E f : Steps(m, base, path, k, f) BY <1>2
<1>4. k # 0
  <2>1. Steps(m, base, path, 0, [i \in 0..0 |-> base])
    BY DEF Steps
  <2> QED BY <1>3, <2>1
<1>5. k - 1 \in Nat /\ k - 1 \notin Bad BY <1>2, <1>3, <1>4
<1>6. PICK f : Steps(m, base, path, k - 1, f) BY <1>5
<1> DEFINE g == [i \in 0..k |-> IF i = k THEN TopIn(m, Child(f[k - 1], path[k])) ELSE f[i]]
<1> HIDE DEF Bad
<1>7. \A i \in 0..k : g[i] = IF i = 0 THEN base ELSE TopIn(m, Child(g[i - 1], path[i]))
  <2> TAKE i \in 0..k
  <2>1. \A j \in 0..(k - 1) : f[j] = IF j = 0 THEN base ELSE TopIn(m, Child(f[j - 1], path[j]))
    BY <1>6, Zenon DEF Steps
  <2>2. CASE i = k
    <3>1. k - 1 \in 0..k /\ k - 1 # k /\ i \in Nat BY <1>3, <1>4
    <3>2. g[k - 1] = f[k - 1] BY <3>1
    <3> QED BY <1>4, <2>2, <3>2
  <2>3. CASE i # k
    <3>1. i \in 0..(k - 1) /\ g[i] = f[i] BY <1>3, <2>3
    <3>2. i # 0 => i - 1 \in 0..k /\ i - 1 # k BY <1>3, <2>3
    <3>3. i # 0 => g[i - 1] = f[i - 1] BY <3>2
    <3> QED BY <2>1, <3>1, <3>3
  <2> QED BY <2>2, <2>3
<1>8. Steps(m, base, path, k, g)
  <2>1. g = [i \in 0..k |-> g[i]] OBVIOUS
  <2> HIDE DEF g
  <2> QED BY <1>7, <2>1, Zenon DEF Steps
<1> QED BY <1>3, <1>8

\* A lookup comes through these places.
LEMMA WalkSteps ==
    ASSUME NEW m, NEW base, NEW path, Len(path) \in Nat
    PROVE  \E f : Steps(m, base, path, Len(path), f) /\ WalkIn(m, base, path) = f[Len(path)]
<1> DEFINE f == CHOOSE f : f = [i \in 0..Len(path) |-> IF i = 0 THEN base ELSE TopIn(m, Child(f[i - 1], path[i]))]
<1>1. \E h : Steps(m, base, path, Len(path), h) BY StepsExist
<1>2. Steps(m, base, path, Len(path), f) BY <1>1, Zenon DEF Steps
<1>3. WalkIn(m, base, path) = f[Len(path)] BY DEF WalkIn
<1> QED BY <1>2, <1>3, Zenon

\* Two lookups are the same, and stay in a set of places, when that is so for
\* every name from each of these places.
LEMMA WalkSame ==
    ASSUME NEW m, NEW p, NEW base, NEW path \in Seq(Filenames), NEW N, base \in N,
           \A n \in N : \A x \in Filenames :
             TopIn(m, Child(n, x)) \in N /\ TopIn(p, Child(n, x)) = TopIn(m, Child(n, x))
    PROVE  WalkIn(m, base, path) \in N /\ WalkIn(p, base, path) = WalkIn(m, base, path)
<1>0. Len(path) \in Nat /\ \A i \in 1..Len(path) : path[i] \in Filenames OBVIOUS
<1>1. PICK f : Steps(m, base, path, Len(path), f) /\ WalkIn(m, base, path) = f[Len(path)]
  BY <1>0, WalkSteps
<1>2. PICK g : Steps(p, base, path, Len(path), g) /\ WalkIn(p, base, path) = g[Len(path)]
  BY <1>0, WalkSteps
<1>3. \A j \in 0..Len(path) : f[j] = IF j = 0 THEN base ELSE TopIn(m, Child(f[j - 1], path[j]))
  BY <1>1, Zenon DEF Steps
<1>4. \A j \in 0..Len(path) : g[j] = IF j = 0 THEN base ELSE TopIn(p, Child(g[j - 1], path[j]))
  BY <1>2, Zenon DEF Steps
<1> DEFINE Bad == {k \in 0..Len(path) : ~(f[k] \in N /\ g[k] = f[k])}
<1>5. SUFFICES ASSUME Bad # {} PROVE FALSE
  BY <1>0, <1>1, <1>2 DEF Bad
<1>6. PICK k \in Bad : \A j \in Bad : k <= j
  <2>1. Bad \in SUBSET Nat BY <1>0
  <2> QED BY ONLY <1>5, <2>1, LeastOf, Zenon
<1>7. k \in 0..Len(path) /\ ~(f[k] \in N /\ g[k] = f[k]) BY <1>6
<1>8. CASE k = 0 BY <1>3, <1>4, <1>7, <1>8
<1>9. CASE k # 0
  <2>1. k - 1 \in 0..Len(path) /\ ~(k <= k - 1) /\ k \in 1..Len(path) BY <1>0, <1>7, <1>9
  <2>2. f[k - 1] \in N /\ g[k - 1] = f[k - 1] BY <1>6, <2>1
  <2>3. f[k] = TopIn(m, Child(f[k - 1], path[k])) /\ g[k] = TopIn(p, Child(g[k - 1], path[k]))
    BY <1>3, <1>4, <1>7, <1>9
  <2>4. path[k] \in Filenames BY <1>0, <2>1
  <2> QED BY ONLY <1>7, <2>2, <2>3, <2>4,
        \A n \in N : \A x \in Filenames :
             TopIn(m, Child(n, x)) \in N /\ TopIn(p, Child(n, x)) = TopIn(m, Child(n, x)), Zenon
<1> QED BY <1>8, <1>9

\* Short paths
LEMMA WalkNothing ==
    ASSUME NEW m, NEW base
    PROVE  WalkIn(m, base, <<>>) = base
<1>1. PICK f : Steps(m, base, <<>>, 0, f) /\ WalkIn(m, base, <<>>) = f[0]
  BY WalkSteps, Len(<<>>) = 0
<1> QED BY <1>1 DEF Steps

\* Looking up one name ...
LEMMA WalkOne ==
    ASSUME NEW m, NEW base, NEW x
    PROVE  WalkIn(m, base, <<x>>) = TopIn(m, Child(base, x))
<1>0. Len(<<x>>) = 1 OBVIOUS
<1>1. PICK f : Steps(m, base, <<x>>, 1, f) /\ WalkIn(m, base, <<x>>) = f[1]
  BY <1>0, WalkSteps, Zenon
<1>2. f[0] = base /\ f[1] = TopIn(m, Child(f[0], <<x>>[1])) BY <1>1 DEF Steps
<1> QED BY <1>1, <1>2

\* ... and two.
LEMMA WalkTwo ==
    ASSUME NEW m, NEW base, NEW x, NEW y
    PROVE  WalkIn(m, base, <<x, y>>) = TopIn(m, Child(TopIn(m, Child(base, x)), y))
<1>0. Len(<<x, y>>) = 2 OBVIOUS
<1>1. PICK f : Steps(m, base, <<x, y>>, 2, f) /\ WalkIn(m, base, <<x, y>>) = f[2]
  BY <1>0, WalkSteps, Zenon
<1>2. /\ f[0] = base /\ f[1] = TopIn(m, Child(f[0], <<x, y>>[1]))
      /\ f[2] = TopIn(m, Child(f[1], <<x, y>>[2]))
  BY <1>1 DEF Steps
<1> QED BY <1>1, <1>2

\* What a lookup of a node finds
LEMMA TopIs ==
    ASSUME NEW m, NEW n
    PROVE  \/ TopIn(m, n) = n /\ \A f \in FileSystems : m[f] # n
           \/ \E f \in FileSystems : m[f] = n /\ TopIn(m, n) = <<f, <<>> >>
<1>1. CASE OnIn(m, n) = {} BY <1>1 DEF TopIn, OnIn
<1>2. CASE OnIn(m, n) # {}
  <2>1. PICK f : f = CHOOSE g \in OnIn(m, n) : TRUE OBVIOUS
  <2>2. f \in OnIn(m, n) BY <1>2, <2>1
  <2>3. TopIn(m, n) = <<f, <<>> >> BY <1>2, <2>1 DEF TopIn
  <2> QED BY <2>2, <2>3 DEF OnIn
<1> QED BY <1>1, <1>2

\* The empty sequence
LEMMA NoNames ==
    ASSUME NEW S
    PROVE  <<>> \in Seq(S)
  OBVIOUS

\* Sequences that get longer and shorter at the end
LEMMA Longer ==
    ASSUME NEW S, NEW s \in Seq(S), NEW x \in S
    PROVE  /\ Append(s, x) \in Seq(S) /\ Append(s, x) # <<>>
           /\ Front(Append(s, x)) = s /\ Last(Append(s, x)) = x
<1>1. Append(s, x) \in Seq(S) /\ Len(Append(s, x)) = Len(s) + 1 /\ Len(s) \in Nat
  OBVIOUS
<1>2. Append(s, x) # <<>> BY <1>1
<1>3. Last(Append(s, x)) = x BY <1>1 DEF Last
<1>4. SubSeq(Append(s, x), 1, Len(s)) = s BY <1>1
<1>5. Front(Append(s, x)) = s BY <1>1, <1>4 DEF Front
<1> QED BY <1>1, <1>2, <1>3, <1>5

\* A path without its last component.
LEMMA Shorter ==
    ASSUME NEW S, NEW s \in Seq(S), s # <<>>
    PROVE  Front(s) \in Seq(S) /\ Last(s) \in S /\ Len(Front(s)) = Len(s) - 1
           /\ \A i \in DOMAIN Front(s) : i \in DOMAIN s /\ Front(s)[i] = s[i]
<1>1. Len(s) \in Nat /\ Len(s) > 0 BY SMT
<1>2. Front(s) = SubSeq(s, 1, Len(s) - 1) BY DEF Front
<1>3. PICK n \in Nat : n = Len(s) - 1 BY <1>1
<1>4. SubSeq(s, 1, n) \in Seq(S) /\ Len(SubSeq(s, 1, n)) = n
      /\ \A i \in 1..n : i \in DOMAIN s /\ SubSeq(s, 1, n)[i] = s[i]
  BY <1>1, <1>3
<1>5. Last(s) \in S BY <1>1 DEF Last
<1>6. Front(s) \in Seq(S) /\ Len(Front(s)) = n BY <1>2, <1>3, <1>4
<1>7. DOMAIN Front(s) = 1..n BY <1>6
<1> QED BY <1>2, <1>3, <1>4, <1>5, <1>6, <1>7

\* A node is a file system and the names of a path in it.
LEMMA NodeIs ==
    ASSUME NEW f \in FileSystems, NEW s \in Seq(Filenames)
    PROVE  <<f, s>> \in Node /\ <<f, s>>[1] = f /\ <<f, s>>[2] = s
  BY DEF Node

\* The root directory of a file system.
LEMMA RootIs ==
    ASSUME NEW f \in FileSystems
    PROVE  <<f, <<>> >> \in Node /\ <<f, <<>> >>[1] = f /\ <<f, <<>> >>[2] = <<>>
<1>1. PICK s \in Seq(Filenames) : s = <<>> BY NoNames, Zenon
<1> QED BY ONLY <1>1, f \in FileSystems, NodeIs, Zenon

\* A node is a file system and a path in it.
LEMMA PartsOf ==
    ASSUME NEW n \in Node
    PROVE  n[1] \in FileSystems /\ n[2] \in Seq(Filenames) /\ n = <<n[1], n[2]>>
  BY DEF Node

\* A name in a directory.
LEMMA ChildIs ==
    ASSUME NEW n \in Node, NEW x \in Filenames
    PROVE  /\ Child(n, x) \in Node /\ Child(n, x)[1] = n[1] /\ Child(n, x)[2] = Append(n[2], x)
           /\ Child(n, x)[2] # <<>> /\ Child(n, x) # None
<1>1. PICK f \in FileSystems, s \in Seq(Filenames) : n[1] = f /\ n[2] = s BY PartsOf
<1>2. PICK q \in Seq(Filenames) : q = Append(s, x) BY Longer, Zenon
<1>3. q # <<>> BY ONLY <1>2, s \in Seq(Filenames), x \in Filenames, Longer, Zenon
<1>4. Child(n, x) = <<f, q>> BY <1>1, <1>2, Zenon DEF Child
<1>5. <<f, q>> \in Node /\ <<f, q>>[1] = f /\ <<f, q>>[2] = q BY NodeIs
<1>6. None[2] = <<>> BY DEF None
<1> QED BY <1>1, <1>2, <1>3, <1>4, <1>5, <1>6, Zenon

\* A lookup stays in its file system or ends in one that is mounted.
LEMMA WalkPlace ==
    ASSUME NEW m, NEW base \in Node, NEW path \in Seq(Filenames)
    PROVE  /\ WalkIn(m, base, path) \in Node
           /\ \/ WalkIn(m, base, path)[1] = base[1]
              \/ m[WalkIn(m, base, path)[1]] # None
<1> DEFINE N == {n \in Node : n[1] = base[1] \/ m[n[1]] # None}
<1>1. ASSUME NEW n \in N, NEW x \in Filenames PROVE TopIn(m, Child(n, x)) \in N
  <2>1. n \in Node /\ (n[1] = base[1] \/ m[n[1]] # None) OBVIOUS
  <2>2. Child(n, x) \in Node /\ Child(n, x)[1] = n[1] /\ Child(n, x) # None BY <2>1, ChildIs
  <2>3. CASE TopIn(m, Child(n, x)) = Child(n, x) BY <2>1, <2>2, <2>3
  <2>4. CASE \E f \in FileSystems : m[f] = Child(n, x) /\ TopIn(m, Child(n, x)) = <<f, <<>> >>
    <3>1. PICK f \in FileSystems : m[f] = Child(n, x) /\ TopIn(m, Child(n, x)) = <<f, <<>> >>
      BY <2>4
    <3>2. <<f, <<>> >> \in Node /\ <<f, <<>> >>[1] = f BY RootIs
    <3> QED BY <2>2, <3>1, <3>2
  <2>5. \/ TopIn(m, Child(n, x)) = Child(n, x)
        \/ \E f \in FileSystems : m[f] = Child(n, x) /\ TopIn(m, Child(n, x)) = <<f, <<>> >>
    BY TopIs
  <2> QED BY ONLY <2>3, <2>4, <2>5, Zenon
<1>2. base \in N OBVIOUS
<1> HIDE DEF N
<1>3. WalkIn(m, base, path) \in N BY <1>1, <1>2, WalkSame
<1> QED BY <1>3 DEF N

\* A lookup that does not begin in the initramfs does not see what is mounted
\* there.
LEMMA WalkElsewhere ==
    ASSUME NEW m, NEW p, NEW base \in Node, base[1] # "rootfs", NEW path \in Seq(Filenames),
           m["rootfs"] = None,
           \A f \in FileSystems : p[f] = m[f] \/ {m[f][1], p[f][1]} \subseteq {"rootfs", "none"}
    PROVE  WalkIn(m, base, path)[1] # "rootfs" /\ WalkIn(p, base, path) = WalkIn(m, base, path)
<1> DEFINE N == {n \in Node : n[1] # "rootfs"}
<1>1. ASSUME NEW n \in N, NEW x \in Filenames
      PROVE  TopIn(m, Child(n, x)) \in N /\ TopIn(p, Child(n, x)) = TopIn(m, Child(n, x))
  <2>1. n \in Node /\ n[1] # "rootfs" OBVIOUS
  <2>2. Child(n, x) \in Node /\ Child(n, x)[1] = n[1] /\ Child(n, x) # None BY <2>1, ChildIs
  <2>3. n[1] \in FileSystems /\ n[1] # "none" BY <2>1, KinitAssumption DEF Node
  <2>4. ASSUME NEW f \in FileSystems PROVE p[f] = Child(n, x) <=> m[f] = Child(n, x)
    BY <2>1, <2>2, <2>3
  <2>5. OnIn(p, Child(n, x)) = OnIn(m, Child(n, x)) BY <2>4 DEF OnIn
  <2>6. TopIn(p, Child(n, x)) = TopIn(m, Child(n, x)) BY <2>5 DEF TopIn
  <2>7. CASE TopIn(m, Child(n, x)) = Child(n, x) BY <2>1, <2>2, <2>6, <2>7
  <2>8. CASE \E f \in FileSystems : m[f] = Child(n, x) /\ TopIn(m, Child(n, x)) = <<f, <<>> >>
    <3>1. PICK f \in FileSystems : m[f] = Child(n, x) /\ TopIn(m, Child(n, x)) = <<f, <<>> >>
      BY <2>8
    <3>2. <<f, <<>> >> \in Node /\ <<f, <<>> >>[1] = f BY RootIs
    <3> QED BY <2>2, <2>6, <3>1, <3>2, Zenon
  <2> QED BY <2>7, <2>8, TopIs
<1>2. base \in N OBVIOUS
<1> HIDE DEF N
<1>3. WalkIn(m, base, path) \in N /\ WalkIn(p, base, path) = WalkIn(m, base, path)
  BY <1>1, <1>2, WalkSame
<1> QED BY <1>3 DEF N

------------------------------------------------------------------------------
(* The beginning *)

\* None is no node, and what the names of constants stand for.
LEMMA Places ==
    /\ Rootfs \in Node /\ Rootfs[1] = "rootfs" /\ Rootfs[2] = <<>>
    /\ OldRoot \in Node /\ OldRoot[1] = "initrd" /\ OldRoot[2] = <<>>
    /\ None[1] = "none" /\ None \notin Node
    /\ \A x \in Filenames : Dir(x) \in Node /\ Dir(x)[1] = "rootfs" /\ Dir(x)[2] = <<x>>
    /\ \A x \in Filenames : Dir(x) = Child(Rootfs, x)
<1>1. {"rootfs", "initrd"} \subseteq FileSystems /\ "none" \notin FileSystems
  BY KinitAssumption
<1>2. Rootfs \in Node /\ Rootfs[1] = "rootfs" /\ Rootfs[2] = <<>> BY <1>1, RootIs DEF Rootfs
<1>3. OldRoot \in Node /\ OldRoot[1] = "initrd" /\ OldRoot[2] = <<>> BY <1>1, RootIs DEF OldRoot
<1>4. None[1] = "none" BY DEF None
<1>5. None \notin Node BY <1>1, <1>4, PartsOf
<1>6. ASSUME NEW x \in Filenames
      PROVE  /\ Dir(x) \in Node /\ Dir(x)[1] = "rootfs" /\ Dir(x)[2] = <<x>>
             /\ Dir(x) = Child(Rootfs, x)
  <2>1. Append(<<>>, x) = <<x>> OBVIOUS
  <2>2. Dir(x) = Child(Rootfs, x) BY <2>1 DEF Dir, Child, Rootfs
  <2>3. Child(Rootfs, x) \in Node /\ Child(Rootfs, x)[1] = "rootfs" BY <1>2, ChildIs
  <2>4. Dir(x)[2] = <<x>> BY DEF Dir
  <2> QED BY <2>2, <2>3, <2>4
<1> QED BY <1>2, <1>3, <1>4, <1>5, <1>6

\* The directories that kinit makes
LEMMA DirsAre ==
    \A x \in {"proc", "sys", "root", "old", "initrd", "initrd.image"} :
        /\ x \in Filenames /\ Dir(x) \in Node /\ Dir(x)[1] = "rootfs" /\ Dir(x)[2] = <<x>>
        /\ Dir(x)[2] # <<>> /\ Dir(x) = Child(Rootfs, x)
<1>1. \A x \in {"proc", "sys", "root", "old", "initrd", "initrd.image"} : x \in Filenames
  BY KinitAssumption
<1>2. \A x : <<x>> # <<>> OBVIOUS
<1> QED BY <1>1, <1>2, Places, Zenon

\* What the assumptions say of the files there are
LEMMA ContentsAre ==
    /\ Contents \cup DaemonFiles \subseteq {n \in Node : n[2] # <<>>}
    /\ \A n \in DaemonFiles : n[1] = "rootfs"
  BY KinitAssumption

\* kinit starts in the initramfs with nothing mounted; run-init in what a
\* script has set up.
LEMMA InitInv == Init => Inv
<1> SUFFICES ASSUME Init PROVE Inv OBVIOUS
<1>1. /\ root = Rootfs /\ cwd = Rootfs /\ dirs = <<>> /\ what = <<>> /\ arg \in Args /\ mnt = {}
      /\ ram0 = "empty" /\ root_dev = "bad" /\ rrd = "bad" /\ devs = <<>>
  BY DEF Init
<1>2. arg.init \in Seq(Filenames) BY <1>1, KinitAssumption DEF Arg
<1>3. "rootfs" \in FileSystems /\ "proc" \in FileSystems /\ "initrd" \in FileSystems /\ "sysfs" \in FileSystems
  BY KinitAssumption
<1>4. \A n \in Contents : n \in tree BY DEF Init
<1>5. tree \subseteq {n \in Node : n[2] # <<>>}
  <2>1. Dir("proc") \in Node /\ Dir("proc")[2] # <<>> BY DirsAre
  <2>2. tree \subseteq Contents \cup {Dir("proc")} BY DEF Init
  <2> QED BY <2>1, <2>2, ContentsAre
<1>6. CASE prog = "kinit" /\ pc = "proc" /\ realroot = <<"root">> /\ init = <<>>
           /\ at \in {[f \in FileSystems |-> None],
                      [f \in FileSystems |-> IF f = "proc" THEN Dir("proc") ELSE None]}
  <2>1. /\ at \in [FileSystems -> Node \cup {None}]
        /\ \A f \in FileSystems : f # "proc" => at[f] = None
        /\ at["proc"] \in {None, Dir("proc")}
    <3>1. Dir("proc") \in Node BY DirsAre
    <3> QED BY <1>3, <1>6, <3>1
  <2>2. <<"root">> \in Seq(Filenames) /\ <<>> \in Seq(Filenames)
    <3>1. <<>> \in Seq(Filenames) BY NoNames
    <3>2. Append(<<>>, "root") \in Seq(Filenames) BY <3>1, DirsAre, Longer, Zenon
    <3> QED BY <3>1, <3>2
  <2>3. Types
    <3>1. <<>> \in Seq(Call) /\ <<>> \in Seq(Devices) BY NoNames
    <3>2. root \in Node /\ cwd \in Node BY <1>1, Places, Zenon
    <3> QED BY <1>1, <1>3, <1>5, <1>6, <2>1, <2>2, <3>1, <3>2 DEF Types, SpaceTypes, BootTypes, Labels, Devices
  <2>4. Control BY <1>1, <1>6 DEF Control, Early, Linuxrc, Switching, Switched, Nuking
  <2>5. Mounts BY <1>1, <1>3, <1>6, <2>1 DEF Mounts, Only, Early, Mounted, Switching, Nuking
  <2>6. Nukes BY <1>1, <1>6 DEF Nukes, Nuking
  <2>7. Switch BY <1>4, <1>6 DEF Switch, Switching, Switched, Nuking, Wiped
  <2> QED BY <1>4, <2>3, <2>4, <2>5, <2>6, <2>7 DEF Inv, ForeignFilesKept
<1>7. CASE /\ prog = "run-init" /\ pc = "chdir" /\ init = arg.init
           /\ \E l \in Layouts : realroot = l.realroot /\ at = l.at
  <2>1. PICK l \in Layouts : realroot = l.realroot /\ at = l.at BY <1>7
  <2>2. /\ at \in [FileSystems -> Node \cup {None}] /\ at["rootfs"] = None
        /\ realroot \in Seq(Filenames)
    <3>1. at \in [FileSystems -> Contents \cup {None}] /\ at["rootfs"] = None /\ realroot \in Seq(Filenames)
      BY <2>1, LayoutAssumption
    <3> QED BY <3>1, ContentsAre
  <2>3. Types
    <3>1. <<>> \in Seq(Call) /\ <<>> \in Seq(Devices) /\ <<>> \in Seq(Filenames) BY NoNames
    <3>2. root \in Node /\ cwd \in Node BY <1>1, Places
    <3> QED BY <1>1, <1>2, <1>3, <1>5, <1>7, <2>2, <3>1, <3>2 DEF Types, SpaceTypes, BootTypes, Labels, Devices
  <2>4. Control BY <1>1, <1>7 DEF Control, Early, Linuxrc, Switching, Switched, Nuking
  <2>5. Mounts BY <1>7 DEF Mounts
  <2>6. Nukes BY <1>1, <1>7 DEF Nukes, Nuking
  <2>7. Switch BY <1>4, <1>7, Zenon DEF Switch, Switching, Switched, Nuking, Wiped, SeenIn
  <2> QED BY <1>4, <2>3, <2>4, <2>5, <2>6, <2>7 DEF Inv, ForeignFilesKept
<1> QED BY <1>6, <1>7 DEF Init

------------------------------------------------------------------------------
(* main *)

\* A step that begins and ends outside the deletion has no call of nuke_dir
\* under way.
LEMMA NukesIdle ==
    ASSUME dirs' = <<>>, pc' \notin Nuking
    PROVE  Nukes'
  BY DEF Nukes, Nuking

\* A step that removes nothing but the image and /old keeps the files that the
\* invariant is about.
Spares == \A n \in tree : n \in tree' \/ n \in {Image, Dir("old")}

\* A step that deletes nothing wipes nothing.
LEMMA SparesFiles ==
    ASSUME Spares
    PROVE  /\ ForeignFilesKept => ForeignFilesKept'
           /\ Wiped' => Wiped
<1>1. Image[1] = "rootfs" /\ Dir("old")[1] = "rootfs" BY DirsAre DEF Image
<1>2. ForeignFilesKept => ForeignFilesKept' BY <1>1 DEF Spares, ForeignFilesKept
<1>3. Wiped' => Wiped BY DEF Wiped, Spares
<1> QED BY <1>2, <1>3

\* The steps up to run_init have not deleted anything.
Before == Early \cup Linuxrc \cup {"caps", "helper", "bset", "umount", "find_init"}

\* Until run_init is called, Switch is about the files alone.
LEMMA SwitchBefore ==
    ASSUME Switch, pc \in Before, Spares, pc' \in Before \cup {"exit", "crashed", "commit failed", "bail"}
    PROVE  Switch'
<1>1. ~Wiped BY DEF Switch, Before, Early, Linuxrc, Switching, Switched, Nuking
<1>2. ~Wiped' BY <1>1, SparesFiles
<1> QED BY <1>2, Zenon DEF Switch, Before, Early, Linuxrc, Switching, Switched, Nuking

\* A step that mounts nothing
Still == UNCHANGED <<at, root, cwd, realroot, init, dirs, what, prog, arg>>

\* What is mounted stays right when pc goes on and the name space does not
\* change.
LEMMA StillMounts ==
    ASSUME Mounts, Still,
           \/ pc' \in {"bail", "exit", "crashed", "commit failed"}
           \/ pc \in Early /\ pc' \in Early
           \/ pc = "rrd" /\ pc' = "enter"
           \/ pc = "child" /\ pc' = "leave"
           \/ pc \in {"linuxrc", "rrd", "child"} /\ pc' = "caps"
           \/ pc \in Mounted /\ pc' \in Mounted
    PROVE  Mounts'
<1>1. prog' = prog /\ at' = at /\ root' = root BY DEF Still
<1>2. \A S : Only(S)' = Only(S) BY <1>1 DEF Only
<1>3. Ready' = Ready /\ \A d : OneRoot(d)' = OneRoot(d) BY <1>1, Zenon DEF Ready, NoRoot, OneRoot, Only
<1>4. Only({}) => NoRoot /\ Ready
  BY KinitAssumption DEF Only, NoRoot, Ready
<1>5. Only({"initrd"}) /\ at["initrd"] = Dir("root") => Ready
  BY DirsAre, Zenon DEF NoRoot, Ready
<1> QED BY <1>1, <1>2, <1>3, <1>4, <1>5 DEF Mounts, Early, Mounted, Switching, Nuking

\* Nor do the types of the name space change.
LEMMA StillTypes ==
    ASSUME SpaceTypes, Still, tree' = tree
    PROVE  SpaceTypes'
  BY DEF SpaceTypes, Still

\* A step of main that leaves the name space alone
LEMMA QuietStep ==
    ASSUME Inv, Still, tree' = tree, Control', BootTypes', pc \in Before,
           \/ pc' \in {"bail", "exit", "commit failed"}
           \/ pc \in Early /\ pc' \in Early
           \/ pc = "child" /\ pc' \in {"leave", "caps"}
           \/ pc \in {"caps", "helper", "bset"} /\ pc' \in {"caps", "helper", "bset", "umount"}
    PROVE  Inv'
<1>1. SpaceTypes' BY StillTypes DEF Inv, Types
<1>2. Mounts'
  <2>1. Mounts BY DEF Inv
  <2> QED BY <2>1, StillMounts DEF Mounted
<1>3. Nukes'
  <2>1. pc \notin Nuking /\ pc' \notin Nuking BY DEF Before, Early, Linuxrc, Nuking
  <2>2. dirs' = <<>> BY <2>1, Zenon DEF Inv, Nukes, Still
  <2> QED BY <2>1, <2>2, NukesIdle
<1>4. Spares BY DEF Spares
<1>5. Switch'
  <2>1. Switch BY DEF Inv
  <2>2. pc' \in Before \cup {"exit", "crashed", "commit failed", "bail"}
    BY DEF Before, Linuxrc
  <2> QED BY <1>4, <2>1, <2>2, SwitchBefore
<1>6. ForeignFilesKept' BY <1>4, SparesFiles DEF Inv
<1> QED BY <1>1, <1>2, <1>3, <1>5, <1>6 DEF Inv, Types

\* The steps of main that only read, wait or write elsewhere
LEMMA QuietSteps ==
    ASSUME Inv, ReadsCmdline \/ do_resume \/ do_ipconfig \/ do_mounts \/ RunsLinuxrc \/ drop_capabilities
    PROVE  Inv'
<1> USE DEF Goes, Exits, space, boot, disk, caps
<1>0. arg \in Args => arg.root \in Devices BY KinitAssumption DEF Arg
<1>1. CASE ReadsCmdline
  <2>1. Still /\ tree' = tree /\ pc = "cmdline" /\ pc' \in {"resume", "bail"}
    BY <1>1, Zenon DEF ReadsCmdline, Still
  <2>2. UNCHANGED <<mnt, ram0, root_dev, devs, rrd>> BY <1>1, Zenon DEF ReadsCmdline
  <2>3. BootTypes' BY <2>1, <2>2 DEF Inv, Types, BootTypes, Still, Labels
  <2>4. Control' BY <2>1, <2>2, Zenon DEF Inv, Control, Still, Early, Linuxrc, Switching, Switched, Nuking
  <2> QED BY <2>1, <2>3, <2>4, QuietStep DEF Before, Early
<1>2. CASE do_resume
  <2>1. Still /\ tree' = tree /\ pc = "resume" /\ pc' \in {"ipconfig", "resumed"}
    BY <1>2, Zenon DEF do_resume, Still
  <2>2. UNCHANGED <<mnt, ram0, root_dev, devs, rrd>> BY <1>2, Zenon DEF do_resume
  <2>3. BootTypes' BY <2>1, <2>2, Zenon DEF Inv, Types, BootTypes, Still, Labels, Final
  <2>4. Control' BY <2>1, <2>2, Zenon DEF Inv, Control, Still, Early, Linuxrc, Switching, Switched, Nuking
  <2> QED BY <2>1, <2>3, <2>4, QuietStep DEF Before, Early
<1>3. CASE do_ipconfig
  <2>1. Still /\ tree' = tree /\ pc = "ipconfig" /\ pc' = "check_path"
    BY <1>3, Zenon DEF do_ipconfig, Still
  <2>2. UNCHANGED <<mnt, ram0, root_dev, devs, rrd>> BY <1>3 DEF do_ipconfig
  <2>3. BootTypes' BY <2>1, <2>2, Zenon DEF Inv, Types, BootTypes, Still, Labels
  <2>4. Control' BY <2>1, <2>2, Zenon DEF Inv, Control, Still, Early, Linuxrc, Switching, Switched, Nuking
  <2> QED BY <2>1, <2>3, <2>4, QuietStep DEF Before, Early
<1>4. CASE do_mounts
  <2>1. Still /\ tree' = tree /\ pc = "do_mounts" /\ pc' = "initrd_load"
    BY <1>4, Zenon DEF do_mounts, Still
  <2>2. UNCHANGED <<mnt, ram0, devs, rrd>> /\ root_dev' = arg.root BY <1>4, Zenon DEF do_mounts
  <2>3. BootTypes' BY <1>0, <2>1, <2>2, Zenon DEF Inv, Types, BootTypes, Still, Labels
  <2>4. Control' BY <2>1, <2>2, Zenon DEF Inv, Control, Still, Early, Linuxrc, Switching, Switched, Nuking
  <2> QED BY <2>1, <2>3, <2>4, QuietStep, Zenon DEF Before, Early
<1>5. CASE RunsLinuxrc
  <2>1. Still /\ tree' = tree /\ pc = "child" /\ pc' \in {"leave", "caps"}
    BY <1>5, Zenon DEF RunsLinuxrc, UnchangedLinuxrc, Still
  <2>2. UNCHANGED <<mnt, ram0, root_dev, devs>> /\ rrd' \in {rrd, "ram0", "disk"}
    BY <1>5, Zenon DEF RunsLinuxrc, UnchangedLinuxrc
  <2>3. BootTypes' BY <2>1, <2>2, SMTT(60) DEF Inv, Types, BootTypes, Still, Labels, Devices
  <2>4. Control' BY <2>1, <2>2, Zenon DEF Inv, Control, Still, Early, Linuxrc, Switching, Switched, Nuking
  <2> QED BY <2>1, <2>3, <2>4, QuietStep DEF Before, Linuxrc
<1>6. CASE drop_capabilities
  <2>1. /\ Still /\ tree' = tree /\ pc \in {"caps", "helper", "bset"}
        /\ pc' \in {"caps", "helper", "bset", "umount", "exit", "commit failed"}
    BY <1>6, Zenon DEF drop_capabilities, NextToken, do_usermodehelper_file, DropsCapability, UnchangedCaps, Still
  <2>2. UNCHANGED <<mnt, ram0, root_dev, devs, rrd>>
    BY <1>6, Zenon DEF drop_capabilities, NextToken, do_usermodehelper_file, DropsCapability, UnchangedCaps
  <2>3. BootTypes' BY <2>1, <2>2, Zenon DEF Inv, Types, BootTypes, Still, Labels, Final
  <2>4. Control' BY <2>1, <2>2, Zenon DEF Inv, Control, Still, Early, Linuxrc, Switching, Switched, Nuking
  <2> QED BY <2>1, <2>3, <2>4, QuietStep DEF Before
<1> QED BY <1>1, <1>2, <1>3, <1>4, <1>5, <1>6

\* mount_sys_fs, for /proc and for /sys
LEMMA MountSysStep ==
    ASSUME Inv, NEW l, NEW fs, NEW dir, NEW next,
           \/ l = "proc" /\ fs = "proc" /\ dir = "proc" /\ next = "sys"
           \/ l = "sys" /\ fs = "sysfs" /\ dir = "sys" /\ next = "cmdline",
           mount_sys_fs(l, fs, dir, next)
    PROVE  Inv'
<1> USE DEF Goes, Exits, disk, caps
<1>1. /\ UNCHANGED <<root, cwd, realroot, init, dirs, what, prog, arg, ram0, root_dev, devs, rrd>>
      /\ pc = l /\ pc' \in {next, "bail"}
      /\ mnt' \subseteq mnt \cup {fs} /\ tree' \in {tree, tree \cup {Dir(dir)}}
      /\ at' = at \/ at' = [at EXCEPT ![fs] = Dir(dir)]
  BY Zenon DEF mount_sys_fs, Makes
<1>2. pc \in Early /\ prog = "kinit" BY <1>1, Zenon DEF Inv, Types, BootTypes, Control, Early, Switching, Switched, Nuking
<1>3. Dir(dir) \in Node /\ Dir(dir)[2] # <<>> BY DirsAre, Zenon
<1>4. fs \in FileSystems BY KinitAssumption
<1>a. fs \in {"proc", "sysfs"} OBVIOUS
<1>b. at \in [FileSystems -> Node \cup {None}] /\ at["rootfs"] = None
  BY DEF Inv, Types, SpaceTypes
<1>c. /\ at' \in [FileSystems -> Node \cup {None}]
      /\ \A f \in FileSystems : at'[f] = at[f] \/ (f = fs /\ at'[f] = Dir(dir))
  <2>1. CASE at' = at BY ONLY <2>1, <1>b
  <2>2. CASE at' = [at EXCEPT ![fs] = Dir(dir)] BY ONLY <2>2, <1>b, <1>3, <1>4, Zenon
  <2> QED BY <1>1, <2>1, <2>2, Zenon
<1>5. SpaceTypes'
  <2>1. at'["rootfs"] = None BY ONLY <1>a, <1>b, <1>c, KinitAssumption
  <2>2. tree' \subseteq {n \in Node : n[2] # <<>>} BY <1>1, <1>3, Zenon DEF Inv, Types, SpaceTypes
  <2> QED BY <1>1, <1>c, <2>1, <2>2, Zenon DEF Inv, Types, SpaceTypes
<1>6. BootTypes' BY <1>1, SMTT(60) DEF Inv, Types, BootTypes, Labels
<1>7. Control' BY <1>1, Zenon DEF Inv, Control, Early, Linuxrc, Switching, Switched, Nuking
<1>8. Mounts'
  <2>2. /\ \A f \in FileSystems \ {"proc", "sysfs"} : at'[f] = at[f]
        /\ \A f \in {"proc", "sysfs"} : at'[f] = at[f] \/ (f = fs /\ at'[f] = Dir(dir))
    BY ONLY <1>a, <1>c, KinitAssumption
  <2>3. root = Rootfs /\ Only({}) /\ at["proc"] \in {None, Dir("proc")} /\ at["sysfs"] \in {None, Dir("sys")}
    BY <1>2, SMTT(60) DEF Inv, Mounts
  <2>4. at'["proc"] \in {None, Dir("proc")} /\ at'["sysfs"] \in {None, Dir("sys")}
    BY <2>2, <2>3, Zenon
  <2>5. root' = Rootfs /\ Only({})' BY <1>1, <2>2, <2>3, Zenon DEF Only
  <2>6. pc' \in Early \cup {"bail"} BY <1>1, Zenon DEF Early
  <2> QED BY <2>4, <2>5, <2>6 DEF Mounts, Early, Mounted, Switching, Nuking
<1>9. Nukes'
  <2>1. pc \notin Nuking /\ pc' \notin Nuking BY <1>1, Zenon DEF Nuking
  <2>2. dirs' = <<>> BY <1>1, <2>1, Zenon DEF Inv, Nukes
  <2> QED BY <2>1, <2>2, NukesIdle
<1>10. Spares BY <1>1, Zenon DEF Spares
<1>11. Switch'
  <2>1. Switch /\ pc \in Before /\ pc' \in Before \cup {"exit", "crashed", "commit failed", "bail"}
    BY <1>1, <1>2, Zenon DEF Inv, Before, Early
  <2> QED BY <1>10, <2>1, SwitchBefore
<1>12. ForeignFilesKept' BY <1>10, SparesFiles DEF Inv
<1> QED BY <1>5, <1>6, <1>7, <1>8, <1>9, <1>11, <1>12 DEF Inv, Types

\* Steps that change what files there are, and nothing else of the name space
LEMMA FileSteps ==
    ASSUME Inv, check_path \/ initrd_load \/ ramdisk_load \/ StoresDevice
    PROVE  Inv'
<1> USE DEF Goes, Exits, space, boot, disk, caps
<1>1. Still /\ mnt' = mnt
  BY Zenon DEF check_path, initrd_load, ramdisk_load, StoresDevice, UnchangedLinuxrc, Still
<1>2. /\ pc \in {"check_path", "initrd_load", "ramdisk_load", "rrd"}
      /\ \/ pc' = "exit" \/ pc' = "crashed"
         \/ pc \in Early /\ pc' \in Early
         \/ pc = "rrd" /\ pc' \in {"enter", "caps"}
  BY Zenon DEF check_path, initrd_load, ramdisk_load, StoresDevice, Early
<1>3. Spares BY Zenon DEF check_path, initrd_load, ramdisk_load, StoresDevice, Spares
<1>4. tree' \subseteq tree \cup {Dir("root"), Dir("old")}
  BY Zenon DEF check_path, initrd_load, ramdisk_load, StoresDevice
<1>5. SpaceTypes'
  <2>1. \A x \in {"root", "old"} : Dir(x) \in Node /\ Dir(x)[2] # <<>> BY DirsAre, Zenon
  <2> QED BY <1>1, <1>4, <2>1, Zenon DEF Inv, Types, SpaceTypes, Still
<1>6. Mounts'
  <2>1. Mounts BY DEF Inv
  <2> QED BY <1>1, <1>2, <2>1, StillMounts, Zenon
<1>7. Nukes'
  <2>1. pc \notin Nuking /\ pc' \notin Nuking BY <1>2 DEF Nuking, Early
  <2>2. dirs' = <<>> BY <1>1, <2>1, Zenon DEF Inv, Nukes, Still
  <2> QED BY <2>1, <2>2, NukesIdle
<1>8. Switch'
  <2>1. Switch /\ pc \in Before /\ pc' \in Before \cup {"exit", "crashed", "commit failed", "bail"}
    BY <1>2, Zenon DEF Inv, Before, Early, Linuxrc
  <2> QED BY <1>3, <2>1, SwitchBefore, Zenon
<1>9. ForeignFilesKept' BY <1>3, SparesFiles DEF Inv
<1>10. BootTypes' /\ Control'
  <2>1. CASE check_path
    <3>1. UNCHANGED <<ram0, root_dev, devs, rrd>> /\ pc = "check_path" /\ pc' \in {"do_mounts", "exit"}
      BY <2>1, Zenon DEF check_path
    <3>2. BootTypes' BY <1>1, <3>1, Zenon DEF Inv, Types, BootTypes, Still, Labels, Final
    <3>3. Control' BY <1>1, <3>1, Zenon DEF Inv, Control, Still, Early, Linuxrc, Switching, Switched, Nuking
    <3> QED BY <3>2, <3>3
  <2>2. CASE initrd_load
    <3>1. /\ UNCHANGED <<root_dev, devs, rrd>> /\ pc = "initrd_load" /\ ram0' \in {ram0, "empty", "initrd"}
          /\ pc' = "ramdisk_load" \/ (pc' = "linuxrc" /\ ram0' = "initrd")
      BY <2>2, Zenon DEF initrd_load
    <3>2. BootTypes' BY <1>1, <3>1, Zenon DEF Inv, Types, BootTypes, Still, Labels
    <3>3. Control' BY <1>1, <3>1, Zenon DEF Inv, Control, Still, Early, Linuxrc, Switching, Switched, Nuking
    <3> QED BY <3>2, <3>3
  <2>3. CASE ramdisk_load
    <3>1. /\ UNCHANGED rrd /\ pc = "ramdisk_load" /\ pc' = "mount_roots"
          /\ ram0' \in {ram0, "empty", "floppy"} /\ root_dev' \in {root_dev, "ram0"}
          /\ devs' = IF root_dev' = "multi" THEN Roots ELSE <<root_dev'>>
      BY <2>3, Zenon DEF ramdisk_load
    <3>2. root_dev' \in Devices BY <3>1, Zenon DEF Inv, Types, BootTypes, Devices
    <3>3. devs' \in Seq(Devices) /\ devs' # <<>>
      <4>1. Disks \cup {"bad"} \subseteq Devices BY DEF Disks, Devices
      <4>2. Roots \in Seq(Devices) /\ Roots # <<>> BY <4>1, KinitAssumption
      <4> QED BY <3>1, <3>2, <4>2
    <3>4. BootTypes' BY <1>1, <3>1, <3>2, <3>3, Zenon DEF Inv, Types, BootTypes, Still, Labels
    <3>5. Control' BY <1>1, <3>1, <3>3, Zenon DEF Inv, Control, Still, Early, Linuxrc, Switching, Switched, Nuking
    <3> QED BY <3>4, <3>5
  <2>4. CASE StoresDevice
    <3>1. UNCHANGED <<ram0, root_dev, devs>> /\ rrd' \in {rrd, root_dev} /\ pc = "rrd" /\ pc' \in {"enter", "caps", "crashed"}
      BY <2>4, Zenon DEF StoresDevice, UnchangedLinuxrc
    <3>2. BootTypes' BY <1>1, <3>1, Zenon DEF Inv, Types, BootTypes, Still, Labels, Final
    <3>3. Control' BY <1>1, <3>1, Zenon DEF Inv, Control, Still, Early, Linuxrc, Switching, Switched, Nuking
    <3> QED BY <3>2, <3>3
  <2> QED BY <2>1, <2>2, <2>3, <2>4
<1> QED BY <1>5, <1>6, <1>7, <1>8, <1>9, <1>10, Zenon DEF Inv, Types

\* A step of main before run_init
LEMMA MainStep ==
    ASSUME Inv, SpaceTypes', BootTypes', Control', Mounts', Spares, dirs' = dirs,
           pc \in Before, pc' \in Before \cup {"exit", "crashed", "commit failed", "bail"}
    PROVE  Inv'
<1>1. pc \notin Nuking /\ pc' \notin Nuking BY Zenon DEF Nuking, Before, Early, Linuxrc
<1>2. Nukes'
  <2>1. dirs' = <<>> BY <1>1, Zenon DEF Inv, Nukes
  <2> QED BY <1>1, <2>1, NukesIdle, Zenon
<1>3. Switch' BY SwitchBefore, Zenon DEF Inv
<1>4. ForeignFilesKept' BY SparesFiles DEF Inv
<1> QED BY <1>2, <1>3, <1>4 DEF Inv, Types

\* The first of several root devices, and the others.
LEMMA HeadAndTail ==
    ASSUME NEW S, NEW s \in Seq(S), s # <<>>
    PROVE  /\ Head(s) \in S /\ Tail(s) \in Seq(S)
           /\ Len(s) > 1 => Tail(s) # <<>>
<1>1. Head(s) \in S /\ Tail(s) \in Seq(S) OBVIOUS
<1>2. Len(s) > 1 => Len(Tail(s)) # 0 OBVIOUS
<1>3. Len(<<>>) = 0 OBVIOUS
<1>4. Len(s) > 1 => Tail(s) # <<>> BY ONLY <1>2, <1>3, Zenon
<1> QED BY <1>1, <1>4

\* Nothing is mounted on /root yet
LEMMA RootFree ==
    ASSUME at["proc"] \in {None, Dir("proc")}, at["sysfs"] \in {None, Dir("sys")},
           Only({"initrd"}), at["initrd"] \in {None, Dir("old")}
    PROVE  Walk(Rootfs, <<"root">>) = Dir("root")
<1>1. \A f \in FileSystems : at[f] \in {None, Dir("proc"), Dir("sys"), Dir("old")}
  BY DEF Only
<1>2. Dir("root") \notin {None, Dir("proc"), Dir("sys"), Dir("old")}
  BY Zenon DEF Dir, None
<1>3. Walk(Rootfs, <<"root">>) = TopIn(at, Dir("root"))
  BY WalkOne, DirsAre, Zenon DEF Walk
<1> QED BY <1>1, <1>2, <1>3, TopIs, Zenon

\* mount_root, when it mounts something
LEMMA MountsRootIs ==
    ASSUME root = Rootfs, NEW d \in Devices, ram0 \in {"empty", "initrd", "floppy"}, MountsRoot(d),
           at["proc"] \in {None, Dir("proc")}, at["sysfs"] \in {None, Dir("sys")},
           Only({"initrd"}), at["initrd"] \in {None, Dir("old")}
    PROVE  /\ FsOn(d) \in Real \cup {"initrd"} /\ at[FsOn(d)] = None
           /\ at' = [at EXCEPT ![FsOn(d)] = Dir("root")] /\ cwd' = <<FsOn(d), <<>> >>
<1>1. FsOn(d) \in FileSystems \ {"rootfs", "proc", "sysfs"}
  BY DEF MountsRoot, FsOn, Devices
<1> QED BY <1>1, RootFree, Zenon DEF MountsRoot, Real

\* mount_roots: the devices are tried in order.
LEMMA MountRootsStep ==
    ASSUME Inv, mount_roots
    PROVE  Inv'
<1> USE DEF Goes, Exits, caps
<1>1. /\ UNCHANGED <<tree, root, prog, arg, mnt, ram0, root_dev, rrd, realroot, init, dirs, what>>
      /\ devs' = Tail(devs) /\ pc = "mount_roots"
      /\ \/ MountsRoot(Head(devs)) /\ pc' = "caps"
         \/ UNCHANGED <<at, cwd>> /\ pc' = IF Len(devs) > 1 THEN "mount_roots" ELSE "caps"
         \/ UNCHANGED <<at, cwd>> /\ pc' = "exit"
  BY Zenon DEF mount_roots, mount_root
<1>2. devs # <<>> /\ devs \in Seq(Devices) /\ ram0 \in {"empty", "initrd", "floppy"}
  BY <1>1, Zenon DEF Inv, Types, BootTypes, Control
<1>3. /\ Head(devs) \in Devices /\ Tail(devs) \in Seq(Devices)
      /\ Len(devs) > 1 => Tail(devs) # <<>>
  BY ONLY <1>2, HeadAndTail
<1>4. prog = "kinit" BY <1>1, Zenon DEF Inv, Types, BootTypes, Control, Switching, Switched, Nuking
<1>5. /\ root = Rootfs /\ Only({}) /\ at["proc"] \in {None, Dir("proc")} /\ at["sysfs"] \in {None, Dir("sys")}
  BY <1>1, <1>4, Zenon DEF Inv, Mounts, Early
<1>6. Only({"initrd"}) /\ at["initrd"] = None BY <1>5, KinitAssumption, Zenon DEF Only
<1>7. at \in [FileSystems -> Node \cup {None}] /\ at["rootfs"] = None BY Zenon DEF Inv, Types, SpaceTypes
<1>8. BootTypes' BY <1>1, <1>2, <1>3, Zenon DEF Inv, Types, BootTypes, Labels, Final
<1>9. Control' BY <1>1, <1>2, <1>3, Zenon DEF Inv, Control, Early, Linuxrc, Switching, Switched, Nuking
<1>10. CASE MountsRoot(Head(devs)) /\ pc' = "caps"
  <2>1. PICK f : f = FsOn(Head(devs)) OBVIOUS
  <2>2. f \in Real \cup {"initrd"} /\ at' = [at EXCEPT ![f] = Dir("root")] /\ cwd' = <<f, <<>> >>
    BY <1>2, <1>3, <1>5, <1>6, <1>10, <2>1, MountsRootIs, Zenon
  <2>3. f \in FileSystems \ {"rootfs", "proc", "sysfs"} BY <2>2, KinitAssumption, Zenon DEF Real
  <2>4. /\ at' \in [FileSystems -> Node \cup {None}] /\ at'[f] = Dir("root")
        /\ \A g \in FileSystems \ {f} : at'[g] = at[g]
    BY <1>7, <2>2, <2>3, DirsAre, Zenon
  <2>5. at'["rootfs"] = None /\ at'["proc"] = at["proc"] /\ at'["sysfs"] = at["sysfs"]
    BY <1>7, <2>3, <2>4, KinitAssumption, Zenon
  <2>6. SpaceTypes'
    <3>1. cwd' \in Node BY <2>2, <2>3, RootIs, Zenon
    <3> QED BY <1>1, <2>4, <2>5, <3>1, Zenon DEF Inv, Types, SpaceTypes
  <2>7. Ready'
    <3>1. CASE f = "initrd"
      <4>1. Only({"initrd"})' BY <1>6, <2>4, <3>1, Zenon DEF Only
      <4>2. at'["initrd"][1] = "rootfs" BY <2>4, <3>1, DirsAre, Zenon
      <4> QED BY <4>1, <4>2, Zenon DEF Ready, NoRoot
    <3>2. CASE f \in Real
      <4>1. at'["initrd"] = None BY <1>6, <2>4, <3>2, KinitAssumption, Zenon DEF Real
      <4>2. OneRoot(f)' BY <1>6, <2>4, Zenon DEF Only, OneRoot
      <4> QED BY <3>2, <4>1, <4>2 DEF Ready
    <3> QED BY <2>2, <3>1, <3>2
  <2>8. Mounts' BY <1>1, <1>5, <1>10, <2>5, <2>7, Zenon DEF Mounts, Early, Mounted
  <2> QED BY <1>1, <1>8, <1>9, <1>10, <2>6, <2>8, MainStep, Zenon DEF Spares, Before, Early
<1>11. CASE UNCHANGED <<at, cwd>>
  <2>1. SpaceTypes' BY <1>1, <1>11, Zenon DEF Inv, Types, SpaceTypes
  <2>2. Mounts'
    <3>1. Still BY <1>1, <1>11, Zenon DEF Still
    <3>2. Ready' BY <1>6, <1>11, Zenon DEF Ready, NoRoot, Only
    <3> QED BY <1>1, <1>5, <1>11, <3>2, Zenon DEF Mounts, Early, Mounted, Only, Switching, Nuking
  <2>3. pc' \in {"caps", "mount_roots", "exit"} BY <1>1, Zenon
  <2> QED BY <1>1, <1>8, <1>9, <2>1, <2>2, <2>3, MainStep, Zenon DEF Spares, Before, Early
<1> QED BY <1>1, <1>10, <1>11

\* What holds of a step of run_linuxrc, besides what it mounts
LEMMA LinuxrcStep ==
    ASSUME Inv, UnchangedLinuxrc, UNCHANGED <<rrd, realroot, init, dirs, what>>,
           pc \in Linuxrc, pc' \in Linuxrc \cup {"caps", "exit"}, pc' # "linuxrc",
           Spares, SpaceTypes', Mounts'
    PROVE  Inv'
<1>1. UNCHANGED <<prog, arg, mnt, ram0, root_dev, devs>> BY Zenon DEF UnchangedLinuxrc
<1>2. BootTypes' BY <1>1, Zenon DEF Inv, Types, BootTypes, Labels, Linuxrc, Final
<1>3. Control' BY <1>1, Zenon DEF Inv, Control, Early, Linuxrc, Switching, Switched, Nuking
<1> QED BY <1>2, <1>3, MainStep, Zenon DEF Before, Linuxrc

\* The old initrd goes from one place to another, and nothing else moves
InitrdAt(n) == at' = [at EXCEPT !["initrd"] = n]

\* The initrd is moved or unmounted, and nothing else is.
LEMMA InitrdMoves ==
    ASSUME SpaceTypes, NEW n \in Node \cup {None}, InitrdAt(n)
    PROVE  /\ at' \in [FileSystems -> Node \cup {None}] /\ at'["initrd"] = n
           /\ \A f \in FileSystems \ {"initrd"} : at'[f] = at[f]
           /\ at'["rootfs"] = None /\ at'["proc"] = at["proc"] /\ at'["sysfs"] = at["sysfs"]
           /\ Only({"initrd"}) => Only({"initrd"})'
           /\ \A d \in Real : OneRoot(d) => OneRoot(d)'
<1>1. at \in [FileSystems -> Node \cup {None}] /\ at["rootfs"] = None BY Zenon DEF SpaceTypes
<1>2. /\ at' \in [FileSystems -> Node \cup {None}] /\ at'["initrd"] = n
      /\ \A f \in FileSystems \ {"initrd"} : at'[f] = at[f]
  BY <1>1, KinitAssumption, Zenon DEF InitrdAt
<1>3. at'["rootfs"] = None /\ at'["proc"] = at["proc"] /\ at'["sysfs"] = at["sysfs"]
  BY <1>1, <1>2, KinitAssumption, Zenon
<1>4. Only({"initrd"}) => Only({"initrd"})' BY <1>2 DEF Only
<1>5. \A d \in Real : OneRoot(d) => OneRoot(d)' BY <1>2 DEF Only, OneRoot, Real
<1> QED BY <1>2, <1>3, <1>4, <1>5, Zenon

\* mount(".", "/", MS_MOVE) and back, chroot and the directories that are entered
LEMMA InitrdSteps ==
    ASSUME Inv, MountsInitrd \/ EntersInitrd \/ LeavesInitrd
    PROVE  Inv'
<1> USE DEF Goes
<1>1. pc \in {"linuxrc", "enter", "leave"} BY Zenon DEF MountsInitrd, EntersInitrd, LeavesInitrd
<1>2. ram0 = "initrd" BY <1>1, Zenon DEF Inv, Control, Linuxrc
<1>3. prog = "kinit" BY <1>1, Zenon DEF Inv, Types, BootTypes, Control, Switching, Switched, Nuking
<1>4. Initrd = OldRoot BY <1>2 DEF Initrd, OldRoot
<1>5. /\ tree' = tree /\ UnchangedLinuxrc /\ UNCHANGED <<rrd, realroot, init, dirs, what>>
      /\ prog' = prog /\ ram0' = ram0
      /\ pc' \in {"rrd", "caps", "child", "realroot"}
  BY Zenon DEF MountsInitrd, EntersInitrd, LeavesInitrd, UnchangedLinuxrc
<1>6. Spares BY <1>5, Zenon DEF Spares
<1>7. /\ at["proc"] \in {None, Dir("proc")} /\ at["sysfs"] \in {None, Dir("sys")}
      /\ Only({"initrd"}) /\ root \in {Rootfs, OldRoot}
      /\ pc \in {"linuxrc", "enter"} => root = Rootfs
      /\ pc = "leave" => root = OldRoot
      /\ at["initrd"] \in {None, Dir("root"), Rootfs}
  BY <1>1, <1>3, KinitAssumption, Zenon DEF Inv, Mounts, Only, Early
<1>8. SpaceTypes BY DEF Inv, Types
<1>9. {Rootfs, OldRoot, Dir("root"), Dir("old")} \subseteq Node /\ Rootfs[1] = "rootfs"
      /\ Dir("root")[1] = "rootfs" /\ Dir("old")[1] = "rootfs"
  BY Places, DirsAre, Zenon
<1>10. cwd' \in {cwd, OldRoot, Dir("old"), Rootfs} /\ root' \in {root, OldRoot, Rootfs}
  BY <1>4, Zenon DEF MountsInitrd, EntersInitrd, LeavesInitrd
<1>11. CASE at' = at
  <2>1. SpaceTypes' BY <1>5, <1>8, <1>9, <1>10, <1>11, Zenon DEF SpaceTypes
  <2>2. root' = root /\ pc' = "caps"
    <3>1. \A n \in {Rootfs, Dir("root"), Dir("old")} : at["initrd"] # n => at' # [at EXCEPT !["initrd"] = n]
      BY <1>8, <1>11, KinitAssumption, Zenon DEF SpaceTypes
    <3>2. Rootfs # Dir("root") /\ Rootfs # Dir("old") /\ Dir("root") # Dir("old") /\ None # Dir("root")
      BY Places, DirsAre, SMTT(60)
    <3>3. /\ pc = "linuxrc" => at["initrd"] # Dir("root")
          /\ pc = "enter" => at["initrd"] # Rootfs
          /\ pc = "leave" => at["initrd"] # Dir("old")
      BY <1>3, <3>2, KinitAssumption, Zenon DEF Inv, Mounts, Only, Early
    <3> QED BY <1>2, <3>1, <3>3, Zenon DEF MountsInitrd, EntersInitrd, LeavesInitrd
  <2>3. root' = OldRoot \/ (root' = Rootfs /\ Ready')
    <3>1. Ready' BY <1>7, <1>9, <1>11, Zenon DEF Ready, NoRoot, Only
    <3> QED BY <1>7, <2>2, <3>1, Zenon
  <2>4. Mounts' BY <1>7, <1>11, <2>2, <2>3, Zenon DEF Mounts, Early, Mounted
  <2> QED BY <1>1, <1>5, <1>6, <2>1, <2>4, LinuxrcStep, Zenon DEF Linuxrc
<1>12. CASE at' # at
  <2>1. PICK n \in {Rootfs, Dir("root"), Dir("old")} :
          /\ InitrdAt(n)
          /\ \/ pc = "linuxrc" /\ n = Dir("root") /\ pc' = "rrd" /\ root' = root
             \/ pc = "enter" /\ n = Rootfs /\ pc' = "child" /\ root' = OldRoot
             \/ pc = "enter" /\ n = Rootfs /\ pc' = "caps" /\ root' = root
             \/ pc = "leave" /\ n = Dir("old") /\ pc' = "realroot" /\ root' = Rootfs
             \/ pc = "leave" /\ n = Dir("old") /\ pc' = "caps" /\ root' = root
    BY <1>2, <1>4, <1>12, Zenon DEF MountsInitrd, EntersInitrd, LeavesInitrd, InitrdAt
  <2>2. /\ at' \in [FileSystems -> Node \cup {None}] /\ at'["initrd"] = n
        /\ at'["rootfs"] = None /\ at'["proc"] = at["proc"] /\ at'["sysfs"] = at["sysfs"]
        /\ Only({"initrd"})'
    BY <1>7, <1>8, <1>9, <2>1, InitrdMoves, Zenon
  <2>3. SpaceTypes' BY <1>5, <1>8, <1>9, <1>10, <2>2, Zenon DEF SpaceTypes
  <2>4. Ready' BY <1>9, <2>2, Zenon DEF Ready, NoRoot
  <2>5. Mounts' BY <1>7, <2>1, <2>2, <2>4, Zenon DEF Mounts, Early, Mounted, Switching, Nuking
  <2> QED BY <1>1, <1>5, <1>6, <2>3, <2>5, LinuxrcStep, Zenon DEF Linuxrc
<1> QED BY <1>11, <1>12

\* Sequences of one name, and of one name more
LEMMA Lengths ==
    ASSUME NEW S, NEW s \in Seq(S), NEW x \in S
    PROVE  Len(<<x>>) = 1 /\ Len(Append(s, x)) = Len(s) + 1
  OBVIOUS

\* /root/initrd, before and after a real root is mounted on /root
LEMMA InitrdPlace ==
    ASSUME SpaceTypes, at["proc"] \in {None, Dir("proc")}, at["sysfs"] \in {None, Dir("sys")},
           at["initrd"] = Dir("old"), NEW n, n = Walk(Rootfs, <<"root", "initrd">>)
    PROVE  /\ n \in Node
           /\ Only({"initrd"}) => n[1] = "rootfs"
           /\ \A d \in Real : OneRoot(d) => n = Child(<<d, <<>> >>, "initrd")
<1>1. n = TopIn(at, Child(TopIn(at, Dir("root")), "initrd")) BY WalkTwo, DirsAre, SMTT(60) DEF Walk
<1>2. n \in Node
  <2>1. <<"root", "initrd">> \in Seq(Filenames) BY DirsAre, SMTT(60)
  <2> QED BY <2>1, WalkPlace, Places, Zenon DEF Walk
<1>3. Dir("root") \notin {None, Dir("proc"), Dir("sys"), Dir("old")} BY Zenon DEF Dir, None
<1>4. /\ Dir("root") \in Node /\ Dir("root")[1] = "rootfs" /\ "initrd" \in Filenames
      /\ {Dir("proc"), Dir("sys"), Dir("old")} \subseteq Node
      /\ \A x \in {Dir("proc"), Dir("sys"), Dir("old")} : x[1] = "rootfs" /\ Len(x[2]) = 1
      /\ None[1] = "none" /\ Dir("root")[2] = <<"root">> /\ Len(<<"root">>) = 1
  <2>1. \A x \in {"proc", "sys", "old", "root"} :
          /\ x \in Filenames /\ Dir(x) \in Node /\ Dir(x)[1] = "rootfs" /\ Dir(x)[2] = <<x>>
    BY ONLY DirsAre, Zenon
  <2>2. \A x \in Filenames : Len(<<x>>) = 1 BY ONLY Lengths, NoNames
  <2>3. "initrd" \in Filenames /\ None[1] = "none" BY ONLY DirsAre, Places, Zenon
  <2> QED BY ONLY <2>1, <2>2, <2>3, Zenon
<1>5. ASSUME Only({"initrd"}) PROVE n[1] = "rootfs"
  <2>1. \A f \in FileSystems : at[f] \in {None, Dir("proc"), Dir("sys"), Dir("old")}
    BY <1>5, Zenon DEF Only
  <2>2. TopIn(at, Dir("root")) = Dir("root") BY <1>3, <2>1, TopIs, Zenon
  <2>3. PICK k : k = Child(Dir("root"), "initrd") BY Zenon
  <2>4. k \in Node /\ k[1] = "rootfs" /\ k[2] = Append(<<"root">>, "initrd") /\ k # None
    BY <1>4, <2>3, ChildIs, ZenonT(60)
  <2>5. \A f \in FileSystems : at[f] # k
    <3>1. <<"root">> \in Seq(Filenames) BY <1>4, PartsOf, Zenon
    <3>2. Len(k[2]) = 2 BY ONLY <1>4, <2>4, <3>1, Lengths, SMTT(60)
    <3>3. 1 # 2 OBVIOUS
    <3>4. \A x \in {Dir("proc"), Dir("sys"), Dir("old")} : Len(x[2]) = 1 BY ONLY <1>4, Zenon
    <3>5. k \notin {None, Dir("proc"), Dir("sys"), Dir("old")}
      BY ONLY <2>4, <3>2, <3>3, <3>4, Zenon
    <3> QED BY ONLY <2>1, <3>5, Zenon
  <2>6. TopIn(at, k) = k BY ONLY <2>5, TopIs, Zenon
  <2> QED BY ONLY <1>1, <2>2, <2>3, <2>4, <2>6, Zenon
<1>6. ASSUME NEW d \in Real, OneRoot(d) PROVE n = Child(<<d, <<>> >>, "initrd")
  <2>1. /\ \A f \in FileSystems \ {d} : at[f] \in {None, Dir("proc"), Dir("sys"), Dir("old")}
        /\ at[d] = Dir("root") /\ d \in FileSystems /\ d # "rootfs"
    BY <1>6, Zenon DEF OneRoot, Only, Real
  <2>2. TopIn(at, Dir("root")) = <<d, <<>> >>
    <3>1. \A f \in FileSystems : at[f] = Dir("root") => f = d BY ONLY <1>3, <2>1, Zenon
    <3>2. PICK f \in FileSystems : at[f] = Dir("root") /\ TopIn(at, Dir("root")) = <<f, <<>> >>
      BY ONLY <2>1, TopIs, Zenon
    <3> QED BY ONLY <3>1, <3>2, Zenon
  <2>3. PICK k : k = Child(<<d, <<>> >>, "initrd") BY Zenon
  <2>4. k \in Node /\ k[1] = d
    BY <1>4, <2>1, <2>3, ChildIs, RootIs, Zenon
  <2>5. d # "none" BY <2>1, KinitAssumption, Zenon
  <2>6. \A f \in FileSystems : at[f][1] \in {"rootfs", "none"} BY <1>4, <2>1, Zenon
  <2>7. \A f \in FileSystems : at[f] # k BY <2>1, <2>4, <2>5, <2>6, Zenon
  <2>8. TopIn(at, k) = k BY ONLY <2>7, TopIs, Zenon
  <2> QED BY ONLY <1>1, <2>2, <2>3, <2>8, Zenon
<1> QED BY <1>2, <1>5, <1>6, Zenon

\* The real root is mounted, and the old initrd gets out of the way
LEMMA RealRootSteps ==
    ASSUME Inv, MountsRealRoot \/ MovesInitrd
    PROVE  Inv'
<1> USE DEF Goes, Exits
<1>1. pc \in {"realroot", "old"} BY Zenon DEF MountsRealRoot, MovesInitrd
<1>2. ram0 = "initrd" /\ rrd \in Devices BY <1>1, Zenon DEF Inv, Types, BootTypes, Control, Linuxrc
<1>3. prog = "kinit" BY <1>1, Zenon DEF Inv, Types, BootTypes, Control, Switching, Switched, Nuking
<1>4. /\ UnchangedLinuxrc /\ UNCHANGED <<rrd, realroot, init, dirs, what>>
      /\ prog' = prog /\ root' = root /\ tree' \in {tree, tree \ {Dir("old")}}
      /\ pc' \in {"old", "caps", "exit"}
  BY Zenon DEF MountsRealRoot, MovesInitrd, UnchangedLinuxrc, mount_root
<1>5. Spares BY <1>4, Zenon DEF Spares
<1>6. /\ at["proc"] \in {None, Dir("proc")} /\ at["sysfs"] \in {None, Dir("sys")}
      /\ at["initrd"] = Dir("old") /\ root = Rootfs
      /\ pc = "realroot" => Only({"initrd"})
      /\ pc = "old" => Only({"initrd"}) \/ \E d \in Real : OneRoot(d)
  BY <1>1, <1>3, Zenon DEF Inv, Mounts
<1>7. SpaceTypes BY DEF Inv, Types
<1>8. {Dir("root"), Dir("old")} \subseteq Node /\ Dir("root")[1] = "rootfs" /\ Dir("old")[1] = "rootfs"
  BY DirsAre, Zenon
<1>9. ASSUME SpaceTypes', Mounts' PROVE Inv'
  BY <1>1, <1>4, <1>5, <1>9, LinuxrcStep, Zenon DEF Linuxrc
<1>10. CASE pc = "realroot" /\ at' = at /\ cwd' = cwd
  <2>1. SpaceTypes' BY <1>4, <1>7, <1>10, Zenon DEF SpaceTypes
  <2>2. Only({"initrd"})' /\ Ready' BY <1>6, <1>8, <1>10, Zenon DEF Only, Ready, NoRoot
  <2>3. Mounts' BY <1>4, <1>6, <1>10, <2>2, Zenon DEF Mounts, Early, Mounted
  <2> QED BY <1>9, <2>1, <2>3, Zenon
<1>11. CASE pc = "realroot" /\ InitrdAt(Dir("root")) /\ cwd' = cwd /\ pc' = "caps"
  <2>1. /\ at' \in [FileSystems -> Node \cup {None}] /\ at'["initrd"] = Dir("root")
        /\ at'["rootfs"] = None /\ at'["proc"] = at["proc"] /\ at'["sysfs"] = at["sysfs"]
        /\ Only({"initrd"})'
    BY <1>6, <1>7, <1>8, <1>11, InitrdMoves, Zenon
  <2>2. SpaceTypes' BY <1>4, <1>7, <1>11, <2>1, Zenon DEF SpaceTypes
  <2>3. Ready' BY <1>8, <2>1, Zenon DEF Ready, NoRoot
  <2>4. Mounts' BY <1>4, <1>6, <1>11, <2>1, <2>3, Zenon DEF Mounts, Early, Mounted, Switching, Nuking
  <2> QED BY <1>9, <2>2, <2>4
<1>12. CASE pc = "realroot" /\ rrd # "ram0" /\ MountsRoot(rrd) /\ pc' = "old"
  <2>1. /\ FsOn(rrd) \in Real \cup {"initrd"} /\ FsOn(rrd) = rrd
        /\ at' = [at EXCEPT ![FsOn(rrd)] = Dir("root")] /\ cwd' = <<FsOn(rrd), <<>> >>
    BY <1>2, <1>6, <1>12, MountsRootIs, Zenon DEF FsOn
  <2>2. PICK d : d = rrd OBVIOUS
  <2>3. d \in Real /\ d \in FileSystems \ {"rootfs", "proc", "sysfs", "initrd"}
        /\ at' = [at EXCEPT ![d] = Dir("root")] /\ cwd' = <<d, <<>> >>
    BY <1>2, <2>1, <2>2, Zenon DEF Devices, Real
  <2>4. /\ at' \in [FileSystems -> Node \cup {None}] /\ at'[d] = Dir("root")
        /\ \A f \in FileSystems \ {d} : at'[f] = at[f]
    BY <1>7, <1>8, <2>3, Zenon DEF SpaceTypes
  <2>5. /\ at'["rootfs"] = None /\ at'["proc"] = at["proc"] /\ at'["sysfs"] = at["sysfs"]
        /\ at'["initrd"] = at["initrd"]
    BY <1>7, <2>3, <2>4, KinitAssumption, Zenon DEF SpaceTypes
  <2>6. SpaceTypes'
    <3>1. cwd' \in Node BY <2>3, RootIs, Zenon
    <3> QED BY <1>4, <1>7, <2>4, <2>5, <3>1, Zenon DEF SpaceTypes
  <2>7. OneRoot(d)' BY <1>6, <1>12, <2>4, Zenon DEF OneRoot, Only
  <2>8. Mounts' BY <1>4, <1>6, <1>12, <2>3, <2>5, <2>7, Zenon DEF Mounts, Early, Mounted, Switching, Nuking
  <2> QED BY <1>9, <2>6, <2>8
<1>13. CASE MovesInitrd
  <2>1. PICK n : n = Walk(Rootfs, <<"root", "initrd">>) OBVIOUS
  <2>2. PICK m \in {n, None} : InitrdAt(m) /\ pc = "old" /\ pc' = "caps" /\ cwd' = cwd
    BY <1>2, <1>6, <1>13, <2>1, Zenon DEF MovesInitrd, InitrdAt
  <2>3. /\ n \in Node
        /\ Only({"initrd"}) => n[1] = "rootfs"
        /\ \A d \in Real : OneRoot(d) => n = Child(<<d, <<>> >>, "initrd")
    BY <1>6, <1>7, <2>1, InitrdPlace, Zenon
  <2>4. /\ at' \in [FileSystems -> Node \cup {None}] /\ at'["initrd"] = m
        /\ at'["rootfs"] = None /\ at'["proc"] = at["proc"] /\ at'["sysfs"] = at["sysfs"]
        /\ Only({"initrd"}) => Only({"initrd"})'
        /\ \A d \in Real : OneRoot(d) => OneRoot(d)'
    <3>1. m \in Node \cup {None} /\ InitrdAt(m) BY <2>2, <2>3, Zenon
    <3> QED BY ONLY <1>7, <3>1, InitrdMoves, Zenon
  <2>5. SpaceTypes' BY <1>4, <1>7, <2>2, <2>4, Zenon DEF SpaceTypes
  <2>6. Ready'
    <3>1. CASE Only({"initrd"})
      <4>1. m = None \/ m[1] = "rootfs" BY <2>2, <2>3, <3>1, Zenon
      <4> QED BY <2>4, <3>1, <4>1, Zenon DEF Ready, NoRoot
    <3>2. ASSUME NEW d \in Real, OneRoot(d) PROVE Ready'
      <4>1. m \in {None, Child(<<d, <<>> >>, "initrd")} BY <2>2, <2>3, <3>2, Zenon
      <4>2. OneRoot(d)' /\ at'["initrd"] \in {None, Child(<<d, <<>> >>, "initrd")} BY <2>4, <3>2, <4>1, Zenon
      <4> QED BY <4>2, Zenon DEF Ready
    <3> QED BY <1>6, <2>2, <3>1, <3>2, Zenon
  <2>7. Mounts' BY <1>4, <1>6, <2>2, <2>4, <2>6, Zenon DEF Mounts, Early, Mounted, Switching, Nuking
  <2> QED BY <1>9, <2>5, <2>7, Zenon
<1>14. CASE MountsRealRoot
  BY <1>2, <1>10, <1>11, <1>12, <1>14, Zenon DEF MountsRealRoot, mount_root, InitrdAt
<1> QED BY <1>13, <1>14, Zenon

\* umount2 unmounts nothing but /proc and /sys
LEMMA UmountIs ==
    ASSUME SpaceTypes, mnt \subseteq {"proc", "sysfs"}, umount2(mnt)
    PROVE  /\ at' \in [FileSystems -> Node \cup {None}]
           /\ \A f \in FileSystems : at'[f] = at[f] \/ (f \in mnt /\ at'[f] = None)
           /\ \A f \in FileSystems \ {"proc", "sysfs"} : at'[f] = at[f]
           /\ at'["rootfs"] = None
           /\ mnt = {} => at' = at
<1>1. PICK s \in SUBSET mnt : at' = [f \in FileSystems |-> IF f \in s THEN None ELSE at[f]]
  BY Zenon DEF umount2
<1>2. at \in [FileSystems -> Node \cup {None}] /\ at["rootfs"] = None BY Zenon DEF SpaceTypes
<1>3. /\ at' \in [FileSystems -> Node \cup {None}]
      /\ \A f \in FileSystems : at'[f] = at[f] \/ (f \in mnt /\ at'[f] = None)
  BY <1>1, <1>2, Zenon
<1>4. \A f \in FileSystems \ {"proc", "sysfs"} : at'[f] = at[f] BY <1>3, Zenon
<1>5. ASSUME mnt = {} PROVE at' = at
  <2>1. s = {} BY <1>1, <1>5, Zenon
  <2> QED BY <1>1, <1>2, <2>1, Zenon
<1> QED BY <1>2, <1>3, <1>4, <1>5, KinitAssumption, Zenon

\* umount2 leaves every root file system where it is
LEMMA UmountKeeps ==
    ASSUME \A f \in FileSystems \ {"proc", "sysfs"} : at'[f] = at[f], Ready
    PROVE  Ready'
<1>1. at'["initrd"] = at["initrd"] BY KinitAssumption, Zenon
<1>2. ASSUME NEW S, Only(S) PROVE Only(S)' BY <1>2, Zenon DEF Only
<1>3. CASE NoRoot BY <1>1, <1>2, <1>3, Zenon DEF Ready, NoRoot
<1>4. ASSUME NEW d \in Real, OneRoot(d), at["initrd"] \in {None, Child(<<d, <<>> >>, "initrd")}
      PROVE  Ready'
  <2>1. at'[d] = at[d] BY Zenon DEF Real
  <2>2. OneRoot(d)' BY <1>2, <1>4, <2>1, Zenon DEF OneRoot
  <2> QED BY <1>1, <1>4, <2>2, Zenon DEF Ready
<1> QED BY <1>3, <1>4, Zenon DEF Ready

\* main unmounts /proc and /sys.
LEMMA UnmountStep ==
    ASSUME Inv, Unmounts
    PROVE  Inv'
<1>1. /\ pc = "umount" /\ umount2(mnt) /\ mnt' = {} /\ pc' = "find_init"
      /\ UNCHANGED <<tree, root, cwd, prog, arg, realroot, init, dirs, what, ram0, root_dev, devs, rrd>>
  BY Zenon DEF Unmounts, Goes, disk
<1>2. SpaceTypes /\ mnt \subseteq {"proc", "sysfs"} BY Zenon DEF Inv, Types, BootTypes
<1>3. /\ at' \in [FileSystems -> Node \cup {None}] /\ at'["rootfs"] = None
      /\ \A f \in FileSystems \ {"proc", "sysfs"} : at'[f] = at[f]
      /\ at'["proc"] \in {None, at["proc"]} /\ at'["sysfs"] \in {None, at["sysfs"]}
  BY <1>1, <1>2, UmountIs, KinitAssumption, Zenon
<1>4. SpaceTypes' BY <1>1, <1>2, <1>3, Zenon DEF SpaceTypes
<1>5. BootTypes' BY <1>1, Zenon DEF Inv, Types, BootTypes, Labels
<1>6. Control' BY <1>1, Zenon DEF Inv, Control, Early, Linuxrc, Switching, Switched, Nuking
<1>7. prog = "kinit" BY <1>1, Zenon DEF Inv, Types, BootTypes, Control, Switching, Switched, Nuking
<1>8. Mounts'
  <2>1. /\ at["proc"] \in {None, Dir("proc")} /\ at["sysfs"] \in {None, Dir("sys")}
        /\ root = OldRoot \/ (root = Rootfs /\ Ready)
    BY <1>1, <1>7, Zenon DEF Inv, Mounts, Mounted
  <2>2. Ready => Ready' BY <1>3, UmountKeeps, Zenon
  <2> QED BY <1>1, <1>3, <2>1, <2>2, Zenon DEF Mounts, Early, Mounted, Switching, Nuking
<1> QED BY <1>1, <1>4, <1>5, <1>6, <1>8, MainStep, Zenon DEF Spares, Before

\* find_init looks for init in the new root.
LEMMA FindInitStep ==
    ASSUME Inv, find_init
    PROVE  Inv'
<1> DEFINE d     == Walk(root, realroot)
           paths == <<arg.init>> \o DefaultInits
<1>1. /\ pc = "find_init" /\ cwd' \in {cwd, root}
      /\ UNCHANGED <<at, tree, root, prog, arg, mnt, realroot, dirs, what, ram0, root_dev, devs, rrd>>
      /\ \/ pc' \in {"exit", "bail"} /\ init' = init
         \/ pc' = "chdir" /\ \E i \in DOMAIN paths : Exists(Walk(d, paths[i])) /\ init' = paths[i]
  BY Zenon DEF find_init, Goes, Exits, disk
<1>2. init' \in Seq(Filenames)
  <2>1. arg.init \in Seq(Filenames) /\ DefaultInits \in Seq(Seq(Filenames))
    BY KinitAssumption, Zenon DEF Inv, Types, BootTypes, Arg
  <2>2. \A S : \A x \in S : \A q \in Seq(S) : \A i \in DOMAIN (<<x>> \o q) : (<<x>> \o q)[i] \in S
    BY SMTT(60)
  <2>3. \A i \in DOMAIN paths : paths[i] \in Seq(Filenames) BY <2>1, <2>2, Zenon
  <2> HIDE DEF paths, d
  <2> QED BY <1>1, <2>3, Zenon DEF Inv, Types, BootTypes
<1>3. SpaceTypes' BY <1>1, Zenon DEF Inv, Types, SpaceTypes
<1>4. BootTypes' BY <1>1, <1>2, Zenon DEF Inv, Types, BootTypes, Labels, Final
<1>5. prog = "kinit" BY <1>1, Zenon DEF Inv, Types, BootTypes, Control, Switching, Switched, Nuking
<1>6. Control' BY <1>1, <1>5, Zenon DEF Inv, Control, Early, Linuxrc, Switching, Switched, Nuking
<1>7. Mounts'
  <2>1. /\ at["proc"] \in {None, Dir("proc")} /\ at["sysfs"] \in {None, Dir("sys")}
        /\ root = OldRoot \/ (root = Rootfs /\ Ready)
    BY <1>1, <1>5, Zenon DEF Inv, Mounts, Mounted
  <2>2. Ready => Ready' BY <1>1, Zenon DEF Ready, NoRoot, OneRoot, Only
  <2> QED BY <1>1, <2>1, <2>2, Zenon DEF Mounts, Early, Mounted, Switching, Nuking
<1>8. CASE pc' \in {"exit", "bail"}
  BY <1>1, <1>3, <1>4, <1>6, <1>7, <1>8, MainStep, Zenon DEF Spares, Before
<1>9. CASE pc' = "chdir" /\ \E i \in DOMAIN paths : Exists(Walk(d, paths[i])) /\ init' = paths[i]
  <2>1. Exists(Walk(d, init')) BY <1>9, Zenon
  <2>2. pc \notin Nuking /\ pc' \notin Nuking BY <1>1, <1>9, Zenon DEF Nuking
  <2>3. Nukes'
    <3>1. dirs' = <<>> BY <1>1, <2>2, Zenon DEF Inv, Nukes
    <3> QED BY <2>2, <3>1, NukesIdle, Zenon
  <2>4. ~Wiped /\ tree' = tree BY <1>1, Zenon DEF Inv, Switch, Switching, Switched, Nuking
  <2>5. ~Wiped' BY <2>4, Zenon DEF Wiped
  <2>6. SeenIn(Walk(root, realroot))'
    <3>1. d' = d BY <1>1, Zenon DEF Walk
    <3> HIDE DEF d
    <3>2. Exists(Walk(d, init))' BY <1>1, <2>1, <2>4, <3>1, Zenon DEF Exists, Walk
    <3> QED BY <3>1, <3>2, Zenon DEF SeenIn, d
  <2>7. Switch' BY <1>9, <2>5, <2>6, Zenon DEF Switch, Switching, Switched, Nuking
  <2>8. ForeignFilesKept' BY <1>1, Zenon DEF Inv, ForeignFilesKept
  <2> QED BY <1>3, <1>4, <1>6, <1>7, <2>3, <2>7, <2>8, Zenon DEF Inv, Types
<1> QED BY <1>1, <1>8, <1>9, Zenon

\* run_init returned, and the end of kinit
LEMMA EndSteps ==
    ASSUME Inv, Returned \/ Bails
    PROVE  Inv'
<1>1. /\ pc \in {"returned", "bail"} /\ pc' \in {"bail", "exit"}
      /\ UNCHANGED <<tree, root, cwd, prog, arg, mnt, realroot, init, dirs, what, ram0, root_dev, devs, rrd>>
      /\ prog = "run-init" => pc' = "exit"
      /\ at' = at \/ umount2(mnt)
  BY Zenon DEF Returned, Bails, Goes, Exits, disk, boot, space, Inv, Types, BootTypes, Control, Switching, Switched, Nuking
<1>2. SpaceTypes /\ mnt \subseteq {"proc", "sysfs"} BY Zenon DEF Inv, Types, BootTypes
<1>3. /\ at' \in [FileSystems -> Node \cup {None}] /\ at'["rootfs"] = None
      /\ at'["proc"] \in {None, at["proc"]} /\ at'["sysfs"] \in {None, at["sysfs"]}
      /\ mnt = {} => at' = at
  <2>1. CASE at' = at BY <1>2, <2>1, Zenon DEF SpaceTypes
  <2>2. CASE umount2(mnt) BY <1>2, <2>2, UmountIs, KinitAssumption, Zenon
  <2> QED BY <1>1, <2>1, <2>2, Zenon
<1>4. SpaceTypes' BY <1>1, <1>2, <1>3, Zenon DEF SpaceTypes
<1>5. BootTypes' BY <1>1, Zenon DEF Inv, Types, BootTypes, Labels, Final
<1>6. Control' BY <1>1, Zenon DEF Inv, Control, Early, Linuxrc, Switching, Switched, Nuking
<1>7. Mounts' BY <1>1, <1>3, Zenon DEF Inv, Mounts, Early, Mounted, Switching, Nuking
<1>8. Nukes'
  <2>1. pc \notin Nuking /\ pc' \notin Nuking BY <1>1, Zenon DEF Nuking
  <2>2. dirs' = <<>> BY <1>1, <2>1, Zenon DEF Inv, Nukes
  <2> QED BY <2>1, <2>2, NukesIdle
<1>9. Switch'
  <2>1. ASSUME Wiped' PROVE mnt' = {} /\ Target'
    <3>1. Wiped BY <1>1, <2>1, Zenon DEF Wiped
    <3>2. mnt = {} /\ Target BY <3>1, Zenon DEF Inv, Switch
    <3>3. at' = at BY <1>3, <3>2, Zenon
    <3> QED BY <1>1, <3>2, <3>3, Zenon DEF Target, SeenIn, Exists, Walk
  <2> QED BY <1>1, <2>1, Zenon DEF Switch, Switching, Switched, Nuking
<1>10. ForeignFilesKept' BY <1>1, Zenon DEF Inv, ForeignFilesKept
<1> QED BY <1>4, <1>5, <1>6, <1>7, <1>8, <1>9, <1>10, Zenon DEF Inv, Types

-----------------------------------------------------------------------------
(* run_init *)

\* The labels of run_init, and what its steps leave alone
Running == {"chdir", "check", "chroot"} \cup Switching \cup Switched
Rest    == UNCHANGED <<prog, arg, mnt, ram0, root_dev, devs, rrd, realroot, init>>

\* What the steps of run_init have in common
LEMMA RunStep ==
    ASSUME Inv, Rest, pc \in Running, pc' \in Running \cup {"returned"}, pc' # "chdir",
           what' \in Seq(Filenames), dirs' \in Seq(Call)
    PROVE  /\ BootTypes' /\ mnt = {}
           /\ pc' \in {"check"} \cup Switching =>
                (pc \in {"chdir", "check"} \cup Switching /\ UNCHANGED <<at, root>> => Control')
           /\ pc' \notin {"check"} \cup Switching => Control'
           /\ UNCHANGED <<at, root>> /\ (pc' \in Mounted => pc \in Mounted) => Mounts'
<1> USE DEF Running, Rest
<1>1. BootTypes' BY ZenonT(60) DEF Inv, Types, BootTypes, Labels, Final, Switching, Switched
<1>2. mnt = {} BY Zenon DEF Inv, Control
<1>3. ASSUME pc' \in {"check"} \cup Switching, pc \in {"chdir", "check"} \cup Switching, UNCHANGED <<at, root>>
      PROVE  Control'
  BY <1>2, <1>3, Zenon DEF Inv, Control, Early, Linuxrc, Switching, Switched, Nuking
<1>4. ASSUME pc' \notin {"check"} \cup Switching PROVE Control'
  BY <1>2, <1>4, Zenon DEF Inv, Control, Early, Linuxrc, Switching, Switched, Nuking
<1>5. ASSUME UNCHANGED <<at, root>>, pc' \in Mounted => pc \in Mounted PROVE Mounts'
  <2>1. Ready => Ready' BY <1>5, Zenon DEF Ready, NoRoot, OneRoot, Only
  <2> QED BY <1>5, <2>1, Zenon DEF Inv, Mounts, Early, Mounted, Switching, Switched, Nuking
<1> QED BY <1>1, <1>2, <1>3, <1>4, <1>5, Zenon

\* run_init returns, and nothing has changed
LEMMA GivesUp ==
    ASSUME Inv, Rest, pc \in Running, Returns, UNCHANGED <<at, tree, root, cwd, what>>
    PROVE  Inv'
<1>1. pc' = "returned" /\ dirs' = <<>> BY Zenon DEF Returns
<1>2. dirs' \in Seq(Call) /\ what' \in Seq(Filenames) BY <1>1, NoNames, Zenon DEF Inv, Types, BootTypes
<1>3. BootTypes' /\ mnt = {} /\ Control' /\ Mounts'
  BY <1>1, <1>2, RunStep, Zenon DEF Switching, Nuking, Mounted
<1>4. SpaceTypes' BY Zenon DEF Inv, Types, SpaceTypes
<1>5. Nukes' BY <1>1, NukesIdle, Zenon DEF Nuking
<1>6. Switch'
  <2>1. Wiped' => Wiped BY Zenon DEF Wiped
  <2>2. Wiped => Target BY Zenon DEF Inv, Switch
  <2>3. Target => Target' BY Zenon DEF Target, SeenIn, Exists, Walk, Rest
  <2> QED BY <1>1, <1>3, <2>1, <2>2, <2>3, Zenon DEF Switch, Switching, Switched, Nuking, Rest
<1>7. ForeignFilesKept' BY Zenon DEF Inv, ForeignFilesKept
<1> QED BY <1>3, <1>4, <1>5, <1>6, <1>7, Zenon DEF Inv, Types

\* Where the process is while the initramfs is deleted
LEMMA TargetIs ==
    ASSUME Inv, pc \in Switching
    PROVE  /\ root = Rootfs /\ cwd \in Node /\ cwd[1] # "rootfs" /\ SeenIn(cwd) /\ cwd = Walk(Rootfs, realroot)
           /\ at[cwd[1]] # None /\ cwd[1] \in FileSystems \ {"rootfs"}
           /\ prog = "kinit" => cwd = <<cwd[1], <<>> >> /\ at[cwd[1]] = Dir("root")
           /\ cwd[1] \notin {"proc", "sysfs"}
<1>1. root = Rootfs /\ cwd[1] # "rootfs" /\ SeenIn(cwd) /\ cwd = Walk(Rootfs, realroot)
  BY Zenon DEF Inv, Switch
<1>2. cwd \in Node /\ realroot \in Seq(Filenames) BY Zenon DEF Inv, Types, SpaceTypes, BootTypes
<1>3. at[cwd[1]] # None BY <1>1, <1>2, WalkPlace, Places, Zenon DEF Walk
<1>4. cwd[1] \in FileSystems \ {"rootfs"} BY <1>1, <1>2, PartsOf, Zenon
<1>5. ASSUME prog = "kinit" PROVE cwd = <<cwd[1], <<>> >> /\ at[cwd[1]] = Dir("root")
  <2>1. realroot = <<"root">> BY <1>5, Zenon DEF Inv, Control
  <2>2. cwd = TopIn(at, Dir("root")) BY <1>1, <2>1, WalkOne, DirsAre, Zenon DEF Walk
  <2>3. cwd # Dir("root") BY <1>1, DirsAre, Zenon
  <2>4. PICK f \in FileSystems : at[f] = Dir("root") /\ cwd = <<f, <<>> >>
    BY <2>2, <2>3, TopIs, Zenon
  <2>5. cwd[1] = f BY <2>4, RootIs, Zenon
  <2> QED BY <2>4, <2>5, Zenon
<1>6. cwd[1] \notin {"proc", "sysfs"}
  <2>1. CASE prog = "kinit"
    <3>1. at["proc"] \in {None, Dir("proc")} /\ at["sysfs"] \in {None, Dir("sys")}
      BY <2>1, Zenon DEF Inv, Mounts
    <3>2. Dir("root") \notin {None, Dir("proc"), Dir("sys")} BY DEF Dir, None
    <3> QED BY <1>5, <2>1, <3>1, <3>2, Zenon
  <2>2. CASE prog = "run-init"
    <3>1. PICK l \in Layouts : realroot = l.realroot /\ at = l.at BY <2>2, Zenon DEF Inv, Control
    <3> QED BY <1>1, <3>1, LayoutAssumption, Zenon DEF Walk
  <2> QED BY <2>1, <2>2, Zenon DEF Inv, Types, BootTypes
<1> QED BY <1>1, <1>2, <1>3, <1>4, <1>5, <1>6, Zenon

\* A step in which nothing but the files of the initramfs changes
InitramfsOnly == \A n : n[1] # "rootfs" => (n \in tree <=> n \in tree')

\* A step of nuke_dir or nuke_dirent, which may delete a file of the
\* initramfs.
LEMMA DeletesStep ==
    ASSUME Inv, Rest, InitramfsOnly, UNCHANGED <<at, root, cwd>>, pc \in Switching, pc' \in Switching,
           tree' \subseteq tree \cup DaemonFiles,
           what' \in Seq(Filenames), dirs' \in Seq(Call), Nukes'
    PROVE  Inv'
<1>1. BootTypes' /\ mnt = {} /\ Control' /\ Mounts'
  <2>1. pc \in Running /\ pc' \in Running /\ pc' # "chdir" /\ pc \in Mounted
    BY Zenon DEF Running, Switching, Nuking, Mounted
  <2>2. BootTypes' /\ mnt = {} /\ Control' BY <2>1, RunStep, Zenon
  <2>3. Mounts' BY <2>1, RunStep, Zenon
  <2> QED BY <2>2, <2>3, Zenon
<1>2. SpaceTypes' BY ContentsAre, Zenon DEF Inv, Types, SpaceTypes
<1>3. /\ root = Rootfs /\ cwd \in Node /\ cwd[1] # "rootfs" /\ SeenIn(cwd) /\ cwd = Walk(Rootfs, realroot)
      /\ at[cwd[1]] # None /\ cwd[1] \in FileSystems \ {"rootfs"}
      /\ prog = "kinit" => cwd = <<cwd[1], <<>> >>
  BY TargetIs, Zenon
<1>4. init \in Seq(Filenames) /\ at["rootfs"] = None BY Zenon DEF Inv, Types, SpaceTypes, BootTypes
<1>5. SeenIn(cwd)'
  <2>1. Walk(cwd, init)[1] # "rootfs" BY <1>3, <1>4, WalkElsewhere, Zenon DEF Walk
  <2> QED BY <1>3, <2>1, Zenon DEF SeenIn, Exists, Walk, Rest, InitramfsOnly
<1>6. Target'
  <2>1. SeenIn(<<cwd[1], <<>> >>)' BY <1>3, <1>5, Zenon DEF SeenIn, Rest
  <2>2. (at[cwd[1]] # None)' /\ cwd'[1] \in FileSystems \ {"rootfs"} BY <1>3, Zenon
  <2> QED BY <2>1, <2>2, Zenon DEF Target
<1>7. Switch'
  <2>1. cwd' = Walk(root, realroot)' BY <1>3, Zenon DEF Walk, Rest
  <2> QED BY <1>1, <1>3, <1>5, <1>6, <2>1, Zenon DEF Switch, Switching, Switched, Nuking, Rest
<1>8. ForeignFilesKept' BY Zenon DEF Inv, ForeignFilesKept, InitramfsOnly
<1> QED BY <1>1, <1>2, <1>7, <1>8, Zenon DEF Inv, Types

\* chdir(realroot), and the precautions
LEMMA CheckSteps ==
    ASSUME Inv, Rest, ChangesDir \/ Checks
    PROVE  Inv'
<1>1. pc \in {"chdir", "check"} /\ UNCHANGED <<at, tree, root, realroot, init>> BY Zenon DEF ChangesDir, Checks
<1>2. pc \in Running /\ pc \in Mounted /\ pc \notin Nuking BY <1>1, Zenon DEF Running, Nuking, Mounted
<1>3. /\ realroot \in Seq(Filenames) /\ root \in Node /\ what \in Seq(Filenames)
      /\ dirs = <<>> /\ dirs \in Seq(Call)
  BY <1>2, Zenon DEF Inv, Types, SpaceTypes, BootTypes, Nukes
<1>4. ~Wiped /\ SeenIn(Walk(root, realroot)) BY <1>1, Zenon DEF Inv, Switch, Switching, Switched, Nuking
<1>5. ~Wiped' /\ (SeenIn(Walk(root, realroot)))'
  BY <1>1, <1>4, Zenon DEF Wiped, SeenIn, Exists, Walk, Rest
<1>6. ForeignFilesKept' BY <1>1, Zenon DEF Inv, ForeignFilesKept
<1>7. CASE Returns /\ UNCHANGED <<cwd, what>> BY <1>1, <1>2, <1>7, GivesUp, Zenon
<1>8. CASE cwd' = Walk(root, realroot) /\ pc' = "check" /\ UNCHANGED <<dirs, what>>
  <2>1. BootTypes' /\ Control' /\ Mounts'
    <3>1. pc' \in Running /\ pc' # "chdir" BY <1>8, Zenon DEF Running
    <3>2. BootTypes' /\ Control' BY <1>1, <1>2, <1>3, <1>8, <3>1, RunStep, Zenon
    <3>3. Mounts' BY <1>1, <1>2, <1>3, <1>8, <3>1, RunStep, Zenon
    <3> QED BY <3>2, <3>3, Zenon
  <2>2. cwd' \in Node BY <1>3, <1>8, WalkPlace, Zenon DEF Walk
  <2>3. SpaceTypes' BY <1>1, <2>2, Zenon DEF Inv, Types, SpaceTypes
  <2>4. Nukes' BY <1>3, <1>8, NukesIdle, Zenon DEF Nuking
  <2>5. cwd' = Walk(root, realroot)' BY <1>1, <1>8, Zenon DEF Walk
  <2>6. Switch' BY <1>5, <1>8, <2>5, Zenon DEF Switch, Switching, Switched, Nuking
  <2> QED BY <1>6, <2>1, <2>3, <2>4, <2>6, Zenon DEF Inv, Types
<1>9. CASE Safe /\ pc = "check" /\ pc' = "open" /\ what' = <<>> /\ UNCHANGED <<dirs, cwd>>
  <2>1. BootTypes' /\ Control' /\ Mounts'
    <3>1. pc' \in Running /\ pc' # "chdir" /\ what' \in Seq(Filenames)
      BY <1>9, NoNames, Zenon DEF Running, Switching, Nuking
    <3>2. BootTypes' /\ Control' BY <1>1, <1>2, <1>3, <1>9, <3>1, RunStep, Zenon DEF Switching, Nuking
    <3>3. Mounts' BY <1>1, <1>2, <1>3, <1>9, <3>1, RunStep, Zenon
    <3> QED BY <3>2, <3>3
  <2>2. SpaceTypes' BY <1>1, <1>9, Zenon DEF Inv, Types, SpaceTypes
  <2>3. root = Rootfs
    <3>1. CASE prog = "kinit"
      <4>1. root \in {OldRoot, Rootfs} BY <1>2, <3>1, Zenon DEF Inv, Mounts
      <4>2. OldRoot[1] \notin Ramfs BY Places, KinitAssumption, Zenon
      <4> QED BY <1>9, <4>1, <4>2, Zenon DEF Safe
    <3>2. CASE prog = "run-init" BY <1>9, <3>2, Zenon DEF Inv, Control
    <3> QED BY <3>1, <3>2, Zenon DEF Inv, Types, BootTypes
  <2>4. Nukes'
    <3>1. InRootfs(what)' BY <1>1, <1>9, <2>3, WalkNothing, Places, Zenon DEF InRootfs, Walk
    <3> QED BY <1>3, <1>9, <3>1, SMTT(60) DEF Nukes, Nuking
  <2>5. cwd = Walk(root, realroot) /\ cwd' = Walk(root, realroot)'
    BY <1>1, <1>9, Zenon DEF Inv, Switch, Walk
  <2>6. cwd'[1] # "rootfs" /\ root' = Rootfs BY <1>1, <1>9, <2>3, Places, Zenon DEF Safe
  <2>7. SeenIn(cwd)' BY <1>5, <2>5, Zenon DEF SeenIn
  <2>8. Switch' BY <1>5, <1>9, <2>5, <2>6, <2>7, Zenon DEF Switch, Switching, Switched, Nuking
  <2> QED BY <1>6, <2>1, <2>2, <2>4, <2>8 DEF Inv, Types
<1> QED BY <1>7, <1>8, <1>9, Zenon DEF ChangesDir, Checks

\* Sequences of which the last element is new, read or altered
LEMMA Appended ==
    ASSUME NEW S, NEW s \in Seq(S), NEW c \in S, NEW t, t = Append(s, c)
    PROVE  /\ t \in Seq(S) /\ Len(t) = Len(s) + 1 /\ t # <<>> /\ DOMAIN t = 1..(Len(s) + 1)
           /\ DOMAIN s = 1..Len(s) /\ Len(s) \in Nat /\ (Len(s) > 0 => s # <<>>)
           /\ t[Len(s) + 1] = c
           /\ \A i \in 1..Len(s) : t[i] = s[i]
<1>1. t \in Seq(S) /\ Len(t) = Len(s) + 1 /\ Len(s) \in Nat OBVIOUS
<1>2. t # <<>> BY <1>1, Longer, Zenon
<1>3. DOMAIN t = 1..(Len(s) + 1) /\ DOMAIN s = 1..Len(s) BY <1>1
<1>4. Len(s) > 0 => s # <<>>
  <2>1. Len(<<>>) = 0 /\ ~(0 > 0) OBVIOUS
  <2> QED BY ONLY <2>1, Zenon
<1>5. t[Len(s) + 1] = c /\ \A i \in 1..Len(s) : t[i] = s[i] BY <1>1, SMTT(60)
<1> QED BY <1>1, <1>2, <1>3, <1>4, <1>5, Zenon

\* The top of the stack of nuke_dir ...
LEMMA LastOf ==
    ASSUME NEW S, NEW s \in Seq(S), s # <<>>, NEW l, l = Len(s)
    PROVE  l \in DOMAIN s /\ Last(s) = s[l] /\ s[l] \in S
  BY DEF Last

\* ... and a change of it.
LEMMA Altered ==
    ASSUME NEW S, NEW s \in Seq(S), s # <<>>, NEW c \in S, NEW l \in DOMAIN s, NEW t, t = [s EXCEPT ![l] = c]
    PROVE  t \in Seq(S) /\ t # <<>> /\ DOMAIN t = DOMAIN s
<1>1. t \in Seq(S) /\ DOMAIN t = DOMAIN s /\ Len(t) = Len(s) OBVIOUS
<1>2. Len(s) # 0 OBVIOUS
<1>3. Len(<<>>) = 0 OBVIOUS
<1> QED BY ONLY <1>1, <1>2, <1>3, Zenon

\* A name that a directory lists is a name
LEMMA NamesAre ==
    ASSUME SpaceTypes, NEW n
    PROVE  Names(n) \in SUBSET Filenames
<1> SUFFICES ASSUME NEW m \in tree PROVE Last(m[2]) \in Filenames BY Zenon DEF Names
<1>1. m \in Node /\ m[2] # <<>> BY Zenon DEF SpaceTypes
<1>2. m[2] \in Seq(Filenames) BY <1>1, PartsOf, Zenon
<1> QED BY ONLY <1>1, <1>2, Shorter, Zenon

\* The calls of nuke_dir under way stay what they are.
LEMMA CallsKept ==
    ASSUME Nukes, UNCHANGED <<at, root>>, NEW i, i \in DOMAIN dirs, NEW k, k \in DOMAIN dirs', k = i,
           dirs'[k].me = dirs[i].me, dirs'[k].dir = dirs[i].dir
    PROVE  /\ dirs'[k].me = "rootfs" /\ InRootfs(dirs[k].dir)'
           /\ k > 1 => InRootfs(Front(dirs[k].dir))'
  BY Zenon DEF Nukes, InRootfs, Walk

\* nuke_dir begins with a directory
LEMMA OpensStep ==
    ASSUME Inv, Rest, OpensDir
    PROVE  Inv'
<1>1. pc = "open" /\ UNCHANGED <<at, tree, root, cwd, what>> BY Zenon DEF OpensDir
<1>2. CASE Returns BY <1>1, <1>2, GivesUp, Zenon DEF Running, Switching, Nuking
<1>3. CASE ~Returns
  <2>1. PICK d : d = Walk(root, what) OBVIOUS
  <2>2. PICK c : c = [dir |-> what, me |-> d[1], todo |-> Names(d)] BY Zenon
  <2>3. dirs' = Append(dirs, c) /\ pc' = "read" BY <1>3, <2>1, <2>2, Zenon DEF OpensDir
  <2>4. /\ dirs \in Seq(Call) /\ what \in Seq(Filenames) /\ root \in Node /\ SpaceTypes /\ Nukes
    BY Zenon DEF Inv, Types, SpaceTypes, BootTypes
  <2>5. d[1] = "rootfs" /\ (dirs # <<>> => InRootfs(Front(what)))
    BY <1>1, <2>1, <2>4, Zenon DEF Nukes, InRootfs
  <2>6. c \in Call
    <3>1. Names(d) \in SUBSET Filenames /\ d[1] \in FileSystems BY <2>4, <2>5, NamesAre, KinitAssumption, Zenon
    <3> QED BY <2>2, <2>4, <3>1, Zenon DEF Call
  <2>7. /\ dirs' \in Seq(Call) /\ Len(dirs') = Len(dirs) + 1 /\ dirs' # <<>> /\ DOMAIN dirs' = 1..(Len(dirs) + 1)
        /\ DOMAIN dirs = 1..Len(dirs) /\ Len(dirs) \in Nat /\ (Len(dirs) > 0 => dirs # <<>>)
        /\ dirs'[Len(dirs) + 1] = c
        /\ \A i \in 1..Len(dirs) : dirs'[i] = dirs[i]
    BY ONLY <2>3, <2>4, <2>6, Appended, SMTT(60)
  <2>8. Nukes'
    <3>1. ASSUME NEW i \in DOMAIN dirs'
          PROVE  /\ dirs'[i].me = "rootfs" /\ InRootfs(dirs[i].dir)'
                 /\ i > 1 => InRootfs(Front(dirs[i].dir))'
      <4>1. CASE i \in DOMAIN dirs BY ONLY <1>1, <2>4, <2>7, <3>1, <4>1, CallsKept, Zenon
      <4>2. CASE i \notin DOMAIN dirs
        <5>1. dirs'[i] = c /\ (i > 1 => dirs # <<>>) BY <2>7, <3>1, <4>2, SMTT(60)
        <5>2. c.me = "rootfs" /\ c.dir = what BY <2>2, <2>5, Zenon
        <5>3. InRootfs(what)' BY <1>1, <2>1, <2>5, Zenon DEF InRootfs, Walk
        <5>4. i > 1 => InRootfs(Front(what))' BY <1>1, <2>5, <5>1, Zenon DEF InRootfs, Walk
        <5>5. dirs'[i].me = "rootfs" /\ dirs'[i].dir = what' BY <1>1, <5>1, <5>2, Zenon
        <5> QED BY ONLY <5>3, <5>4, <5>5, Zenon DEF InRootfs
      <4> QED BY <4>1, <4>2, Zenon
    <3> QED BY <2>3, <2>7, <3>1, Zenon DEF Nukes, Nuking
  <2>9. pc \in Switching /\ pc' \in Switching BY <1>1, <2>3, Zenon DEF Switching, Nuking
  <2>10. InitramfsOnly /\ tree' \subseteq tree \cup DaemonFiles BY <1>1, Zenon DEF InitramfsOnly
  <2> QED BY <1>1, <2>4, <2>7, <2>8, <2>9, <2>10, DeletesStep, Zenon
<1> QED BY <1>2, <1>3, Zenon

\* readdir and lstat
LEMMA ReadsStep ==
    ASSUME Inv, Rest, ReadsEntry
    PROVE  Inv'
<1>1. pc = "read" /\ UNCHANGED <<at, tree, root, cwd>> BY DEF ReadsEntry
<1>2. CASE Returns /\ UNCHANGED what BY <1>1, <1>2, GivesUp, Zenon DEF Running, Switching, Nuking
<1>3. CASE ~(Returns /\ UNCHANGED what)
  <2>1. /\ dirs \in Seq(Call) /\ what \in Seq(Filenames) /\ Nukes /\ dirs # <<>>
    BY <1>1, Zenon DEF Inv, Types, BootTypes, Nukes
  <2>2. PICK l : l = Len(dirs) BY Zenon
  <2>3. l \in DOMAIN dirs /\ Last(dirs) = dirs[l] /\ dirs[l] \in Call BY ONLY <2>1, <2>2, LastOf, Zenon
  <2>4. PICK x : x = CHOOSE y \in Last(dirs).todo : TRUE OBVIOUS
  <2>5. PICK p : p = Append(Last(dirs).dir, x) BY Zenon
  <2>6. x \in Last(dirs).todo BY <2>4 DEF ReadsEntry
  <2>7. dirs' = [dirs EXCEPT ![l].todo = @ \ {x}]
    BY <1>3, <2>2, <2>4, Zenon DEF ReadsEntry
  <2>8. \/ Walk(root, p)[1] = Last(dirs).me /\ pc' = "unlink" /\ what' = p
        \/ UNCHANGED <<pc, what>>
    BY <1>3, <2>4, <2>5 DEF ReadsEntry, Recurses
  <2>9. x \in Filenames /\ dirs[l].dir \in Seq(Filenames) BY <2>3, <2>6, Zenon DEF Call
  <2>10. p \in Seq(Filenames) /\ Front(p) = dirs[l].dir BY <2>3, <2>5, <2>9, Longer, SMTT(60)
  <2>11. /\ dirs' \in Seq(Call) /\ dirs' # <<>> /\ DOMAIN dirs' = DOMAIN dirs
         /\ \A i \in DOMAIN dirs : dirs'[i].me = dirs[i].me /\ dirs'[i].dir = dirs[i].dir
    <3>1. PICK c : c = [dirs[l] EXCEPT !.todo = @ \ {x}] BY Zenon
    <3>2. c \in Call /\ c.me = dirs[l].me /\ c.dir = dirs[l].dir BY <2>3, <3>1 DEF Call
    <3>3. dirs' = [dirs EXCEPT ![l] = c] BY <2>7, <3>1
    <3>4. dirs' \in Seq(Call) /\ dirs' # <<>> /\ DOMAIN dirs' = DOMAIN dirs BY ONLY <2>1, <2>3, <3>2, <3>3, Altered, Zenon
    <3> QED BY <3>2, <3>3, <3>4, Zenon
  <2>12. Nukes'
    <3>1. \A i \in DOMAIN dirs' :
            /\ dirs'[i].me = "rootfs" /\ InRootfs(dirs[i].dir)'
            /\ i > 1 => InRootfs(Front(dirs[i].dir))'
      BY <1>1, <2>1, <2>11, CallsKept, Zenon
    <3>2. CASE Walk(root, p)[1] = Last(dirs).me /\ pc' = "unlink" /\ what' = p
      <4>1. dirs[l].me = "rootfs" /\ InRootfs(dirs[l].dir) BY <2>1, <2>3, Zenon DEF Nukes
      <4>2. InRootfs(what)' BY <1>1, <2>3, <3>2, <4>1, Zenon DEF InRootfs, Walk
      <4>3. InRootfs(Front(what))' BY <1>1, <2>10, <3>2, <4>1, Zenon DEF InRootfs, Walk
      <4> QED BY <2>11, <3>1, <3>2, <4>2, <4>3, Zenon DEF Nukes, Nuking
    <3>3. CASE UNCHANGED <<pc, what>>
      BY <1>1, <2>11, <3>1, <3>3, Zenon DEF Nukes, Nuking
    <3> QED BY <2>8, <3>2, <3>3, Zenon
  <2>13. pc \in Switching /\ pc' \in Switching BY <1>1, <2>8, Zenon DEF Switching, Nuking
  <2>14. InitramfsOnly /\ tree' \subseteq tree \cup DaemonFiles BY <1>1, Zenon DEF InitramfsOnly
  <2>15. what' \in Seq(Filenames) BY <2>1, <2>8, <2>10, Zenon
  <2> QED BY <1>1, <2>11, <2>12, <2>13, <2>14, <2>15, DeletesStep, Zenon
<1> QED BY <1>2, <1>3, Zenon

\* What Entry names is where its directory is
LEMMA EntryIs ==
    ASSUME NEW p, InRootfs(Front(p))
    PROVE  Entry(p)[1] = "rootfs"
  BY DEF Entry, Child, InRootfs

\* unlink
LEMMA UnlinksStep ==
    ASSUME Inv, Rest, Unlinks
    PROVE  Inv'
<1>1. pc = "unlink" /\ UNCHANGED <<at, root, cwd, what>> BY DEF Unlinks
<1>2. PICK n : n = Entry(what) OBVIOUS
<1>3. /\ dirs \in Seq(Call) /\ what \in Seq(Filenames) /\ Nukes /\ dirs # <<>>
      /\ InRootfs(what) /\ InRootfs(Front(what))
  BY <1>1, Zenon DEF Inv, Types, BootTypes, Nukes
<1>4. n[1] = "rootfs" BY <1>2, <1>3, EntryIs, SMTT(60)
<1>5. \/ Returns /\ tree' = tree
      \/ pc' \in {"open", "read"} /\ dirs' = dirs /\ tree' \in {tree, tree \ {n}}
  BY <1>2, Zenon DEF Unlinks
<1>6. CASE Returns /\ tree' = tree BY <1>1, <1>6, GivesUp, Zenon DEF Running, Switching, Nuking
<1>7. CASE pc' \in {"open", "read"} /\ dirs' = dirs /\ tree' \in {tree, tree \ {n}}
  <2>1. Nukes' BY <1>1, <1>3, <1>7, Zenon DEF Nukes, Nuking, InRootfs, Walk
  <2>2. pc \in Switching /\ pc' \in Switching BY <1>1, <1>7, Zenon DEF Switching, Nuking
  <2>3. InitramfsOnly /\ tree' \subseteq tree \cup DaemonFiles BY <1>4, <1>7, Zenon DEF InitramfsOnly
  <2> QED BY <1>1, <1>3, <1>7, <2>1, <2>2, <2>3, DeletesStep, Zenon
<1> QED BY <1>5, <1>6, <1>7, Zenon

\* closedir and rmdir
LEMMA ClosesStep ==
    ASSUME Inv, Rest, ClosesDir
    PROVE  Inv'
<1>1. pc = "read" /\ UNCHANGED <<at, root, cwd, what>> BY Zenon DEF ClosesDir
<1>2. dirs \in Seq(Call) /\ what \in Seq(Filenames) /\ Nukes /\ dirs # <<>>
  BY <1>1, Zenon DEF Inv, Types, BootTypes, Nukes
<1>3. CASE Returns /\ tree' = tree BY <1>1, <1>3, GivesUp, Zenon DEF Running, Switching, Nuking
<1>4. CASE pc' = "move" /\ dirs' = <<>> /\ tree' = tree
  <2>1. Nukes' BY <1>4, NukesIdle, Zenon DEF Nuking
  <2>2. pc \in Switching /\ pc' \in Switching BY <1>1, <1>4 DEF Switching, Nuking
  <2>3. InitramfsOnly /\ tree' \subseteq tree \cup DaemonFiles BY <1>4, Zenon DEF InitramfsOnly
  <2>4. dirs' \in Seq(Call) BY <1>4, NoNames
  <2> QED BY <1>1, <1>2, <2>1, <2>2, <2>3, <2>4, DeletesStep, Zenon
<1>5. CASE Len(dirs) # 1 /\ dirs' = Front(dirs) /\ pc' = pc /\ tree' = tree \ {Entry(Last(dirs).dir)}
  <2>1. PICK l : l = Len(dirs) OBVIOUS
  <2>2. l \in DOMAIN dirs /\ Last(dirs) = dirs[l] /\ l \in Nat /\ l > 1
    <3>1. l \in DOMAIN dirs /\ Last(dirs) = dirs[l] BY ONLY <1>2, <2>1, LastOf, Zenon
    <3>2. l \in 1..Len(dirs) /\ Len(dirs) \in Nat BY <1>2, <3>1
    <3> QED BY <1>5, <2>1, <3>1, <3>2, SMTT(60)
  <2>3. Entry(Last(dirs).dir)[1] = "rootfs" BY <1>2, <2>2, EntryIs, Zenon DEF Nukes
  <2>4. /\ dirs' \in Seq(Call) /\ Len(dirs') = l - 1
        /\ \A i \in DOMAIN dirs' : i \in DOMAIN dirs /\ dirs'[i] = dirs[i]
    BY ONLY <1>2, <1>5, <2>1, Shorter, Zenon
  <2>5. dirs' # <<>>
    <3>1. Len(dirs') # 0 BY <2>2, <2>4, SMTT(60)
    <3>2. Len(<<>>) = 0 OBVIOUS
    <3> QED BY ONLY <3>1, <3>2, Zenon
  <2>6. Nukes'
    <3>1. \A i \in DOMAIN dirs' :
            /\ dirs'[i].me = "rootfs" /\ InRootfs(dirs[i].dir)'
            /\ i > 1 => InRootfs(Front(dirs[i].dir))'
      BY <1>1, <1>2, <2>4, CallsKept, Zenon
    <3> QED BY <1>1, <1>5, <2>5, <3>1, Zenon DEF Nukes, Nuking
  <2>7. pc \in Switching /\ pc' \in Switching BY <1>1, <1>5, Zenon DEF Switching, Nuking
  <2>8. InitramfsOnly /\ tree' \subseteq tree \cup DaemonFiles BY <1>5, <2>3, Zenon DEF InitramfsOnly
  <2> QED BY <1>1, <1>2, <2>4, <2>6, <2>7, <2>8, DeletesStep, Zenon
<1> QED BY <1>3, <1>4, <1>5, Zenon DEF ClosesDir

\* Another process creates and deletes files of the initramfs
LEMMA DaemonStep ==
    ASSUME Inv, Rest, Daemon
    PROVE  Inv'
<1>1. /\ UNCHANGED <<at, root, cwd, what, dirs, pc>> /\ pc \in Nuking
      /\ \E n \in DaemonFiles : tree' \in {tree \cup {n}, tree \ {n}}
  BY Zenon DEF Daemon
<1>2. InitramfsOnly /\ tree' \subseteq tree \cup DaemonFiles BY <1>1, ContentsAre, Zenon DEF InitramfsOnly
<1>3. dirs \in Seq(Call) /\ what \in Seq(Filenames) /\ Nukes BY Zenon DEF Inv, Types, BootTypes
<1>4. Nukes' BY <1>1, <1>3, Zenon DEF Nukes, InRootfs, Walk
<1>5. pc \in Switching /\ pc' \in Switching BY <1>1, Zenon DEF Switching
<1> QED BY <1>1, <1>2, <1>3, <1>4, <1>5, DeletesStep, Zenon

\* Two name spaces that differ in what is mounted in the initramfs
Alike(m, p) ==
    /\ m["rootfs"] = None
    /\ \A f \in FileSystems : p[f] = m[f] \/ {m[f][1], p[f][1]} \subseteq {"rootfs", "none"}

\* Outside the initramfs, a move of the root changes no lookup.
LEMMA WalkAlike ==
    ASSUME NEW m, NEW p, Alike(m, p), NEW base \in Node, base[1] # "rootfs", NEW path \in Seq(Filenames)
    PROVE  WalkIn(p, base, path) = WalkIn(m, base, path)
  BY WalkElsewhere, Zenon DEF Alike

\* mount(".", "/", MS_MOVE)
LEMMA MovesStep ==
    ASSUME Inv, Rest, Moves
    PROVE  Inv'
<1>1. pc = "move" /\ UNCHANGED <<tree, root, cwd, what>> BY Zenon DEF Moves
<1>2. CASE Returns /\ at' = at BY <1>1, <1>2, GivesUp, Zenon DEF Running, Switching
<1>3. CASE ~(Returns /\ at' = at)
  <2>1. PICK f : f = cwd[1] OBVIOUS
  <2>2. IsMountRoot(cwd) /\ at' = [at EXCEPT ![f] = root] /\ pc' = "chroot" /\ dirs' = dirs
    BY <1>3, <2>1, Zenon DEF Moves
  <2>3. /\ root = Rootfs /\ cwd \in Node /\ SeenIn(cwd)
        /\ f \in FileSystems \ {"rootfs", "proc", "sysfs"}
        /\ prog = "kinit" => cwd = <<f, <<>> >> /\ at[f] = Dir("root")
    BY <1>1, <2>1, TargetIs, Zenon DEF Switching
  <2>4. cwd[2] = <<>> BY <2>2, Zenon DEF IsMountRoot
  <2>5. dirs = <<>> BY <1>1, Zenon DEF Inv, Nukes, Nuking
  <2>6. /\ at \in [FileSystems -> Node \cup {None}] /\ at["rootfs"] = None
        /\ init \in Seq(Filenames) /\ what \in Seq(Filenames) /\ dirs \in Seq(Call)
    BY Zenon DEF Inv, Types, SpaceTypes, BootTypes
  <2>7. /\ at' \in [FileSystems -> Node \cup {None}] /\ at'[f] = Rootfs
        /\ \A g \in FileSystems \ {f} : at'[g] = at[g]
    BY <2>2, <2>3, <2>6, Places, Zenon
  <2>8. at'["rootfs"] = None /\ at'["proc"] = at["proc"] /\ at'["sysfs"] = at["sysfs"]
    BY <2>3, <2>6, <2>7, KinitAssumption, Zenon
  <2>9. SpaceTypes' BY <1>1, <2>7, <2>8, Zenon DEF Inv, Types, SpaceTypes
  <2>10. BootTypes' /\ Control' /\ mnt = {}
    <3>1. pc \in Running /\ pc' \in Running /\ pc' # "chdir" /\ pc' \notin {"check"} \cup Switching
      BY <1>1, <2>2, Zenon DEF Running, Switching, Nuking
    <3> QED BY <1>1, <2>2, <2>6, <3>1, RunStep, Zenon
  <2>11. Mounts' BY <2>2, <2>8, Zenon DEF Inv, Mounts, Rest, Early, Mounted, Switching, Nuking
  <2>12. Nukes' BY <2>2, <2>5, NukesIdle, Zenon DEF Nuking
  <2>13. SeenIn(cwd)'
    <3>1. CASE prog = "kinit"
      <4>1. \A g \in FileSystems : at'[g] = at[g] \/ {at[g][1], at'[g][1]} \subseteq {"rootfs", "none"}
        BY <2>3, <2>7, <3>1, Places, DirsAre, ZenonT(60)
      <4>2. cwd[1] # "rootfs" BY <2>1, <2>3, SMTT(60)
      <4>3. Alike(at, at') BY ONLY <2>6, <4>1, Zenon DEF Alike
      <4>4. WalkIn(at', cwd, init) = WalkIn(at, cwd, init) BY ONLY <2>3, <2>6, <4>2, <4>3, WalkAlike, SMTT(60)
      <4> QED BY <1>1, <2>3, <3>1, <4>4, Zenon DEF SeenIn, Exists, Walk, Rest
    <3>2. CASE prog # "kinit" BY <3>2, Zenon DEF SeenIn, Rest
    <3> QED BY <3>1, <3>2
  <2>14. prog = "kinit" => f = "initrd" \/ at'["initrd"] \in {None, Child(cwd, "initrd")}
    <3> SUFFICES ASSUME prog = "kinit", f # "initrd"
                 PROVE  at'["initrd"] \in {None, Child(cwd, "initrd")}
      BY Zenon
    <3>1. at'["initrd"] = at["initrd"] BY <2>7, KinitAssumption, Zenon
    <3>2. at[f] # None BY <2>3, Places, DirsAre, Zenon
    <3>3. Ready
      <4>1. Rootfs # OldRoot BY Places, Zenon
      <4> QED BY <1>1, <2>3, <4>1, Zenon DEF Inv, Mounts, Mounted, Switching
    <3>4. ~NoRoot BY <2>3, <3>2, Zenon DEF NoRoot, Only
    <3>5. PICK d \in Real : OneRoot(d) /\ at["initrd"] \in {None, Child(<<d, <<>> >>, "initrd")}
      BY <3>3, <3>4, Zenon DEF Ready
    <3>6. d = f BY <2>3, <3>2, <3>5, Zenon DEF OneRoot, Only
    <3> QED BY <2>3, <3>1, <3>5, <3>6, Zenon
  <2>15. Moved'
    BY <1>1, <2>1, <2>3, <2>4, <2>7, <2>13, <2>14, Zenon DEF Moved, Rest
  <2>16. Target'
    <3>1. SeenIn(<<f, <<>> >>)' BY <1>1, <2>3, <2>13, Zenon DEF SeenIn, Rest
    <3>2. at'[f] # None BY <2>7, Places, Zenon
    <3> QED BY <2>3, <3>1, <3>2, Zenon DEF Target
  <2>17. Switch' BY <1>1, <2>2, <2>3, <2>10, <2>15, <2>16, Zenon DEF Switch, Switching, Switched, Nuking, Rest
  <2>18. ForeignFilesKept' BY <1>1, Zenon DEF Inv, ForeignFilesKept
  <2> QED BY <2>9, <2>10, <2>11, <2>12, <2>17, <2>18, Zenon DEF Inv, Types
<1> QED BY <1>2, <1>3, Zenon

\* chroot("."), the console and init
LEMMA SwitchedSteps ==
    ASSUME Inv, Rest, Chroots \/ OpensConsole \/ Execs
    PROVE  Inv'
<1>1. /\ pc \in {"chroot", "console", "exec"} /\ UNCHANGED <<at, tree, cwd, what>>
      /\ \/ Returns /\ root' = root
         \/ pc = "chroot" /\ root' = cwd /\ pc' = "console" /\ dirs' = dirs
         \/ pc = "console" /\ root' = root /\ pc' = "exec" /\ dirs' = dirs
         \/ pc = "exec" /\ root' = root /\ pc' = "init" /\ dirs' = dirs /\ Exists(Walk(root, init))
  BY Zenon DEF Chroots, OpensConsole, Execs
<1>2. pc \in Running BY <1>1, Zenon DEF Running, Switched
<1>3. CASE Returns /\ root' = root BY <1>1, <1>2, <1>3, GivesUp, Zenon
<1>4. CASE ~(Returns /\ root' = root)
  <2>1. pc' \in Switched /\ dirs' = dirs /\ root' = cwd
    BY <1>1, <1>4, Zenon DEF Inv, Switch, Switched
  <2>2. /\ what \in Seq(Filenames) /\ dirs \in Seq(Call) /\ dirs = <<>>
    BY <1>1, Zenon DEF Inv, Types, BootTypes, Nukes, Nuking
  <2>3. BootTypes' /\ Control' /\ mnt = {}
    <3>1. pc' \in Running /\ pc' # "chdir" /\ pc' \notin {"check"} \cup Switching
      BY <2>1, Zenon DEF Running, Switching, Switched, Nuking
    <3> QED BY <1>1, <1>2, <2>1, <2>2, <3>1, RunStep, Zenon
  <2>4. SpaceTypes' BY <1>1, <2>1, Zenon DEF Inv, Types, SpaceTypes
  <2>5. Mounts' BY <1>1, <2>1, Zenon DEF Inv, Mounts, Rest, Early, Mounted, Switching, Switched, Nuking
  <2>6. Nukes' BY <2>1, <2>2, NukesIdle, Zenon DEF Nuking, Switched
  <2>7. Moved BY <1>1, Zenon DEF Inv, Switch, Switched
  <2>8. Moved' BY <1>1, <2>7, Zenon DEF Moved, SeenIn, Exists, Walk, Rest
  <2>9. Wiped' => Target'
    <3>1. Wiped' => Wiped BY <1>1, Zenon DEF Wiped
    <3>2. Wiped => Target BY Zenon DEF Inv, Switch
    <3>3. Target => Target' BY <1>1, Zenon DEF Target, SeenIn, Exists, Walk, Rest
    <3> QED BY <3>1, <3>2, <3>3
  <2>10. pc' = "init" => Exists(Walk(root, init))'
    <3>1. pc' = "init" => root' = root /\ Exists(Walk(root, init)) BY <1>1, <1>4, Zenon
    <3> QED BY <1>1, <3>1, Zenon DEF Exists, Walk, Rest
  <2>11. Switch'
    BY <1>1, <2>1, <2>3, <2>8, <2>9, <2>10, Zenon DEF Switch, Switching, Switched, Nuking, Rest
  <2>12. ForeignFilesKept' BY <1>1, Zenon DEF Inv, ForeignFilesKept
  <2> QED BY <2>3, <2>4, <2>5, <2>6, <2>11, <2>12, Zenon DEF Inv, Types
<1> QED BY <1>3, <1>4, Zenon

\* Every step keeps the invariant
LEMMA NextInv ==
    ASSUME Inv, Next
    PROVE  Inv'
<1>1. CASE MountsProc BY <1>1, MountSysStep, Zenon DEF MountsProc
<1>2. CASE MountsSys BY <1>2, MountSysStep, Zenon DEF MountsSys
<1>3. CASE ReadsCmdline \/ do_resume \/ do_ipconfig \/ do_mounts \/ RunsLinuxrc \/ drop_capabilities
  BY <1>3, QuietSteps, Zenon
<1>4. CASE check_path \/ initrd_load \/ ramdisk_load \/ StoresDevice BY <1>4, FileSteps, Zenon
<1>5. CASE mount_roots BY <1>5, MountRootsStep, Zenon
<1>6. CASE MountsInitrd \/ EntersInitrd \/ LeavesInitrd BY <1>6, InitrdSteps, Zenon
<1>7. CASE MountsRealRoot \/ MovesInitrd BY <1>7, RealRootSteps, Zenon
<1>8. CASE Unmounts BY <1>8, UnmountStep
<1>9. CASE find_init BY <1>9, FindInitStep
<1>10. CASE Returned \/ Bails BY <1>10, EndSteps
<1>11. CASE (run_init \/ Daemon) /\ UNCHANGED <<boot, disk, caps>>
  <2>1. Rest BY <1>11, Zenon DEF boot, disk, Rest, run_init, Daemon, ChangesDir, Checks, OpensDir, ReadsEntry,
                          Unlinks, ClosesDir, Moves, Chroots, OpensConsole, Execs
  <2>2. CASE Daemon BY <2>1, <2>2, DaemonStep, Zenon
  <2>3. CASE ChangesDir \/ Checks BY <2>1, <2>3, CheckSteps, Zenon
  <2>4. CASE OpensDir BY <2>1, <2>4, OpensStep
  <2>5. CASE ReadsEntry BY <2>1, <2>5, ReadsStep
  <2>6. CASE Unlinks BY <2>1, <2>6, UnlinksStep
  <2>7. CASE ClosesDir BY <2>1, <2>7, ClosesStep
  <2>8. CASE Moves BY <2>1, <2>8, MovesStep
  <2>9. CASE Chroots \/ OpensConsole \/ Execs BY <2>1, <2>9, SwitchedSteps, Zenon
  <2> QED BY <1>11, <2>2, <2>3, <2>4, <2>5, <2>6, <2>7, <2>8, <2>9, Zenon DEF run_init
<1> QED BY <1>1, <1>2, <1>3, <1>4, <1>5, <1>6, <1>7, <1>8, <1>9, <1>10, <1>11, Zenon
        DEF Next, main, run_linuxrc

\* What the invariant says holds of kinit and of run-init, from the first step.
LEMMA BootInvariant == Spec => []Inv
<1>1. ASSUME Inv, UNCHANGED vars PROVE Inv'
  <2>1. UNCHANGED <<pc, at, tree, root, cwd, realroot, init, dirs, what, prog, arg, mnt,
                    ram0, root_dev, devs, rrd>>
    BY <1>1, Zenon DEF vars, rvars, boot, disk
  <2>2. Types' BY <1>1, <2>1, Zenon DEF Inv, Types, SpaceTypes, BootTypes
  <2>3. Control' BY <1>1, <2>1, Zenon DEF Inv, Control
  <2>4. Mounts' BY <1>1, <2>1, Zenon DEF Inv, Mounts, Ready, NoRoot, OneRoot, Only
  <2>5. Nukes' BY <1>1, <2>1, Zenon DEF Inv, Nukes, InRootfs, Walk
  <2>6. Switch'
    <3>1. (Wiped' <=> Wiped) /\ (Target => Target') BY <2>1, Zenon DEF Wiped, Target, SeenIn, Exists, Walk
    <3>2. Moved => Moved' BY <2>1, Zenon DEF Moved, SeenIn, Exists, Walk
    <3>3. \A d : SeenIn(d) => SeenIn(d)' BY <2>1, Zenon DEF SeenIn, Exists, Walk
    <3>4. Walk(root, realroot)' = Walk(root, realroot) BY <2>1, Zenon DEF Walk
    <3>5. Exists(Walk(root, init)) => Exists(Walk(root, init))' BY <2>1, Zenon DEF Exists, Walk
    <3> QED BY <1>1, <2>1, <3>1, <3>2, <3>3, <3>4, <3>5, Zenon DEF Inv, Switch
  <2>7. ForeignFilesKept' BY <1>1, <2>1, Zenon DEF Inv, ForeignFilesKept
  <2> QED BY <2>2, <2>3, <2>4, <2>5, <2>6, <2>7, Zenon DEF Inv
<1>2. Inv /\ [Next]_vars => Inv' BY <1>1, NextInv, Zenon
<1> QED BY <1>2, InitInv, PTL DEF Spec

-----------------------------------------------------------------------------
(* The theorems *)

\* run_init deletes no file of another file system than the initramfs: with
\* any mounts below it, nuke_dirent and nuke_dir stay on its device, also
\* while other processes create and delete files, and a process that has
\* stayed in the initrd never gets past the checks.
THEOREM ForeignFilesStay == Spec => []ForeignFilesKept
<1>1. Inv => ForeignFilesKept BY DEF Inv
<1> QED BY <1>1, BootInvariant, PTL

\* run_init deletes the initramfs only when another file system is mounted to
\* go on with, and kinit only when find_init has seen init there.
THEOREM DeletedOnlyToSwitch == Spec => []WipedOnlyToSwitch
<1>1. Inv => WipedOnlyToSwitch BY Zenon DEF Inv, Switch, Wiped, Target, SeenIn, WipedOnlyToSwitch
<1> QED BY <1>1, BootInvariant, PTL

\* run_init executes init in the file system that was at realroot, which has
\* been moved over the initramfs, and as the program that find_init saw.
THEOREM InitRunsInRealRoot == Spec => []InitInRealRoot
<1>1. Inv => InitInRealRoot BY Zenon DEF Inv, Switch, Switched, Moved, InitInRealRoot
<1> QED BY <1>1, BootInvariant, PTL

\* do_resume comes before kinit mounts a file system of the suspended system
\* and before initrd_load writes the ramdisk.
THEOREM ResumeComesFirst == Spec => []ResumedFirst
<1>1. Inv => ResumedFirst
  <2> SUFFICES ASSUME Inv, pc = "resumed", NEW f \in Disks \cup {"initrd"}
               PROVE  at[f] = None /\ ram0 = "empty"
    BY Zenon DEF ResumedFirst
  <2>1. pc \in Early /\ ram0 = "empty" BY Zenon DEF Inv, Control, Early
  <2>2. prog = "kinit" BY Zenon DEF Inv, Types, BootTypes, Control, Switching, Switched, Nuking
  <2>3. Only({}) BY <2>1, <2>2, Zenon DEF Inv, Mounts
  <2>4. f \in FileSystems \ {"proc", "sysfs"} BY KinitAssumption, Zenon DEF Disks
  <2> QED BY <2>1, <2>3, <2>4, Zenon DEF Only
<1> QED BY <1>1, BootInvariant, PTL

\* run_linuxrc does not leave an initrd that has made way for another root in
\* the initramfs, where nothing could unmount it again.
THEOREM InitrdIsReleased == Spec => []InitrdReleased
<1>1. Inv => InitrdReleased
  <2> SUFFICES ASSUME Inv, pc = "init", prog = "kinit", root # <<"initrd", <<>> >>
               PROVE  at["initrd"] \in {None, Child(root, "initrd")}
    BY Zenon DEF InitrdReleased
  <2>1. root = cwd /\ Moved BY Zenon DEF Inv, Switch, Switched
  <2>2. cwd \in Node /\ cwd[2] = <<>> BY <2>1, Zenon DEF Moved, Inv, Types, SpaceTypes
  <2>3. cwd[1] # "initrd" BY <2>1, <2>2, PartsOf, Zenon
  <2> QED BY <2>1, <2>3, Zenon DEF Moved
<1> QED BY <1>1, BootInvariant, PTL
=============================================================================
