------------------------------- MODULE MCKinit -------------------------------
(* Instances of Kinit: an initramfs with a directory two levels deep, four   *)
(* devices, and an initrd with and without the directories that matter.      *)
EXTENDS Kinit

N(fs, p) == <<fs, p>>

MCFileSystems == {"rootfs", "proc", "sysfs", "initrd", "floppy", "pts",
                  "disk", "disk2", "nfs"}
MCRegular  == {"sh", "init", "console", "initrd.image", "f", "log"}
MCFilenames == MCRegular \cup {"proc", "sys", "root", "old", "initrd", "dev", "pts", "mnt", "sub"}
MCInits    == << <<"init">>, <<"sh">> >>
MCContents ==
    {N("rootfs", p) : p \in {<<"sh">>, <<"dev">>, <<"dev", "f">>, <<"dev", "pts">>,
                             <<"initrd.image">>, <<"mnt">>}} \cup
    {N("initrd", p) : p \in {<<"root">>, <<"sh">>, <<"console">>}} \cup
    {N("disk",  p) : p \in {<<"init">>, <<"console">>, <<"initrd">>, <<"sub">>, <<"sub", "init">>}} \cup
    {N("disk2", p) : p \in {<<"sh">>, <<"console">>}} \cup
    {N("nfs",   p) : p \in {<<"init">>, <<"console">>}} \cup
    {N("floppy", p) : p \in {<<"sh">>, <<"console">>}} \cup
    {N("proc", p) : p \in {<<"f">>}} \cup {N("pts", p) : p \in {<<"f">>}}
MCDaemonFiles == {N("rootfs", <<"dev", "log">>)}
MCRoots  == <<"bad", "disk", "disk2">>
MCTokens == <<"cap", "unknown">>

A(r, res, load, drop) == [root |-> r, resume |-> res, load_ramdisk |-> load,
                          drop |-> drop, init |-> <<"init">>]
MCArgs == {A(r, TRUE, FALSE, FALSE) : r \in {"ram0", "disk", "nfs", "multi"}}
          \cup {A("bad", TRUE, TRUE, FALSE), A("disk", TRUE, FALSE, TRUE),
                A("disk", FALSE, FALSE, FALSE)}

Mounted(m) == [f \in MCFileSystems |-> IF f \in DOMAIN m THEN m[f] ELSE None]
MCLayouts ==
    {[realroot |-> <<"mnt">>, at |-> Mounted([disk |-> Dir("mnt")])],
     [realroot |-> <<"mnt", "sub">>, at |-> Mounted([disk |-> Dir("mnt")])],
     [realroot |-> <<"mnt">>, at |-> Mounted([disk |-> Dir("mnt"), proc |-> Dir("dev")])],
     [realroot |-> <<"mnt">>, at |-> Mounted([disk |-> Dir("mnt"),
                                              pts |-> N("rootfs", <<"dev", "pts">>)])],
     [realroot |-> <<"mnt">>, at |-> Mounted(<<>>)]}
=============================================================================
