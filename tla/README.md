# klibc in TLA+

klibc is a C library for early userspace together with the programs of an
initramfs: `kinit`, which mounts the real root file system and hands over to
its init, `ipconfig`, `run-init`, a port of the shell dash, gzip, and small
utilities.  This directory holds TLA+ models of the parts of it that keep
state: configurations for TLC, and proofs that TLAPS checks.  Paths below
are relative to `src/`.

## The parts, and where they are modelled

| Part | Source | Modules |
|---|---|---|
| memory allocator | usr/klibc/malloc.c, realloc.c, calloc.c, sbrk.c | Arena, Malloc, Allocator; ArenaProofs, MallocProofs |
| stdio | usr/klibc/stdio/ | Stdio, OpenFile; StdioProofs |
| environment | usr/klibc/\*env\*.c | Env; EnvProofs |
| ipconfig | usr/kinit/ipconfig/ | IpConfig; IpConfigProofs |
| kinit, resume, capabilities, run-init | usr/kinit/ | Kinit, RunInit; KinitProofs |
| dash: jobs, waiting, traps, interrupts | usr/dash/ jobs.c, eval.c, redir.c, trap.c, error.c, main.c | JobTable, Shell; JobProofs, ShellProofs |
| gzip | usr/gzip/ | Gzip, Deflate, Trees, Inflate, GzipWindow |

A module `MCx` gives the constants of `x` their values for TLC.  `PROJECT.json`
maps every definition to the lines it stands for.  Operators have the names
of the functions they model where there is one; an operator whose comment
calls it faulty is a wrong variant of the one after it, with which a property
has been seen to fail.

The parts meet where one calls the other.  `Malloc` runs the chains of `Arena`.
`Kinit` contains `RunInit`, and takes ipconfig and resume as steps that
succeed, fail or do not return.  `Shell` runs the table of `JobTable`.  `Gzip`
takes the compressor and the decompressor as parameters, and `MCGzip` gives it
those of `Deflate` and `Inflate`, so that the program runs with its real codec.

### malloc

The heap is one record of functions over addresses: type, size and the four
links of every header.  An address unit is a header.  A call is one step,
since klibc has no threads; what varies is the order of the calls, where the
kernel puts a region, and whether it refuses.  `UsesSbrk` chooses the build.
`Allocator` is what the four calls promise a program: a region that is granted
overlaps no other and is large enough, and stays until it is given back.

### stdio

One stream on a regular file, with its one buffer for both directions.  The
loops of fread, fwrite and fflush are taken a system call at a time, and each
call may do part of its work, be interrupted, or fail.  `OpenFile` is the file
without a buffer.  The program keeps to the C rule that it positions the stream
between input and output, and (`Careless` = FALSE) stops writing after an
output error.

### Environment

`environ` is an array in a place (the stack of the process, the heap, or the
static empty one) with a number of slots.  Text is kept as far as strncmp()
can tell: which name begins with which, and whether a value contains an `=`.

### ipconfig

One record for each device, the one packet socket they all read, and servers
that may answer any request at any later time.  Packets may be lost, doubled,
refused, foreign or late; sends, receives, the link and the setup may fail.
Time is relative to the last gettimeofday, so that the state space is finite.

### kinit and run-init

A name space of mounts, the files in them, and the root and working directory
of the process.  run_init is taken one system call at a time, beside another
process that creates and removes files; the rest of kinit one function at a
time.  A second initial state is run-init called by a script.

### dash

The C stack of the shell is the variable `stack`.  A step is what happens between
two points at which a signal makes a difference.  Forks may fail, pids are
given out again, and children end when they like.  The build is klibc's
(`JOBS=0`): there is no job control.

### gzip

A directory with inodes, open files, and the program as a state machine over
the argument list: names and suffixes, the checks before the output is made,
headers, work in pieces, clean-up.  Between any two steps SIGINT, SIGTERM or
SIGHUP may come, the process may be killed, a call may fail and another process
may make a file, as often as the start allows (`faults`).  A file is a sequence
of members; a member has the bits of its deflate stream, its checksummed data
and a state that says whether it is cut short, refused or garbage.  `Deflate`
has both match loops, the window and the hash chains; `Trees` the three kinds
of block with their Huffman codes; `Inflate` reads the bits back.

## Runs

States are distinct states found.

| Run | Configuration | States | Shows |
|---|---|---|---|
| malloc_mmap | MCMallocMmap | 45,544 | both chains sound, memory accounted for, realloc copies what it must, and the abstract allocator is implemented |
| stdio_update | MCStdioUpdate | 735,651 | the stream is the file; ftell, line buffering and output errors are right |
| stdio_retry | MCStdioRetry | violation | BufferHasWriteData fails, see Findings |
| env_all | MCEnvAll | 594 | setenv and unsetenv do what getenv can see and no more; the array overflows only after clearenv |
| ipconfig_two | MCIpConfigTwo | 2,342,136 | only granted addresses, each device configured once, offers and servers stay paired, the program waits for all |
| ipconfig_live | MCIpConfigLive | 263,519 | a device is configured if servers go on answering; with -t the program ends |
| ipconfig_blocks | MCIpConfigBlocks | violation | GivesUp fails with two devices, see Findings |
| kinit_boot | MCKinitBoot | 42,286 | only the initramfs is deleted, only to switch to a root in which init runs; resume comes first; the initrd is released; kinit ends |
| shell_jobs | MCShellJobs | 385,604 | statuses reach the right job, background jobs are remembered, the prompt takes interrupts, the shell always returns |
| shell_traps | MCShellTraps | violation | TrapsRun fails, see Findings |
| gzip_files | MCGzipFiles | 31,967 | nothing goes away unless its data is kept (with the exceptions below), no partial output, exit status 0 means done, blocks stand for the input, gzip ends |
| gzip_members | MCGzipMembers | violation | SafeToRemove fails, see Findings |

`TypeOK` of IpConfig and of Kinit also holds on ipconfig_two and kinit_boot.

### What the properties exclude

* `RemovalIsSafe` (gzip) allows three losses besides those its sense requires:
  what `-f` overwrites; an input whose compression stopped at a failing read(),
  which zip.c takes for the end of the file (the program prints "file size
  changed while zipping", exits with 0 and removes the input); and an unlink by
  the handler when `remove_ofname` is left over from an earlier argument.
  create_outfile sets that flag before open() and nothing clears it when open()
  or fstat() fails or when a later member is refused (gzip.c:604-611, 560), so a
  signal during the next argument unlinks a file that is not gzip's output.
* `NothingPartialLeft` is about a process that ends by itself.  After a kill
  nothing can clean up; what must then hold is in `RemovalIsSafe`.
* `StatusGoesHome` (dash) leaves out the children without a job: a here-document
  writer, or what is left of a pipeline whose fork failed, may end with a pid
  that has been given out again.
* `FilePosition` leaves out the time between ungetc() and the next fseek(),
  because ungetc() does not change filepos.
* `ImplementsFile` and `FilePosition` promise nothing after an output error.
* `GrowthInBounds` leaves out clearenv(), which sets environ to a static array
  and leaves the size of the old one in place.
* `ReallocKeepsBytes` and `crashed`: realloc() copies to NULL if its malloc()
  fails.  The model stops there.

## Bounds, and why they are enough

* malloc: 19 units of a header each, pages and chunks of 4 units, a kernel that
  maps anywhere on the page grid.  That is room for four regions, so that
  blocks have neighbours on both sides, adjacent regions merge, a request
  spans several pages, a free block holds a whole page between used ones, and
  memory runs out.  The theorems have no such bounds.
* stdio: a buffer of 2 bytes and one slop byte, files and calls of up to 3
  bytes: a call fills the buffer, needs a second system call and goes past it.
* environment: three names, one the beginning of another, one of them there
  twice; up to 4 variables with growth by 2, so that the array moves twice.
* ipconfig: two devices and two servers with one fault of any kind, and one
  device with two faults.  `RetryCap` cuts the growth of the retry interval,
  `QueueMax` the packets in the socket, `PollMax` the time of one poll.
* kinit: an initramfs two levels deep; disk, NFS, floppy and initrd roots; a
  root= of several devices; another process with two changes.
* dash: two pids, three forks, three commands and one signal: a pid is used
  again while a job still remembers it.  The table grows by 2 slots.
* gzip: a window of 64 bytes (`WSIZE` 32), matches of 3 to 10, blocks of at most
  31 symbols, output pieces of 16 bytes, names of at most 5 characters, up to
  two faults.  Data is up to 90 bytes long, so that the window slides, blocks
  are flushed when full, and each of stored, fixed and dynamic blocks is
  chosen.  The input buffer is larger than every file in gzip_files, and 24
  bytes in gzip_members, which asks what happens at its end.  227 command
  lines and directories are enumerated: no suffix, the wrong one, existing
  outputs, hard links, shortened names, two arguments, two members, damaged,
  cut, refused and trailing data.

No run uses symmetry.

## Fairness

* ipconfig: the program takes its steps (WF) and time passes (SF on `Tick`: a
  clock stops for nobody).  `Configures` also needs servers that go on
  answering (SF on `Answers`), and only without -t; faults are bounded.
* kinit: WF of the one process.  It waits for no one but the kernel.
* dash: WF of the running shell, of the user's next command, of the delivery of
  signals that are pending and not blocked, and of the end of children (both
  are finite in number, so that no one of them needs fairness of its own):
  `ShellReturns` is about the shell, not about children that never end.
* gzip: the program goes on until it has ended.  This is written as
  `[]<>Ended \/ []<><<gzip>>_vars`, which is WF of `gzip` provided that it is
  enabled until then; the search for deadlocks in the same run covers that.

stdio and gzip are checked for deadlocks.  The other runs stop where the
system does: a program that has ended, or one that makes no more calls.

## Proofs

The theorems are about every part but gzip.  They hold for every value of the
constants that the assumptions allow: any number of addresses, devices, servers,
files, mounts, pids, jobs, calls and faults.  TLC evaluates the assumptions on
the runs.  Each module proves `Spec => []Inv` for an inductive invariant and
takes its theorems from it.

| Module | Theorems |
|---|---|
| ArenaProofs | none; lemmas on the two rings, merging and __free_block |
| MallocProofs | TypeCorrect, MainChainCorrect, FreeChainCorrect, AlwaysCoalesced, AllMemoryAccounted, AlwaysDisjoint, HeldBlocksSafe, ReallocCopies, Implementation (of `Allocator`) |
| StdioProofs | StreamTypes, PositionKnown, ErrorsKept, LinesFlushed, StreamImplementsFile (`OpenFile`) |
| EnvProofs | EnvTypes, GrowthSafe, SetenvWorks, OthersUntouched |
| IpConfigProofs | AddressesGranted, CompletedOnce, LoopWaits, RequestsPaired |
| JobProofs | none; lemmas on the job table |
| ShellProofs | StatusesGoHome, BackgroundJobsRemembered, PromptTakesInterrupts |
| KinitProofs | ForeignFilesStay, DeletedOnlyToSwitch, InitRunsInRealRoot, ResumeComesFirst, InitrdIsReleased |

### malloc

Assumed: there is an address (`ArenaAssumption`); sizes are positive and the
chunk is a multiple of the page (include/klibc/sysconfig.h) and more than one
header (`MallocAssumption`); rounding a request up does not wrap (`RequestsFit`).
The code does not test the last: malloc() of a size near SIZE_MAX, and the
product in calloc(), wrap.  The theorems are about both builds.

No property is inductive alone: that the free chain is right after a merge
needs the main chain, whose order needs that new regions are disjoint from
all blocks, which needs the account of memory.  The inductive invariant is

    IInv == Good(heap, mapped, current_brk, lost) /\ req is typed
            /\ Held = Used(heap) /\ every held block has room for its request

where `Good` says that both chains are sound and coalesced, that the mapped
memory that is not lost is exactly what the blocks cover and, in the sbrk
build, that it lies below the break.  The proofs follow the code: the rings and
__free_block, then __malloc_from_block, the cutting out of pages, the loops that
choose a block, each call, and last that a call is a step of `Allocator` or a
stutter.

### stdio

`Inv` is `Sound /\ Faith /\ Lines`.  `Sound` bounds offset, bytes and the slop and
says what each pc implies; it survives output errors.  `Faith` relates filepos,
the descriptor and the buffer: what is buffered for input is what the file has
before the descriptor, until a byte is pushed back or output fails.  `Lines` says
what part of the data of an unfinished fwrite() may hold a newline, since the
property is about the end of a call whose steps are system calls.  The
refinement maps the file to its content with the pending output laid over it;
a flush is then a stutter, and a call is one step of `OpenFile` at its end.

### Environment

`Inv` adds to the types that an array on the heap has environ_size slots, that
environ_size is 0 while the array is the one on the stack, and that only the
static array clearenv() leaves is ever written past its end.  SetenvWorks and OthersUntouched are about
steps: the first entry of a name, found as a least index, is compared before and
after.

### ipconfig

RequestsPaired assumes `ServersIdentified` (no reply without a server identifier);
the other three assume `NoRarp` (no device is left with RARP alone, whose state
add_one_dev does not initialise).  All assume that no device is named twice.
The inductive invariant follows an address from the server into the device: a
device keeps to its protocol through errors and restarts (`Protocol`), the
requests and packets under way are of that protocol, and each ACK or BOOTP reply
carries an address that was granted (`Messages`), a device is in ifaces once if it
is COMPLETE and else not at all (`Once`), and serverid and ip_addr are a pair from
the offer on (`Pairs`).

### dash

`Inv` has two parts.  `Interrupts` gives the possible stacks and, for each, the
value of suppressint; without it no step could show that INTOFF and INTON match
across exceptions.  `Jobs` says that the list from curjob has the used slots,
each once, the younger jobs first; that an entry without a status is that of
the child that has its pid now; and that a child whose end is not yet reported
is expected by an entry.  The order by age is why dowait(), which takes the
first entry with the pid, does not take an old one.  JobProofs has one lemma per
function and property of the table, ShellProofs one per step of the shell.

### kinit and run-init

`KinitAssumption` and `LayoutAssumption` say that the constants describe
directories: a file's directory is there, mounts are on directories, names come
from `Filenames`, and run-init's realroot is not in /proc or /sys.  `Inv` says
which file systems are mounted where in each part of the program (`Mounts`), that
the stack of nuke_dir only has directories of the initramfs, whose parents are in it
too (`Nukes`), and what the checks of run_init have established when the
first file is deleted (`Switch`).  That a path leads to the same place before and
after a step would need an induction over the path; it is proved by looking at
the least length at which the two differ.

### Only model-checked

* `AllFilesDeleted` (kinit): it says where a recursion over a directory tree ends.
* `BackwardSearchFindsPlace` (malloc): a loop that is a recursive function, whose
  value for every heap needs an induction over data.
* gzip, all properties.  They rest on the codec, and Deflate, Trees, Inflate and
  the shortening of names in Gzip use recursion or Bitwise, which exclude
  theorems about them here; with the codec as a parameter its correctness
  would have to be assumed.
* `Ends`, `ShellReturns`, `Configures` and `GivesUp`: liveness is out of the reach
  of this prover.

## Findings

1. gzip.c:547 (`SafeToRemove`, gzip_members).  `inptr == insize` is taken for
   "end of file" but means only that the input buffer is used up.  If a member ends
   where the buffer does, the members after it are dropped, the exit status
   is 0, and the input is removed where gzip.c:1174 says that this is safe.
2. ipconfig/main.c:345 (`GivesUp`, ipconfig_blocks).  One packet wakes poll(), every
   active device reads from the one blocking socket, and the second read
   blocks; README.ipconfig:17 promises that -t ends the program.
3. dash/trap.c:332 (`TrapsRun`, shell_traps).  A trap whose action is a break or
   return ends the scan for other flagged signals, with pendingsigs already
   cleared; sh.1:2052 says that the action is executed when any is received.
4. stdio/fflush.c:38 (`BufferHasWriteData`, stdio_retry).  After a partial and
   then a failing write() the count is reduced and the bytes are not moved, so
   that the next fflush() writes the wrong ones; include/stdio.h:33.

Other things the translation met, which no run states as a property:

* gzip: one byte after a member makes get_method fail with a read error that
  removes the output; handlers installed with sysv_signal work once; the
  assertion at deflate.c:390 need not hold near the end of the input, where the
  bytes past it are compared (`Garbage`) and the match cut to size afterwards.
* gzip -tf of a file that is not compressed copies it to standard output.
* dash: getjob() tests `num < njobs` (jobs.c:701), which leaves out the last
  slot and lets `%0` through to the one before the first; its search by text
  always runs to the end of the list and fails (jobs.c:716-726); the
  counter jobless can become negative after a failed fork in a pipeline; the
  test at redir.c:279 is never true.
* kinit: initrd.c:55 opens the image read-only, so the ftruncate() of
  initrd.c:47 fails; capabilities.c:172 takes the result of fwrite for an error
  code; do_mounts.c:109 never tries a mount without a type after EINVAL.
* ipconfig: an interface with the default protocols (main.c:28) and without
  broadcast is left with RARP alone, for which add_one_dev sets no state.
* run-init deletes the initramfs before it is known that realroot can be moved.
* putenv() looks for the name without its `=` and so can replace another
  variable that begins with it (putenv.c:36).
* fseek(SEEK_CUR) hands lseek() the program's offset while the descriptor is
  ahead by what is buffered (fseek.c:13); _fwrite puts the data of an unbuffered
  stream on the side that is not flushed (fwrite.c:49); fclose() ignores a
  failing flush.

## Not modelled

The definitions stand for about 6,400 of the 62,000 lines of the repository,
a tenth.  A large part of the rest has no states to check: headers with
constants of the kernel and of two dozen architectures, assembler, generated system
call stubs and build scripts.  What remains is, by size:

* dash's parser, expansion, variables and builtins: functions from text to text
  over recursive structures.  A model would be a transliteration, and this
  repository has no specification of the language to compare it with.
* zlib: an imported library that the programs modelled here do not call; its
  algorithms are those of Deflate, Trees and Inflate.
* the utilities, fstype, the string, conversion and formatting functions, the
  user database: sequential code, mostly text, without state between calls.
* nfsmount: one exchange at a time with retries of the same xid, after which
  the state is gone; Kinit takes it as a step that succeeds or fails.  Two
  things were seen in reading it: rpc_do_reply() shortens the buffer for the
  next try to the length of a bad reply, and the clean-up of nfs_mount()
  sends UMNT for the local path, not for the exported one (mount.c:332).
* process exit, signal sets and sleeping: a few lines around a system call each.

Left out of the parts that are modelled:

* gzip: standard input and `-`, symbolic links, option parsing, time stamps and
  modes, suffixes other than .gz and .tgz, set_file_type, the two-level
  tables of huft_build (only the code they stand for), a read error with
  part of the buffer filled, zip archives (CONFIG_KLIB_ZIP).  The inputs
  leave out dynamic blocks whose bit-length tree is incomplete, where
  inflate_dynamic uses a value from the previous step.
* dash: what children do, the parsing of trap and wait, job control (not built).
* ipconfig: packet layout, options, the command line, RARP.
* kinit: names of devices, md assembly, rootfstype=, the media of ramdisk_load,
  which are choices between success and failure.
* stdio: opening and closing, the list of streams, vfprintf and its callers.
* malloc: out of memory in the kernel is a refusal; no other process takes part.
