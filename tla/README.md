# Verification of the ECSE 427 projects

The repository holds three programs that share no code: a shell
(`Project 1`), a user-level threading library called SUT (`Project 2`) and a
file system called SFS with a FUSE front end (`Project 3`). This directory
specifies all three in TLA+, checks them with TLC and proves the central facts
about each of them with TLAPS.

    tlc -config sut_compute.cfg MCSut      a check
    tlapm SutProofs.tla                    a proof

## Inventory

### SUT: `Project 2/Codes/sut.c`, `queue.h`

| part | state | operations |
|---|---|---|
| C-EXEC (one or two kernel threads), I-EXEC (one) | the loop's place, `next_task` | register the descriptor, test for exit, pop, `swapcontext` in, keep the entry |
| scheduler | `ready_queue`, `wait_queue`, `entry_created_queue`, `thread_array`, `num_of_user_threads`, `is_running` | `sut_init`, `sut_create`, `sut_yield`, `sut_exit`, `sut_shutdown` |
| I/O | the `wait_queue` and the task's own stack | `sut_open`, `sut_read`, `sut_write`, `sut_close` |
| task | a chain of `ucontext`s, a new one for each switch | whatever it calls |

Interaction: main and tasks put contexts in queues, executors take them out and
swap into them; tasks swap back into the descriptor that `get_parent_thread`
finds. An I/O call is one C function of which the first half runs on a C-EXEC
and the second, after a trip through `wait_queue`, on the I-EXEC, which then
puts the task back in `ready_queue`.

What is hard: each queue has its mutex, but putting a context in a queue and
saving the registers into it (`swapcontext`) are two steps, and another kernel
thread may take it in between; the exit test of the executors takes no lock;
`thread_array` is filled in any order while it is searched; every context is
freed at the end through one queue.

What makes it right: a task runs on one executor at a time, with its own
registers; the count is the number of live tasks; executors stop when nothing is
left to do and then all of them do; queues are first come, first served; each
context is freed once.

### SFS: `Project 3/Codes/sfs_api.c`, `disk_emu.c`

| part | state | operations |
|---|---|---|
| directory | `root_dir_table`, `curr_file_index` | `sfs_fopen`, `sfs_remove`, `sfs_getnextfilename`, `sfs_getfilesize` |
| i-nodes, blocks | `i_node_table`, `free_bitmap`, indirect blocks on the disk | `sfs_fwrite`, `sfs_fread`, `sfs_remove` |
| descriptors | `fdt` | `sfs_fopen`, `sfs_fclose`, `sfs_fseek`, `sfs_remove` |
| disk | a host file of 1024 blocks of 1024 bytes, `MAX_BLOCK` | `init_fresh_disk`, `init_disk`, `read_blocks`, `write_blocks` |
| persistence | blocks 1-12 (i-nodes), 13-17 (directory), 1023 (bitmap) | `mksfs(1)`, `mksfs(0)`, saving after every call that changes a table |

The caller makes one call at a time. What is hard: sizes, pointers, the bitmap and
the saved tables must agree after any sequence of calls, including the ones the
full disk cuts short; i-nodes, entries, descriptors and blocks are reused and
their resets are incomplete (several count bytes where they mean elements); names
stay in entries that are not occupied any more; the tables are looked up by keys
another line has just cleared; some tables do not fit in their blocks.

What makes it right: no block is shared or offered while in use; every byte a
size counts has its block; what is in memory is on the disk after each call; open
descriptors stand for files; every call returns what a file system should.

### FUSE server: `fuse_wrap_old.c`, `fuse_wrap_new.c`

No state of its own. Each handler is a sequence of SFS calls: `fuse_read` and
`fuse_write` open, seek, transfer and close; `fuse_truncate` removes the file and
opens it again, whatever the size asked for; `fuse_readdir` calls
`sfs_getnextfilename` until it returns 0. The two files differ in one line: the
new one formats the file system at the start, the old one opens the one that is
there. The README of the repository says the file system has no support for
concurrent access, so requests come one at a time (`fuse -s`).

What is hard: every early return between open and close; the cursor of the
listing is shared by all; offsets past the end, which the kernel sends; the server
may die in the middle of a handler, and what it had done is on the disk.

What makes it right: no descriptor is open between requests, a listing is complete,
every handler returns, and each request has the effect of the one operation it
stands for.

### Shell: `Project 1/Codes/Project 1.c`

| part | state | operations |
|---|---|---|
| jobs | `jobIdList`, `jobIndex`, `cmdList` | `forkProcess`, `jobs`, `fg` |
| foreground | `currPid`, the shell's place in `waitpid` | `forkProcess`, `fg`, `intHandler` |
| children | the kernel's processes, and the `currPid` a child inherits until `execvp` | `userCmdHandler`, signals |

What is hard: Ctrl+C and Ctrl+Z reach the shell and all its children at any point
between `fork`, `execvp`, the assignment of `currPid` and `waitpid`; process
numbers outlive their processes and are used again; `waitpid` is called with
entries that hold no process.

What makes it right: Ctrl+C ends the job the user waits for; the prompt comes back;
`jobs` misses no running job.

### Left out

YAUThreads (a course sample nothing uses), `queue/` (an older copy of the queue
with an example), the five SUT and three SFS test programs (they are clients: the
fairness and the careful client below come from them), and the PDFs of the
assignments.

## Modules

| module | models | extends |
|---|---|---|
| `Fcfs` | the promise of SUT: cooperative tasks scheduled first come, first served | |
| `Sut` | `sut.c` and `queue.h` | |
| `SutFcfs` | the refinement mapping from `Sut` to `Fcfs` | `Sut` |
| `QueueLemmas` | what is in a queue after an insertion, a removal, a concatenation | |
| `FcfsProofs` | the invariants of `Fcfs`, proved | `Fcfs`, `QueueLemmas` |
| `SutProofs` | the inductive invariant and its consequences, that no context is lost or in two places, and that `Sut` implements `Fcfs`, proved | `SutFcfs`, `QueueLemmas` |
| `MCSut` | the symmetry set of the SUT runs | `SutFcfs` |
| `Files` | the promise of SFS: named files with a size, a position and results | |
| `Sfs` | `sfs_api.c` and the part of `disk_emu.c` it sees | |
| `SfsFiles` | the refinement mapping from `Sfs` to `Files` | `Sfs` |
| `SfsInvariants` | the inductive invariants of `Sfs` | `Sfs` |
| `MCSfs` | the symmetry set of the SFS runs | `SfsFiles`, `SfsInvariants` |
| `SfsProofs` | what one level of a read or a write, and all of them, do to a file and the free blocks; the inductive invariants of `Sfs` and what follows, proved | `SfsInvariants` |
| `SfsFilesProofs` | that `Sfs` implements `Files`, and which blocks it can lose, proved | `SfsFiles`, `SfsProofs` |
| `SfsCrash` | the writes of each call, one by one, and crashes between them | `Sfs` |
| `MCSfsCrash` | the symmetry set of its run | `SfsCrash` |
| `SfsCrashProofs` | the inductive invariants of `SfsCrash` and what follows, proved | `SfsCrash`, `SfsProofs` |
| `Volume` | the promise of a mounted file system, one step for each request | |
| `Fuse` | the FUSE handlers over SFS, with the refinement mapping to `Volume` | `Sfs` |
| `FuseInvariants` | what the handlers rely on: with `SfsInv` inductive | `Fuse`, `SfsInvariants` |
| `MCFuse` | the module of its run | `FuseInvariants` |
| `FuseProofs` | the invariants of `Fuse` and that it implements `Volume`, proved | `FuseInvariants`, `SfsFilesProofs` |
| `Shell` | the shell, its children and the signals | |
| `ShellProofs` | its inductive invariant and what follows, proved | `Shell` |

Operators marked `\* mutant` are not part of the model: each is the definition
that follows it with a plausible bug, and putting it in the place of that definition
makes TLC refute a property (PROJECT.json, "mutants").

### Sut and the code

A context is a pair `<<t, n>>`, the n-th context allocated for task `t`; it stands
for its `queue_entry` too. `epc[e]` is the place of executor `e` in its loop,
`tpc[t]` the place of task `t`, with a state for each place where another
thread can see a difference:

* `sut_create`: `CreateCount` (lines 254-257, under `num_of_user_threads_lock`)
  and `CreateInsert` (259-278), by main or by a task.
* `sut_yield`: `Yield` up to `queue_insert_tail` (285-301), then `SwapOut` (303).
* The I/O calls: `AskIo` (325-344) and `SwapOut` (347) on the C-EXEC, `ServeIo`
  (350-366) and `SwapOut` (367) on the I-EXEC. The four calls have the same
  control and differ in `Outcomes` and `Returned`.
* `sut_exit`: `ExitCount` (311-314), `ExitLeave` (316-317).
* `C_EXEC`, `I_EXEC`: `Register`, the exit test in two reads (`CheckRunning`,
  `CheckCount`), `Pop` or `PopEmpty`, `Load`, `Retire`.
* `sut_shutdown`: `Shutdown`, `Join`, `FreeEntries`.

A critical section that touches only what its mutex protects is one action. An
executor that swaps into a context whose registers are not saved yet sets
`undefined`, and the behaviour stops there, because nothing can be said of what
the processor does next: `LoadUnsaved` distinguishes continuing from the registers
of `getcontext` on a stack that is in use (`shared_stack`) from jumping through
registers nobody wrote (`uninit_context`). All other properties are therefore about
executions up to that point. `malloc` and `pthread_create` succeed (the code never
looks), and no task returns without `sut_exit` (no test program does).

### Sfs and the code

Each call is one action with all the block writes it makes; a crash is modelled
between calls (`Restart`: the tables come back from the disk, all other memory
is zero), and `Remount` is `mksfs(0)` in the same process. The model keeps
which block holds which part of a file and drops the bytes. Recursion in
`sfs_fwrite_recursive` and `sfs_fread_recursive` is a recursive function over the
number of levels; `WriteChunk` and `ReadChunk` are one level.

Arrays are functions from 0, and "none" is -1, as in the code. Accesses that C
leaves undefined end the behaviour with their kind in `undefined`: the
descriptor table searched past its end (`fdt_end`), index -1 of the entry and i-node
tables (`entry_-1`), a block number that was never read (`bad_block`). One such
access has a definite effect: `sfs_remove` looks its descriptor up with a key it
has just cleared, gets -1 and writes `fdt[-1]` (lines 731-740). What lies there
is decided by the linker. With gcc's present default (`-fno-common`) it is
`MAX_BLOCK` of `disk_emu.c`; with `-fcommon`, the default when the program was
written, it is padding. The constant `Overlay` selects one of them. The write of
`free_bitmap[-1]` (line 746) falls on padding in both builds and is left out.

`Habits` says what the client does that the test programs do not: remove a file
that is open (`RemoveOpen`), seek outside the file (`SeekOutside`), format a file
system whose last directory entry is in use (`FormatFull`). The runs `sfs` and
`sfs_crash` check a client with none of these; in the run `fuse` positions lie outside the file.

`LongNames` are the names that `sfs_fopen` refuses (line 496). `IntLimit` is one more than the
largest `int`. `sfs_fseek` takes any `int`: behind the end a write takes a new block where none belongs, or
indexes the pointers past their end; before the start it indexes `direct_ptr` with a negative number, or touches
the bytes before a buffer (`BlockAt`); and a position that passes `IntLimit` overflows (`WriteChunk`). What is not
inside the pointers of the file counts as `bad_block`.

`LoadTables` is faithful to what the tables hold afterwards but not to one detail: `mksfs(0)` reads the twelve i-node blocks,
12288 bytes, into the 11400 bytes of `i_node_table` (line 427). The 888 bytes behind it are, in the order of definition, the
start of `root_dir_table`, which line 428 reads next; another layout would put other data there, and is not modelled.

### SfsCrash and the code

`Sfs` makes a call one action. `SfsCrash` adds the sequence of `write_blocks` of each call
that changes the disk (`FopenWrites`, `FwriteWrites`, `RemoveWrites`), in the order of
the code: `allocate_a_block` saves the bitmap before a pointer to the block
exists, the fresh indirect block is written before the i-node, `sfs_remove` saves the
bitmap once per block, then i-nodes, bitmap and directory. `CutShort` leaves a proper
prefix of them on the disk, and a new process opens it. `write_blocks` flushes each block, so
nothing is reordered. A table is one write: a crash between two blocks of a table, and one
inside `mksfs(1)`, are left out.

The disk after a crash is not always good, and the client must do something about it. After
`sfs_remove` was cut short the file may still be there while the bitmap offers
its blocks to others, or its entry may refer to an i-node that is free already.
`interrupted` remembers the file: the client calls `sfs_remove` again (which may be cut short
again) before anything else, and then the disk is consistent. Without it `NoCrossLinks` fails.
After a write that was cut short, a file may have one block more than its size needs
(`torn`): a later append at a block boundary adds another one behind it, and the bytes are
found in the wrong block. `EveryByteHasBlock` says what still holds.

### Fuse and the code

`handler` is the handler that runs: the request, the file, the place of its next SFS
call and its descriptor. Each SFS call is one step (the action of `Sfs`, conjoined), so
that `Unmount`, the end of the process and a new start of the old server, may come between
any two. The behaviours of `fuse_wrap_new.c` are those without `Unmount`. The kernel looks a name up
(`fuse_getattr`) before it sends a request about it: read, write, open, truncate and
unlink get names of files, create gets others. `fuse_access` and `fuse_mknod` do nothing.

`OpenFor` returns early where the code does when `sfs_fopen` answers -1, which it does only for a name that is too long
(a full table is searched past its end instead). Such a name has 35 bytes or more and overruns the 30 of
the handler's own `filename` before `sfs_fopen` can refuse it, so there are none in `Fuse` (`LongNames = {}`): these
returns, and `sfs_fclose(-1)` in `fuse_create` and `fuse_truncate`, are not reached. The overrun itself, by paths
of 30 bytes or more, is not modelled.

The kernel's `off_t` becomes the `int` of `sfs_fseek` (lines 91 and 115): `AsInt` keeps its lower 32 bits. `Offsets` are the
kernel's, `Positions` what `sfs_fseek` gets, and `Volume` promises a write at a position, not at the offset
that was asked for.

### Shell and the code

`proc` is the kernel's table: a child is `forked` (before `execvp`, with the handlers of the
shell and the `currPid` it inherited), `running`, `stopped`, a `zombie`, or its number
is `free`, to be given to a later child. `forkProcess` is `fork`; `RecordJob` is what
the parent does next, lines 177 to 188, so that the child and signals come in between. `waitpid`
and `getline` are restarted after a handler (`signal` of glibc sets `SA_RESTART`). Ctrl+C
kills `currPid` with SIGKILL, from the shell and from each child before its `execvp`; programs die
of SIGINT or ignore it. `ListJob` is one `waitpid` of `jobs`, the last one of them with the unused
entry, which is 0 and means any child. Parsing, redirection, `cd` and `pwd` touch none
of this; of a pipe the second command is the shell's child and the first one is not
modelled.

## Checks

| run | instance | what it shows |
|---|---|---|
| `fcfs` | 3 tasks, 2 C-EXECs | The abstract scheduler keeps each task in one place (`OnePlace`), stops only when idle (`PlacedTasksAreLive`), and under its fairness starves no ready task and no request (`EveryReadyTaskRuns`), with tasks that yield for ever |
| `sut_compute` | 1 C-EXEC, 3 tasks, 3 contexts each, no I/O | No context is entered early (`OnlySavedContextsAreLoaded`), lost, freed twice or leaked (`EveryContextInOnePlace`); `sut_shutdown` returns (`ShutdownReturns`) |
| `sut_io` | 1 C-EXEC, 2 tasks, 3 contexts each, `open` and `write` | The counter is right (`CountIsLive`), `sut_shutdown` returns or something undefined happens (`ShutdownReturnsIfDefined`), and the schedule is the one of `Fcfs` (`ImplementsFcfs`) |
| `sut_two` | 2 C-EXECs, 2 tasks | `StopsOnlyWhenIdle`, `DescriptorsReady`, `OneExecutorPerTask`, and the invariant of the proofs |
| `sut_stack` | 2 C-EXECs, 2 tasks | Violated: `NoSharedStack` |
| `sut_io_context` | 1 C-EXEC, `open` | Violated: `NoEmptyContext` |
| `sfs` | 3 names and one too long, 2 entries, 6 data blocks | The structure: `LookupAgrees`, `NoCrossLinks`, `EveryByteMapped`, `FreeINodesClean`, `DiskMirrors`, `DescriptorsValid`; `BlocksStay`: a byte never moves; `LeaksAreKnown`: the three ways to lose a block; `ImplementsFiles`: each call does and returns what `Files` says; `CarefulInv`, the invariant of the proofs |
| `sfs_crash` | 2 names, 4 data blocks, seeks to 0, 1 and 3 | A crash inside a call: no shared blocks (`NoCrossLinksAfterCrash`), tables that agree (`TablesAgreeAfterCrash`), a block for every byte (`EveryByteHasBlock`), other files untouched (`CrashIsLocal`) |
| `fuse` | 3 names, 2 entries, 4 data blocks, offsets 0, 3, 6, 14, 15, 18 for ints below 8: positions 0, 3, 6, -2, -1, 2 | `NoDescriptorLeft`, `ListingComplete`, `SfsInv` in spite of positions outside the file and `FuseInv` (together the invariant of the proofs), `HandlersReturn`, and `ImplementsVolume`: each request does what it stands for, and a restart loses at most the file being truncated |
| `shell` | 3 process numbers, 4 jobs | `EveryChildListed`, `JobsComplete`, `CtrlCEndsForeground`, `PromptReturns` |
| `sfs_overlay` | `MAX_BLOCK` before `fdt` | Violated: `DiskMirrors` |
| `sfs_directory` | the saved blocks hold 1 of 2 entries | Violated: `EveryFileSaved` |

Bounds. SUT: with two tasks every pair of actors meets (two C-EXECs, the I-EXEC
and main are all there); three contexts are the first one plus one I/O call or two
yields, enough to have a task in each queue and each place and to come back to
the first. Three tasks in `sut_compute` allow a queue of length two behind a
running task. SFS: one direct and two indirect pointers, blocks of two bytes and
transfers of three make every transfer cross a boundary or end inside a block and reach the
indirect block, which is exhausted by six bytes. Six data blocks hold one full file of four and
leave two: a write to a full file loses a block while others are free, and the second file fills
the disk in the middle of a write, at a data block as well as at the indirect block. Four blocks
in `sfs_crash` and `fuse` are too few for two files of three bytes, so the disk fills there as well.
Three i-nodes are the root's and two files; the third name finds the tables full. Two names in `sfs_crash` are enough for one file to take a
block another one lost in a crash. Shell: three numbers and four jobs, so that
the number of a reaped job is given again while older entries still name it. An `int` ends at 8 (`IntLimit`), just behind the six bytes
a file can have: the offsets of `fuse` lie inside a file, at and behind its end, next to the largest `int`, and beyond, where they
come out before the start by less than a block, by a whole one, and inside the file again. The directory of the real program has 149
entries of which 116 fit in its blocks; `SavedEntries` is the number that fit.

Symmetry is used in runs without liveness, over tasks or names. In `sfs` and `sfs_crash`
a VIEW leaves out `ret`, which no action reads: TLC then explores each state of memory and disk
once, from one of the calls that lead to it, and judges every step from it with its result. (A call
that changes nothing and returns what the call before it returned passes as a stutter.)
`CHECK_DEADLOCK FALSE` appears only in `fcfs`, where the system ends when
everything has stopped; the other
modules repeat their last state once they have ended.

Fairness. In `Sut`, weak fairness of each executor and of main: the kernel
schedules every thread and the loops never block for ever (an empty queue is
polled again after a sleep). A task's steps are its executor's, so a task makes its
calls and then exits; `test1.c` to `test5.c` all do. The number of calls is
bounded by `MaxContexts`. `EveryReadyTaskRuns` is about `Fcfs`, where tasks may yield
for ever; weak fairness of dispatching and of giving the executor back is the
cooperation the library asks of its tasks. `Sfs` claims no liveness and has no
fairness: it does what it is called to do. In `Fuse`, the server goes on with the
request it handles: that is weak fairness of `HandlerStep`, written out as `<>[]Busy =>
[]<><<Served>>_fuseVars` (`HandlerStep` is enabled exactly when `Busy`) because TLC is slow
to evaluate ENABLED of it. In `Shell`, the shell is scheduled, and a user who waits for
the prompt keeps pressing Ctrl+C, because programs may run for ever; `fg` is left out of
`PromptReturns` (see below).

## Proofs

`SutAssumption` is all that is assumed: one or two C-EXECs (`num_of_CEXEC`), a finite set of tasks, any number of contexts,
any set of I/O calls. There is no bound on anything TLC bounds.

The invariants TLC checks are not inductive. `StopsOnlyWhenIdle`, for instance,
needs to know why a count of zero means that nobody is about to create a task: only
a running task or main before `sut_shutdown` can be inside `sut_create`, running
tasks are live, and the count is the number of live tasks. `SutInv` is the
conjunction of

* `TypeOK`, `CountIsLive`;
* `QueuesHoldNewest`: a queue holds the newest context of tasks that wait for that
  kind of executor, each once; a stale context would make a task run twice;
* `ExecutorsHold`: what each executor has in its hands at each place of its loop,
  and that two executors never have the same task;
* `CreationsPending`: who is creating what;
* `StopCondition`: the exit test passes only after `sut_shutdown`, with no live task;
* `Registered`: an executor has exactly one descriptor, from its first step on.

`SutProofs` has one lemma per part that a step preserves it, split by action, and
`Invariance` closes the induction. The theorems about single properties follow
from it: `TypeCorrect`, `CountCorrect`, `StopsCorrectly`, `OneExecutor`,
`DescriptorsFound`, and `ComputeOnlyIsDefined`: with one C-EXEC and no I/O nothing
undefined happens, because the only executor that could pop a context is the one
that is still running its task.

A second part adds `ContextsPlaced` and `ContextsBounded`: a context is allocated
if and only if it is in a queue, held by one executor or kept to be freed; insertion at allocation,
`queue_pop_head` and the end of the loop are the only moves. With the queues empty once
the executors have returned, what `sut_shutdown` frees is everything: `ContextsInOnePlace`.
The last part proves `Refinement`: every step of the library is a step of `Fcfs` or changes
nothing `Fcfs` sees.
`FcfsProofs` proves the two invariants of the promise itself
(`EachTaskInOnePlace`, `NothingLeftBehind`), from the types of the queues alone.

`ShellProofs` assumes `ShellAssumption`: process numbers are positive and
the number of jobs has some bound. `ShellInv` is `TypeOK`, `EveryChildListed`, `JobsComplete` and
`Foreground`: the child just forked has a process number, and while the shell waits for it that
number is `currPid`. So what Ctrl+C kills is what the shell waits for. `TypeCorrect`,
`ChildrenListed`, `JobsCorrect` and `ForegroundEnds` follow.

The theorems about `Sfs` hold for all sizes of the tables, the blocks and the disk
(`SfsAssumption`: `Seeks` may be every `int`, `Lengths` every positive one, and the bytes a file can
have are fewer than the largest `int`), under two hypotheses
about constants, the ones the runs have. `Overlay = "padding"`: with the other layout the first
`sfs_remove` stops all saving (run `sfs_overlay`). `Habits = {}`, the careful client of the test
programs; what does not depend on where the client seeks is proved for
`Habits \subseteq {"SeekOutside"}` too. With `RemoveOpen` a descriptor outlives its file, and with
`FormatFull` a directory entry outlives its i-node: the invariants are false there.

`SfsInv` (`SfsInvariants`) is the conjunction of

* `TypeOK`;
* `Directory`: the first entry with a file's name is the file's, which is what `get_file`
  needs although it ignores `occupied`; its i-node is in use and nobody else's; entries
  out of use name no i-node a file may have;
* `DiskWorks`: the disk answers, and holds the tables (`DiskMirrors`);
* `INodesClean`: `FreeINodesClean`, and i-node 0 as `mksfs` left it, because `sfs_fopen` resets
  *its* pointer;
* `Storage`: the blocks of a file, found through `indirect`, are its own, used once, not free, and its
  indirect block was written;
* `OpenFiles`: a descriptor stands for a file, and no file has two.

`CarefulInv` adds `Careful`: a file has exactly the blocks its size needs (`Mapped`), positions
are inside files, and no transfer has gone through a block number that is not there.
`EveryByteMapped` alone is not inductive: that `allocate_disk_block_to_i_node` puts a new
block into the *first* vacant slot is right only because the slots before it are set and the write is
at the end of the file, and that it is not some file's already because the bitmap
offers no block in use, of this file or another.

The transfers are recursive functions over the levels of the recursion in the code.
`SfsProofs` first shows that one level keeps the invariant of the file it
changes (`Inside` for a careful client) and touches nothing of any other (`Keeps`), and extends it to all levels by
the least level that would not (`Least`, from well-foundedness of `Nat`). It then has a lemma
for each call, and `CallStep` puts them together. From `Inductive` and
`InductiveCareful` follow `TypeCorrect`, `NeverCrossLinked`, `FreeINodesAreClean`,
`DiskIsCurrent`, `NamesFindTheirFiles`, `BytesHaveBlocks` and `DescriptorsAreValid`, and
`FilesKeepTheirBlocks`, the action property `BlocksStay`.

`SfsFilesProofs` proves that `sfs_api.c` implements `Files`. `Views` says what the caller sees of a
name: the size of the i-node some occupied entry gives it (`Named`) and the position of the descriptor
on that i-node (`Opens`), or nothing. It follows from `SfsInv` although the code finds all three
by other searches (`get_file`, `get_fd`). Each call then has a lemma that it changes the view of one file
as `Files` says and no other's (`FileUnseen`). A read must deliver all there is: every level moves at
least one byte or has come to the end of the file or of the request, so `length` levels are enough (`ReadDone`). A write conserves
position plus bytes left, and the size is the larger of the old one and the position (`Inside`): what
it reports is what the caller finds, however early the disk was full.

`Refinement` has one hypothesis about the behaviour, `[]EveryFileSaved`, and needs it: `mksfs(0)` in another process
loses the entries that `save_root_directory_table` has no room for (run `sfs_directory`).
`FewFilesAreSaved` says when it is true: a new file takes the first free entry, so the saved part
overflows only when there are more files than it holds, 116 in the program. `FewFilesRefine` combines the two, and
`SavedDirectoryRefines` is the case of a directory that is saved as a whole, as in the run `sfs`.

`OnlyKnownLeaks`, in the same module, is the action property `LeaksAreKnown`, wherever the client seeks and under the
same hypothesis: without it `mksfs(0)` forgets files, and with them all their blocks. `HoldsAll` says that a level of a write
that goes on has moved blocks from the bitmap to its file and nowhere else (`AllocationHolds`), so the union of the two
stays what it was. Only the level that ends the write may have taken a block
it then has no place for, and `RunsOut` says that the disk is then empty or the file full: `LostIs` makes that one block. Of
`sfs_remove`, `FreedAreAll` says that it frees all blocks of the file except the indirect one. `FewFilesLeakNothingElse`
and `SavedDirectoryLeaksNothingElse` are two cases in which the hypothesis is known to hold.

`FuseProofs` is about the server, for requests of any kind in any order with any offsets, those from 2 GiB on
included (`Habits \subseteq {"SeekOutside"}`), and for a process that ends between any two calls. The assumptions
`Fuse` adds are that no file is named 0, which `sfs_getnextfilename` returns behind the last file, and that no path is too
long for `filename`. A transfer that takes a block number from outside its file ends the behaviour: `VolumeNeverCrossLinked`
says that no block is in two files *until then*. A write at an offset of 2^32 - 1024 is one: it
seeks to -1024 and uses `direct_ptr[-1]`, the size, as a block number (line 584), and may write over another file's block. `NoDescriptorLeft` and
`ListingComplete` speak of the moments between requests; `FuseInv` is what they need of the others:

* `OneDescriptor`: while a handler is between `sfs_fopen` and `sfs_fclose` the descriptor it holds is open and
  the only one, so `sfs_fopen` never meets an open file, and closing leaves none; the case in question is
  `sfs_fread` and `sfs_fwrite` answering -1, where `fuse_read` and `fuse_write` return without closing;
* `ListedSoFar`: what was listed is the names of the entries before the cursor, and outside a listing the
  cursor is 0; with no file at all the cursor is not reset, but then it was not moved;
* an entry that is not in use has no name: `sfs_getnextfilename` asks only whether the *name* exists, and would
  list a file twice if its name had stayed in an old entry;
* `Prepared`: `fuse_write` writes where it has seeked to, and the file `fuse_truncate` creates again is not there.

Every step of the server is one call, so `CallStep` gives `SfsInv`; a lemma for each handler's part gives the rest
(`FuseInductive`). For `VolumeRefinement` the lemmas of `SfsFilesProofs` say what opening, removing and remounting
do to the sizes; a write needs its own (`WriteEnds`), because `Files` promises nothing about a client that has seeked past the end: what was written
is what the position moved by, and the size is the larger of the old one and the new position, *unless nothing was
written*, when it keeps the old one although the position is behind it. `FewFilesVolume` and
`SavedDirectoryVolume` replace `[]EveryFileSaved` as above.

`SfsCrashProofs` is about a process that ends between any two writes, for a client that seeks anywhere
(`Habits = {}` where bytes are counted). The writes of a call are a sequence of unbounded length, put together from those of its levels.
`Leads(S, d, w, e)` says that `w` leads from the disk `d` to `e` through disks of the set `S` only; sequences that
follow each other are joined by `LeadsOn`, and all levels of a write by `FlattenLeads`. For `sfs_fwrite` `S` is `CutOff(a, R, x)`: the
disks on which the i-node `x` of the file has the pointers it had at the start `a` and perhaps more, none of them in `R`, the
blocks of the other files, and on which no block it uses is in the bitmap. The state in memory after a level may be ahead of the disk
(the bitmap without the block it took, the i-node without the new size), which `Tracks` describes; that the
bitmap is written first, then the indirect block, and the i-node last, is what keeps each disk on the way in
`CutOff`. For `sfs_fopen` and `sfs_remove` the last write to each table decides (`WrittenIs`).

`CrashInv`, the inductive invariant, is `InvBut(Unfinished)`: `SfsInv` in which the i-node of the one file whose removal was cut short
may be free already or have blocks that are; no descriptor is open before the removal is tried again.
`CrashLoads` says that `mksfs(0)` finds it on each of these disks, and `RemoveCompletes` that a second
`sfs_remove` gives `SfsInv` again from it, whether or not the directory entry was among those that fit in the blocks.
`CrashesDoNotCrossLink` and `CrashesKeepTablesTogether` follow. `BytesInv` adds what a size promises: positions are inside files,
every slot below the size is set and the slots that are set come first (`Covered`), and a file no write was cut short of is `Mapped`. A write to
a file with one block too many keeps it `Covered`: a block is added behind all that are there, and the bytes of a
level lie in a slot that was set or has just been: `CrashesLoseNoBytes`. TLC found `CrashInv` and
`BytesInv` true on the instance of `sfs_crash`, with all entries saved and with one of two.

`CrashesAreLocal` is the action property `CrashIsLocal`, as long as every file's directory entry is saved
(`[]EveryFileSaved`, as for the refinement of `Files`: where entries are lost, a restart alone loses files);
`CrashesAreLocalWhenSaved` needs no such condition where the blocks hold the whole directory. Of a crash it is enough that
entries only disappear and that no i-node but the call's own changes (`CrashDone`): every saved entry is then still there (`SavedStay`),
`get_file` finds it, and the i-nodes of all other files are the same (`CrashLocal`). A call that ran past an array
and stopped the program there leaves `ret` as it was and counts as a crash with nothing written
(`NothingMoved`). There has to be a name, as the property gives the one that the call was about.

Only model-checked: liveness (`EveryReadyTaskRuns`, `ShutdownReturns`,
`ShutdownReturnsIfDefined`, `HandlersReturn`, `PromptReturns`). Every other property of the passing runs
is stated by a theorem. The refinements are about safety: `ImplementsFcfs` is `F!FcfsSafety`, so that `EveryReadyTaskRuns`
is a property of `Fcfs` under its own fairness and is not carried over to `Sut`.

## What disagrees with the documentation

With a run (PROJECT.json, "findings"):

* A context is in the ready queue before its registers are saved: two C-EXECs can
  execute one stack (`sut_stack`), and the C-EXEC can enter a context the
  I-EXEC has not written to (`sut_io_context`).
* `sfs_remove` may switch the disk off (`sfs_overlay`).
* The directory does not fit in its blocks (`sfs_directory`).

Without a run of their own, each visible in the model. In SUT:

* `sut_open` (line 343, and the other I/O calls) hands the task to the I-EXEC
  before it has left the C-EXEC, so two kernel threads share a stack even with
  one C-EXEC: `NoSharedStack` fails in the instance of `sut_io`.
* `sut_read` (line 522) returns NULL when exactly one byte was read: `Returned`.

In SFS:

* `sfs_remove` (line 734) never closes the descriptor of the file it removes:
  `DescriptorsValid` fails with `RemoveOpen`. It never frees the indirect block
  (line 752), and a write to a full file loses a block each time (line 320):
  `LeaksAreKnown` has a disjunct for each.
* `fdt_get_the_first_free_block` (line 359) runs past the table, and `sfs_fopen` (lines
  521-530) goes on with index -1 when the tables are full: `FopenOutOfBounds`.
* `initialize_root_directory_table` (line 129) leaves the last entry alone:
  `LookupAgrees` fails with `FormatFull`.
* `sfs_fseek` (line 712) accepts positions past the end, after which a write puts its
  block at the wrong place: `EveryByteMapped` fails with `SeekOutside`. It accepts negative ones too, after which
  a transfer indexes `direct_ptr` below its start (line 584): `BlockAt`.
* `sfs_fclose` returns 0 (line 557) where its comment (line 549) says "1 if success"; the tests take 0
  for success, and `Files` promises 0.
* `sfs_getnextfilename` (line 455) reports a name once more for each stale entry that
  still has it after `mksfs(1)`, and does not reset its cursor when there are no
  files (line 451): `Files` promises no complete listing, and `ListingComplete`
  says when one is.
* A removal or a write that a crash cut short leaves a disk the next process does not
  recognize as such: see `SfsCrash`.
* `fuse_read` and `fuse_write` (lines 91 and 115) pass an `off_t` where `sfs_fseek` takes an `int`: from 2 GiB on they
  transfer somewhere else, or outside the file: `AsInt`.
* The handlers copy the path into 30 bytes (`filename`), although `sfs_fopen` takes names of up to 34 (line 496).
* `fuse_truncate` (line 132) ignores the size: every truncation empties the file. `Volume`
  promises no more.

In the shell:

* `jobs` (line 331) looks one entry too far, where `waitpid(0, ...)` reaps any child and a job
  is listed that does not exist.
* `fg` without a number converts NULL (line 313); with one it waits for job 0 (line 317).
  If that job was stopped by Ctrl+Z, the shell waits for ever: Ctrl+C goes to the newest job.
* Ctrl+C at the prompt kills the newest job although it runs in the background, and Ctrl+C
  before a child's `execvp` kills the job started before it (line 30).

## What is left

1. SUT: a task that returns from its function instead of calling `sut_exit` (line 264).
2. SFS: a crash inside `mksfs(1)` and between the blocks of one table, after which a
   property would have to say what a zeroed or torn table may mean.
3. FUSE: two handlers at once. The repository excludes it, and the handlers share descriptors.
4. `YAUThreads`, should anything come to use it.
