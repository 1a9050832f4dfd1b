# TLA+ models of the UoDOS kernel

This directory holds TLA+ models of the UoDOS teaching kernel (`src/UoDOS/`).
They are checked with TLC. Every definition is translated from the C source.
`PROJECT.json` maps each definition to the lines it models. It also lists the
runs, the mutants that show each property can fail, the findings and the
hazards.

## 1. Inventory of the system

UoDOS is an xv6-derived kernel for 32-bit x86, with a read-only FAT12 file
system and PE executables. `main()` (kernel_main.c) initialises the
subsystems and then calls `mpmain()` on the boot processor. `mpmain()` enters
`scheduler()`. No other processor is ever started. The system therefore runs
on one CPU. Its concurrency comes from the timer interrupt, which preempts a
running process, and from processes that sleep (on the disk, a pipe, a child,
the tick counter) while others run.

| Component | Source | State | Operations | Interacts with |
|---|---|---|---|---|
| Process table, scheduler | proc.c, proc.h | slot State, ProcessId, Parent, IsKilled, Chan, OpenFile[]; nextpid; Cpu.Process; processTable.Lock | allocateProcess, fork, exit, wait, scheduler, sched, yield, forkret, sleep, wakeup, kill, growProcess | everything below; sleep/wakeup is the blocking primitive of all of them |
| Trap / syscall | trap.c, syscall.c, sysproc.c | ticks, tickslock | trap (syscall path, timer tick, killed checks, yield), syscall dispatch, sys_sleep | process table |
| First user program | init.c (user) | the shell's pid | loop: fork; exit on failure; wait | process table |
| Spinlock | spinlock.c | Locked, Cpu; per-CPU CliDepth, InterruptsEnabled | acquire, release, pushCli, popCli | every lock |
| Sleep lock | sleeplock.c | Locked, Pid | acquire (sleeps), release (wakes), isHoldingSleeplock | buffer cache |
| Buffer cache | bio.c, buf.h | NBUF buffers: Device, SectorNumber, Flags, ReferenceCount, LRU list | diskBufferGet, Read, Write, Release | IDE queue, sleep locks, FAT12 |
| IDE queue | ide.c | idequeue, idelock | ideReadWrite (sleeps), ideInterruptHandler, ideStartRequest | buffer cache, trap |
| File table | file.c, sysfile.c | NFILE Files: ReferenceCount, Type, Position | allocateFileStructure, fileDup, fileClose, fileRead/Write; sys_open, sys_close, sys_dup, sys_pipe, sys_chdir | process table, pipes, FAT12 |
| Pipes | pipe.c | ReadCount, WriteCount, ReadOpen, WriteOpen, Data | pipealloc, pipeclose, pipewrite, piperead | file table, sleep/wakeup |
| Page allocator | kalloc.c | free list, UseLock | allocate, free | VM, proc, pipes |
| Virtual memory | vm.c | page directories, page tables, Process.MemorySize | allocate/release user pages, copy, load segment | proc, exec |
| FAT12 reader | fs.c | FAT array, mount info | toDosFileName, GetNextCluster, ReadCluster, Read, Find*, Open | buffer cache, file table |
| Exec | exec.c | global imageFileHeader | exec | FAT12, VM, file table |
| Console | console.c | input ring, CGA memory and cursor, panicked | panic, consoleInterrupt, consoleRead/Write, cgaputc | trap |
| String routines | string.c | none | memset, memmove, strlen, safestrcpy, ... | console, fs, exec, proc |

**Hard behaviours.** The following are hard to test and a model checker
reaches them. `PROJECT.json` lists each one at its source line.
- Timer preemption between the locked sections of fork and exit.
- sleep/wakeup across the lock swap in `sleep()`.
- exit racing with wait.
- kill of a sleeping, an embryonic or an unused slot.
- Resource exhaustion of the process and file tables.
- Concurrent access to one buffer (two processes, the same sector).
- Disk errors.
- Pipe wrap-around and close while a peer sleeps.
- exec's error paths under memory exhaustion, interleaved with fork and
  sbrk of another process.
- exec sleeping on the disk while a global header is shared (not modelled).

## 2. Plan and status

| Module | Models | Status |
|---|---|---|
| Proc | process table, scheduler, fork/exit/wait/kill, sys_sleep, init's loop, file references | built |
| Bio | buffer cache, sleep locks, IDE queue, composed | built |
| Pipe | one pipe shared by two processes | built |
| Spinlock | spinlocks with pushCli/popCli on two CPUs, with every acquire completing under fairness | built |
| Kalloc | the in-frame free list | built; its operations are steps of Vm |
| Fat12 | FAT load, cluster chain and successive fsFat12Read calls | built |
| Console | console input ring, line editing, sleeping readers, the echo and consoleWrite on the screen of Cga | built |
| Cga, CString | cgaputc/consputc/consoleWrite on a screen; memset and memmove | built; operators used by Console |
| Vm | page tables of two processes under sbrk, fork, exec, exit and wait, over Kalloc | built; exec's header parsing and copies are inputs |
| Fat12Open | fsFat12Open loop by loop (fsGetPathPart, toDosFileName, both directory searches), then reads of the opened File | built; directory contents are constants |

The project keeps to twelve runs. Each run asks a different question. A
later sitting that adds a run must give up one of these.

## 3. Module Proc (`Proc.tla`, `MCProc.tla`)

**State.** Each field of `Process` that the scheduler touches is a function
over slots `1..NPROC`: `state`, `pid`, `parent`, `killed`, `chan` and
`ofile`. `pc` records where each process's kernel thread is. The points in
`{"user", "fork_finish", "exit"}` are where the timer may preempt it. The
points in `{"forkret", "yield_ret", "wait_sleep", "tick_sleep"}` are where
`sched()` returns into it. The rest of the state:
- `cpuProc` is `Cpu.Process`.
- `ptHolder` is the CPU holding `processTable.Lock`. `sched()` hands the lock
  to the scheduler and the switched-to thread releases it.
- `fileRef` is the File table's `ReferenceCount`.
- `ticks` and `tick0` are the tick counter and sys_sleep's `ticks0`.
- `initSh` is init.c's `pid`.
- `panicked` records a call to panic().
- `killReq` is history: the pids passed to kill().

**Actions.** Each code path that runs under a spinlock is one atomic action.
- `scheduler(c)`: one step of the scan.
- `forkret`.
- `trapTimer`: the timer branch of trap() and yield() up to sched().
- `yieldReturn`.
- `forkAllocate`: the locked part of allocateProcess.
- `forkComplete`: the rest of allocateProcess and fork. It has three
  outcomes: kernel-stack failure, page-table-copy failure and success, and
  a fourth when allocateProcess's unchecked allocateFileStructure found no
  File (proc.c:134): fileDup(0) then reads its count from user memory,
  and the model lets it panic.
- `exit`.
- `wait` and `waitWakeup`: one pass of wait's loop each.
- `kill`.
- `sysClose`, `sysDup`, `sysOpen` and `sysPipe`: the descriptor calls of
  sysfile.c. `FdAlloc` is fdalloc. sys_open's `fsFat12Open` is an input
  that finds a file whenever a File is free (Fat12Open models it).
  `sysPipe` takes pipealloc's page allocation as an input, and has the
  unwinding branch (`PipeUnwind`) where fdalloc for the write end fails.
- `sysSleep` and `sysSleepWakeup`.
- `halted`: after panic() the machine stops.

Init is the state `initialiseFirstUserProcess` leaves: slot 1 RUNNABLE with
pid 1 at forkret, and one console File with reference count 3. Slot 1 runs
init.c's loop. The other slots run arbitrary system calls (fork, exit, wait,
kill, close, dup, open, pipe, sleep) chosen nondeterministically.

Each descriptor call (close, dup, open, pipe) is one atomic step. No other
process names the File it allocates, and each File-table operation holds
FileTable.Lock; a call whose argfd fails changes nothing.

**Fairness.**
- `scheduler` and every step taken with the table lock held (forkret,
  yieldReturn, waitWakeup, sysSleepWakeup) are weakly fair. They run with
  interrupts off and cannot be preempted.
- The timer step is weakly fair. The timer fires periodically.
- The unlocked halves of fork and exit are strongly fair. They can be
  preempted, but a tick is far longer than they are, so they complete
  infinitely often when repeatedly enabled.
- System calls have no fairness. User programs need not make them.

**Bounds** (`MCProc.cfg`):
- One CPU (`main()` starts only the boot CPU).
- `NPROC = 3`: init, a shell, and one grandchild, so that reparenting to
  init happens.
- `MaxPid = 4` caps the pid counter. This allows three forks, enough to
  refill a reaped slot.
- `NOFILE = 4` and `NFILE = 4`: the file table fills after the leaked
  Files of a few forks, and a pipe can fill a process's last two
  descriptors, so both of sys_pipe's failure paths happen.
- `KillPids = {2,3,4}`: every pid a non-init process can have.
  `MCProc_killzero.cfg` adds 0.
- `CloseFds = {0}` and `DupFds = {1}`.
- `MaxFileCalls = 2` bounds the close, dup, open and pipe calls of a run.
  With two, every branch of sys_pipe and the no-File branch of fork are
  reached (checked with invariants stating that they are not); the
  liveness check does not finish within the time of a run with three.
- `SleepTicks = 1`.

### Runs

| Run | Cfg | Expect | Shows |
|---|---|---|---|
| proc_core | MCProc.cfg | pass | `ParentIsLive`: every live non-init process has a live parent; exit's reparenting keeps orphans attached to init. `NoLostWaitWakeup`: no process sleeps in wait() beside a ZOMBIE child. `DescriptorsHoldReferences`: every File has at least as many references as live descriptors name it, through dup, open, pipe and its unwinding, fork and close. `KilledProcessExits`: a killed process eventually exits. |
| proc_fileleak | MCProc_fileleak.cfg | violation | `FileRefsMatchDescriptors` fails: fork() overwrites the child's freshly allocated console File without closing it (proc.c:247). That File keeps reference count 3 for ever. |
| proc_killzero | MCProc_killzero.cfg | violation | `KilledOnlyByRequest` fails: kill(0) marks an UNUSED slot (proc.c:545), and the next process allocated there is born killed. |

trap.c:54 counts ticks only when `myCpu() == 0`, which is never true.
So ticks never advance, and sys_sleep returns only if its caller is killed.
Proc models the timer branch as the code has it. Every test that calls sleep
hangs on this bug, so it has no run of its own: its run gave way to the Vm
runs, and it stays listed as a hazard.

wakeup1 and kill leave `Chan` set on a process they make RUNNABLE. spec.md
section 3 says it is cleared. Nothing reads `Chan` of a RUNNABLE process, and
sleep() clears it when the process runs again. This is recorded here and has
no run.


## 4. Module Bio (`Bio.tla`, `MCBio.tla`)

Bio composes three components: the buffer cache (bio.c), the sleep locks
that guard the buffers (sleeplock.c) and the IDE request queue (ide.c).
Threads read sectors the way fs.c does: `diskBufferRead`, use `Data`, then
`diskBufferRelease`. Every caller passes device 0, so a buffer is named by
its sector. Nothing writes the FAT12 disk, so the contents of sector `s`
are represented by `s` itself.

**State.**
- The fields of each `DiskBuffer` are functions over `1..NBUF`:
  `sector`, `valid`, `dirty`, `refcnt`, `data`, and the sleep lock's
  `locked` and `lockPid`.
- `lru` is the list from `Head.Next` to `Head.Previous`.
- `idequeue` is the request queue; its head is on the disk.
- Each thread has `pc`, `cur` (its buffer) and `want` (its sector).
- `sleeping` is the sleep channel: a lock address or a buffer address.

**Actions.** Each stretch under one spinlock is one action:
- `diskBufferGet`: a hit, or recycling from the LRU end; panics when no
  buffer is free.
- `sleeplockAcquire`: sleeps while the lock is held.
- `diskBufferRead`: queues a request if the buffer is not VALID.
- `ideWaitLoop`: sleeps until the request is done.
- `diskBufferWrite`.
- `sleeplockRelease`: wakes the lock's sleepers.
- `diskBufferRelease`: moves the buffer to the MRU end when the count
  reaches 0.
- `ideInterruptHandler`: serves the head, sets VALID, wakes, and starts the
  next request.
- `halted`: after panic().

**Fairness.** Every thread step after the call is weakly fair, because the
timer round-robins runnable threads. The disk interrupt is weakly fair.
Starting a read carries no fairness.

**Bounds.** Three threads, two buffers and three sectors (`MCBio.cfg`). This
is one more thread than buffers, so recycling, waiting on a sleep lock and
two threads on one sector all happen.

| Run | Expect | Shows |
|---|---|---|
| bio_core | pass | `DataExclusive`: one thread at a time between acquire and release of a buffer's sleep lock. `PinnedKeepsSector`: a held buffer is never recycled. `ReadReturnsSector`: a read returns the sector's contents. `CachedUnique`: no two VALID or pinned buffers name one sector. `BufferRefsMatchHolders`: each `ReferenceCount` equals the threads holding that buffer, so the "no buffers" panic (bio.c:94) happens only when NBUF threads hold NBUF distinct buffers. `ReadCompletes`: every disk request completes. |
| bio_diskerr | violation | `ReadReturnsSector` fails when `ideWait(1)` reports an error. The handler still sets B_VALID (ide.c:140), so a buffer without the sector's data is cached and returned. |

Every buffer starts naming sector 0, not VALID. spec.md's "at most one
buffer per (dev, sector)" is therefore false in the initial state in its
literal form. `CachedUnique` states it for the buffers in use.

## 5. Module Pipe (`Pipe.tla`, `MCPipe.tla`)

Pipe models one pipe shared by every process, as sys_pipe and fork leave it.

**State.**
- `ring`, `readCount`, `writeCount`, `readOpen` and `writeOpen` are the
  fields of `Pipe`. The counters wrap modulo `Wrap`, a multiple of
  `PIPESIZE`, as 2^32 is of 512.
- `freed`: the page was given back.
- `hasR` and `hasW`: the descriptors each process holds.
- Per process: `pc`, `nreq`, `todo` and `ret` for the call in progress,
  plus `killed` and `sleeping`.
- `written` and `readSeq` are histories of the byte numbers.

**Actions.**
- `pipewrite`, then `pipewriteStep` once per sleep.
- `piperead` and `pipereadStep` in the same way.
- `closeEnd`: pipeclose through fileClose.
- `kill`.

Each step is one stretch under the pipe lock.

**Fairness.** The write and read steps are weakly fair: a woken process is
eventually scheduled.

**Bounds.** Two processes, `PIPESIZE = 2` and `Wrap = 4`, with writes of 1
and 3 bytes and at most 5 bytes in total. A 3-byte write must sleep in the
middle, and the counters wrap. Deadlock is not checked, because two user
programs may both block reading.

| Run | Expect | Shows |
|---|---|---|
| pipe_core | pass | `FifoDelivery`: bytes are read in order, without loss or duplication, across the wrap. `NoUseAfterFree`: the page is freed only when nobody is inside a pipe call. `ReaderSeesEof` and `WriterSeesClosedReader`: after a close, a sleeper on the other end returns. `KilledCallReturns`: a killed caller returns. |

**Divergence without a run.** pipewrite tests `ReadOpen` only when the
ring is full (pipe.c:104). A write into a pipe whose reader has closed
stores its bytes and returns n while there is room. spec.md section 8 says
it returns -1 "regardless of how many bytes already sat in the ring". Its
section 4.10, like the code, tests the reader only when the ring is full.
An action property stating section 8 fails on `MCPipe.cfg` within a few
steps. The project's run budget went to the console model instead.

## 6. Module Spinlock (`Spinlock.tla`, `MCSpinlock.tla`)

`Spinlock` models spinlock.c on two CPUs, each with a kernel thread and an
interrupt handler. The handler takes `IntLock` once, like tickslock and
idelock.

**State.**
- `locked` and `lkCpu` for each lock.
- `ifl` (FL_IF), `depth` (CliDepth), `intena` (InterruptsEnabled) and
  `inIntr` for each CPU.
- `pc`, `want` and `held` for each context.

**Actions.**
- An acquire is three steps. `acquire` does pushCli and the isHolding
  panic. `spin` is the exchange that finds the lock free. `record` is the
  store of `lk->Cpu`.
- `release` is one step, including popCli and its panics.
- `sti` is the scheduler loop's enable.
- `interrupt` and `iret`.

**Fairness.** `FairSpec` adds strong fairness on each `release(c, l)`
(every critical section in the kernel is finite, and a nested acquire
disables the release for a while), strong fairness on `spin` (the lock
keeps becoming free while other CPUs retake it), and weak fairness on
`record` and `iret`, which are straight-line code. No fairness is put on
`acquire`, `sti` or `interrupt`: a CPU need not take locks or interrupts.

**Bounds.** Two CPUs and three locks, acquired in increasing order. The
run does not use symmetry, because it checks a liveness property.

An earlier version had an abstract `Lock` module with one owner per lock,
checked as a refinement. The owner was derived from the auxiliary `held`
set, which the model's own guards keep consistent, so the refinement held
by construction and could not see `lk->Cpu`. It was removed.

| Run | Expect | Shows |
|---|---|---|
| spinlock_core | pass | `InterruptsOffWhileHeld`: interrupts stay off while any lock is held or being acquired, however releases nest. `NoReentryPanic`: no handler re-acquires its CPU's lock. `AcquireCompletes`: every context spinning in the xchg loop eventually gets its lock. No thread and handler deadlock, on one CPU or across two. |

spec.md section 8 states "CliDepth == 0 ⇒ the interrupt flag matches
InterruptsEnabled". The code does not keep it. After the scheduler's `sti`,
FL_IF is set while InterruptsEnabled keeps the value saved at the last
outermost pushCli. InterruptsEnabled is read only when depth returns to 0,
so nothing goes wrong. This is recorded here and has no run.

## 7. Module Kalloc (`Kalloc.tla`)

`Kalloc` models kalloc.c's free list, which is threaded through the frames.
It has no run of its own: Vm EXTENDS it and runs its two operations as steps
of the system calls that call them.

**State.**
- `mem[f]` is the first word of frame f: a frame or Null.
- `freeList` is the list head.
- `owned` is history: the frames each client holds.

**Init.** `InitHead` and `InitMem` are the list that main()'s two
`freeMemoryRange` calls leave. They are computed by the code's loop
(`RangeFrom`, `PGROUNDUP`).

**Operations.**
- `allocatePhysicalMemoryPage`: pop the head and hand the frame out.
- `freePhysicalMemoryPage`: push the frame back, with its panic test
  (`BadFree`).

**Properties (checked in mem_core).**
- `ManagedPagesExact`: the managed frames are exactly the whole pages of
  both ranges.
- `FreeListSound`: the list stays a null-terminated, repeat-free chain
  through exactly the frames nobody holds.

## 8. Module Vm (`Vm.tla`, `MCVm.tla`)

Vm models the user address spaces of vm.c, driven by the system calls that
change them:
- sbrk, through growProcess, allocateMemoryAndPageTables and
  releaseUserPages;
- fork, through allocateProcess and copyProcessPageTable;
- exec, through setupKernelVirtualMemory, allocateMemoryAndPageTables per
  section and for the stack, cleanupExec and the commit;
- exit, and wait's freeMemoryAndPageTable of a ZOMBIE.

**State.**
- `pgdir`, `kstack`, `size`, `state` and `parent` are the Process fields.
- `pde[d][i]` names the page-table frame in entry i of directory frame d.
  `pte[t][j]` names the user frame in entry j of table t.
- `pc` is the label a process is at inside its system call. `ret` is where
  allocateMemoryAndPageTables returns, or where a free loop continues.
- `nd` is the directory being built (fork's d, exec's pgdir), and `pg` is a
  frame allocated and not yet mapped. `a`, `lo` and `hi` are the loop
  address and the oldsz and newsz arguments.
- `todo` is the queue of frames freeMemoryAndPageTable still has to free,
  in the code's order (`FreeOrder`).
- `ref` is exec's `exeFile->ReferenceCount`, and `calls` counts system
  calls.

**Atomicity.** Each kalloc call holds kernelMemory.Lock, so each is one
step. The loops of vm.c therefore take one step per call, and other
processes step between them. wait() frees holding processTable.Lock with
interrupts off on the one CPU, so `Runs` stops everyone else until the
reap is done.

**Inputs.**
- `SbrkArgs` is the n of sbrk(n). `ShrinkToZero` says whether
  n = -MemorySize may be given.
- `Exes` gives each executable's section ends and the outcome of reading
  each header and segment. It also says whether argv's strings fit in the
  stack page.

**Bounds (MCVm.cfg).**
- 11 frames, `PGSIZE = 2`, `KERNBASE = 8`, `NPTE = 4` and `NPDE = 2`, so
  a user space has two page tables.
- Two processes.
- `MaxCalls = 8` system calls.
- Five executables, and `SbrkArgs = {1, -2}`.

Init takes 6 frames. An exec or a fork then needs most of what is left, so
allocation fails along many paths. The loops cross a page-table boundary.
Without fairness the properties are safety only. `CHECK_DEADLOCK FALSE` is
set because a panic halts the machine and the MaxCalls bound ends every
behaviour.

| Run | Expect | Shows |
|---|---|---|
| mem_core | pass | Checks five invariants (about 380k states). `NoFrameShared`: no frame is in two places, and every frame in use is held. `SizeMatchesMapping`: between calls a process maps exactly the pages below MemorySize. `FreeListSound` and `ManagedPagesExact` hold under all of these callers. It runs with `ShrinkToZero = FALSE`. |
| mem_oom | violation | `ErrorsUnwind` fails. In 6 states, a short section header leaks exec's new page directory (exec.c:78). |

The other bugs that `ErrorsUnwind` finds were each shown by rerunning
mem_oom with the inputs restricted:
- exec's stack or argv failure closes exeFile a second time, and fileClose
  panics (exec.c:100). Shown with only the too-long-argv executable, and
  with only the one-section executable under memory pressure.
- A failed table allocation in copyProcessPageTable leaks the copied page
  (vm.c:415). Shown with `Exes = {}`.
- sbrk to size 0 leaves MemorySize stale, so a later fork panics
  (proc.c:202). Shown with `Exes = {}` and `ShrinkToZero`.

## 9. Module Fat12 (`Fat12.tla`, `MCFat12.tla`)

Fat12 models successive `fsFat12Read` calls, through `fileRead`, on one
File made by `fsFat12CreateFileStructure`.

**Inputs.** The FAT is an input: every assignment of `EntryValues` to
three data clusters, including chains, cycles, free entries and end marks.
`FatBytes` packs it as FAT12 does. `LoadedFat` keeps what
`fsFat12Initialise` really copies into `fat`, which is only the first FAT
sector. `&fat + fatOffset` steps by the size of the whole array.

**Operators.**
- `GetNextCluster` and `Unpack12` model fsFat12GetNextCluster.
- `Sector`, `SectorCopy` and `ReadCluster` model fsFat12ReadCluster. A
  disk byte is named `<<sector, index>>`, and a byte past a buffer's
  `Data` is `Junk`.
- `Hop`, `ReadLoop` and `Fat12Read` model the two loops of fsFat12Read.
- The reference reading (`RefChain`, `ClusterBytes`, `Concat`, `Content`)
  follows the FAT entries directly.

**State.** `pos` and `eof` are File's `Position` and `Eof`. `out` is history.

**Property.** `ReadFollowsChain` covers successive reads of a regular
file. What the calls returned is the file's cluster-chain bytes in order,
`Position` counts exactly those bytes, and Eof is set exactly when
`Position` reaches FileSize. The piece that crosses FileSize is returned
whole, because fs.c:333 returns `totalRead`. So the last call may carry
bytes of the last cluster past FileSize, but never bytes of another
cluster. The File is the FD_FILE that fsFat12Open returns to `sys_read`
and `exec`. No caller creates an FD_DIR File, because both pass
`directory` 0.

**Bounds.**
- Sectors are 8 bytes, so the whole FAT fits in the first sector. With
  2-byte sectors, `fat12_core` fails `ReadFollowsChain` on the FAT-load bug
  (fs.c:55). That bug is listed as a hazard with no run: recording it
  would need a violation run of its own.
- Clusters are two sectors.
- Files are 5, 16, 23 and 40 bytes. These end mid-sector, on a sector and
  on a cluster, over chains of one to three clusters.
- Reads are whole sectors or whole clusters.
- Reads at unaligned Positions and reads of empty files are buggy in the
  code (fs.c:151, fs.c:134). They are checked by `fat12_file`.

| Run | Expect | Shows |
|---|---|---|
| fat12_core | pass | Over every FAT that gives the file its chain, reads of 8 and 16 bytes return the chain's bytes in order, Position counts them, and Eof comes exactly when Position reaches FileSize. |

The regular-file reads are checked in `fat12_file` (section 9a), on the
Files fsFat12Open returns.

## 9a. Module Fat12Open (`Fat12Open.tla`, `MCFat12Open.tla`)

Fat12Open extends Fat12 with the call that makes its File: fsFat12Open(cwd,
filename, 0), as sys_open (sysfile.c:159) and exec (exec.c:37) make it,
followed by Fat12's reads of the File it returns.

**Data.** A C string is a function from `0..n-1` to characters, which are
short strings; `NUL` is the byte 0. A directory entry is a record of its
11-byte name, attribute, FirstCluster and FileSize, and a directory is the
sequence of its entries. The tree (`Root`, `SubDir`) is a constant. The
bytes of a directory are not built: Fat12 checks how fsFat12Read reads
clusters. `pathPart` starts as `Garbage`, the stack contents the
uninitialised array may hold (all zero, or all letters).

**Operators.**
- `BuildPath`: fsFat12Open's copy of filename, or of cwd and filename.
- `GetPathPart`: fsGetPathPart. strcpy copies the whole rest of the path
  into `pathPart`, then a NUL ends the part; bytes past the copy keep their
  old value. A copy longer than 20 bytes is flagged as undefined.
- `ToDosFileName`: toDosFileName, including its reading of the three
  bytes after the dot whatever the extension's length.
- `FindInRootDirectory` and `FindInSubDirectory`: the searches. The
  subdirectory search reads through a File of Type FD_FILE and Size 0
  (fsFat12CreateFileStructure), so fsFat12Read sets Eof after one 512-byte
  piece and only `ChunkEntries` entries are compared.
- The reference is the spec's open (spec.md section 4.8): `SpecDosName`,
  `Split` on either separator, and `Walk` down the tree, where FirstCluster
  0 names the root.

**State and actions.** `openStep` is one iteration of the `while (p)` loop:
path part, search, then return a File, return 0, or go on. A failed search
returns 0; a non-directory component returns 0; an undefined step (the
overflow, or the subdirectory search's unchecked allocateFileStructure
when `fileFree` is FALSE) ends the call as "ub". `readOpened` is Fat12's
`read` on the returned File.

**Property.** `OpenReadsNamedFile`: no step is undefined; a File is
returned exactly when the spec's open finds the entry (or none is free),
for that entry; and reading an opened regular file returns its bytes.

**Bounds** (`MCFat12_file.cfg`). The root holds directory A, file B.A
(8 bytes) and empty file E; A holds ".", "..", A.B (24 bytes, two
clusters) and B. A search reads 3 entries (16 on disk), so B is beyond it.
The paths are /b.a, /a/a.b, a/a.b from cwd "/", /e, /a/b, /a/../b.a,
/b.a/b and one 22 bytes long. Sectors and clusters are those of
`MCFat12.cfg`, with every FAT that keeps the files well formed. Reads
are 3 and 8 bytes.

| Run | Expect | Shows |
|---|---|---|
| fat12_file | violation | `OpenReadsNamedFile` fails. The first trace opens /b.a with a stack of letters in pathPart: toDosFileName makes the name "B       A A" and the open finds nothing (fs.c:105). |

Restricting the paths (and zeroing `Garbage`) shows each of the other
failures, all listed in the findings and hazards:
- /a/a.b and a/a.b: not found; the stale B from the previous part's copy
  fills the extension (fs.c:105).
- /a/b: not found; B is past the first piece of A (fs.c:333).
- /a/../b.a: not found; ".." has FirstCluster 0, searched before the data
  area (fs.c:134).
- /e: the empty file's read returns bytes before the data area (fs.c:134).
- /b.a read 3 then 8 bytes: past the sector's Data and past FileSize
  (fs.c:151, fs.c:333).
- the 22-byte path: the copy overflows pathPart (fs.c:373).
- a full file table on /a/b: the subdirectory search dereferences a null
  File (fs.c:241).
Opening /b.a with a zeroed stack, and /b.a/b, agree with the spec's open.

## 10. Modules Console, Cga and CString (`Console.tla`, `Cga.tla`, `CString.tla`, `MCConsole.tla`)

Console models the console input line discipline and what it shows on the
screen. Cga holds console output as operators on a screen record
(`crt`, the CGA cells; `pos`, the cursor held in the CRT controller;
`fault`): `cgaputc` (newline, backspace, store; the panic bound; the
scroll; the blank under the cursor), `consputc` and `consoleWrite`.
CString holds string.c's `memset` and `memmove`, with both copy
directions, which the scroll calls on overlapping rows. The screen is
scaled: `COLS` columns stand for 80, `ROWS` kept rows for 24, and the
code's 23 and 25 are `ROWS - 1` and `ROWS + 1`. A cell holds a character
code. The colour attribute and the UART mirror are left out.

**State.** `buf`, `r`, `w` and `e` are `input`. The indices are uint32_t
and wrap modulo `Wrap`. `scr` is the screen; `writes` counts consoleWrite
calls.

**Actions.**
- `intr(k)` is consoleInterrupt for one key: ^U, backspace, or a stored
  byte that commits the line at a newline, a ^D or a full ring, and wakes
  the readers. Its echo is part of the step: a BACKSPACE for each byte ^U
  or backspace erases, and `consputc` of each stored byte.
- `write(p, b)` is consoleWrite from a process: under cons.Lock with
  interrupts off, so one step.
- `call`, `step` and `wake` are consoleRead: take the lock; one turn of the
  loop; resume after sleep.
- `kill` is proc.c's kill.

There is one CPU and the lock holder runs with interrupts off, so no other
step runs while `holder` is set.

**Histories.**
- `line` is the line as the user edits it.
- `committed` is the committed lines.
- `taken` is what readers took, with a ^D for each 0-byte result.
- `mixed` records that a consoleWrite came while a line was being edited.

**Fairness.** The reader's steps and resumption are weakly fair, because
the scheduler runs every runnable process. Typing has no fairness.

**Bounds.** A 2-byte ring whose indices wrap at 4, two readers, reads of 1
and 2 bytes, and five keys. This is enough to fill the ring, wrap each
index, commit in all three ways and leave a ^D behind a partial read.
The screen has 2 columns and 2 kept rows, so echo and one consoleWrite of
`y` scroll and backspace across a row boundary. It starts cleared, with
the cursor at the start of a row, where the boot message's newline
(kernel_main.c:45) leaves it.
Deadlock is not checked: readers may wait for keys that never come.

| Run | Expect | Shows |
|---|---|---|
| console_core | pass | `StreamIsTyping`: the bytes taken, the unread committed bytes and the edit area are exactly what was typed with edits applied, and each ^D reaches a reader as a 0-byte result. `NoSleepWithInput`: no reader sleeps while committed input waits. `ScreenShowsEcho`: unless a consoleWrite interleaved, the cells just before the cursor show the line being edited, through scrolls and backspaces across rows; the cursor cell and every kept cell after it are blank; cgaputc never panics. `KilledReadReturns`: a killed reader returns. |

## 11. Mutants

Every property of a passing run has a mutant in `PROJECT.json`: a variant
operator placed just before the definition it replaces, such as an
off-by-one room test, a dropped `input.r--` or a kill that does not wake.
TLC finds the property violated under the run's own cfg.

## 12. Not modelled

- Hardware initialisation, port I/O, the LAPIC, PIC, UART and keyboard
  decoding. None of them has concurrent state worth a model. Of CGA
  output, the CRT port protocol and the attribute byte are left out.
- The 25th row of CGA memory. cgaputc scrolls at row 24, so row 24 is
  never written or cleared, and text the BIOS left there stays. spec.md
  describes 80x25 text mode (its Console paragraph). A cursor the BIOS leaves on that
  row makes the first character land there while the cursor jumps up a
  row. The model starts the cursor in the kept rows, as the boot message
  leaves it.
- Page-table bit layouts and permissions (PTE_W, PTE_U, clearPTEU), the
  segment and CR3 loads of vm.c (switchToUserVirtualMemory), and the bytes
  exec copies (loadProgramSegmentIntoPageTable, copyToUserVirtualMemory).
  Vm keeps which frame each entry names, and a failing load or copy is an
  input of exec.
- The PE header parsing, and the global `imageFileHeader` that two execs
  share while they sleep on the disk (the hazard at exec.c:13). Vm takes
  an executable as an input: its section ends and the outcome of each read.
  The header reads before setupKernelVirtualMemory change no memory.
- The kernel half of each directory beyond the tables of `KPdxs`.
- An abstract allocator refinement (the free list implementing a set of
  free frames). Checked under Vm's callers, it did not finish within a
  run's time. `FreeListSound` states the correspondence as an invariant.
- The bytes of directories: Fat12Open takes a directory's entries as a
  constant. Fat12 checks the reads that fetch them.
- fsFat12Open with directory = 1. No caller passes it; the model keeps
  its check with `Directory = 0`.
- sys_chdir, which dereferences the NULL from strchr when the argument
  lacks `/` or `\` (sysfile.c:273), and sys_getcwd: the runs take cwd "/".
- fileStat and sys_fstat, a stub for non-device Files.
- The string helpers other than strlen, safestrcpy, memset and memmove.
  Also cprintf and printInt, and ^P's process dump. A constant check of
  printInt and memmove against reference numerals and moves was tried.
  TLC re-evaluates a constant invariant in every state, so it does not
  fit any run.
- The contents of user memory. A user program is represented only by the
  system calls it makes.
