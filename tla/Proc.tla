-------------------------------- MODULE Proc --------------------------------
(***************************************************************************)
(* The UoDOS process table and scheduler (src/UoDOS/proc.c), with the      *)
(* system calls that drive it (sysproc.c; sysfile.c's sys_close, sys_dup, *)
(* sys_open and sys_pipe), the trap                                        *)
(* path that preempts and kills (trap.c), the open-file reference counts   *)
(* the process table shares with file.c, and the first user program       *)
(* (init.c) that runs in the first process.                                *)
(*                                                                         *)
(* Granularity.  Every stretch of code that runs with processTable.Lock    *)
(* (or another spinlock) held runs with interrupts off on its CPU and is   *)
(* one atomic action.  Between such stretches a kernel thread may be       *)
(* preempted by the timer (trap -> yield), so each such point is a value   *)
(* of pc.  sched() hands processTable.Lock to the CPU's scheduler, and the *)
(* thread that the scheduler switches to first releases it: ptHolder       *)
(* records which CPU holds the lock across those switches.                 *)
(***************************************************************************)
EXTENDS Integers, FiniteSets, FiniteSetsExt

CONSTANTS
    CPUs,       \* the CPUs that run scheduler()
    NPROC,      \* size of the process table
    NOFILE,     \* open-file slots per process (at least 3: console 0..2)
    NFILE,      \* size of the global file table
    MaxPid,     \* bound on nextpid (the code's counter is unbounded)
    SleepTicks, \* the argument n of sys_sleep(n)
    MaxFileCalls, \* bound on the close, dup, open and pipe calls made
    KillPids,   \* the pids user programs pass to kill()
    CloseFds,   \* the descriptors user programs pass to close()
    DupFds,     \* the descriptors user programs pass to dup()
    NoSlot, NoCpu, NoChan, NoFile, TicksChan, NullCpu

ASSUME /\ NOFILE >= 3 /\ NPROC >= 2 /\ SleepTicks >= 1
       /\ KillPids \subseteq 0..MaxPid /\ CloseFds \cup DupFds \subseteq 0..NOFILE-1

Slots == 1..NPROC
Fds   == 0..NOFILE-1
Files == 1..NFILE
Pids  == 0..MaxPid

\* initialiseFirstUserProcess takes the first UNUSED slot.
InitSlot == 1

States == {"UNUSED", "EMBRYO", "SLEEPING", "RUNNABLE", "RUNNING", "ZOMBIE"}

\* Program points of a kernel thread.  The first group are points where the
\* timer may preempt it; the second are the points where sched() returns,
\* with processTable.Lock held by the CPU that switched to the thread.
Preemptible == {"user", "fork_finish", "exit"}
Resumes     == {"forkret", "yield_ret", "wait_sleep", "tick_sleep"}

VARIABLES
    state,     \* Process.State
    pid,       \* Process.ProcessId
    parent,    \* Process.Parent
    killed,    \* Process.IsKilled
    chan,      \* Process.Chan
    pc,        \* where the process's kernel thread is
    ret,       \* the point yield() returns to
    child,     \* fork(): the slot np being built by this thread
    cpuProc,   \* Cpu.Process
    schedPos,  \* scheduler(): index of the next slot the scan looks at
    ptHolder,  \* processTable.Lock.Cpu (NoCpu when free)
    nextpid,   \* nextpid
    ofile,     \* Process.OpenFile
    fileRef,   \* FileTable.File[f].ReferenceCount
    ticks,     \* ticks (trap.c)
    tick0,     \* sys_sleep's local ticks0
    initSh,    \* init.c's local pid: the shell it waits for, 0 when none
    panicked,  \* panic() was called: every CPU halts
    killReq,   \* history: every pid some kill() was called with
    fileCalls  \* close, dup, open and pipe calls made so far

vars == <<state, pid, parent, killed, chan, pc, ret, child, cpuProc, schedPos,
          ptHolder, nextpid, ofile, fileRef, ticks, tick0, initSh, panicked,
          killReq, fileCalls>>

-----------------------------------------------------------------------------
(* Helpers *)

\* s is RUNNING on its CPU; after panic() that CPU spins with interrupts off
\* and nothing runs any more.
Running(s) == state[s] = "RUNNING" /\ ~panicked

CpuOf(s) == CHOOSE c \in CPUs : cpuProc[c] = s

\* wakeup1(chan): every SLEEPING process on chan becomes RUNNABLE.
\* Its Chan is left as it was; sleep() clears it when the process runs.
wakeup1(st, ch) ==
    [p \in Slots |-> IF st[p] = "SLEEPING" /\ chan[p] = ch THEN "RUNNABLE" ELSE st[p]]

\* sched(): switch from the thread on CPU c to the CPU's scheduler, which
\* keeps processTable.Lock and clears c->Process.
SchedFrom(c) ==
    /\ cpuProc' = [cpuProc EXCEPT ![c] = NoSlot]
    /\ ptHolder' = c

\* Back in trap() after a system call: exit() if the process was killed.
AfterSyscall(k) == IF k THEN "exit" ELSE "user"

\* A thread at "user" that is about to make a system call; trap() calls
\* exit() instead when the process is already killed (trapTimer covers that).
SyscallReady(s) == Running(s) /\ pc[s] = "user" /\ ~killed[s]

FreeFiles == {f \in Files : fileRef[f] = 0}

\* A close, dup, open or pipe call is made, while fewer than MaxFileCalls
\* have been.
FileCall == fileCalls < MaxFileCalls /\ fileCalls' = fileCalls + 1

\* Reference counts after fileClose() on every open descriptor of s.
Closed(s) == [f \in Files |-> fileRef[f] - Cardinality({fd \in Fds : ofile[s][fd] = f})]

\* trap.c counts ticks only when myCpu() == 0.  myCpu() returns &cpus[i],
\* a pointer that is never 0.
MyCpu(c) == c
TimerCounts(c) == MyCpu(c) = NullCpu

-----------------------------------------------------------------------------
Init ==
    \* initialiseFirstUserProcess(): allocateProcess() takes slot 1 with
    \* pid 1 and three console descriptors sharing one File (refcount 3);
    \* the process is RUNNABLE and enters at forkret.
    /\ state    = [s \in Slots |-> IF s = InitSlot THEN "RUNNABLE" ELSE "UNUSED"]
    /\ pid      = [s \in Slots |-> IF s = InitSlot THEN 1 ELSE 0]
    /\ parent   = [s \in Slots |-> NoSlot]
    /\ killed   = [s \in Slots |-> FALSE]
    /\ chan     = [s \in Slots |-> NoChan]
    /\ pc       = [s \in Slots |-> IF s = InitSlot THEN "forkret" ELSE "user"]
    /\ ret      = [s \in Slots |-> "user"]
    /\ child    = [s \in Slots |-> NoSlot]
    /\ cpuProc  = [c \in CPUs |-> NoSlot]
    /\ schedPos = [c \in CPUs |-> 1]
    /\ ptHolder = NoCpu
    /\ nextpid  = 2
    /\ ofile    = [s \in Slots |-> [fd \in Fds |->
                      IF s = InitSlot /\ fd <= 2 THEN 1 ELSE NoFile]]
    /\ fileRef  = [f \in Files |-> IF f = 1 THEN 3 ELSE 0]
    /\ ticks    = 0
    /\ tick0    = [s \in Slots |-> 0]
    /\ initSh   = 0
    /\ panicked = FALSE
    /\ killReq  = {}
    /\ fileCalls = 0

-----------------------------------------------------------------------------
\* A variant of ScanNext that skips one slot too many.
ScanNextSkip(p) == p + 2

\* The scan's loop increment p++ after the switched-to process comes back.
ScanNext(p) == p + 1

(* scheduler(): one step of the scan of CPU c.  With the lock free the CPU  *)
(* acquires it and starts from slot 1; with the lock held (a process just   *)
(* switched back) it continues after the slot it last ran.  It runs the     *)
(* first RUNNABLE slot at or after schedPos, passing it the lock; when the  *)
(* scan reaches the end it releases the lock and starts over.               *)
scheduler(c) ==
    /\ ~panicked
    /\ cpuProc[c] = NoSlot
    /\ ptHolder \in {NoCpu, c}
    /\ LET cand == {i \in Slots : i >= schedPos[c] /\ state[i] = "RUNNABLE"}
       IN IF cand # {}
          THEN LET p == Min(cand) IN
               /\ state'    = [state EXCEPT ![p] = "RUNNING"]
               /\ cpuProc'  = [cpuProc EXCEPT ![c] = p]
               /\ schedPos' = [schedPos EXCEPT ![c] = ScanNext(p)]
               /\ ptHolder' = c
          ELSE /\ ptHolder' = NoCpu
               /\ schedPos' = [schedPos EXCEPT ![c] = 1]
               /\ UNCHANGED <<state, cpuProc>>
    /\ UNCHANGED <<fileCalls, pid, parent, killed, chan, pc, ret, child, nextpid, ofile,
                   fileRef, ticks, tick0, initSh, panicked, killReq>>

(* forkret(): a new process's first run releases the lock the scheduler     *)
(* took and returns through trapret straight to user mode.                  *)
forkret(s) ==
    /\ pc[s] = "forkret" /\ Running(s)
    /\ ptHolder = CpuOf(s)
    /\ ptHolder' = NoCpu
    /\ pc' = [pc EXCEPT ![s] = "user"]
    /\ UNCHANGED <<fileCalls, state, pid, parent, killed, chan, ret, child, cpuProc,
                   schedPos, nextpid, ofile, fileRef, ticks, tick0, initSh,
                   panicked, killReq>>

(* trap() on a timer interrupt while s runs at a preemptible point.  The    *)
(* tick branch is guarded by myCpu() == 0, which never holds.  From user    *)
(* mode a killed process exits before yielding; otherwise yield() takes     *)
(* processTable.Lock, makes s RUNNABLE and calls sched().                   *)
trapTimer(s) ==
    /\ Running(s) /\ pc[s] \in Preemptible
    /\ LET c  == CpuOf(s)
           st == IF TimerCounts(c) THEN wakeup1(state, TicksChan) ELSE state
       IN /\ ticks' = IF TimerCounts(c) THEN ticks + 1 ELSE ticks
          /\ IF pc[s] = "user" /\ killed[s]
             THEN /\ pc' = [pc EXCEPT ![s] = "exit"]
                  /\ state' = st
                  /\ UNCHANGED <<ret, cpuProc, ptHolder>>
             ELSE /\ ptHolder = NoCpu
                  /\ state' = [st EXCEPT ![s] = "RUNNABLE"]
                  /\ ret' = [ret EXCEPT ![s] = pc[s]]
                  /\ pc' = [pc EXCEPT ![s] = "yield_ret"]
                  /\ SchedFrom(c)
    /\ UNCHANGED <<fileCalls, pid, parent, killed, chan, child, schedPos, nextpid, ofile,
                   fileRef, tick0, initSh, panicked, killReq>>

(* yield() returns: release processTable.Lock; back in trap(), a process    *)
(* that was in user mode and has been killed meanwhile exits.               *)
yieldReturn(s) ==
    /\ pc[s] = "yield_ret" /\ Running(s)
    /\ ptHolder = CpuOf(s)
    /\ ptHolder' = NoCpu
    /\ pc' = [pc EXCEPT ![s] = IF ret[s] = "user" /\ killed[s] THEN "exit" ELSE ret[s]]
    /\ ret' = [ret EXCEPT ![s] = "user"]
    /\ UNCHANGED <<fileCalls, state, pid, parent, killed, chan, child, cpuProc, schedPos,
                   nextpid, ofile, fileRef, ticks, tick0, initSh, panicked,
                   killReq>>

-----------------------------------------------------------------------------
\* allocateProcess(): allocateFileStructure() gives File cf (refcount 1),
\* stored in OpenFile[0] and fileDup'ed into OpenFile[1] and OpenFile[2].
ConsoleFds(np, cf) == [fd \in Fds |-> IF fd <= 2 THEN cf ELSE ofile[np][fd]]

(* fork(), first part: allocateProcess() under processTable.Lock takes the  *)
(* first UNUSED slot, makes it EMBRYO and gives it nextpid++.  With no slot *)
(* fork() returns -1, on which init.c calls exit().  init.c forks only when *)
(* it is not waiting for a shell.                                           *)
forkAllocate(s) ==
    /\ SyscallReady(s)
    /\ s = InitSlot => initSh = 0
    /\ ptHolder = NoCpu
    /\ nextpid <= MaxPid
    /\ LET free == {i \in Slots : state[i] = "UNUSED"} IN
       IF free = {}
       THEN /\ pc' = [pc EXCEPT ![s] = IF s = InitSlot THEN "exit" ELSE "user"]
            /\ UNCHANGED <<state, pid, nextpid, child>>
       ELSE LET np == Min(free) IN
            /\ state' = [state EXCEPT ![np] = "EMBRYO"]
            /\ pid' = [pid EXCEPT ![np] = nextpid]
            /\ nextpid' = nextpid + 1
            /\ child' = [child EXCEPT ![s] = np]
            /\ pc' = [pc EXCEPT ![s] = "fork_finish"]
    /\ UNCHANGED <<fileCalls, parent, killed, chan, ret, cpuProc, schedPos, ptHolder,
                   ofile, fileRef, ticks, tick0, initSh, panicked, killReq>>

\* fork() returns to trap(): -1 on failure (init.c then exits), the child's
\* pid on success (init.c remembers it as the shell to wait for).
ForkReturn(s, ok, v, pc0) ==
    /\ pc' = [pc0 EXCEPT ![s] =
                IF killed[s] \/ (s = InitSlot /\ ~ok) THEN "exit" ELSE "user"]
    /\ initSh' = IF s = InitSlot /\ ok THEN v ELSE initSh

\* allocateProcess()'s console File: the first free one, or the null
\* pointer allocateFileStructure() returns when the table is full.
ConsoleFile == IF FreeFiles # {} THEN Min(FreeFiles) ELSE NoFile

\* The reference counts once the console File is set up: 1 and two
\* fileDup()s.  Through the null pointer nothing of the table changes.
ConsoleRefs(cf) == IF cf = NoFile THEN fileRef ELSE [fileRef EXCEPT ![cf] = 3]

(* fork(), second part, without the lock.  allocateProcess() allocates the  *)
(* kernel stack (failure: slot back to UNUSED, its pid left in place), then *)
(* a console File dup'ed into descriptors 0..2 (refcount 3).  It does not   *)
(* check for a full file table: it then writes the console's fields through *)
(* the null pointer, into the parent's user page at address 0, and         *)
(* fileDup(0) tests a ReferenceCount read from that page: below 1 it        *)
(* panics, otherwise it returns 0, so descriptors 0..2 are null.  fork()    *)
(* copies the page table (failure: kernel stack freed, slot UNUSED, the     *)
(* console File never closed), then overwrites every descriptor the parent  *)
(* has open with fileDup() of the parent's File, sets Parent, and under the *)
(* lock makes the child RUNNABLE.                                           *)
forkComplete(s) ==
    /\ pc[s] = "fork_finish" /\ Running(s)
    /\ LET np      == child[s]
           cf      == ConsoleFile
           console == ConsoleFds(np, cf)
       IN
       \/ \* allocatePhysicalMemoryPage() fails for the kernel stack
          /\ state' = [state EXCEPT ![np] = "UNUSED"]
          /\ ForkReturn(s, FALSE, -1, pc)
          /\ UNCHANGED <<parent, ofile, fileRef, ptHolder, panicked>>
       \/ \* fileDup(0) finds a ReferenceCount below 1 in user memory
          /\ cf = NoFile
          /\ panicked' = TRUE
          /\ UNCHANGED <<state, parent, ofile, fileRef, ptHolder, pc, initSh>>
       \/ \* copyProcessPageTable() fails
          /\ state' = [state EXCEPT ![np] = "UNUSED"]
          /\ ofile' = [ofile EXCEPT ![np] = console]
          /\ fileRef' = ConsoleRefs(cf)
          /\ ForkReturn(s, FALSE, -1, pc)
          /\ UNCHANGED <<parent, ptHolder, panicked>>
       \/ \* success
          /\ ptHolder = NoCpu
          /\ LET fds == [fd \in Fds |->
                           IF ofile[s][fd] # NoFile THEN ofile[s][fd] ELSE console[fd]]
             IN /\ ofile' = [ofile EXCEPT ![np] = fds]
                /\ fileRef' = [f \in Files |->
                      ConsoleRefs(cf)[f] + Cardinality({fd \in Fds : ofile[s][fd] = f})]
          /\ parent' = [parent EXCEPT ![np] = s]
          /\ state' = [state EXCEPT ![np] = "RUNNABLE"]
          /\ ForkReturn(s, TRUE, pid[np], [pc EXCEPT ![np] = "forkret"])
          /\ UNCHANGED <<ptHolder, panicked>>
    /\ UNCHANGED <<fileCalls, pid, killed, chan, ret, child, cpuProc, schedPos, nextpid,
                   ticks, tick0, killReq>>

-----------------------------------------------------------------------------
\* A variant of ExitWakeups that forgets wakeup1(curproc->Parent).
ExitWakeupsNoParent(s) ==
    IF \E p \in Slots : parent[p] = s /\ state[p] = "ZOMBIE"
    THEN wakeup1(state, InitSlot) ELSE state

\* exit()'s wakeups: wakeup1(Parent), then wakeup1(initproc) when a child
\* handed to initproc is already a ZOMBIE.
ExitWakeups(s) ==
    LET st1 == wakeup1(state, parent[s]) IN
    IF \E p \in Slots : parent[p] = s /\ state[p] = "ZOMBIE"
    THEN wakeup1(st1, InitSlot) ELSE st1

\* A variant of Reparented that leaves the children pointing at curproc.
ReparentedNot(s) == parent

\* exit(): every process whose Parent is curproc gets initproc.
Reparented(s) == [p \in Slots |-> IF parent[p] = s THEN InitSlot ELSE parent[p]]

(* exit().  Exiting initproc panics.  Otherwise: fileClose() every open     *)
(* descriptor; under processTable.Lock wakeup1(Parent); give every child to *)
(* initproc, waking initproc if such a child is already a ZOMBIE; become    *)
(* ZOMBIE and sched() never to return.                                      *)
exit(s) ==
    /\ pc[s] = "exit" /\ Running(s)
    /\ IF s = InitSlot
       THEN /\ panicked' = TRUE
            /\ UNCHANGED <<state, parent, ofile, fileRef, cpuProc, ptHolder>>
       ELSE /\ ptHolder = NoCpu
            /\ fileRef' = Closed(s)
            /\ ofile' = [ofile EXCEPT ![s] = [fd \in Fds |-> NoFile]]
            /\ parent' = Reparented(s)
            /\ state' = [ExitWakeups(s) EXCEPT ![s] = "ZOMBIE"]
            /\ SchedFrom(CpuOf(s))
            /\ UNCHANGED panicked
    /\ UNCHANGED <<fileCalls, pid, killed, chan, pc, ret, child, schedPos, nextpid, ticks,
                   tick0, initSh, killReq>>

(* One pass of wait()'s loop, with processTable.Lock held by CPU c and the  *)
(* channel function ch0.  Reap the first ZOMBIE child: free it, clear pid,  *)
(* Parent, IsKilled, make it UNUSED, release the lock, return its pid.  No  *)
(* children, or killed: release, return -1.  Otherwise sleep(curproc,       *)
(* &processTable.Lock): Chan = curproc, SLEEPING, sched().  init.c loops on *)
(* wait() until it returns its shell's pid or -1, then forks again.         *)
WaitPass(s, c, ch0) ==
    LET kids    == {p \in Slots : parent[p] = s}
        zombies == {p \in kids : state[p] = "ZOMBIE"}
    IN IF zombies # {}
       THEN LET z == Min(zombies) IN
            /\ state'    = [state EXCEPT ![z] = "UNUSED"]
            /\ pid'      = [pid EXCEPT ![z] = 0]
            /\ parent'   = [parent EXCEPT ![z] = NoSlot]
            /\ killed'   = [killed EXCEPT ![z] = FALSE]
            /\ pc'       = [pc EXCEPT ![z] = "user", ![s] = AfterSyscall(killed[s])]
            /\ ptHolder' = NoCpu
            /\ chan'     = ch0
            /\ initSh'   = IF s = InitSlot /\ pid[z] = initSh THEN 0 ELSE initSh
            /\ UNCHANGED cpuProc
       ELSE IF kids = {} \/ killed[s]
       THEN /\ pc'       = [pc EXCEPT ![s] = AfterSyscall(killed[s])]
            /\ ptHolder' = NoCpu
            /\ chan'     = ch0
            /\ initSh'   = IF s = InitSlot THEN 0 ELSE initSh
            /\ UNCHANGED <<state, pid, parent, killed, cpuProc>>
       ELSE /\ chan'  = [ch0 EXCEPT ![s] = s]
            /\ state' = [state EXCEPT ![s] = "SLEEPING"]
            /\ pc'    = [pc EXCEPT ![s] = "wait_sleep"]
            /\ SchedFrom(c)
            /\ UNCHANGED <<pid, parent, killed, initSh>>

(* sys_wait(): acquire processTable.Lock and run the loop.  init.c calls    *)
(* wait() only while it has a shell to wait for.                            *)
wait(s) ==
    /\ SyscallReady(s)
    /\ s = InitSlot => initSh # 0
    /\ ptHolder = NoCpu
    /\ WaitPass(s, CpuOf(s), chan)
    /\ UNCHANGED <<fileCalls, ret, child, schedPos, nextpid, ofile, fileRef, ticks, tick0,
                   panicked, killReq>>

(* wait() returns from sleep(): Chan cleared, the lock (taken by the CPU's  *)
(* scheduler) still held, and the loop runs again.                          *)
waitWakeup(s) ==
    /\ pc[s] = "wait_sleep" /\ Running(s)
    /\ ptHolder = CpuOf(s)
    /\ WaitPass(s, CpuOf(s), [chan EXCEPT ![s] = NoChan])
    /\ UNCHANGED <<fileCalls, ret, child, schedPos, nextpid, ofile, fileRef, ticks, tick0,
                   panicked, killReq>>

-----------------------------------------------------------------------------
\* A variant of KillWake that does not wake a sleeping victim.
KillWakeNone(t) == state

\* kill(): a SLEEPING victim becomes RUNNABLE.
KillWake(t) == [state EXCEPT ![t] = IF @ = "SLEEPING" THEN "RUNNABLE" ELSE @]

(* kill(pid), from a process other than init (init.c never calls it).      *)
(* Under processTable.Lock, the first slot whose ProcessId equals pid, in   *)
(* whatever state, gets IsKilled; a SLEEPING one becomes RUNNABLE.          *)
kill(s, x) ==
    /\ SyscallReady(s)
    /\ s # InitSlot
    /\ ptHolder = NoCpu
    /\ killReq' = killReq \cup {x}
    /\ LET hits == {p \in Slots : pid[p] = x} IN
       IF hits # {}
       THEN LET t == Min(hits) IN
            /\ killed' = [killed EXCEPT ![t] = TRUE]
            /\ state' = KillWake(t)
            /\ pc' = [pc EXCEPT ![s] = AfterSyscall(killed'[s])]
       ELSE /\ pc' = [pc EXCEPT ![s] = AfterSyscall(killed[s])]
            /\ UNCHANGED <<killed, state>>
    /\ UNCHANGED <<fileCalls, pid, parent, chan, ret, child, cpuProc, schedPos, ptHolder,
                   nextpid, ofile, fileRef, ticks, tick0, initSh, panicked>>

(* sys_close(fd): clear the descriptor and fileClose() its File (a console *)
(* File has no tag-specific teardown).  init.c never closes.                *)
sysClose(s, fd) ==
    /\ SyscallReady(s)
    /\ FileCall
    /\ s # InitSlot
    /\ ofile[s][fd] # NoFile
    /\ ofile' = [ofile EXCEPT ![s][fd] = NoFile]
    /\ fileRef' = [fileRef EXCEPT ![ofile[s][fd]] = @ - 1]
    /\ UNCHANGED <<state, pid, parent, killed, chan, pc, ret, child, cpuProc,
                   schedPos, ptHolder, nextpid, ticks, tick0, initSh, panicked,
                   killReq>>

\* fdalloc(): the lowest descriptor of s that is free, or -1.
FdAlloc(s) ==
    LET free == {fd \in Fds : ofile[s][fd] = NoFile}
    IN IF free = {} THEN -1 ELSE Min(free)

\* The other processes do not name the File a call has allocated and not
\* yet installed, and each File-table operation holds FileTable.Lock, so
\* a whole call that does not sleep is one step.  A call that fails at
\* argfd (no such descriptor) changes nothing and is a stuttering step.

(* sys_dup(fd): fdalloc() the lowest free descriptor for the same File,   *)
(* then fileDup() it.  Without a free descriptor it returns -1.  init.c   *)
(* makes no such call.                                                    *)
sysDup(s, fd) ==
    /\ SyscallReady(s)
    /\ FileCall
    /\ s # InitSlot
    /\ ofile[s][fd] # NoFile
    /\ FdAlloc(s) # -1
    /\ ofile' = [ofile EXCEPT ![s][FdAlloc(s)] = ofile[s][fd]]
    /\ fileRef' = [fileRef EXCEPT ![ofile[s][fd]] = @ + 1]
    /\ UNCHANGED <<state, pid, parent, killed, chan, pc, ret, child, cpuProc,
                   schedPos, ptHolder, nextpid, ticks, tick0, initSh, panicked,
                   killReq>>

(* sys_open(path) when fsFat12Open finds the file: its                    *)
(* fsFat12CreateFileStructure allocates a File (refcount 1), or returns 0 *)
(* with the table full, and sys_open returns -1.  fdalloc() installs the  *)
(* File; without a free descriptor sys_open fileClose()s it and returns   *)
(* -1, leaving the table as it was.  A path that is not found changes     *)
(* nothing.  The directory search sleeps on the disk, but its temporary   *)
(* File is closed before it returns and no other process names it.        *)
sysOpen(s) ==
    /\ SyscallReady(s)
    /\ FileCall
    /\ s # InitSlot
    /\ FreeFiles # {}
    /\ LET f == Min(FreeFiles) IN
       IF FdAlloc(s) # -1
       THEN /\ ofile' = [ofile EXCEPT ![s][FdAlloc(s)] = f]
            /\ fileRef' = [fileRef EXCEPT ![f] = 1]
       ELSE UNCHANGED <<ofile, fileRef>>
    /\ UNCHANGED <<state, pid, parent, killed, chan, pc, ret, child, cpuProc,
                   schedPos, ptHolder, nextpid, ticks, tick0, initSh, panicked,
                   killReq>>

\* A variant of PipeUnwind that leaves fd0 naming the closed read File.
PipeUnwindKeep(s, fd0, rf) == [ofile EXCEPT ![s][fd0] = rf]

\* sys_pipe's unwinding when fdalloc(wf) fails after fdalloc(rf) gave fd0:
\* myProcess()->OpenFile[fd0] = 0.
PipeUnwind(s, fd0, rf) == [ofile EXCEPT ![s][fd0] = NoFile]

\* pipealloc() succeeds with two free Files and the pipe's page; otherwise
\* freepiperesources() closes the Files it took and it returns -1.
PipeAllocOk(pageOk) == Cardinality(FreeFiles) >= 2 /\ pageOk

(* sys_pipe(fd): pipealloc() allocates the read File rf, the write File   *)
(* wf and the pipe's page; failing, sys_pipe returns -1.  Then fdalloc(rf) *)
(* and fdalloc(wf); if either fails, sys_pipe clears fd0 if it got one,    *)
(* fileClose()s both Files (pipeclose frees the page) and returns -1.      *)
sysPipe(s, pageOk) ==
    /\ SyscallReady(s)
    /\ FileCall
    /\ s # InitSlot
    /\ LET rf   == Min(FreeFiles)
           wf   == Min(FreeFiles \ {rf})
           fd0  == FdAlloc(s)
           rest == {fd \in Fds : ofile[s][fd] = NoFile} \ {fd0}
       IN IF ~PipeAllocOk(pageOk) \/ fd0 = -1
          THEN UNCHANGED <<ofile, fileRef>>
          ELSE IF rest = {}
          THEN /\ ofile' = PipeUnwind(s, fd0, rf)
               /\ UNCHANGED fileRef
          ELSE /\ ofile' = [ofile EXCEPT ![s][fd0] = rf, ![s][Min(rest)] = wf]
               /\ fileRef' = [fileRef EXCEPT ![rf] = 1, ![wf] = 1]
    /\ UNCHANGED <<state, pid, parent, killed, chan, pc, ret, child, cpuProc,
                   schedPos, ptHolder, nextpid, ticks, tick0, initSh, panicked,
                   killReq>>

\* sleep(&ticks, &tickslock) from sys_sleep: take processTable.Lock, drop
\* tickslock, Chan = &ticks, SLEEPING, sched().
SleepOnTicks(s, c) ==
    /\ chan' = [chan EXCEPT ![s] = TicksChan]
    /\ state' = [state EXCEPT ![s] = "SLEEPING"]
    /\ pc' = [pc EXCEPT ![s] = "tick_sleep"]
    /\ SchedFrom(c)

(* sys_sleep(n), from a process other than init: under tickslock record     *)
(* ticks0 = ticks; while ticks - ticks0 < n, return -1 if killed, else      *)
(* sleep on &ticks.  The first test always holds (n >= 1).                  *)
sysSleep(s) ==
    /\ SyscallReady(s)
    /\ s # InitSlot
    /\ ptHolder = NoCpu
    /\ tick0' = [tick0 EXCEPT ![s] = ticks]
    /\ SleepOnTicks(s, CpuOf(s))
    /\ UNCHANGED <<fileCalls, pid, parent, killed, ret, child, schedPos, nextpid, ofile,
                   fileRef, ticks, initSh, panicked, killReq>>

(* sys_sleep's sleep() returns: Chan cleared, processTable.Lock released,   *)
(* tickslock retaken, and the loop test runs again.                         *)
sysSleepWakeup(s) ==
    /\ pc[s] = "tick_sleep" /\ Running(s)
    /\ ptHolder = CpuOf(s)
    /\ IF ticks - tick0[s] < SleepTicks
       THEN IF killed[s]
            THEN /\ chan' = [chan EXCEPT ![s] = NoChan]
                 /\ pc' = [pc EXCEPT ![s] = AfterSyscall(TRUE)]
                 /\ ptHolder' = NoCpu
                 /\ UNCHANGED <<state, cpuProc>>
            ELSE SleepOnTicks(s, CpuOf(s))
       ELSE /\ chan' = [chan EXCEPT ![s] = NoChan]
            /\ pc' = [pc EXCEPT ![s] = AfterSyscall(killed[s])]
            /\ ptHolder' = NoCpu
            /\ UNCHANGED <<state, cpuProc>>
    /\ UNCHANGED <<fileCalls, pid, parent, killed, ret, child, schedPos, nextpid, ofile,
                   fileRef, ticks, tick0, initSh, panicked, killReq>>

(* panic(): interrupts off, every CPU spins for ever. *)
halted ==
    /\ panicked
    /\ UNCHANGED vars

-----------------------------------------------------------------------------
Next ==
    \/ halted
    \/ \E c \in CPUs : scheduler(c)
    \/ \E s \in Slots : forkret(s)
    \/ \E s \in Slots : trapTimer(s)
    \/ \E s \in Slots : yieldReturn(s)
    \/ \E s \in Slots : forkAllocate(s)
    \/ \E s \in Slots : forkComplete(s)
    \/ \E s \in Slots : exit(s)
    \/ \E s \in Slots : wait(s)
    \/ \E s \in Slots : waitWakeup(s)
    \/ \E s \in Slots, x \in KillPids : kill(s, x)
    \/ \E s \in Slots, fd \in CloseFds : sysClose(s, fd)
    \/ \E s \in Slots, fd \in DupFds : sysDup(s, fd)
    \/ \E s \in Slots : sysOpen(s)
    \/ \E s \in Slots, ok \in BOOLEAN : sysPipe(s, ok)
    \/ \E s \in Slots : sysSleep(s)
    \/ \E s \in Slots : sysSleepWakeup(s)

(* Fairness.  Each CPU runs scheduler() whenever it has no process.  The    *)
(* timer interrupts a running process periodically.  A kernel thread that  *)
(* holds processTable.Lock runs with interrupts off and cannot be          *)
(* preempted, so weak fairness covers its steps; fork's and exit's          *)
(* unlocked work can be preempted, but a tick is far longer than that work, *)
(* so it is strongly fair.  System calls are the user program's choice and  *)
(* carry no fairness.                                                       *)
Fairness ==
    /\ \A c \in CPUs : WF_vars(scheduler(c))
    /\ \A s \in Slots :
          /\ WF_vars(trapTimer(s))
          /\ WF_vars(forkret(s))
          /\ WF_vars(yieldReturn(s))
          /\ WF_vars(waitWakeup(s))
          /\ WF_vars(sysSleepWakeup(s))
          /\ SF_vars(forkComplete(s))
          /\ SF_vars(exit(s))

Spec == Init /\ [][Next]_vars /\ Fairness

-----------------------------------------------------------------------------
(* Properties *)

TypeOK ==
    /\ state    \in [Slots -> States]
    /\ pid      \in [Slots -> Pids]
    /\ parent   \in [Slots -> Slots \cup {NoSlot}]
    /\ killed   \in [Slots -> BOOLEAN]
    /\ chan     \in [Slots -> Slots \cup {NoChan, TicksChan}]
    /\ pc       \in [Slots -> Preemptible \cup Resumes]
    /\ ret      \in [Slots -> Preemptible]
    /\ child    \in [Slots -> Slots \cup {NoSlot}]
    /\ cpuProc  \in [CPUs -> Slots \cup {NoSlot}]
    /\ schedPos \in [CPUs -> 1..NPROC+1]
    /\ ptHolder \in CPUs \cup {NoCpu}
    /\ nextpid  \in 2..MaxPid+1
    /\ ofile    \in [Slots -> [Fds -> Files \cup {NoFile}]]
    /\ fileRef  \in [Files -> Nat]
    /\ initSh   \in Pids
    /\ panicked \in BOOLEAN
    /\ killReq  \subseteq Pids
    /\ fileCalls \in 0..MaxFileCalls

(* exit() hands every child to initproc before its caller becomes a ZOMBIE *)
(* and wait() reaps only ZOMBIEs, so the parent of every process that has  *)
(* left EMBRYO (other than initproc) is a live process that can still wait *)
(* for it: never UNUSED, never a ZOMBIE, never a slot reused since.        *)
ParentIsLive ==
    \A s \in Slots \ {InitSlot} :
        state[s] \notin {"UNUSED", "EMBRYO"} =>
            /\ parent[s] \in Slots
            /\ state[parent[s]] \in {"SLEEPING", "RUNNABLE", "RUNNING"}

(* No lost wakeup between exit() and wait(): a process asleep in wait()    *)
(* (Chan = its own slot) has no ZOMBIE child.  exit() must wake the parent *)
(* and, when it passes an already-ZOMBIE child to initproc, initproc.      *)
NoLostWaitWakeup ==
    \A s \in Slots :
        (state[s] = "SLEEPING" /\ chan[s] = s) =>
            \A p \in Slots : parent[p] = s => state[p] # "ZOMBIE"

(* kill() promises termination: a killed process that is scheduled, or    *)
(* asleep in wait() or sys_sleep(), eventually exits (becomes a ZOMBIE,    *)
(* perhaps already reaped), unless the kernel has panicked.  Killing       *)
(* initproc panics by design, so it is left out.                           *)
KilledProcessExits ==
    \A s \in Slots \ {InitSlot} :
        (killed[s] /\ state[s] \in {"SLEEPING", "RUNNABLE", "RUNNING"})
            ~> (state[s] \in {"ZOMBIE", "UNUSED"} \/ panicked)

\* The descriptors of processes in the table that name File f.
Holders(f) == {<<s, fd>> \in Slots \X Fds : state[s] # "UNUSED" /\ ofile[s][fd] = f}

(* No descriptor names a File that its reference count does not cover:   *)
(* every fileClose() is matched by a descriptor given up, so a File is    *)
(* never freed, and handed out again by allocateFileStructure(), while a  *)
(* process still holds it.  Leaked references (fork's console) are         *)
(* allowed.  sys_pipe's unwinding, sys_dup, sys_open, fork's copies and    *)
(* exit's closes of several processes must all keep this.                  *)
DescriptorsHoldReferences ==
    \A f \in Files : Cardinality(Holders(f)) <= fileRef[f]

(* A process is killed only by a kill() of its own pid: every live process *)
(* whose IsKilled is set has a pid that some kill() call named.            *)
KilledOnlyByRequest ==
    \A s \in Slots :
        (state[s] # "UNUSED" /\ killed[s]) => pid[s] \in killReq

(* spec.md section 8: the sum of ReferenceCount over the file table equals *)
(* the number of descriptors held by live processes (console Files have no *)
(* close in progress: fileClose of one is a single step).                  *)
FileRefsMatchDescriptors ==
    \A f \in Files : fileRef[f] = Cardinality(Holders(f))

=============================================================================
