--------------------------------- MODULE Vm ---------------------------------
(***************************************************************************)
(* User address spaces of UoDOS (src/UoDOS/vm.c) over the page allocator  *)
(* of Kalloc, driven by the system calls that change them: sbrk           *)
(* (growProcess), fork (allocateProcess and copyProcessPageTable), exit   *)
(* and wait (freeMemoryAndPageTable), and exec.                           *)
(*                                                                         *)
(* A page directory is a frame whose entries pde[d][i] name page-table    *)
(* frames; a page table t's entries pte[t][j] name the user frames.  The  *)
(* kernel half of every directory is reduced to the page tables of        *)
(* KPdxs, whose entries map kernel memory and no allocated frame.  The    *)
(* content of a frame not used as a table is not modelled, and a table    *)
(* frame's entries are all absent while it is free (the allocator's       *)
(* memset of a fresh table, and nothing reads a free one).                *)
(*                                                                         *)
(* Each allocatePhysicalMemoryPage and freePhysicalMemoryPage is a step   *)
(* of Kalloc (it holds kernelMemory.Lock), so the loops of vm.c are one   *)
(* step per kalloc call, and other processes run between them.  wait()   *)
(* frees a ZOMBIE's memory holding processTable.Lock, with interrupts off *)
(* on the one CPU: nobody else steps until it is done.                    *)
(***************************************************************************)
EXTENDS Kalloc

CONSTANTS
    Kern,          \* the allocator's one client, Clients = {Kern}: the kernel
    Procs,         \* processTable slots
    InitProc,      \* initproc's slot
    NoProc,
    KERNBASE,      \* user memory is [0, KERNBASE)
    NPTE,          \* NPTENTRIES: entries of a page table
    NPDE,          \* NPDENTRIES: entries of a page directory
    Wrap,          \* 2^32: MemorySize + n is uint32_t arithmetic
    SbrkArgs,      \* the n of sbrk(n)
    ShrinkToZero,  \* whether sbrk may be given n = -MemorySize
    MaxCalls,      \* system calls (sbrk, fork, exec, exit, wait) in a
                   \* behaviour
    Exes           \* executables: a sequence of sections, each the end
                   \* VirtualAddress + ActualSize and how reading its
                   \* header and data goes, and whether argv's strings
                   \* fit in the stack page

VARIABLES
    state,    \* Process.State: "UNUSED", "EMBRYO", "LIVE" or "ZOMBIE"
    kstack,   \* Process.KernelStack
    pgdir,    \* Process.PageTable
    size,     \* Process.MemorySize
    pde, pte, \* the entries of directory and table frames
    pc,       \* where each process is in its system call
    ret,      \* the caller allocateMemoryAndPageTables returns to, or
              \* where a free loop continues
    nd,       \* the directory being built (fork's d, exec's pgdir)
    pg,       \* the frame allocated and not yet mapped (mem)
    a, lo, hi,\* the loop address and the oldsz, newsz of the call
    msz,      \* exec's memorySize
    todo,     \* the frames freeMemoryAndPageTable has still to free
    child,    \* fork's np
    parent,   \* Process.Parent
    calls,    \* system calls made so far
    exe, sec, \* exec's executable and section index
    ref       \* exec's exeFile->ReferenceCount

kvars == <<freeList, mem, owned, panicked>>
vmvars == <<calls, parent, freeList, mem, owned, panicked, state, kstack, pgdir, size, pde, pte,
          pc, ret, nd, pg, a, lo, hi, msz, todo, child, exe, sec, ref>>

-----------------------------------------------------------------------------
(* Address arithmetic of mmu.h *)

TableSpan == NPTE * PGSIZE
PDX(va) == va \div TableSpan
PTX(va) == (va \div PGSIZE) % NPTE
UserPages == {k * PGSIZE : k \in 0..(KERNBASE \div PGSIZE) - 1}
KPdxs == (KERNBASE \div TableSpan)..(NPDE - 1)

EmptyDir == [i \in 0..NPDE-1 |-> Null]
EmptyTab == [j \in 0..NPTE-1 |-> Null]

TableOf(d, va) == pde[d][PDX(va)]
IsMapped(d, va) == TableOf(d, va) # Null /\ pte[TableOf(d, va)][PTX(va)] # Null
FrameOf(d, va) == pte[TableOf(d, va)][PTX(va)]
MappedPages(d) == {va \in UserPages : IsMapped(d, va)}
TablesOf(d) == {pde[d][i] : i \in 0..NPDE-1} \ {Null}

\* The frames freeMemoryAndPageTable(d) frees, in order: the user pages
\* (releaseUserPages(d, KERNBASE, 0)), each present page table by index,
\* then d.
FreeOrder(d) ==
    LET vs == SetToSortSeq(MappedPages(d), <)
        ts == SetToSortSeq({i \in 0..NPDE-1 : pde[d][i] # Null}, <)
    IN [k \in 1..Len(vs) |-> FrameOf(d, vs[k])]
         \o [k \in 1..Len(ts) |-> pde[d][ts[k]]] \o <<d>>

\* exec's executable when it is not in exec.
NoExe == [secs |-> <<>>, args |-> "ok"]

\* The directory allocateMemoryAndPageTables and releaseUserPages work on.
Dir(p) == IF ret[p] = "sbrk" THEN pgdir[p] ELSE nd[p]

\* initialiseFirstUserProcess's frames: the first InitTaken of the list.
InitTaken == 4 + Cardinality(KPdxs)
InitHeld == {Reverse(InitFrames)[i] : i \in 1..InitTaken}

-----------------------------------------------------------------------------
(* initialiseFirstUserProcess has taken, in this order, initproc's kernel *)
(* stack, its directory, the kernel page tables, the page of initcode and *)
(* its page table, from the list main() left.                             *)
VmInit ==
    LET fl   == Reverse(InitFrames)
        nk   == Cardinality(KPdxs)
        n0   == InitTaken
        ks   == SetToSortSeq(KPdxs, <)
        dir  == fl[2]
        page == fl[3 + nk]
        utab == fl[4 + nk]
    IN /\ freeList = IF Len(fl) > n0 THEN fl[n0 + 1] ELSE Null
       /\ mem = InitMem
       /\ owned = [c \in {Kern} |-> InitHeld]
       /\ panicked = FALSE
       /\ state = [p \in Procs |-> IF p = InitProc THEN "LIVE" ELSE "UNUSED"]
       /\ kstack = [p \in Procs |-> IF p = InitProc THEN fl[1] ELSE Null]
       /\ pgdir = [p \in Procs |-> IF p = InitProc THEN dir ELSE Null]
       /\ size = [p \in Procs |-> IF p = InitProc THEN PGSIZE ELSE 0]
       /\ pde = [f \in Frames |->
                   IF f # dir THEN EmptyDir
                   ELSE [i \in 0..NPDE-1 |->
                           IF i = 0 THEN utab
                           ELSE IF i \in KPdxs
                                THEN fl[2 + CHOOSE k \in 1..nk : ks[k] = i]
                                ELSE Null]]
       /\ pte = [f \in Frames |->
                   IF f = utab THEN [EmptyTab EXCEPT ![0] = page] ELSE EmptyTab]
       /\ pc = [p \in Procs |-> "idle"]
       /\ ret = [p \in Procs |-> "none"]
       /\ nd = [p \in Procs |-> Null]
       /\ pg = [p \in Procs |-> Null]
       /\ a = [p \in Procs |-> 0] /\ lo = [p \in Procs |-> 0]
       /\ hi = [p \in Procs |-> 0] /\ msz = [p \in Procs |-> 0]
       /\ todo = [p \in Procs |-> <<>>]
       /\ child = [p \in Procs |-> NoProc]
       /\ exe = [p \in Procs |-> NoExe] /\ sec = [p \in Procs |-> 0]
       /\ ref = [p \in Procs |-> 0]
       /\ calls = 0
       /\ parent = [p \in Procs |-> NoProc]

-----------------------------------------------------------------------------
(* Steps *)

\* A process steps unless the kernel has panicked or wait() is freeing
\* with processTable.Lock held in another process.
Runs(p) == /\ ~panicked
           /\ \A q \in Procs : pc[q] \in {"reap", "reaped"} => q = p

\* A system call is made, while fewer than MaxCalls have been.
Call == calls < MaxCalls /\ calls' = calls + 1

\* The locals of a finished call are dead: they are reset so that states
\* differing only in them are one.
Return(p) ==
    /\ pc' = [pc EXCEPT ![p] = "idle"]
    /\ ret' = [ret EXCEPT ![p] = "none"]
    /\ a' = [a EXCEPT ![p] = 0] /\ lo' = [lo EXCEPT ![p] = 0]
    /\ hi' = [hi EXCEPT ![p] = 0] /\ msz' = [msz EXCEPT ![p] = 0]
    /\ exe' = [exe EXCEPT ![p] = NoExe] /\ sec' = [sec EXCEPT ![p] = 0]

\* freeMemoryAndPageTable(d) begins: d is detached and the frames it
\* frees are queued in order (after those in first); its entries are
\* not read again.  Then the free loop continues at r.
StartFree(p, first, d, r) ==
    /\ todo' = [todo EXCEPT ![p] = first \o FreeOrder(d)]
    /\ pc' = [pc EXCEPT ![p] = IF r = "reaped" THEN "reap" ELSE "free"]
    /\ ret' = [ret EXCEPT ![p] = r]
    /\ pde' = [f \in Frames |-> IF f = d THEN EmptyDir ELSE pde[f]]
    /\ pte' = [f \in Frames |-> IF f \in TablesOf(d) THEN EmptyTab ELSE pte[f]]

\* cleanupExec(pgdir, exeFile): free the new directory, then close.
CleanupExec(p) ==
    /\ StartFree(p, <<>>, nd[p], "execclose")
    /\ nd' = [nd EXCEPT ![p] = Null]

\* Whether exec gives up after allocateMemoryAndPageTables returned res:
\* the allocation failed, loadProgramSegmentIntoPageTable failed, or
\* copyToUserVirtualMemory failed because argv's strings run past the
\* stack page into the guard page.  (argc >= MAXARG cannot happen:
\* sys_exec passes at most MAXARG - 1 strings.)
ExecFails(p, res) ==
    \/ ret[p] \in {"execsec", "execstack"} /\ res = 0
    \/ ret[p] = "execsec" /\ exe[p].secs[sec[p]].rd = "loadfail"
    \/ ret[p] = "execstack" /\ exe[p].args = "toolong"

(* allocateMemoryAndPageTables returns res to its caller: growProcess     *)
(* stores a non-zero size; exec loads the section and goes on to the      *)
(* next, or after the stack clears PTE_U on the guard page, pushes argv   *)
(* and commits; on failure it calls cleanupExec.                          *)
AllocReturn(p, res) ==
    /\ UNCHANGED <<state, kstack, pgdir, child, ref>>
    /\ a' = [a EXCEPT ![p] = 0] /\ lo' = [lo EXCEPT ![p] = 0]
    /\ hi' = [hi EXCEPT ![p] = 0]
    /\ CASE ret[p] = "sbrk" ->
              /\ pc' = [pc EXCEPT ![p] = "idle"]
              /\ ret' = [ret EXCEPT ![p] = "none"]
              /\ size' = IF res = 0 THEN size ELSE [size EXCEPT ![p] = res]
              /\ UNCHANGED <<pde, pte, nd, msz, todo, exe, sec>>
         [] ExecFails(p, res) ->
              /\ CleanupExec(p)
              /\ UNCHANGED <<size, msz, exe, sec>>
         [] ret[p] = "execsec" ->
              /\ pc' = [pc EXCEPT ![p] = "section"]
              /\ sec' = [sec EXCEPT ![p] = @ + 1]
              /\ msz' = [msz EXCEPT ![p] = res]
              /\ UNCHANGED <<size, pde, pte, ret, nd, todo, exe>>
         [] ret[p] = "execstack" ->
              /\ pc' = [pc EXCEPT ![p] = "commit"]
              /\ msz' = [msz EXCEPT ![p] = res]
              /\ UNCHANGED <<size, pde, pte, ret, nd, todo, exe, sec>>

(* sys_sbrk(n), n > 0: growProcess calls allocateMemoryAndPageTables(    *)
(* PageTable, MemorySize, MemorySize + n).                                *)
sbrkGrow(p, n) ==
    /\ Runs(p) /\ state[p] = "LIVE" /\ pc[p] = "idle" /\ n > 0
    /\ pc' = [pc EXCEPT ![p] = "allocate"]
    /\ ret' = [ret EXCEPT ![p] = "sbrk"]
    /\ lo' = [lo EXCEPT ![p] = size[p]]
    /\ hi' = [hi EXCEPT ![p] = (size[p] + n) % Wrap]
    /\ UNCHANGED <<kvars, state, kstack, pgdir, size, pde, pte, nd, pg, a, msz,
                   todo, child, exe, sec, ref>>
    /\ Call
    /\ UNCHANGED parent

\* A variant of ShrinkStart that rounds down.
ShrinkStartDown(newsz) == (newsz \div PGSIZE) * PGSIZE

\* releaseUserPages's a = PGROUNDUP(newsz): the first page it frees.
ShrinkStart(newsz) == PGROUNDUP(newsz)

(* sys_sbrk(n), n < 0: growProcess calls releaseUserPages(PageTable,     *)
(* MemorySize, MemorySize + n), which does nothing unless the new size is *)
(* below the old one in uint32_t arithmetic.                              *)
sbrkShrink(p, n) ==
    /\ Runs(p) /\ state[p] = "LIVE" /\ pc[p] = "idle" /\ n < 0
    /\ LET newsz == (size[p] + n) % Wrap
       IN /\ newsz < size[p]
          /\ ShrinkToZero \/ newsz # 0
          /\ pc' = [pc EXCEPT ![p] = "shrink"]
          /\ ret' = [ret EXCEPT ![p] = "sbrk"]
          /\ a' = [a EXCEPT ![p] = ShrinkStart(newsz)]
          /\ lo' = [lo EXCEPT ![p] = newsz]
          /\ hi' = [hi EXCEPT ![p] = size[p]]
    /\ UNCHANGED <<kvars, state, kstack, pgdir, size, pde, pte, nd, pg, msz,
                   todo, child, exe, sec, ref>>
    /\ Call
    /\ UNCHANGED parent

\* A variant of TooHigh that lets newsz reach KERNBASE.
TooHighOffByOne(p) == hi[p] > KERNBASE

\* allocateMemoryAndPageTables's if (newsz >= KERNBASE) return 0.
TooHigh(p) == hi[p] >= KERNBASE

(* allocateMemoryAndPageTables(pgdir, lo, hi) on entry: 0 at or above    *)
(* KERNBASE, the old size if it shrinks, else loop from PGROUNDUP(lo).    *)
allocateMemoryAndPageTables(p) ==
    /\ Runs(p) /\ pc[p] = "allocate"
    /\ IF TooHigh(p) THEN AllocReturn(p, 0)
       ELSE IF hi[p] < lo[p] THEN AllocReturn(p, lo[p])
       ELSE /\ pc' = [pc EXCEPT ![p] = "alloc"]
            /\ a' = [a EXCEPT ![p] = PGROUNDUP(lo[p])]
            /\ UNCHANGED <<state, kstack, pgdir, size, pde, pte, ret, nd, lo, hi,
                           msz, todo, child, exe, sec, ref>>
    /\ UNCHANGED <<kvars, pg>>
    /\ UNCHANGED <<calls, parent>>

\* The loop is done: return newsz.
allocDone(p) ==
    /\ Runs(p) /\ pc[p] = "alloc" /\ a[p] >= hi[p]
    /\ AllocReturn(p, hi[p])
    /\ UNCHANGED <<kvars, pg>>
    /\ UNCHANGED <<calls, parent>>

\* mem = allocatePhysicalMemoryPage() for page a.
allocPage(p) ==
    /\ Runs(p) /\ pc[p] = "alloc" /\ a[p] < hi[p]
    /\ allocatePhysicalMemoryPage(Kern)
    /\ pg' = [pg EXCEPT ![p] = freeList]
    /\ pc' = [pc EXCEPT ![p] = "map"]
    /\ UNCHANGED <<state, kstack, pgdir, size, pde, pte, ret, nd, a, lo, hi, msz,
                   todo, child, exe, sec, ref>>
    /\ UNCHANGED <<calls, parent>>

\* Out of memory: releaseUserPages(pgdir, newsz, oldsz), return 0.
allocNoPage(p) ==
    /\ Runs(p) /\ pc[p] = "alloc" /\ a[p] < hi[p] /\ freeList = Null
    /\ pc' = [pc EXCEPT ![p] = "undo"]
    /\ a' = [a EXCEPT ![p] = PGROUNDUP(lo[p])]
    /\ UNCHANGED <<kvars, state, kstack, pgdir, size, pde, pte, ret, nd, pg, lo,
                   hi, msz, todo, child, exe, sec, ref>>
    /\ UNCHANGED <<calls, parent>>

\* A variant of Mapped that keeps mem after storing it in the entry.
MappedKeepsPg(p) ==
    /\ a' = [a EXCEPT ![p] = @ + PGSIZE]
    /\ UNCHANGED pg
    /\ pc' = [pc EXCEPT ![p] = IF pc[p] = "map" THEN "alloc" ELSE "copy"]

\* After createPageTableEntries maps page a: the next page of the loop
\* (exec/sbrk) or of copyProcessPageTable's loop (fork).
Mapped(p) ==
    /\ a' = [a EXCEPT ![p] = @ + PGSIZE]
    /\ pg' = [pg EXCEPT ![p] = Null]
    /\ pc' = [pc EXCEPT ![p] = IF pc[p] = "map" THEN "alloc" ELSE "copy"]

(* createPageTableEntries(Dir, a, PGSIZE, mem) where the page table is    *)
(* present: the entry is set.  It cannot be present already ("remap"):    *)
(* both loops start at or above every page the directory maps.            *)
mapPage(p) ==
    /\ Runs(p) /\ pc[p] \in {"map", "copymap"}
    /\ TableOf(Dir(p), a[p]) # Null
    /\ pte' = [pte EXCEPT ![TableOf(Dir(p), a[p])][PTX(a[p])] = pg[p]]
    /\ Mapped(p)
    /\ UNCHANGED <<kvars, state, kstack, pgdir, size, pde, ret, nd, lo, hi, msz,
                   todo, child, exe, sec, ref>>
    /\ UNCHANGED <<calls, parent>>

\* The same where getPageTableEntry must allocate the page table.
mapNewTable(p) ==
    /\ Runs(p) /\ pc[p] \in {"map", "copymap"}
    /\ TableOf(Dir(p), a[p]) = Null
    /\ allocatePhysicalMemoryPage(Kern)
    /\ pde' = [pde EXCEPT ![Dir(p)][PDX(a[p])] = freeList]
    /\ pte' = [pte EXCEPT ![freeList] = [EmptyTab EXCEPT ![PTX(a[p])] = pg[p]]]
    /\ Mapped(p)
    /\ UNCHANGED <<state, kstack, pgdir, size, ret, nd, lo, hi, msz, todo, child,
                   exe, sec, ref>>
    /\ UNCHANGED <<calls, parent>>

(* No page table: releaseUserPages(pgdir, newsz, oldsz), then free mem,   *)
(* return 0.                                                              *)
mapNoTable(p) ==
    /\ Runs(p) /\ pc[p] = "map"
    /\ TableOf(Dir(p), a[p]) = Null /\ freeList = Null
    /\ pc' = [pc EXCEPT ![p] = "undo2"]
    /\ a' = [a EXCEPT ![p] = PGROUNDUP(lo[p])]
    /\ UNCHANGED <<kvars, state, kstack, pgdir, size, pde, pte, ret, nd, pg, lo,
                   hi, msz, todo, child, exe, sec, ref>>
    /\ UNCHANGED <<calls, parent>>

\* The mapped pages releaseUserPages has still to visit: from a up to
\* oldsz (hi).  Absent tables and entries are skipped without a step.
ReleaseRange(p) == {v \in MappedPages(Dir(p)) : a[p] <= v /\ v < hi[p]}

(* releaseUserPages: free the next mapped page and clear its entry.       *)
releaseUserPages(p) ==
    /\ Runs(p) /\ pc[p] \in {"undo", "undo2", "shrink"}
    /\ ReleaseRange(p) # {}
    /\ LET v == Min(ReleaseRange(p))
       IN /\ freePhysicalMemoryPage(Kern, FrameOf(Dir(p), v))
          /\ pte' = [pte EXCEPT ![TableOf(Dir(p), v)][PTX(v)] = Null]
          /\ a' = [a EXCEPT ![p] = v + PGSIZE]
    /\ UNCHANGED <<state, kstack, pgdir, size, pde, pc, ret, nd, pg, lo, hi, msz,
                   todo, child, exe, sec, ref>>
    /\ UNCHANGED <<calls, parent>>

\* The roll-back after no frame: return 0.
undoDone(p) ==
    /\ Runs(p) /\ pc[p] = "undo" /\ ReleaseRange(p) = {}
    /\ AllocReturn(p, 0)
    /\ UNCHANGED <<kvars, pg>>
    /\ UNCHANGED <<calls, parent>>

\* The roll-back after no page table: freePhysicalMemoryPage(mem), return 0.
undo2Done(p) ==
    /\ Runs(p) /\ pc[p] = "undo2" /\ ReleaseRange(p) = {}
    /\ freePhysicalMemoryPage(Kern, pg[p])
    /\ pg' = [pg EXCEPT ![p] = Null]
    /\ AllocReturn(p, 0)
    /\ UNCHANGED <<calls, parent>>

(* growProcess after releaseUserPages returned newsz: a result of 0 is     *)
(* taken for failure and MemorySize is left as it was.                     *)
shrinkDone(p) ==
    /\ Runs(p) /\ pc[p] = "shrink" /\ ReleaseRange(p) = {}
    /\ size' = IF lo[p] = 0 THEN size ELSE [size EXCEPT ![p] = lo[p]]
    /\ Return(p)
    /\ UNCHANGED <<kvars, state, kstack, pgdir, pde, pte, nd, pg, todo, child,
                   ref>>
    /\ UNCHANGED <<calls, parent>>

(* freeMemoryAndPageTable's loop: free the next queued frame; after the   *)
(* last, continue at ret.                                                 *)
freeStep(p) ==
    /\ Runs(p) /\ pc[p] \in {"free", "reap"} /\ todo[p] # <<>>
    /\ freePhysicalMemoryPage(Kern, Head(todo[p]))
    /\ todo' = [todo EXCEPT ![p] = Tail(@)]
    /\ IF Len(todo[p]) = 1
       THEN /\ pc' = [pc EXCEPT ![p] = ret[p]]
            /\ ret' = [ret EXCEPT ![p] = "none"]
       ELSE UNCHANGED <<pc, ret>>
    /\ UNCHANGED <<state, kstack, pgdir, size, pde, pte, nd, pg, a, lo, hi, msz,
                   child, exe, sec, ref>>
    /\ UNCHANGED <<calls, parent>>


(* fork(): allocateProcess takes an UNUSED slot and its kernel stack (with *)
(* no frame it gives the slot back, changing nothing here); then          *)
(* copyProcessPageTable(PageTable, MemorySize) calls                      *)
(* setupKernelVirtualMemory.                                              *)
fork(p, c) ==
    /\ Runs(p) /\ state[p] = "LIVE" /\ pc[p] = "idle" /\ state[c] = "UNUSED"
    /\ allocatePhysicalMemoryPage(Kern)
    /\ kstack' = [kstack EXCEPT ![c] = freeList]
    /\ state' = [state EXCEPT ![c] = "EMBRYO"]
    /\ child' = [child EXCEPT ![p] = c]
    /\ pc' = [pc EXCEPT ![p] = "newdir"]
    /\ ret' = [ret EXCEPT ![p] = "fork"]
    /\ UNCHANGED <<pgdir, size, pde, pte, nd, pg, a, lo, hi, msz, todo, exe, sec,
                   ref>>
    /\ Call
    /\ UNCHANGED parent

(* exec(path, argv): the file opens with one reference and its headers    *)
(* are read (a failure there closes it and returns -1, changing nothing   *)
(* here); then setupKernelVirtualMemory.                                  *)
exec(p, x) ==
    /\ Runs(p) /\ state[p] = "LIVE" /\ pc[p] = "idle"
    /\ exe' = [exe EXCEPT ![p] = x]
    /\ ref' = [ref EXCEPT ![p] = 1]
    /\ pc' = [pc EXCEPT ![p] = "newdir"]
    /\ ret' = [ret EXCEPT ![p] = "exec"]
    /\ UNCHANGED <<kvars, state, kstack, pgdir, size, pde, pte, nd, pg, a, lo, hi,
                   msz, todo, child, sec>>
    /\ Call
    /\ UNCHANGED parent

\* Where a failed setupKernelVirtualMemory returns to: fork frees the
\* kernel stack, exec closes the file.
KvmFailed(p) == IF ret[p] = "exec" THEN "execclose" ELSE "forkfail"

\* setupKernelVirtualMemory: the directory is allocated and zeroed.
setupKernelVirtualMemory(p) ==
    /\ Runs(p) /\ pc[p] = "newdir"
    /\ allocatePhysicalMemoryPage(Kern)
    /\ nd' = [nd EXCEPT ![p] = freeList]
    /\ pc' = [pc EXCEPT ![p] = "kvm"]
    /\ UNCHANGED <<state, kstack, pgdir, size, pde, pte, ret, pg, a, lo, hi, msz,
                   todo, child, exe, sec, ref>>
    /\ UNCHANGED <<calls, parent>>

\* No frame for the directory: return 0.
setupNoDir(p) ==
    /\ Runs(p) /\ pc[p] = "newdir" /\ freeList = Null
    /\ pc' = [pc EXCEPT ![p] = KvmFailed(p)]
    /\ UNCHANGED <<kvars, state, kstack, pgdir, size, pde, pte, ret, nd, pg, a,
                   lo, hi, msz, todo, child, exe, sec, ref>>
    /\ UNCHANGED <<calls, parent>>

MissingKTables(p) == {i \in KPdxs : pde[nd[p]][i] = Null}

\* createPageTableEntries for the kernel map allocates the next kernel
\* page table.
kvmTable(p) ==
    /\ Runs(p) /\ pc[p] = "kvm" /\ MissingKTables(p) # {}
    /\ allocatePhysicalMemoryPage(Kern)
    /\ pde' = [pde EXCEPT ![nd[p]][Min(MissingKTables(p))] = freeList]
    /\ UNCHANGED <<state, kstack, pgdir, size, pte, pc, ret, nd, pg, a, lo, hi,
                   msz, todo, child, exe, sec, ref>>
    /\ UNCHANGED <<calls, parent>>

\* No frame for it: freeMemoryAndPageTable(pgdir), return 0.
kvmNoTable(p) ==
    /\ Runs(p) /\ pc[p] = "kvm" /\ MissingKTables(p) # {} /\ freeList = Null
    /\ StartFree(p, <<>>, nd[p], KvmFailed(p))
    /\ nd' = [nd EXCEPT ![p] = Null]
    /\ UNCHANGED <<kvars, state, kstack, pgdir, size, pg, a, lo, hi, msz, child,
                   exe, sec, ref>>
    /\ UNCHANGED <<calls, parent>>

\* The kernel map is in place: exec starts its section loop with
\* memorySize 0, fork its copy loop at 0.
kvmDone(p) ==
    /\ Runs(p) /\ pc[p] = "kvm" /\ MissingKTables(p) = {}
    /\ pc' = [pc EXCEPT ![p] = IF ret[p] = "exec" THEN "section" ELSE "copy"]
    /\ sec' = [sec EXCEPT ![p] = IF ret[p] = "exec" THEN 1 ELSE 0]
    /\ UNCHANGED <<kvars, state, kstack, pgdir, size, pde, pte, ret, nd, pg, a,
                   lo, hi, msz, todo, child, exe, ref>>
    /\ UNCHANGED <<calls, parent>>

Section(p) == exe[p].secs[sec[p]]

(* exec reads section sec's header; short, it closes the file and returns *)
(* -1, and pgdir is never freed.  Its frames stay held; their entries are *)
(* never read again and are cleared.                                      *)
execShortHeader(p) ==
    /\ Runs(p) /\ pc[p] = "section" /\ sec[p] <= Len(exe[p].secs)
    /\ Section(p).rd = "short"
    /\ ref' = [ref EXCEPT ![p] = @ - 1]
    /\ nd' = [nd EXCEPT ![p] = Null]
    /\ pde' = [f \in Frames |-> IF f = nd[p] THEN EmptyDir ELSE pde[f]]
    /\ pte' = [f \in Frames |-> IF f \in TablesOf(nd[p]) THEN EmptyTab ELSE pte[f]]
    /\ Return(p)
    /\ UNCHANGED <<kvars, state, kstack, pgdir, size, pg, todo, child>>
    /\ UNCHANGED <<calls, parent>>

\* memorySize = allocateMemoryAndPageTables(pgdir, memorySize, end).
execSection(p) ==
    /\ Runs(p) /\ pc[p] = "section" /\ sec[p] <= Len(exe[p].secs)
    /\ Section(p).rd # "short"
    /\ pc' = [pc EXCEPT ![p] = "allocate"]
    /\ ret' = [ret EXCEPT ![p] = "execsec"]
    /\ lo' = [lo EXCEPT ![p] = msz[p]]
    /\ hi' = [hi EXCEPT ![p] = Section(p).end]
    /\ UNCHANGED <<kvars, state, kstack, pgdir, size, pde, pte, nd, pg, a, msz,
                   todo, child, exe, sec, ref>>
    /\ UNCHANGED <<calls, parent>>

(* After the sections exec closes the file, rounds memorySize up and      *)
(* allocates the guard and stack pages above it.                          *)
execStack(p) ==
    /\ Runs(p) /\ pc[p] = "section" /\ sec[p] > Len(exe[p].secs)
    /\ ref' = [ref EXCEPT ![p] = @ - 1]
    /\ msz' = [msz EXCEPT ![p] = PGROUNDUP(@)]
    /\ pc' = [pc EXCEPT ![p] = "allocate"]
    /\ ret' = [ret EXCEPT ![p] = "execstack"]
    /\ lo' = [lo EXCEPT ![p] = PGROUNDUP(msz[p])]
    /\ hi' = [hi EXCEPT ![p] = PGROUNDUP(msz[p]) + 2 * PGSIZE]
    /\ UNCHANGED <<kvars, state, kstack, pgdir, size, pde, pte, nd, pg, a, todo,
                   child, exe, sec>>
    /\ UNCHANGED <<calls, parent>>

\* fileClose's if (f->ReferenceCount < 1) panic("fileClose").
FileClosePanics(p) == ref[p] < 1

(* fileClose(exeFile) after a failed setupKernelVirtualMemory or in       *)
(* cleanupExec, then return -1.                                           *)
execClose(p) ==
    /\ Runs(p) /\ pc[p] = "execclose"
    /\ IF FileClosePanics(p)
       THEN /\ panicked' = TRUE
            /\ UNCHANGED <<ref, pc, ret, a, lo, hi, msz, exe, sec>>
       ELSE /\ ref' = [ref EXCEPT ![p] = @ - 1]
            /\ Return(p)
            /\ UNCHANGED panicked
    /\ UNCHANGED <<freeList, mem, owned, state, kstack, pgdir, size, pde, pte, nd,
                   pg, todo, child>>
    /\ UNCHANGED <<calls, parent>>

(* exec commits: PageTable = pgdir, MemorySize = memorySize, then         *)
(* freeMemoryAndPageTable(oldpgdir).                                      *)
execCommit(p) ==
    /\ Runs(p) /\ pc[p] = "commit"
    /\ pgdir' = [pgdir EXCEPT ![p] = nd[p]]
    /\ size' = [size EXCEPT ![p] = msz[p]]
    /\ nd' = [nd EXCEPT ![p] = Null]
    /\ StartFree(p, <<>>, pgdir[p], "idle")
    /\ msz' = [msz EXCEPT ![p] = 0]
    /\ exe' = [exe EXCEPT ![p] = NoExe]
    /\ sec' = [sec EXCEPT ![p] = 0]
    /\ UNCHANGED <<kvars, state, kstack, pg, a, lo, hi, child, ref>>
    /\ UNCHANGED <<calls, parent>>

(* copyProcessPageTable at i = a below the parent's MemorySize: the      *)
(* parent's entry must exist and be present, or the kernel panics; then   *)
(* mem = allocatePhysicalMemoryPage().                                    *)
copyPage(p) ==
    /\ Runs(p) /\ pc[p] = "copy" /\ a[p] < size[p]
    /\ IF ~IsMapped(pgdir[p], a[p])
       THEN /\ panicked' = TRUE
            /\ UNCHANGED <<freeList, mem, owned, pg, pc>>
       ELSE /\ allocatePhysicalMemoryPage(Kern)
            /\ pg' = [pg EXCEPT ![p] = freeList]
            /\ pc' = [pc EXCEPT ![p] = "copymap"]
    /\ UNCHANGED <<state, kstack, pgdir, size, pde, pte, ret, nd, a, lo, hi, msz,
                   todo, child, exe, sec, ref>>
    /\ UNCHANGED <<calls, parent>>

\* No frame: freeMemoryAndPageTable(d), return 0.
copyNoPage(p) ==
    /\ Runs(p) /\ pc[p] = "copy" /\ a[p] < size[p]
    /\ IsMapped(pgdir[p], a[p]) /\ freeList = Null
    /\ StartFree(p, <<>>, nd[p], "forkfail")
    /\ nd' = [nd EXCEPT ![p] = Null]
    /\ UNCHANGED <<kvars, state, kstack, pgdir, size, pg, a, lo, hi, msz, child,
                   exe, sec, ref>>
    /\ UNCHANGED <<calls, parent>>

(* No frame for d's page table: freeMemoryAndPageTable(d), return 0.  mem *)
(* is in no table and nobody frees it.                                    *)
copyNoTable(p) ==
    /\ Runs(p) /\ pc[p] = "copymap"
    /\ TableOf(nd[p], a[p]) = Null /\ freeList = Null
    /\ StartFree(p, <<>>, nd[p], "forkfail")
    /\ nd' = [nd EXCEPT ![p] = Null]
    /\ pg' = [pg EXCEPT ![p] = Null]
    /\ UNCHANGED <<kvars, state, kstack, pgdir, size, a, lo, hi, msz, child, exe,
                   sec, ref>>
    /\ UNCHANGED <<calls, parent>>

(* The copy is complete: the child gets d and the parent's MemorySize    *)
(* and becomes RUNNABLE.                                                  *)
copyDone(p) ==
    /\ Runs(p) /\ pc[p] = "copy" /\ a[p] >= size[p]
    /\ pgdir' = [pgdir EXCEPT ![child[p]] = nd[p]]
    /\ size' = [size EXCEPT ![child[p]] = size[p]]
    /\ state' = [state EXCEPT ![child[p]] = "LIVE"]
    /\ nd' = [nd EXCEPT ![p] = Null]
    /\ parent' = [parent EXCEPT ![child[p]] = p]
    /\ child' = [child EXCEPT ![p] = NoProc]
    /\ Return(p)
    /\ UNCHANGED <<kvars, kstack, pde, pte, pg, todo, ref>>
    /\ UNCHANGED calls

(* fork after copyProcessPageTable returned 0: free the child's kernel    *)
(* stack, mark it UNUSED, return -1.                                      *)
forkFail(p) ==
    /\ Runs(p) /\ pc[p] = "forkfail"
    /\ freePhysicalMemoryPage(Kern, kstack[child[p]])
    /\ kstack' = [kstack EXCEPT ![child[p]] = Null]
    /\ state' = [state EXCEPT ![child[p]] = "UNUSED"]
    /\ child' = [child EXCEPT ![p] = NoProc]
    /\ Return(p)
    /\ UNCHANGED <<pgdir, size, pde, pte, nd, pg, todo, ref>>
    /\ UNCHANGED <<calls, parent>>

(* exit() of a process other than initproc: its children pass to        *)
(* initproc and it becomes a ZOMBIE.                                       *)
exit(p) ==
    /\ Runs(p) /\ p # InitProc /\ state[p] = "LIVE" /\ pc[p] = "idle"
    /\ state' = [state EXCEPT ![p] = "ZOMBIE"]
    /\ parent' = [q \in Procs |-> IF parent[q] = p THEN InitProc ELSE parent[q]]
    /\ UNCHANGED <<kvars, kstack, pgdir, size, pde, pte, pc, ret, nd, pg, a, lo,
                   hi, msz, todo, child, exe, sec, ref>>
    /\ Call

(* wait() in the parent, between system calls, finds the ZOMBIE p and,   *)
(* holding processTable.Lock, frees its kernel stack, then                *)
(* freeMemoryAndPageTable(PageTable).  The loop runs on p's locals.       *)
wait(p) ==
    /\ Runs(p) /\ state[p] = "ZOMBIE" /\ pc[p] = "idle"
    /\ state[parent[p]] = "LIVE" /\ pc[parent[p]] = "idle"
    /\ StartFree(p, <<kstack[p]>>, pgdir[p], "reaped")
    /\ kstack' = [kstack EXCEPT ![p] = Null]
    /\ pgdir' = [pgdir EXCEPT ![p] = Null]
    /\ UNCHANGED <<kvars, state, size, nd, pg, a, lo, hi, msz, child, exe, sec,
                   ref>>
    /\ Call
    /\ UNCHANGED parent

\* wait() marks the slot UNUSED and releases the lock.
reaped(p) ==
    /\ Runs(p) /\ pc[p] = "reaped"
    /\ state' = [state EXCEPT ![p] = "UNUSED"]
    /\ size' = [size EXCEPT ![p] = 0]
    /\ parent' = [parent EXCEPT ![p] = NoProc]
    /\ Return(p)
    /\ UNCHANGED <<kvars, kstack, pgdir, pde, pte, nd, pg, todo, child, ref>>
    /\ UNCHANGED calls

VmNext ==
    \E p \in Procs :
        \/ \E n \in SbrkArgs : sbrkGrow(p, n) \/ sbrkShrink(p, n)
        \/ \E c \in Procs : fork(p, c)
        \/ \E x \in Exes : exec(p, x)
        \/ exit(p) \/ wait(p) \/ reaped(p)
        \/ allocateMemoryAndPageTables(p) \/ allocDone(p) \/ allocPage(p)
        \/ allocNoPage(p) \/ mapPage(p) \/ mapNewTable(p) \/ mapNoTable(p)
        \/ releaseUserPages(p) \/ undoDone(p) \/ undo2Done(p) \/ shrinkDone(p)
        \/ freeStep(p)
        \/ setupKernelVirtualMemory(p) \/ setupNoDir(p)
        \/ kvmTable(p) \/ kvmNoTable(p) \/ kvmDone(p)
        \/ execShortHeader(p) \/ execSection(p) \/ execStack(p) \/ execClose(p)
        \/ execCommit(p)
        \/ copyPage(p) \/ copyNoPage(p) \/ copyNoTable(p) \/ copyDone(p)
        \/ forkFail(p)

VmSpec == VmInit /\ [][VmNext]_vmvars

-----------------------------------------------------------------------------
(* Properties *)

VmTypeOK ==
    /\ TypeOK
    /\ state \in [Procs -> {"UNUSED", "EMBRYO", "LIVE", "ZOMBIE"}]
    /\ \A v \in {kstack, pgdir, nd, pg} : v \in [Procs -> Frames \cup {Null}]
    /\ size \in [Procs -> 0..KERNBASE-1]
    /\ pde \in [Frames -> [0..NPDE-1 -> Frames \cup {Null}]]
    /\ pte \in [Frames -> [0..NPTE-1 -> Frames \cup {Null}]]
    /\ todo \in [Procs -> Seq(Frames)]
    /\ ref \in [Procs -> 0..1]
    /\ calls \in 0..MaxCalls
    /\ parent \in [Procs -> Procs \cup {NoProc}]

\* Every place that holds a frame, as <<frame, place>>: the kernel stacks,
\* the directories of processes and those being built, the tables they
\* name and the pages those name, a frame awaiting its mapping, and the
\* frames queued for freeing.
DirRefs == {<<pgdir[p], <<"pgdir", p>>>> : p \in Procs}
             \cup {<<nd[p], <<"nd", p>>>> : p \in Procs}
LiveDirs == {r[1] : r \in DirRefs} \ {Null}
TableRefs == {<<pde[d][i], <<"pde", d, i>>>> : d \in LiveDirs, i \in 0..NPDE-1}
LiveTables == {r[1] : r \in TableRefs} \ {Null}
PageRefs == {<<pte[t][j], <<"pte", t, j>>>> : t \in LiveTables, j \in 0..NPTE-1}
OtherRefs == {<<kstack[p], <<"kstack", p>>>> : p \in Procs}
               \cup {<<pg[p], <<"pg", p>>>> : p \in Procs}
               \cup UNION {{<<todo[p][k], <<"todo", p, k>>>> : k \in 1..Len(todo[p])}
                           : p \in Procs}
Refs == {r \in DirRefs \cup TableRefs \cup PageRefs \cup OtherRefs : r[1] # Null}
InUse == {r[1] : r \in Refs}

(* No frame is in two places and every frame in use is held: no page is   *)
(* mapped twice, shared by two address spaces, used as a table and a page *)
(* at once, or still mapped or queued after it was freed.  The loops of   *)
(* allocateMemoryAndPageTables, releaseUserPages, copyProcessPageTable    *)
(* and freeMemoryAndPageTable of several processes interleave.            *)
NoFrameShared ==
    /\ \A r, s \in Refs : r[1] = s[1] => r = s
    /\ InUse \subseteq owned[Kern]

(* Between system calls a process maps exactly the pages below its        *)
(* MemorySize: growProcess, exec and fork keep MemorySize and the page    *)
(* table in step, whether the allocation succeeds or is rolled back.      *)
SizeMatchesMapping ==
    \A p \in Procs :
        state[p] \in {"LIVE", "ZOMBIE"} /\ pc[p] = "idle" =>
            MappedPages(pgdir[p]) = {v \in UserPages : v < size[p]}

(* spec.md section 5: running out of memory, and bad input such as a      *)
(* truncated executable, are recoverable: the kernel unwinds every        *)
(* partial allocation and returns -1, and the user process continues.     *)
(* So the kernel never panics on these paths, and every frame it holds is *)
(* in use: fork's, exec's and sbrk's error paths give back what they took. *)
ErrorsUnwind ==
    /\ ~panicked
    /\ owned[Kern] \subseteq InUse


=============================================================================
