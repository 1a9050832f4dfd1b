------------------------------- MODULE Kalloc -------------------------------
(***************************************************************************)
(* The UoDOS physical page allocator (src/UoDOS/kalloc.c).  The free list  *)
(* is threaded through the free frames themselves: the first word of a     *)
(* free frame (struct MemoryPage.Next) holds the next free frame.  A frame *)
(* is an address, a multiple of PGSIZE; mem[f] is the first word of frame  *)
(* f: a frame, Null, or what its holder wrote there.                       *)
(*                                                                         *)
(* main() runs both initialisation phases before any process exists, so    *)
(* InitHead and InitMem are the list they leave.  Afterwards the kernel    *)
(* (fork, exec, growProcess...) allocates and frees frames; Vm runs these  *)
(* two operations as steps of the system calls that make them.            *)
(* Each allocation and free holds kernelMemory.Lock (UseLock is 1 by then) *)
(* and is one atomic step; memset's junk fill before the lock touches only *)
(* the caller's own frame and is overwritten by the Next store.            *)
(***************************************************************************)
EXTENDS Integers, Sequences, SequencesExt, FiniteSets

CONSTANTS
    PGSIZE,   \* page size
    VStart,   \* initialiseLowerkernelMemory(vstart, ...): kernelEnd
    VMid,     \* its vend, and initialiseRestOfkernelMemory's vstart
    VEnd,     \* initialiseRestOfkernelMemory's vend: P2V(PHYSTOP)
    Clients   \* the callers of allocatePhysicalMemoryPage

ASSUME PGSIZE > 0 /\ 0 < VStart /\ VStart <= VMid /\ VMid <= VEnd

\* A null MemoryPage pointer.
Null == 0

\* PGROUNDUP(a) of mmu.h: (a + PGSIZE - 1) & ~(PGSIZE - 1).
PGROUNDUP(a) == ((a + PGSIZE - 1) \div PGSIZE) * PGSIZE

\* A variant of RangeFrom whose loop stops one page early.
RECURSIVE RangeFromShort(_, _)
RangeFromShort(p, vend) ==
    IF p + PGSIZE < vend THEN <<p>> \o RangeFromShort(p + PGSIZE, vend) ELSE <<>>

\* freeMemoryRange's loop from p: for (; p + PGSIZE <= vend; p += PGSIZE).
RECURSIVE RangeFrom(_, _)
RangeFrom(p, vend) ==
    IF p + PGSIZE <= vend THEN <<p>> \o RangeFrom(p + PGSIZE, vend) ELSE <<>>

\* The frames freeMemoryRange(vstart, vend) frees, in order.
FreeMemoryRange(vstart, vend) == RangeFrom(PGROUNDUP(vstart), vend)

\* The frames both initialisation phases free, in order.
InitFrames == FreeMemoryRange(VStart, VMid) \o FreeMemoryRange(VMid, VEnd)

Frames == ToSet(InitFrames)

\* freePhysicalMemoryPage's panic test: misaligned, below kernelEnd, or at
\* or above PHYSTOP.
BadFree(v) == v % PGSIZE # 0 \/ v < VStart \/ v >= VEnd

VARIABLES
    freeList,  \* kernelMemory.FreeList
    mem,       \* the first word of each frame
    owned,     \* the frames each client holds
    panicked

\* The list from p, following Next through at most n frames.
RECURSIVE Chain(_, _)
Chain(p, n) ==
    IF p \notin Frames \/ n = 0 THEN <<>> ELSE <<p>> \o Chain(mem[p], n - 1)

\* How many frames the allocator manages.
NFrames == Cardinality(Frames)

FreeChain == Chain(freeList, NFrames + 1)

\* The frame after the last one Chain follows: Null for a sound list.
RECURSIVE ChainEnd(_, _)
ChainEnd(p, n) == IF p \notin Frames \/ n = 0 THEN p ELSE ChainEnd(mem[p], n - 1)

-----------------------------------------------------------------------------
\* Each freePhysicalMemoryPage pushes its frame on the list, whose static
\* initial value is Null: the last frame freed is the head, and each
\* frame's Next is the frame freed before it.
InitHead == IF InitFrames = <<>> THEN Null ELSE InitFrames[Len(InitFrames)]

InitMem == [f \in Frames |->
              LET i == CHOOSE k \in 1..Len(InitFrames) : InitFrames[k] = f
              IN IF i = 1 THEN Null ELSE InitFrames[i - 1]]

\* A variant of AllocNext that forgets to pop the frame.
AllocNextKept(r) == freeList

\* allocatePhysicalMemoryPage's FreeList = r->Next.
AllocNext(r) == mem[r]

(* allocatePhysicalMemoryPage: take the head r = FreeList and, if it is    *)
(* not null, advance FreeList to r->Next.  A null head returns 0 and       *)
(* changes nothing.                                                        *)
allocatePhysicalMemoryPage(c) ==
    /\ ~panicked
    /\ freeList # Null
    /\ freeList' = AllocNext(freeList)
    /\ owned' = [owned EXCEPT ![c] = @ \cup {freeList}]
    /\ UNCHANGED <<mem, panicked>>

\* freePhysicalMemoryPage's r->Next = FreeList.
FreeLink(v) == freeList

(* freePhysicalMemoryPage(v) of a frame the client holds: panic on a bad  *)
(* address; memset(v, 1, PGSIZE); then with the lock held push v:         *)
(* r->Next = FreeList, FreeList = r.                                      *)
freePhysicalMemoryPage(c, v) ==
    /\ ~panicked
    /\ v \in owned[c]
    /\ IF BadFree(v)
       THEN /\ panicked' = TRUE
            /\ UNCHANGED <<freeList, mem, owned>>
       ELSE /\ mem' = [mem EXCEPT ![v] = FreeLink(v)]
            /\ freeList' = v
            /\ owned' = [owned EXCEPT ![c] = @ \ {v}]
            /\ UNCHANGED panicked

-----------------------------------------------------------------------------
(* Properties *)

TypeOK ==
    /\ freeList \in Frames \cup {Null}
    /\ mem \in [Frames -> Frames \cup {Null}]
    /\ owned \in [Clients -> SUBSET Frames]
    /\ panicked \in BOOLEAN

\* The whole pages inside [vstart, vend).
WholePages(vstart, vend) == {p \in vstart..vend-1 : p % PGSIZE = 0 /\ p + PGSIZE <= vend}

(* The frames the allocator manages, free or held, are exactly the whole  *)
(* pages of the two ranges main() hands it: PGROUNDUP and the loop test   *)
(* p + PGSIZE <= vend neither drop a whole page nor take a partial one.   *)
ManagedPagesExact ==
    ToSet(FreeChain) \cup UNION {owned[c] : c \in Clients} =
        WholePages(VStart, VMid) \cup WholePages(VMid, VEnd)

(* The free list stays a null-terminated chain without repeats through    *)
(* exactly the frames no client holds, and no frame is held by two        *)
(* clients: allocation pops before the frame is handed out, and free      *)
(* links the frame in before it becomes the head.                         *)
FreeListSound ==
    /\ ChainEnd(freeList, NFrames + 1) = Null
    /\ IsInjective(FreeChain)
    /\ \A c, d \in Clients : c # d => owned[c] \cap owned[d] = {}
    /\ \A c \in Clients : owned[c] \cap ToSet(FreeChain) = {}
    /\ ToSet(FreeChain) \cup UNION {owned[c] : c \in Clients} = Frames


=============================================================================
