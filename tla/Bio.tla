-------------------------------- MODULE Bio ---------------------------------
(***************************************************************************)
(* The UoDOS buffer cache (src/UoDOS/bio.c) with the sleep locks that      *)
(* guard its buffers (sleeplock.c) and the IDE request queue that fills    *)
(* them (ide.c).  Kernel threads of the processes in Procs read sectors    *)
(* the way fs.c does: diskBufferRead, use Data, diskBufferRelease.  The    *)
(* disk interrupt runs ideInterruptHandler.                                *)
(*                                                                         *)
(* Every stretch of code under one spinlock (diskBufferCache.Lock, a sleep *)
(* lock's inner spinlock, idelock) is one atomic action.  sleep(chan, lk)  *)
(* is a step that records chan in sleeping[p]; the process takes no step   *)
(* until a wakeup(chan) clears it, and then it runs the code after the     *)
(* sleep() call again.  Every caller in fs.c passes device 0, so a buffer  *)
(* is named by its sector alone; the disk holds the FAT12 image, which     *)
(* nothing writes, so the contents a buffer should hold for sector s are   *)
(* represented by s itself.                                                *)
(***************************************************************************)
EXTENDS Integers, Sequences, SequencesExt, FiniteSets

CONSTANTS
    Procs,      \* processes whose kernel threads use the cache
    NBUF,       \* number of buffers
    Sectors,    \* sectors the callers ask for (0 is the boot sector)
    DiskErrors, \* whether ideWait(1) may report a drive error
    NoBuf, NoProc, NoChan, NoData

ASSUME NBUF >= 1 /\ 0 \in Sectors /\ DiskErrors \in BOOLEAN

Bufs == 1..NBUF

\* Sleep channels: a sleep lock's address and a buffer's address.
LockChan(b) == <<"lock", b>>
BufChan(b)  == <<"buf", b>>

\* Program points of a thread between its atomic steps.
PCs == {"idle", "acquire", "read", "rw_wait", "hold", "rel_cache"}

VARIABLES
    sector,    \* DiskBuffer.SectorNumber
    valid,     \* DiskBuffer.Flags & B_VALID
    dirty,     \* DiskBuffer.Flags & B_DIRTY
    refcnt,    \* DiskBuffer.ReferenceCount
    data,      \* DiskBuffer.Data: the sector whose contents it holds
    lru,       \* the list from Head.Next (most recent) to Head.Previous
    locked,    \* DiskBuffer.Lock.Locked
    lockPid,   \* DiskBuffer.Lock.Pid
    idequeue,  \* idequeue through QueueNext; the head is on the disk
    pc,        \* where each thread is
    cur,       \* the buffer diskBufferGet returned to the thread
    want,      \* the sector the thread asked for
    sleeping,  \* the channel a thread sleeps on
    panicked   \* panic() was called

vars == <<sector, valid, dirty, refcnt, data, lru, locked, lockPid, idequeue,
          pc, cur, want, sleeping, panicked>>

-----------------------------------------------------------------------------
(* Helpers *)

\* A thread that runs: not asleep, and the machine has not panicked.
Ready(p) == sleeping[p] = NoChan /\ ~panicked

\* wakeup(chan): every thread asleep on chan can run again.
wakeup(ch) == [p \in Procs |-> IF sleeping[p] = ch THEN NoChan ELSE sleeping[p]]

\* sleep(chan, lk) from thread p.
sleep(p, ch) == sleeping' = [sleeping EXCEPT ![p] = ch]

\* A variant of QueueAppend that links b in at the head of idequeue.
QueueAppendFront(b) == Cons(b, idequeue)

\* ideReadWrite's loop to the last QueueNext, and *pp = b.
QueueAppend(b) == Append(idequeue, b)

\* ideReadWrite(b) up to its sleep: under idelock append b to idequeue (if
\* it is the head, ideStartRequest hands it to the disk), then sleep on b.
\* The interrupt cannot run while idelock is held, so the request is never
\* complete at the first test of the wait loop.
ideReadWrite(p, b) ==
    /\ idequeue' = QueueAppend(b)
    /\ sleep(p, BufChan(b))
    /\ pc' = [pc EXCEPT ![p] = "rw_wait"]

\* The request on b is finished: (Flags & (B_VALID|B_DIRTY)) == B_VALID.
Done(b) == valid[b] /\ ~dirty[b]

-----------------------------------------------------------------------------
Init ==
    \* diskBufferCacheInitialise(): every buffer is pushed at Head.Next in
    \* turn, so the list runs NBUF, ..., 1; Flags, Device, SectorNumber and
    \* ReferenceCount are those of zeroed static memory.
    /\ sector   = [b \in Bufs |-> 0]
    /\ valid    = [b \in Bufs |-> FALSE]
    /\ dirty    = [b \in Bufs |-> FALSE]
    /\ refcnt   = [b \in Bufs |-> 0]
    /\ data     = [b \in Bufs |-> NoData]
    /\ lru      = [i \in 1..NBUF |-> NBUF + 1 - i]
    /\ locked   = [b \in Bufs |-> FALSE]
    /\ lockPid  = [b \in Bufs |-> NoProc]
    /\ idequeue = <<>>
    /\ pc       = [p \in Procs |-> "idle"]
    /\ cur      = [p \in Procs |-> NoBuf]
    /\ want     = [p \in Procs |-> 0]
    /\ sleeping = [p \in Procs |-> NoChan]
    /\ panicked = FALSE

-----------------------------------------------------------------------------
\* A variant of HitIndex that scans from the least recently used end.
HitIndexFromLru(s) == SelectLastInSeq(lru, LAMBDA b : sector[b] = s)

\* diskBufferGet's first loop: from Head.Next, the first buffer for s.
HitIndex(s) == SelectInSeq(lru, LAMBDA b : sector[b] = s)

\* A variant of Recyclable that forgets the reference count.
RecyclableAny(b) == ~dirty[b]

\* diskBufferGet's second loop accepts an unreferenced, clean buffer.
Recyclable(b) == refcnt[b] = 0 /\ ~dirty[b]

\* A variant of HitRef that forgets ReferenceCount++ on a cache hit.
HitRefLost(b) == refcnt

\* diskBufferGet's first loop on a hit: ReferenceCount++.
HitRef(b) == [refcnt EXCEPT ![b] = @ + 1]

(* diskBufferGet(0, s), under diskBufferCache.Lock.  A cached buffer for s *)
(* gets ReferenceCount++.  Otherwise the scan from Head.Previous takes the *)
(* first recyclable buffer: SectorNumber = s, Flags = 0, ReferenceCount =  *)
(* 1.  With none, panic("diskBufferGet: no buffers").  The sleep lock is   *)
(* acquired after the cache lock is released.                              *)
diskBufferGet(p, s) ==
    /\ pc[p] = "idle" /\ Ready(p)
    /\ LET h == HitIndex(s)
           r == SelectLastInSeq(lru, Recyclable)
       IN IF h # 0
          THEN /\ refcnt' = HitRef(lru[h])
               /\ cur' = [cur EXCEPT ![p] = lru[h]]
               /\ pc' = [pc EXCEPT ![p] = "acquire"]
               /\ UNCHANGED <<sector, valid, dirty, panicked>>
          ELSE IF r # 0
          THEN LET b == lru[r] IN
               /\ sector' = [sector EXCEPT ![b] = s]
               /\ valid' = [valid EXCEPT ![b] = FALSE]
               /\ dirty' = [dirty EXCEPT ![b] = FALSE]
               /\ refcnt' = [refcnt EXCEPT ![b] = 1]
               /\ cur' = [cur EXCEPT ![p] = b]
               /\ pc' = [pc EXCEPT ![p] = "acquire"]
               /\ UNCHANGED panicked
          ELSE /\ panicked' = TRUE
               /\ UNCHANGED <<sector, valid, dirty, refcnt, cur, pc>>
    /\ want' = [want EXCEPT ![p] = s]
    /\ UNCHANGED <<data, lru, locked, lockPid, idequeue, sleeping>>

\* A variant of SleeplockFree that does not test Locked.
SleeplockFreeAlways(b) == TRUE

\* sleeplockAcquire's loop test: while (lk->Locked) sleep.
SleeplockFree(b) == ~locked[b]

(* sleeplockAcquire(&b->Lock), under the lock's spinlock: while Locked,    *)
(* sleep on the lock; then Locked = 1 and Pid = the caller.                *)
sleeplockAcquire(p) ==
    /\ pc[p] = "acquire" /\ Ready(p)
    /\ LET b == cur[p] IN
       IF SleeplockFree(b)
       THEN /\ locked' = [locked EXCEPT ![b] = TRUE]
            /\ lockPid' = [lockPid EXCEPT ![b] = p]
            /\ pc' = [pc EXCEPT ![p] = "read"]
            /\ UNCHANGED sleeping
       ELSE /\ sleep(p, LockChan(b))
            /\ UNCHANGED <<locked, lockPid, pc>>
    /\ UNCHANGED <<sector, valid, dirty, refcnt, data, lru, idequeue, cur,
                   want, panicked>>

\* A variant of NeedsRead that never goes to the disk.
NeedsReadNever(b) == FALSE

\* diskBufferRead's test (b->Flags & B_VALID) == 0.
NeedsRead(b) == ~valid[b]

(* diskBufferRead, after diskBufferGet: a buffer that is not VALID is read *)
(* with ideReadWrite(b); a VALID one is returned at once.                  *)
diskBufferRead(p) ==
    /\ pc[p] = "read" /\ Ready(p)
    /\ LET b == cur[p] IN
       IF NeedsRead(b)
       THEN ideReadWrite(p, b)
       ELSE /\ pc' = [pc EXCEPT ![p] = "hold"]
            /\ UNCHANGED <<idequeue, sleeping>>
    /\ UNCHANGED <<sector, valid, dirty, refcnt, data, lru, locked, lockPid,
                   cur, want, panicked>>

(* ideReadWrite's wait loop, when the thread runs again after wakeup(b):   *)
(* return once the request is done, else sleep on b again.                 *)
ideWaitLoop(p) ==
    /\ pc[p] = "rw_wait" /\ Ready(p)
    /\ LET b == cur[p] IN
       IF Done(b)
       THEN /\ pc' = [pc EXCEPT ![p] = "hold"]
            /\ UNCHANGED sleeping
       ELSE /\ sleep(p, BufChan(b))
            /\ UNCHANGED pc
    /\ UNCHANGED <<sector, valid, dirty, refcnt, data, lru, locked, lockPid,
                   idequeue, cur, want, panicked>>

(* diskBufferWrite(b), with the sleep lock held (isHoldingSleeplock):      *)
(* Flags |= B_DIRTY and ideReadWrite(b).  No caller in this tree writes,   *)
(* but the operation is part of the cache's interface.                     *)
diskBufferWrite(p) ==
    /\ pc[p] = "hold" /\ Ready(p)
    /\ locked[cur[p]]
    /\ dirty' = [dirty EXCEPT ![cur[p]] = TRUE]
    /\ ideReadWrite(p, cur[p])
    /\ UNCHANGED <<sector, valid, refcnt, data, lru, locked, lockPid, cur,
                   want, panicked>>

(* diskBufferRelease(b), first half: isHoldingSleeplock, then              *)
(* sleeplockRelease: Locked = 0, Pid = 0, wakeup(lk).                      *)
sleeplockRelease(p) ==
    /\ pc[p] = "hold" /\ Ready(p)
    /\ locked[cur[p]]
    /\ locked' = [locked EXCEPT ![cur[p]] = FALSE]
    /\ lockPid' = [lockPid EXCEPT ![cur[p]] = NoProc]
    /\ sleeping' = wakeup(LockChan(cur[p]))
    /\ pc' = [pc EXCEPT ![p] = "rel_cache"]
    /\ UNCHANGED <<sector, valid, dirty, refcnt, data, lru, idequeue, cur,
                   want, panicked>>

\* A variant of MoveToMru that unlinks b and never links it back.
MoveToMruLost(b) == Remove(lru, b)

\* Unlink b and insert it at Head.Next.
MoveToMru(b) == Cons(b, Remove(lru, b))

(* diskBufferRelease(b), second half, under diskBufferCache.Lock:          *)
(* ReferenceCount--, and a buffer no one else holds moves to Head.Next.    *)
diskBufferRelease(p) ==
    /\ pc[p] = "rel_cache" /\ Ready(p)
    /\ LET b == cur[p] IN
       /\ refcnt' = [refcnt EXCEPT ![b] = @ - 1]
       /\ lru' = IF refcnt[b] = 1 THEN MoveToMru(b) ELSE lru
    /\ pc' = [pc EXCEPT ![p] = "idle"]
    /\ cur' = [cur EXCEPT ![p] = NoBuf]
    /\ UNCHANGED <<sector, valid, dirty, data, locked, lockPid, idequeue,
                   want, sleeping, panicked>>

\* ideInterruptHandler's wakeup(b) of the thread waiting in ideReadWrite.
IdeCompletes(b) == wakeup(BufChan(b))

(* ideInterruptHandler(), under idelock, when the disk has finished the    *)
(* request at the head of idequeue: pop it; for a read, copy the sector in *)
(* unless ideWait(1) reports an error; Flags |= B_VALID, Flags &= ~B_DIRTY *)
(* whatever happened; wakeup(b); ideStartRequest on the next request.  An  *)
(* interrupt with an empty queue returns without a change.                 *)
ideInterruptHandler ==
    /\ ~panicked
    /\ idequeue # <<>>
    /\ LET b == Head(idequeue) IN
       /\ \E err \in IF DiskErrors THEN BOOLEAN ELSE {FALSE} :
             data' = IF dirty[b] \/ err THEN data ELSE [data EXCEPT ![b] = sector[b]]
       /\ valid' = [valid EXCEPT ![b] = TRUE]
       /\ dirty' = [dirty EXCEPT ![b] = FALSE]
       /\ sleeping' = IdeCompletes(b)
    /\ idequeue' = Tail(idequeue)
    /\ UNCHANGED <<sector, refcnt, lru, locked, lockPid, pc, cur, want,
                   panicked>>

(* panic(): every CPU stops. *)
halted ==
    /\ panicked
    /\ UNCHANGED vars

Next ==
    \/ halted
    \/ \E p \in Procs, s \in Sectors : diskBufferGet(p, s)
    \/ \E p \in Procs : sleeplockAcquire(p)
    \/ \E p \in Procs : diskBufferRead(p)
    \/ \E p \in Procs : ideWaitLoop(p)
    \/ \E p \in Procs : diskBufferWrite(p)
    \/ \E p \in Procs : sleeplockRelease(p)
    \/ \E p \in Procs : diskBufferRelease(p)
    \/ ideInterruptHandler

(* Fairness.  The timer round-robins the runnable threads, so a thread    *)
(* that can run eventually takes its next step; the disk eventually       *)
(* interrupts for a queued request.  fs.c releases a buffer right after   *)
(* copying it, so a holder eventually releases.  Starting a read and      *)
(* writing are the callers' choice and carry no fairness.                 *)
Fairness ==
    /\ \A p \in Procs :
          /\ WF_vars(sleeplockAcquire(p))
          /\ WF_vars(diskBufferRead(p))
          /\ WF_vars(ideWaitLoop(p))
          /\ WF_vars(sleeplockRelease(p))
          /\ WF_vars(diskBufferRelease(p))
    /\ WF_vars(ideInterruptHandler)

Spec == Init /\ [][Next]_vars /\ Fairness

-----------------------------------------------------------------------------
(* Properties *)

TypeOK ==
    /\ sector   \in [Bufs -> Sectors]
    /\ valid    \in [Bufs -> BOOLEAN]
    /\ dirty    \in [Bufs -> BOOLEAN]
    /\ refcnt   \in [Bufs -> 0..Cardinality(Procs)]
    /\ data     \in [Bufs -> Sectors \cup {NoData}]
    /\ lru      \in [1..NBUF -> Bufs] /\ ToSet(lru) = Bufs
    /\ locked   \in [Bufs -> BOOLEAN]
    /\ lockPid  \in [Bufs -> Procs \cup {NoProc}]
    /\ idequeue \in Seq(Bufs)
    /\ pc       \in [Procs -> PCs]
    /\ cur      \in [Procs -> Bufs \cup {NoBuf}]
    /\ want     \in [Procs -> Sectors]
    /\ sleeping \in [Procs -> {LockChan(b) : b \in Bufs} \cup {BufChan(b) : b \in Bufs} \cup {NoChan}]
    /\ panicked \in BOOLEAN

\* The threads that have a buffer from diskBufferGet and not yet given it back.
Pinned == {p \in Procs : pc[p] # "idle"}

\* The threads past sleeplockAcquire: the ones that touch the buffer's Data.
Inside == {p \in Procs : pc[p] \in {"read", "rw_wait", "hold"}}

(* The sleep lock makes a buffer a rendezvous (spec.md 4.6): at most one   *)
(* thread at a time is between sleeplockAcquire and sleeplockRelease on a  *)
(* buffer, and it is the one the lock names.                               *)
DataExclusive ==
    \A p \in Inside :
        /\ locked[cur[p]] /\ lockPid[cur[p]] = p
        /\ \A q \in Inside \ {p} : cur[q] # cur[p]

(* A buffer someone holds is never recycled (spec.md section 3): from      *)
(* diskBufferGet to diskBufferRelease the buffer stays on the sector the   *)
(* thread asked for.                                                       *)
PinnedKeepsSector ==
    \A p \in Pinned : sector[cur[p]] = want[p]

(* diskBufferRead returns the sector's contents: once a thread holds its   *)
(* buffer after diskBufferRead, the buffer holds the sector it asked for,  *)
(* read from the disk by this or an earlier request.                       *)
ReadReturnsSector ==
    \A p \in Procs : pc[p] = "hold" => data[cur[p]] = want[p]

(* At most one buffer is in use for a sector: no two buffers for one       *)
(* sector are both VALID or pinned.  (The initial NBUF buffers all name    *)
(* sector 0, unused and not VALID.)                                        *)
CachedUnique ==
    \A b1, b2 \in Bufs :
        (b1 # b2 /\ sector[b1] = sector[b2]) =>
            ~((valid[b1] \/ refcnt[b1] > 0) /\ (valid[b2] \/ refcnt[b2] > 0))

(* ReferenceCount counts the threads holding the buffer (diskBufferGet    *)
(* to diskBufferRelease), so "no buffers" (bio.c:94) is reached only when  *)
(* NBUF threads really hold NBUF distinct buffers, never because a count   *)
(* went stale while two threads shared a cached buffer.                    *)
BufferRefsMatchHolders ==
    /\ \A b \in Bufs : refcnt[b] = Cardinality({p \in Pinned : cur[p] = b})
    /\ panicked => Cardinality(Pinned) >= NBUF

(* Every disk request completes: a thread waiting in ideReadWrite          *)
(* eventually holds its buffer, unless the kernel has panicked.            *)
ReadCompletes ==
    \A p \in Procs : pc[p] = "rw_wait" ~> (pc[p] = "hold" \/ panicked)
=============================================================================
