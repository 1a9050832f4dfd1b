-------------------------------- MODULE Pipe --------------------------------
(***************************************************************************)
(* One UoDOS pipe (src/UoDOS/pipe.c) shared by the processes in Procs, as  *)
(* sys_pipe() and fork() leave it: every process holds a descriptor for    *)
(* the read end (File rf) and one for the write end (File wf).  Processes  *)
(* read with piperead, write with pipewrite, close either end (sys_close ->*)
(* fileClose -> pipeclose when the File's last reference goes), and can be *)
(* killed from outside (proc.c kill: IsKilled, and SLEEPING -> RUNNABLE).  *)
(*                                                                         *)
(* Every stretch under p->Lock is one atomic step; pipewrite and piperead  *)
(* give up the lock only inside sleep(), so a call is a sequence of steps, *)
(* one per sleep.  ReadCount and WriteCount are unsigned counters that     *)
(* wrap: here they count modulo Wrap, a multiple of PIPESIZE as 2^32 is a  *)
(* multiple of 512.  The bytes written are numbered in order, so that the  *)
(* ghost histories written and readSeq can tell loss, duplication and      *)
(* reordering apart.                                                       *)
(***************************************************************************)
EXTENDS Integers, Sequences, FiniteSets, FiniteSetsExt

CONSTANTS
    Procs,       \* processes sharing the pipe
    PIPESIZE,    \* size of the ring
    Wrap,        \* the counters' modulus (2^32 in the code)
    WriteSizes,  \* the n of pipewrite(p, addr, n)
    ReadSizes,   \* the n of piperead(p, addr, n)
    MaxBytes,    \* bound on the bytes written in a behaviour
    NoChan

ASSUME /\ PIPESIZE >= 1 /\ Wrap % PIPESIZE = 0 /\ Wrap > PIPESIZE
       /\ WriteSizes \subseteq 1..MaxBytes /\ ReadSizes \subseteq Nat \ {0}

\* Sleep channels: &p->ReadCount and &p->WriteCount.
ReadChan  == "ReadCount"
WriteChan == "WriteCount"

VARIABLES
    ring,       \* Pipe.Data
    readCount,  \* Pipe.ReadCount
    writeCount, \* Pipe.WriteCount
    readOpen,   \* Pipe.ReadOpen
    writeOpen,  \* Pipe.WriteOpen
    freed,      \* freePhysicalMemoryPage(p) has been called
    hasR,       \* the process holds a descriptor for rf
    hasW,       \* the process holds a descriptor for wf
    pc,         \* "idle", "write" (in pipewrite) or "read" (in piperead)
    nreq,       \* the n the call was made with
    todo,       \* pipewrite: the bytes it has still to store
    ret,        \* the value the last call returned
    killed,     \* Process.IsKilled
    sleeping,   \* the channel the process sleeps on
    written,    \* history: the bytes stored in the ring, in order
    readSeq     \* history: the bytes piperead returned, in order

vars == <<ring, readCount, writeCount, readOpen, writeOpen, freed, hasR, hasW,
          pc, nreq, todo, ret, killed, sleeping, written, readSeq>>

-----------------------------------------------------------------------------
(* Helpers *)

Ready(p) == sleeping[p] = NoChan

wakeup(ch) == [q \in Procs |-> IF sleeping[q] = ch THEN NoChan ELSE sleeping[q]]

\* The unsigned difference WriteCount - ReadCount: the bytes in the ring.
Used == (writeCount - readCount) % Wrap

\* The ring index p->Data[count % PIPESIZE] of the j-th byte from count c.
Slot(c, j) == ((c + j) % Wrap) % PIPESIZE

\* The bytes in the ring, oldest first.
RingContents == [j \in 1..Used |-> ring[Slot(readCount, j - 1)]]

\* A variant of FullAt that lets the writer run one byte past the reader.
FullAtLate(k) == (writeCount + k) % Wrap = (readCount + PIPESIZE + 1) % Wrap

\* pipewrite's loop test after k more bytes: WriteCount == ReadCount + PIPESIZE.
FullAt(k) == (writeCount + k) % Wrap = (readCount + PIPESIZE) % Wrap

\* The bytes pipewrite stores, out of n, before its loop test finds the
\* ring full.
Room(n) == CHOOSE k \in 0..n : (k = n \/ FullAt(k)) /\ \A j \in 0..k-1 : ~FullAt(j)

\* The ring after storing k bytes numbered next, next+1, ...; a later
\* byte for the same slot overwrites an earlier one.
Store(k, next) ==
    [i \in 0..PIPESIZE-1 |->
        LET js == {j \in 0..k-1 : Slot(writeCount, j) = i}
        IN IF js = {} THEN ring[i] ELSE next + Max(js)]

\* A variant of WriterGivesUp that ignores a closed read end.
WriterGivesUpKilledOnly(p) == killed[p]

\* pipewrite's test on a full ring: ReadOpen == 0 || IsKilled.
WriterGivesUp(p) == ~readOpen \/ killed[p]

\* piperead's for loop: bytes taken, out of n, before ReadCount == WriteCount.
Take(n) == IF n < Used THEN n ELSE Used

-----------------------------------------------------------------------------
Init ==
    \* pipealloc(): ReadOpen = WriteOpen = 1, both counters 0; sys_pipe and
    \* fork() leave both Files held by every process.
    /\ ring       = [i \in 0..PIPESIZE-1 |-> 0]
    /\ readCount  = 0
    /\ writeCount = 0
    /\ readOpen   = TRUE
    /\ writeOpen  = TRUE
    /\ freed      = FALSE
    /\ hasR       = [p \in Procs |-> TRUE]
    /\ hasW       = [p \in Procs |-> TRUE]
    /\ pc         = [p \in Procs |-> "idle"]
    /\ nreq       = [p \in Procs |-> 0]
    /\ todo       = [p \in Procs |-> 0]
    /\ ret        = [p \in Procs |-> 0]
    /\ killed     = [p \in Procs |-> FALSE]
    /\ sleeping   = [p \in Procs |-> NoChan]
    /\ written    = <<>>
    /\ readSeq    = <<>>

-----------------------------------------------------------------------------
(* sys_write(fd, addr, n) on the write end: fileWrite -> pipewrite, which  *)
(* takes p->Lock; its loop runs in pipewriteStep.  A killed process does   *)
(* not get here: trap() exits it at the system call.                       *)
pipewrite(p, n) ==
    /\ pc[p] = "idle" /\ hasW[p] /\ ~killed[p]
    /\ Len(written) + n <= MaxBytes
    /\ pc' = [pc EXCEPT ![p] = "write"]
    /\ nreq' = [nreq EXCEPT ![p] = n]
    /\ todo' = [todo EXCEPT ![p] = n]
    /\ UNCHANGED <<ring, readCount, writeCount, readOpen, writeOpen, freed,
                   hasR, hasW, ret, killed, sleeping, written, readSeq>>

(* pipewrite's loop with p->Lock held, from the call or from the return of *)
(* sleep(&WriteCount): store bytes at WriteCount++ % PIPESIZE while the    *)
(* ring is not full.  All stored: wakeup(&ReadCount), return n.  Full:     *)
(* with the read end closed or the caller killed, return -1; otherwise     *)
(* wakeup(&ReadCount) and sleep(&WriteCount).                              *)
pipewriteStep(p) ==
    /\ pc[p] = "write" /\ Ready(p)
    /\ LET k    == Room(todo[p])
           next == Len(written)
       IN /\ ring' = Store(k, next)
          /\ writeCount' = (writeCount + k) % Wrap
          /\ written' = written \o [j \in 1..k |-> next + j - 1]
          /\ IF k = todo[p]
             THEN /\ sleeping' = wakeup(ReadChan)
                  /\ pc' = [pc EXCEPT ![p] = "idle"]
                  /\ ret' = [ret EXCEPT ![p] = nreq[p]]
                  /\ todo' = [todo EXCEPT ![p] = 0]
             ELSE IF WriterGivesUp(p)
             THEN /\ pc' = [pc EXCEPT ![p] = "idle"]
                  /\ ret' = [ret EXCEPT ![p] = -1]
                  /\ todo' = [todo EXCEPT ![p] = 0]
                  /\ UNCHANGED sleeping
             ELSE /\ sleeping' = [wakeup(ReadChan) EXCEPT ![p] = WriteChan]
                  /\ todo' = [todo EXCEPT ![p] = todo[p] - k]
                  /\ UNCHANGED <<pc, ret>>
    /\ UNCHANGED <<readCount, readOpen, writeOpen, freed, hasR, hasW, nreq,
                   killed, readSeq>>

(* sys_read(fd, addr, n) on the read end: fileRead -> piperead. *)
piperead(p, n) ==
    /\ pc[p] = "idle" /\ hasR[p] /\ ~killed[p]
    /\ pc' = [pc EXCEPT ![p] = "read"]
    /\ nreq' = [nreq EXCEPT ![p] = n]
    /\ UNCHANGED <<ring, readCount, writeCount, readOpen, writeOpen, freed,
                   hasR, hasW, todo, ret, killed, sleeping, written, readSeq>>

(* piperead with p->Lock held, from the call or from the return of         *)
(* sleep(&ReadCount): while the ring is empty and the write end open,      *)
(* return -1 if killed, else sleep(&ReadCount).  Then copy bytes from      *)
(* ReadCount++ % PIPESIZE until n or empty, wakeup(&WriteCount), return    *)
(* the count.                                                              *)
pipereadStep(p) ==
    /\ pc[p] = "read" /\ Ready(p)
    /\ IF Used = 0 /\ writeOpen
       THEN IF killed[p]
            THEN /\ pc' = [pc EXCEPT ![p] = "idle"]
                 /\ ret' = [ret EXCEPT ![p] = -1]
                 /\ UNCHANGED <<readCount, sleeping, readSeq>>
            ELSE /\ sleeping' = [sleeping EXCEPT ![p] = ReadChan]
                 /\ UNCHANGED <<pc, ret, readCount, readSeq>>
       ELSE LET k == Take(nreq[p]) IN
            /\ readSeq' = readSeq \o SubSeq(RingContents, 1, k)
            /\ readCount' = (readCount + k) % Wrap
            /\ sleeping' = wakeup(WriteChan)
            /\ pc' = [pc EXCEPT ![p] = "idle"]
            /\ ret' = [ret EXCEPT ![p] = k]
    /\ UNCHANGED <<ring, writeCount, readOpen, writeOpen, freed, hasR, hasW,
                   nreq, todo, killed, written>>

\* A variant of CloseWakes that wakes the end that was closed.
CloseWakesSame(writable) == wakeup(IF writable THEN WriteChan ELSE ReadChan)

\* pipeclose's wakeup of the opposite end.
CloseWakes(writable) == wakeup(IF writable THEN ReadChan ELSE WriteChan)

\* A variant of OtherHolders that is off by one: fileClose taking the
\* next-to-last reference for the last.
OtherHoldersOffByOne(p, writable) ==
    LET hs == {q \in Procs \ {p} : IF writable THEN hasW[q] ELSE hasR[q]}
    IN IF Cardinality(hs) <= 1 THEN {} ELSE hs

\* The processes other than p whose descriptors keep the File's
\* ReferenceCount above 1.
OtherHolders(p, writable) ==
    {q \in Procs \ {p} : IF writable THEN hasW[q] ELSE hasR[q]}

(* sys_close (or exit) of p's descriptor for one end: fileClose drops the  *)
(* File's reference; the last one calls pipeclose(p, writable), which      *)
(* clears that end's flag, wakes the opposite end, and frees the ring once *)
(* both ends are closed.  fileClose's table update and pipeclose are two   *)
(* locked sections; nothing in the pipe can tell them apart.               *)
closeEnd(p, writable) ==
    /\ pc[p] = "idle"
    /\ IF writable THEN hasW[p] ELSE hasR[p]
    /\ LET holders == OtherHolders(p, writable)
           rO == readOpen /\ (writable \/ holders # {})
           wO == writeOpen /\ (~writable \/ holders # {})
       IN /\ hasW' = IF writable THEN [hasW EXCEPT ![p] = FALSE] ELSE hasW
          /\ hasR' = IF writable THEN hasR ELSE [hasR EXCEPT ![p] = FALSE]
          /\ readOpen' = rO
          /\ writeOpen' = wO
          /\ sleeping' = IF holders = {} THEN CloseWakes(writable) ELSE sleeping
          /\ freed' = (holders = {} /\ ~rO /\ ~wO)
    /\ UNCHANGED <<ring, readCount, writeCount, pc, nreq, todo, ret, killed,
                   written, readSeq>>

\* A variant of KillWake that leaves a sleeper asleep.
KillWakeNone(p) == sleeping

\* kill's State = RUNNABLE for a SLEEPING victim.
KillWake(p) == [sleeping EXCEPT ![p] = NoChan]

(* kill(pid) from another process: IsKilled = 1 and a SLEEPING victim      *)
(* becomes RUNNABLE.                                                       *)
kill(p) ==
    /\ ~killed[p]
    /\ killed' = [killed EXCEPT ![p] = TRUE]
    /\ sleeping' = KillWake(p)
    /\ UNCHANGED <<ring, readCount, writeCount, readOpen, writeOpen, freed,
                   hasR, hasW, pc, nreq, todo, ret, written, readSeq>>

Next ==
    \/ \E p \in Procs, n \in WriteSizes : pipewrite(p, n)
    \/ \E p \in Procs : pipewriteStep(p)
    \/ \E p \in Procs, n \in ReadSizes : piperead(p, n)
    \/ \E p \in Procs : pipereadStep(p)
    \/ \E p \in Procs, w \in BOOLEAN : closeEnd(p, w)
    \/ \E p \in Procs : kill(p)

(* A process inside pipewrite or piperead that can run eventually does:   *)
(* the timer round-robins runnable processes.  Calls, closes and kills    *)
(* are the programs' choice.                                              *)
Fairness ==
    \A p \in Procs : WF_vars(pipewriteStep(p)) /\ WF_vars(pipereadStep(p))

Spec == Init /\ [][Next]_vars /\ Fairness

-----------------------------------------------------------------------------
(* Properties *)

TypeOK ==
    /\ ring \in [0..PIPESIZE-1 -> Nat]
    /\ readCount \in 0..Wrap-1 /\ writeCount \in 0..Wrap-1
    /\ Used \in 0..PIPESIZE
    /\ {readOpen, writeOpen, freed} \subseteq BOOLEAN
    /\ hasR \in [Procs -> BOOLEAN] /\ hasW \in [Procs -> BOOLEAN]
    /\ pc \in [Procs -> {"idle", "write", "read"}]
    /\ nreq \in [Procs -> Nat] /\ todo \in [Procs -> Nat] /\ ret \in [Procs -> Int]
    /\ killed \in [Procs -> BOOLEAN]
    /\ sleeping \in [Procs -> {NoChan, ReadChan, WriteChan}]

(* pipewrite's full test and the modular counters keep the ring a FIFO:   *)
(* the bytes piperead has returned, followed by the bytes still in the    *)
(* ring from ReadCount on, are exactly the bytes pipewrite stored, in     *)
(* order; none is overwritten, lost, duplicated or reordered, across the  *)
(* counters' wrap-around.                                                 *)
FifoDelivery == readSeq \o RingContents = written

(* pipeclose frees the page only when no process is inside pipewrite or  *)
(* piperead: a process in a call holds a descriptor for its end, so the   *)
(* File's last reference, and with it the pipe, cannot go first.          *)
NoUseAfterFree == freed => \A p \in Procs : pc[p] = "idle"

(* A piperead with the write end closed returns: pipeclose(p, 1) wakes    *)
(* every sleeper on &ReadCount, and the reader then sees WriteOpen = 0.   *)
ReaderSeesEof ==
    \A p \in Procs : (pc[p] = "read" /\ ~writeOpen) ~> pc[p] = "idle"

(* A pipewrite with the read end closed returns: pipeclose(p, 0) wakes    *)
(* every sleeper on &WriteCount, and a writer facing a full ring then     *)
(* sees ReadOpen = 0 and returns -1.                                      *)
WriterSeesClosedReader ==
    \A p \in Procs : (pc[p] = "write" /\ ~readOpen) ~> pc[p] = "idle"

(* A killed process blocked in a pipe call returns from it: kill makes    *)
(* the sleeper RUNNABLE and both loops test IsKilled before sleeping      *)
(* again.                                                                 *)
KilledCallReturns ==
    \A p \in Procs : (killed[p] /\ pc[p] # "idle") ~> pc[p] = "idle"

=============================================================================
