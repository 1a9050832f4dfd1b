------------------------------ MODULE Spinlock ------------------------------
(***************************************************************************)
(* UoDOS spinlocks (src/UoDOS/spinlock.c) with the per-CPU interrupt       *)
(* nesting of pushCli/popCli, on the CPUs in CPUs.  Each CPU runs a kernel *)
(* thread and, when its interrupt flag is set, can take an interrupt whose *)
(* handler acquires and releases IntLock once (trap.c: the timer's         *)
(* tickslock, ide.c: idelock) and returns with iret.  The thread acquires  *)
(* locks in the order spec.md section 5 prescribes (here: increasing       *)
(* number), releases them in any order, and enables interrupts with sti    *)
(* where the scheduler loop does, holding nothing.                         *)
(*                                                                         *)
(* An acquire is three steps: pushCli and the isHolding test, the          *)
(* atomicExchange that finds Locked = 0, and the store of lk->Cpu.  A      *)
(* release is one step: nothing another CPU does can tell its stores       *)
(* apart, and on its own CPU interrupts are off throughout.                *)
(***************************************************************************)
EXTENDS Integers, FiniteSets, FiniteSetsExt

CONSTANTS
    CPUs,     \* the processors
    Locks,    \* the spinlocks, numbered in their acquisition order
    IntLock,  \* the lock the interrupt handler takes
    NoCpu     \* lk->Cpu == 0

ASSUME Locks \subseteq Nat /\ IntLock \in Locks

\* The code running on a CPU: its kernel thread or an interrupt handler.
Ctx == {"thread", "intr"}

Owners == CPUs \X Ctx

VARIABLES
    locked,    \* Spinlock.Locked
    lkCpu,     \* Spinlock.Cpu
    ifl,       \* the FL_IF bit of each CPU's eflags
    depth,     \* Cpu.CliDepth
    intena,    \* Cpu.InterruptsEnabled
    inIntr,    \* the CPU is running its interrupt handler
    served,    \* the handler has taken and released IntLock
    pc,        \* per CPU and context: "idle", "spin" or "record"
    want,      \* the lock being acquired
    held,      \* the locks the context has acquired and not released
    panicked

vars == <<locked, lkCpu, ifl, depth, intena, inIntr, served, pc, want, held,
          panicked>>

-----------------------------------------------------------------------------
(* Helpers *)

\* The context that runs on c: the handler pre-empts the thread.
Active(c) == IF inIntr[c] THEN "intr" ELSE "thread"

\* isHolding(lk): Locked && Cpu == myCpu().
isHolding(c, l) == locked[l] = 1 /\ lkCpu[l] = c

\* A variant of PushCliFlag that forgets disableInterrupts().
PushCliFlagKept(c) == ifl[c]

\* pushCli's disableInterrupts(): the flag afterwards.
PushCliFlag(c) == FALSE

\* A variant of DepthAfterPush that stores 1 instead of incrementing.
DepthAfterPushOnce(c) == 1

\* pushCli's CliDepth += 1.
DepthAfterPush(c) == depth[c] + 1

\* A variant of PopCliEnables that re-enables at any depth.
PopCliEnablesAnyDepth(c) == intena[c]

\* popCli's test: CliDepth back to 0 and interrupts were on at the outer
\* pushCli.
PopCliEnables(c) == depth[c] - 1 = 0 /\ intena[c]

\* A variant of Free that takes the lock whatever xchg returned.
FreeAlways(l) == TRUE

\* atomicExchange(&lk->Locked, 1) returned 0.
Free(l) == locked[l] = 0

\* A variant of ReleasedWord that leaves Locked set.
ReleasedWordKept(l) == locked

\* spinlockRelease's movl $0, lk->Locked.
ReleasedWord(l) == [locked EXCEPT ![l] = 0]

\* The locks a context may acquire next: the handler takes IntLock once;
\* the thread follows the lock order.
MayAcquire(c, x) ==
    IF x = "intr"
    THEN IF served[c] \/ held[c]["intr"] # {} THEN {} ELSE {IntLock}
    ELSE {l \in Locks : \A h \in held[c]["thread"] : h < l}

-----------------------------------------------------------------------------
Init ==
    \* spinlockInitialise for every lock; mpmain enters scheduler() with
    \* interrupts off, CliDepth 0 and InterruptsEnabled 0 (cpus[] is static).
    /\ locked = [l \in Locks |-> 0]
    /\ lkCpu  = [l \in Locks |-> NoCpu]
    /\ ifl    = [c \in CPUs |-> FALSE]
    /\ depth  = [c \in CPUs |-> 0]
    /\ intena = [c \in CPUs |-> FALSE]
    /\ inIntr = [c \in CPUs |-> FALSE]
    /\ served = [c \in CPUs |-> FALSE]
    /\ pc     = [c \in CPUs |-> [x \in Ctx |-> "idle"]]
    /\ want   = [c \in CPUs |-> [x \in Ctx |-> IntLock]]
    /\ held   = [c \in CPUs |-> [x \in Ctx |-> {}]]
    /\ panicked = FALSE

(* spinlockAcquire up to the spin: pushCli() saves FL_IF at depth 0,      *)
(* disables interrupts and increments CliDepth; isHolding(lk) panics.     *)
acquire(c, l) ==
    LET x == Active(c) IN
    /\ ~panicked
    /\ pc[c][x] = "idle"
    /\ l \in MayAcquire(c, x)
    /\ ifl' = [ifl EXCEPT ![c] = PushCliFlag(c)]
    /\ intena' = IF depth[c] = 0 THEN [intena EXCEPT ![c] = ifl[c]] ELSE intena
    /\ depth' = [depth EXCEPT ![c] = DepthAfterPush(c)]
    /\ IF isHolding(c, l)
       THEN /\ panicked' = TRUE
            /\ UNCHANGED <<pc, want>>
       ELSE /\ pc' = [pc EXCEPT ![c][x] = "spin"]
            /\ want' = [want EXCEPT ![c][x] = l]
            /\ UNCHANGED panicked
    /\ UNCHANGED <<locked, lkCpu, inIntr, served, held>>

(* The while loop's atomicExchange(&lk->Locked, 1) that returns 0; the    *)
(* exchanges that return 1 change nothing.                                *)
spin(c) ==
    LET x == Active(c)
        l == want[c][x]
    IN /\ ~panicked
       /\ pc[c][x] = "spin"
       /\ Free(l)
       /\ locked' = [locked EXCEPT ![l] = 1]
       /\ held' = [held EXCEPT ![c][x] = @ \cup {l}]
       /\ pc' = [pc EXCEPT ![c][x] = "record"]
       /\ UNCHANGED <<lkCpu, ifl, depth, intena, inIntr, served, want, panicked>>

(* __sync_synchronize(); lk->Cpu = myCpu(). *)
record(c) ==
    LET x == Active(c) IN
    /\ ~panicked
    /\ pc[c][x] = "record"
    /\ lkCpu' = [lkCpu EXCEPT ![want[c][x]] = c]
    /\ pc' = [pc EXCEPT ![c][x] = "idle"]
    /\ UNCHANGED <<locked, ifl, depth, intena, inIntr, served, want, held,
                   panicked>>

(* spinlockRelease: panic unless isHolding; clear Cpu and Locked; then    *)
(* popCli: panic if FL_IF is set or CliDepth goes negative, and enable    *)
(* interrupts when CliDepth reaches 0 with InterruptsEnabled set.         *)
release(c, l) ==
    LET x == Active(c) IN
    /\ ~panicked
    /\ pc[c][x] = "idle"
    /\ l \in held[c][x]
    /\ IF ~isHolding(c, l)
       THEN /\ panicked' = TRUE
            /\ UNCHANGED <<locked, lkCpu, ifl, depth, held, served>>
       ELSE /\ lkCpu' = [lkCpu EXCEPT ![l] = NoCpu]
            /\ locked' = ReleasedWord(l)
            /\ held' = [held EXCEPT ![c][x] = @ \ {l}]
            /\ IF ifl[c]
               THEN /\ panicked' = TRUE
                    /\ UNCHANGED <<depth, ifl, served>>
               ELSE /\ depth' = [depth EXCEPT ![c] = @ - 1]
                    /\ panicked' = (depth[c] - 1 < 0)
                    /\ ifl' = IF PopCliEnables(c) THEN [ifl EXCEPT ![c] = TRUE] ELSE ifl
                    /\ served' = IF x = "intr" THEN [served EXCEPT ![c] = TRUE] ELSE served
    /\ UNCHANGED <<intena, inIntr, pc, want>>

(* The scheduler loop's enableInterrupts(), with no lock held. *)
sti(c) ==
    /\ ~panicked
    /\ ~inIntr[c]
    /\ pc[c]["thread"] = "idle" /\ held[c]["thread"] = {}
    /\ ~ifl[c]
    /\ ifl' = [ifl EXCEPT ![c] = TRUE]
    /\ UNCHANGED <<locked, lkCpu, depth, intena, inIntr, served, pc, want,
                   held, panicked>>

(* A device interrupt: the interrupt gate clears FL_IF and trap() runs. *)
interrupt(c) ==
    /\ ~panicked
    /\ ifl[c] /\ ~inIntr[c]
    /\ inIntr' = [inIntr EXCEPT ![c] = TRUE]
    /\ ifl' = [ifl EXCEPT ![c] = FALSE]
    /\ UNCHANGED <<locked, lkCpu, depth, intena, served, pc, want, held,
                   panicked>>

(* trap() returns and iret restores the interrupted eflags, FL_IF set. *)
iret(c) ==
    /\ ~panicked
    /\ inIntr[c] /\ served[c]
    /\ inIntr' = [inIntr EXCEPT ![c] = FALSE]
    /\ served' = [served EXCEPT ![c] = FALSE]
    /\ ifl' = [ifl EXCEPT ![c] = TRUE]
    /\ UNCHANGED <<locked, lkCpu, depth, intena, pc, want, held, panicked>>

(* After panic() every CPU halts: no action is enabled once panicked. *)
Next ==
    \/ \E c \in CPUs, l \in Locks : acquire(c, l)
    \/ \E c \in CPUs : spin(c)
    \/ \E c \in CPUs : record(c)
    \/ \E c \in CPUs, l \in Locks : release(c, l)
    \/ \E c \in CPUs : sti(c)
    \/ \E c \in CPUs : interrupt(c)
    \/ \E c \in CPUs : iret(c)

Spec == Init /\ [][Next]_vars

(* Every critical section of the kernel is finite, so a held lock is      *)
(* eventually released (strongly fair: a nested acquire disables the      *)
(* release for a while); the exchange that finds the lock free is taken   *)
(* when it keeps becoming free (SF, since other CPUs retake it); the      *)
(* store of Cpu and the return from trap() are straight-line code (WF).   *)
FairSpec ==
    /\ Spec
    /\ \A c \in CPUs :
         /\ SF_vars(spin(c)) /\ WF_vars(record(c)) /\ WF_vars(iret(c))
         /\ \A l \in Locks : SF_vars(release(c, l))

-----------------------------------------------------------------------------
(* Properties *)

TypeOK ==
    /\ locked \in [Locks -> {0, 1}]
    /\ lkCpu \in [Locks -> CPUs \cup {NoCpu}]
    /\ ifl \in [CPUs -> BOOLEAN] /\ intena \in [CPUs -> BOOLEAN]
    /\ depth \in [CPUs -> Nat]
    /\ inIntr \in [CPUs -> BOOLEAN] /\ served \in [CPUs -> BOOLEAN]
    /\ pc \in [CPUs -> [Ctx -> {"idle", "spin", "record"}]]
    /\ held \in [CPUs -> [Ctx -> SUBSET Locks]]
    /\ panicked \in BOOLEAN

\* The context inside spinlockAcquire or holding a lock.
InLockCode(c, x) == held[c][x] # {} \/ pc[c][x] # "idle"

(* Interrupts stay off on a CPU from the first pushCli of an acquire to   *)
(* the popCli of the last release, however acquires and releases of       *)
(* several locks nest: popCli re-enables only at CliDepth 0.              *)
InterruptsOffWhileHeld ==
    \A c \in CPUs : (\E x \in Ctx : InLockCode(c, x)) => ~ifl[c]

(* No lock is ever re-acquired by its own CPU: an interrupt handler       *)
(* cannot take IntLock while the interrupted thread holds it, because     *)
(* acquire disabled interrupts first.  That re-acquire would panic.       *)
NoReentryPanic == ~panicked

(* Every acquire completes: a thread or handler spinning at the xchg loop *)
(* on either CPU eventually finds Locked = 0 and goes on.  It rests on     *)
(* pushCli: a handler cannot interrupt a thread of its own CPU that holds  *)
(* or is taking a lock, so no CPU spins on a lock only it can release.     *)
AcquireCompletes ==
    \A c \in CPUs, x \in Ctx : pc[c][x] = "spin" ~> pc[c][x] = "idle"

=============================================================================
