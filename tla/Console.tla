------------------------------ MODULE Console ------------------------------
(***************************************************************************)
(* The UoDOS console input line discipline (src/UoDOS/console.c): the      *)
(* keyboard interrupt's consoleInterrupt edits and commits lines in the    *)
(* ring input.buf, and processes in consoleRead take committed bytes,      *)
(* sleeping on &input.r while there are none.  r, w and e are uint32_t and *)
(* wrap modulo Wrap, a multiple of INPUT_BUF as 2^32 is of 128.            *)
(*                                                                         *)
(* There is one CPU: whoever holds cons.Lock runs with interrupts off, so  *)
(* no key, kill or other reader steps until it sleeps or returns.  One     *)
(* step of intr is one key of consoleInterrupt's getc loop; the lock is    *)
(* held over the loop, but a reader stepping between two keys reaches no   *)
(* state that two interrupts of one key each do not.  The echo of each    *)
(* key (consputc) and consoleWrite's output go to the screen of Cga;     *)
(* ^P's processDump, a listing through cprintf, is left out.              *)
(***************************************************************************)
EXTENDS Integers, Sequences, SequencesExt, Cga

CONSTANTS
    INPUT_BUF,  \* size of input.buf
    Wrap,       \* 2^32, the range of the uint32_t indices
    Procs,      \* processes that read the console
    Keys,       \* what getc() may return: a letter "x", "cr", "nl", "eot"
                \* (^D), "bs" (^H), "nak" (^U) and "nul" (0)
    ReadSizes,  \* the n argument of consoleRead
    MaxKeys,    \* keys typed in a behaviour
    WriteBufs,  \* what a process passes to consoleWrite: character codes
    MaxWrites,  \* consoleWrite calls in a behaviour
    NoProc

ASSUME Wrap % INPUT_BUF = 0 /\ Wrap > INPUT_BUF

VARIABLES
    buf, r, w, e,  \* input
    holder,        \* the process holding cons.Lock, or NoProc
    rpc,           \* per process: "idle", "loop" (in consoleRead, lock
                   \* held) or "asleep" (in sleep(&input.r, &cons.Lock))
    nleft, target, \* consoleRead's n and target
    sleeping,      \* State == SLEEPING on &input.r
    killed,        \* IsKilled
    typed,         \* keys typed so far
    line,          \* history: the line being edited, as the user sees it
    committed,     \* history: the committed lines, in order
    taken,         \* history: the bytes consoleRead calls took, in order,
                   \* and a ^D for each call that returned 0 at a ^D
    scr,           \* the CGA screen and cursor
    writes,        \* consoleWrite calls so far
    mixed          \* history: a consoleWrite came while a line was edited

vars == <<buf, r, w, e, holder, rpc, nleft, target, sleeping, killed, typed,
          line, committed, taken, scr, writes, mixed>>

Chars == (Keys \ {"cr", "bs", "nak", "nul"}) \cup {"nl"}

\* The character code of a stored byte: C('D') is 4, and the letter is 'x'.
Code(c) == CASE c = "nl" -> NL [] c = "eot" -> 4 [] OTHER -> 120

-----------------------------------------------------------------------------
(* Helpers *)

Slot(i) == i % INPUT_BUF
Inc(i) == (i + 1) % Wrap
Dec(i) == (i - 1) % Wrap

\* b - a in uint32_t arithmetic.
Dist(b, a) == (b - a) % Wrap

\* The bytes of the ring from index a up to index b.
Segment(a, b) == [k \in 1..Dist(b, a) |-> buf[Slot((a + k - 1) % Wrap)]]

\* A variant of HasRoom that lets the edit index run one past a full ring.
HasRoomOffByOne == Dist(e, r) <= INPUT_BUF

\* input.e - input.r < INPUT_BUF
HasRoom == Dist(e, r) < INPUT_BUF

\* ^U's loop: back e up to w or to the last newline.
RECURSIVE KillLine(_)
KillLine(x) == IF x # w /\ buf[Slot(Dec(x))] # "nl" THEN KillLine(Dec(x)) ELSE x

\* A variant of Wakes that wakes readers only at a newline.
WakesOnNewline(c) == c = "nl"

\* Whether a commit also wakes the readers: wakeup(&input.r) is in the
\* same block as input.w = input.e.
Wakes(c) == TRUE

-----------------------------------------------------------------------------
Init ==
    \* input is static, so zero; the letter in each slot is irrelevant.
    /\ buf = [i \in 0..INPUT_BUF-1 |-> "nul"]
    /\ r = 0 /\ w = 0 /\ e = 0
    /\ holder = NoProc
    /\ rpc = [p \in Procs |-> "idle"]
    /\ nleft = [p \in Procs |-> 0] /\ target = [p \in Procs |-> 0]
    /\ sleeping = [p \in Procs |-> FALSE]
    /\ killed = [p \in Procs |-> FALSE]
    /\ typed = 0
    /\ line = <<>> /\ committed = <<>> /\ taken = <<>>
    \* A cleared screen, and the cursor where the boot messages left it:
    \* they end with a newline (kernel_main.c:45), so at the start of a row.
    /\ scr \in {ScreenAt([a \in Cells |-> Space], row * COLS) : row \in 0..ROWS - 1}
    /\ writes = 0 /\ mixed = FALSE

(* consoleInterrupt for one key k: ^U kills the line, ^H deletes a byte   *)
(* of it, any other non-zero key is stored while the ring has room and    *)
(* commits the line at a newline, a ^D or a full ring, waking readers.    *)
(* Each byte erased is echoed as a BACKSPACE and each byte stored echoed.  *)
intr(k) ==
    /\ holder = NoProc
    /\ typed < MaxKeys
    /\ typed' = typed + 1
    /\ CASE k = "nak" ->
              /\ e' = KillLine(e)
              /\ scr' = FoldLeft(consputc, scr, [i \in 1..Dist(e, KillLine(e)) |-> BACKSPACE])
              /\ line' = <<>>
              /\ UNCHANGED <<buf, w, sleeping, committed>>
         [] k = "bs" ->
              /\ e' = IF e # w THEN Dec(e) ELSE e
              /\ scr' = IF e # w THEN consputc(scr, BACKSPACE) ELSE scr
              /\ line' = IF line # <<>> THEN Front(line) ELSE line
              /\ UNCHANGED <<buf, w, sleeping, committed>>
         [] OTHER ->
              LET c  == IF k = "cr" THEN "nl" ELSE k
                  e1 == Inc(e)
              IN IF k # "nul" /\ HasRoom
                 THEN /\ buf' = [buf EXCEPT ![Slot(e)] = c]
                      /\ e' = e1
                      /\ scr' = consputc(scr, Code(c))
                      /\ IF c = "nl" \/ c = "eot" \/ e1 = (r + INPUT_BUF) % Wrap
                         THEN /\ w' = e1
                              /\ sleeping' = IF Wakes(c)
                                             THEN [p \in Procs |-> FALSE]
                                             ELSE sleeping
                              /\ committed' = committed \o line \o <<c>>
                              /\ line' = <<>>
                         ELSE /\ line' = Append(line, c)
                              /\ UNCHANGED <<w, sleeping, committed>>
                 ELSE UNCHANGED <<buf, e, w, sleeping, line, committed, scr>>
    /\ mixed' = (mixed /\ line' # <<>>)
    /\ UNCHANGED <<r, holder, rpc, nleft, target, killed, taken, writes>>

(* A process enters consoleRead(f, dst, n) and takes cons.Lock.  A killed *)
(* process exits at its next return to user space and calls no more.     *)
call(p, n) ==
    /\ holder = NoProc /\ rpc[p] = "idle" /\ ~killed[p]
    /\ holder' = p
    /\ rpc' = [rpc EXCEPT ![p] = "loop"]
    /\ nleft' = [nleft EXCEPT ![p] = n]
    /\ target' = [target EXCEPT ![p] = n]
    /\ UNCHANGED <<buf, r, w, e, sleeping, killed, typed, line, committed, taken,
                   scr, writes, mixed>>

Return(p) == /\ holder' = NoProc /\ rpc' = [rpc EXCEPT ![p] = "idle"]

\* A variant of EotSaved that consumes a ^D ending a non-empty read.
EotSavedNever(p) == FALSE

\* if (n < target) input.r--: the ^D stays for the next call.
EotSaved(p) == nleft[p] < target[p]

(* One turn of consoleRead's loop with cons.Lock held: with nothing       *)
(* committed return -1 if killed, else sleep; otherwise take a byte and   *)
(* return at ^D (keeping it unless it is the first byte), at a newline or *)
(* when n bytes are read.                                                 *)
step(p) ==
    /\ holder = p /\ rpc[p] = "loop"
    /\ IF r = w
       THEN IF killed[p]
            THEN /\ Return(p)
                 /\ UNCHANGED <<r, sleeping, nleft, taken>>
            ELSE /\ holder' = NoProc
                 /\ rpc' = [rpc EXCEPT ![p] = "asleep"]
                 /\ sleeping' = [sleeping EXCEPT ![p] = TRUE]
                 /\ UNCHANGED <<r, nleft, taken>>
       ELSE LET c == buf[Slot(r)] IN
            IF c = "eot"
            THEN /\ Return(p)
                 /\ IF EotSaved(p)
                    THEN UNCHANGED <<r, taken>>
                    ELSE /\ r' = Inc(r)
                         \* the caller sees the ^D only as a 0-byte result
                         /\ taken' = IF nleft[p] = target[p]
                                      THEN Append(taken, c) ELSE taken
                 /\ UNCHANGED <<sleeping, nleft>>
            ELSE /\ r' = Inc(r)
                 /\ taken' = Append(taken, c)
                 /\ nleft' = [nleft EXCEPT ![p] = @ - 1]
                 /\ IF c = "nl" \/ nleft[p] - 1 = 0
                    THEN Return(p)
                    ELSE UNCHANGED <<holder, rpc>>
                 /\ UNCHANGED sleeping
    /\ UNCHANGED <<buf, w, e, target, killed, typed, line, committed, scr, writes,
                   mixed>>

(* A woken reader is scheduled: sleep re-acquires cons.Lock and returns. *)
wake(p) ==
    /\ holder = NoProc /\ rpc[p] = "asleep" /\ ~sleeping[p]
    /\ holder' = p
    /\ rpc' = [rpc EXCEPT ![p] = "loop"]
    /\ UNCHANGED <<buf, r, w, e, nleft, target, sleeping, killed, typed, line,
                   committed, taken, scr, writes, mixed>>

\* A variant of KillWake that leaves a sleeping process asleep.
KillWakeNone(p) == sleeping

\* kill's if (p->State == SLEEPING) p->State = RUNNABLE.
KillWake(p) == [sleeping EXCEPT ![p] = FALSE]

(* kill(pid) by another process, which runs only while nobody holds      *)
(* cons.Lock.                                                             *)
kill(p) ==
    /\ holder = NoProc /\ ~killed[p]
    /\ killed' = [killed EXCEPT ![p] = TRUE]
    /\ sleeping' = KillWake(p)
    /\ UNCHANGED <<buf, r, w, e, holder, rpc, nleft, target, typed, line,
                   committed, taken, scr, writes, mixed>>

(* consoleWrite(f, buf, n) from a process: under cons.Lock, with         *)
(* interrupts off, consputc of every byte; it returns n.                 *)
write(p, b) ==
    /\ holder = NoProc /\ rpc[p] = "idle" /\ ~killed[p]
    /\ writes < MaxWrites
    /\ writes' = writes + 1
    /\ scr' = consoleWrite(scr, b)
    /\ mixed' = (mixed \/ line # <<>>)
    /\ UNCHANGED <<buf, r, w, e, holder, rpc, nleft, target, sleeping, killed,
                   typed, line, committed, taken>>

Next ==
    \/ \E k \in Keys : intr(k)
    \/ \E p \in Procs, b \in WriteBufs : write(p, b)
    \/ \E p \in Procs, n \in ReadSizes : call(p, n)
    \/ \E p \in Procs : step(p)
    \/ \E p \in Procs : wake(p)
    \/ \E p \in Procs : kill(p)

\* The scheduler runs every runnable process: a reader holding the lock
\* continues and a woken one is scheduled.  Typing and killing are up to
\* the user.
Fairness == \A p \in Procs : WF_vars(step(p)) /\ WF_vars(wake(p))

Spec == Init /\ [][Next]_vars /\ Fairness

-----------------------------------------------------------------------------
(* Properties *)

TypeOK ==
    /\ buf \in [0..INPUT_BUF-1 -> Chars \cup {"nul"}]
    /\ {r, w, e} \subseteq 0..Wrap-1
    /\ Dist(e, r) \in 0..INPUT_BUF
    /\ holder \in Procs \cup {NoProc}
    /\ rpc \in [Procs -> {"idle", "loop", "asleep"}]
    /\ sleeping \in [Procs -> BOOLEAN] /\ killed \in [Procs -> BOOLEAN]
    /\ scr.pos \in 0..ROWS * COLS - 1 /\ scr.fault = "none"

(* The ring holds exactly what the user typed, edits applied: the bytes   *)
(* readers took, then the committed bytes in input.buf[r..w), then the    *)
(* line being edited in [w..e), are the committed lines followed by the   *)
(* current line.  So a ^D reaches the reader as a 0-byte result even when *)
(* it ends a partial read, and neither editing nor storing touches a byte *)
(* before w.                                                              *)
StreamIsTyping ==
    /\ Dist(w, r) <= Dist(e, r)
    /\ taken \o Segment(r, w) \o Segment(w, e) = committed \o line

(* No reader sleeps while there is committed input: every commit wakes   *)
(* the readers in the same cons.Lock section that moves w.              *)
NoSleepWithInput == \A p \in Procs : sleeping[p] => r = w

(* The screen shows the echo of the line being edited: unless a          *)
(* consoleWrite came in the middle of it, the cells just before the      *)
(* cursor hold its bytes, whatever scrolling and backspacing across rows *)
(* happened; the cell under the cursor and every cell after it in the    *)
(* kept rows are blank (the scroll's memset clears the new row), and     *)
(* cgaputc never panics.                                                 *)
ScreenShowsEcho ==
    LET n == Len(line) IN
    /\ scr.fault = "none"
    /\ ~mixed => /\ n <= scr.pos
                 /\ \A i \in 1..n : scr.crt[scr.pos - n + i - 1] = Code(line[i])
    /\ \A a \in scr.pos..ROWS * COLS - 1 : Shown(scr.crt[a]) = Space

(* A killed process in consoleRead returns, whether or not anyone types *)
(* again: kill wakes it and the loop checks IsKilled before sleeping.   *)
KilledReadReturns == \A p \in Procs : (killed[p] /\ rpc[p] # "idle") ~> rpc[p] = "idle"

=============================================================================
