-------------------------------- MODULE Cga --------------------------------
(***************************************************************************)
(* Console output to the CGA text screen (src/UoDOS/console.c): cgaputc, *)
(* consputc and consoleWrite, as operators on a screen.  The             *)
(* screen is COLS columns; cgaputc keeps the cursor in the first ROWS    *)
(* rows and scrolls when it leaves them, of the ROWS + 1 rows of CGA     *)
(* memory (80, 24 and 25 in the code; 23 is ROWS - 1).  The cursor      *)
(* position lives in the CRT controller, which cgaputc reads before and  *)
(* writes after every character; it is a field of the screen state.     *)
(* The colour attribute 0x0700 and the UART mirror are left out.         *)
(*                                                                         *)
(* A cell holds a character code: ' ' (what cgaputc writes under the    *)
(* cursor) or 0 (what the scroll's memset writes) show as blank.        *)
(***************************************************************************)
EXTENDS Integers, SequencesExt, CString

CONSTANTS
    COLS,      \* 80
    ROWS       \* 24: the rows the cursor stays in

Cells == 0..(ROWS + 1) * COLS - 1

NL == 10
Space == 32
BACKSPACE == 256

\* A screen: the CGA cells, the CRT cursor, and the fault that stopped
\* output: "panic" for panic("pos under/overflow") (whose own cprintf
\* re-enters cgaputc at the same cursor, since panicked is set only at its
\* end), "overrun" for a scroll whose memset length is negative and, as
\* uint32_t, runs past CGA memory, "none" otherwise.
ScreenAt(crt, pos) == [crt |-> crt, pos |-> pos, fault |-> "none"]

\* if ((pos / 80) >= 24): the cursor has left the kept rows.
NeedsScroll(pos) == pos \div COLS >= ROWS

\* A variant of Scroll that moves one row too few.
ScrollOneRowShort(crt, pos) ==
    Memset(Memmove(crt, 0, COLS, (ROWS - 2) * COLS), pos, 0, ROWS * COLS - pos)

\* The scroll: memmove rows 1 .. ROWS - 1 onto rows 0 .. ROWS - 2, and,
\* with the cursor moved up a row to pos, memset from it to the end of row
\* ROWS - 1, a length of ROWS * COLS - pos units.
Scroll(crt, pos) ==
    Memset(Memmove(crt, 0, COLS, (ROWS - 1) * COLS), pos, 0, ROWS * COLS - pos)

(* cgaputc(c): a newline moves to the next row, a backspace one cell back *)
(* (not before cell 0), anything else is stored and advances.  A cursor   *)
(* outside 0 .. 25*80 panics; past the kept rows the screen scrolls.      *)
(* Then the cell under the cursor is cleared.                              *)
cgaputc(scr, c) ==
    LET p0  == scr.pos
        pos == CASE c = NL        -> p0 + COLS - (p0 % COLS)
                 [] c = BACKSPACE -> IF p0 > 0 THEN p0 - 1 ELSE p0
                 [] OTHER         -> p0 + 1
        crt == IF c \in {NL, BACKSPACE} THEN scr.crt ELSE [scr.crt EXCEPT ![p0] = c % 256]
        up  == pos - COLS
    IN CASE pos < 0 \/ pos > (ROWS + 1) * COLS  -> [scr EXCEPT !.fault = "panic"]
         [] NeedsScroll(pos) /\ ROWS * COLS - up < 0 -> [scr EXCEPT !.fault = "overrun"]
         [] NeedsScroll(pos) -> ScreenAt([Scroll(crt, up) EXCEPT ![up] = Space], up)
         [] OTHER            -> ScreenAt([crt EXCEPT ![pos] = Space], pos)

\* consputc(c): the UART copy, left out, and cgaputc(c).  Nothing is
\* written after a fault.
consputc(scr, c) == IF scr.fault # "none" THEN scr ELSE cgaputc(scr, c)

\* consoleWrite(f, buf, n)'s loop: consputc(buf[i] & 0xff) for each byte.
consoleWrite(scr, buf) == FoldLeft(consputc, scr, [i \in DOMAIN buf |-> buf[i] % 256])

\* What a cell shows.
Shown(cell) == IF cell = 0 THEN Space ELSE cell

=============================================================================
