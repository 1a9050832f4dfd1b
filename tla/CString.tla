------------------------------ MODULE CString ------------------------------
(***************************************************************************)
(* The memory routines of src/UoDOS/string.c, as operators on a memory:  *)
(* a function from addresses to the values stored there.  A unit of the  *)
(* memory is whatever the caller copies (a byte, or a CGA cell of two     *)
(* bytes: copying a cell's two bytes in either order moves the cell), so *)
(* the byte count a caller passes is given here in units.                *)
(***************************************************************************)
EXTENDS Integers

\* memset(dst, c, n): both of its branches (storeSequenceOfDwords with the
\* byte replicated when dst and n are multiples of 4, storeSequenceOfBytes
\* otherwise) store c & 0xFF into units dst .. dst + n - 1.
Memset(mem, dst, c, n) ==
    [a \in DOMAIN mem |-> IF dst <= a /\ a < dst + n THEN c % 256 ELSE mem[a]]

\* memmove's else-branch: while (n-- > 0) *d++ = *s++;
RECURSIVE MoveUp(_, _, _, _)
MoveUp(mem, d, s, n) ==
    IF n = 0 THEN mem ELSE MoveUp([mem EXCEPT ![d] = mem[s]], d + 1, s + 1, n - 1)

\* memmove's overlap branch: s += n; d += n; while (n-- > 0) *--d = *--s;
RECURSIVE MoveDown(_, _, _, _)
MoveDown(mem, d, s, n) ==
    IF n = 0 THEN mem
    ELSE MoveDown([mem EXCEPT ![d + n - 1] = mem[s + n - 1]], d, s, n - 1)

\* memmove(dst, src, n): copy from the high end when the source starts
\* below the destination and overlaps it.
Memmove(mem, dst, src, n) ==
    IF src < dst /\ src + n > dst
    THEN MoveDown(mem, dst, src, n)
    ELSE MoveUp(mem, dst, src, n)
=============================================================================
