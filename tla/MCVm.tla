-------------------------------- MODULE MCVm --------------------------------
(* Vm for TLC.  Executables, as exec sees them: one section ending at 2    *)
(* (one page), a second one reaching into the next page, a section whose  *)
(* header read comes up short, one whose data read fails, and an argv     *)
(* whose strings do not fit in the stack page.                             *)
EXTENDS Vm, TLC

ExeOne == [secs |-> <<[end |-> 2, rd |-> "ok"]>>, args |-> "ok"]
ExeTwo == [secs |-> <<[end |-> 2, rd |-> "ok"], [end |-> 3, rd |-> "ok"]>>,
           args |-> "ok"]
ExeShort == [secs |-> <<[end |-> 2, rd |-> "short"]>>, args |-> "ok"]
ExeBadLoad == [secs |-> <<[end |-> 2, rd |-> "loadfail"]>>, args |-> "ok"]
ExeLongArgs == [secs |-> <<[end |-> 2, rd |-> "ok"]>>, args |-> "toolong"]

MCExes == {ExeOne, ExeTwo, ExeShort, ExeBadLoad, ExeLongArgs}

\* sbrk up by a partial page and down by a whole one.
MCSbrkArgs == {1, -2}


=============================================================================
