---- MODULE MCConsole ----
EXTENDS Console

\* One consoleWrite of a letter 'y'.
MCWriteBufs == {<<121>>}
====
