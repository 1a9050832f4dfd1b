----------------------------- MODULE MCFat12Open -----------------------------
(* Fat12Open for TLC: a two-level tree, the paths opened in it, and the    *)
(* stack contents pathPart may start with.                                 *)
EXTENDS Fat12Open

\* An 11-byte 8.3 name from its base and extension.
DosName(b, e) == [k \in 0..10 |-> IF k < Len(b) THEN b[k + 1]
                                  ELSE IF k >= 8 /\ k - 8 < Len(e) THEN e[k - 7] ELSE " "]

Entry(b, e, a, c, sz) == [name |-> DosName(b, e), attrib |-> a, cluster |-> c, size |-> sz]

\* Root: directory A at cluster 2, B.A of 8 bytes at cluster 3, and an
\* empty file E (FirstCluster 0).
MCRoot == << Entry(<<"A">>, <<>>, 16, 2, 0),
             Entry(<<"B">>, <<"A">>, 32, 3, 8),
             Entry(<<"E">>, <<>>, 32, 0, 0) >>

\* A: ".", ".." (FirstCluster 0: the root), A.B of 24 bytes (two clusters)
\* from cluster 4, and B, its fourth entry.  Cluster 0 is read at sector
\* RootOffset + RootSize - 2 * SPC, which holds no directory entries.
MCSubDir == [c \in {0, 2} |->
               IF c = 0 THEN <<>>
               ELSE << Entry(<<".">>, <<>>, 16, 2, 0),
                       Entry(<<".", ".">>, <<>>, 16, 0, 0),
                       Entry(<<"A">>, <<"B">>, 32, 4, 24),
                       Entry(<<"B">>, <<>>, 32, 3, 8) >>]

MCCwd == <<"/">>

MCPaths == { <<"/", "b", ".", "a">>,
             <<"/", "a", "/", "a", ".", "b">>,
             <<"a", "/", "a", ".", "b">>,
             <<"/", "e">>,
             <<"/", "a", "/", "b">>,
             <<"/", "a", "/", ".", ".", "/", "b", ".", "a">>,
             <<"/", "a", "/", ".", "/", ".", "/", ".", "/", ".", "/", ".", "/",
               ".", "/", ".", "/", ".", "/", ".", "/", "b">>,
             <<"/", "b", ".", "a", "/", "b">> }

\* Zeroed stack, or stack holding letters.
MCGarbage == { [i \in 0..19 |-> NUL], [i \in 0..19 |-> "a"] }
=============================================================================
