----------------------------- MODULE Fat12Open -----------------------------
(***************************************************************************)
(* fsFat12Open of the UoDOS FAT12 reader (src/UoDOS/fs.c) followed by      *)
(* fsFat12Read calls on the File it returns, as sys_open and exec use it   *)
(* (directory argument 0).  Each iteration of fsFat12Open's while (p) loop *)
(* is one step: fsGetPathPart copies the rest of the path into the         *)
(* 20-byte stack array pathPart, toDosFileName turns the part into an 8.3  *)
(* name, and fsFat12FindInRootDirectory or fsFat12FindInSubDirectory looks *)
(* it up.  The reads are Fat12's.                                          *)
(*                                                                         *)
(* A C string is a function from 0..n-1 to characters, a character a short *)
(* string, the character 0 is NUL.  A directory is its sequence of         *)
(* entries in disk order; an entry keeps its 11-byte name, its attribute,  *)
(* FirstCluster and FileSize.  pathPart starts with whatever the stack     *)
(* held (Garbage): reading it before writing it is undefined.              *)
(***************************************************************************)
EXTENDS Fat12

CONSTANTS
    Root,          \* the root directory's entries, in disk order
    SubDir,        \* SubDir[c]: entries read from a directory at FirstCluster c
    ChunkEntries,  \* directory entries in one 512-byte fsFat12Read (16)
    PathPartSize,  \* the size of fsFat12Open's char pathPart[20]
    Cwd,           \* Process.Cwd, without its NUL
    Paths,         \* filename arguments of fsFat12Open
    Directory,     \* its directory argument
    Garbage        \* the contents pathPart may have before it is written

NUL == "NUL"
Sep == {"/", "\\"}
DirAttrib == 16    \* 0x10

\* toupper on the letters the paths use.
Upper(c) == CASE c = "a" -> "A" [] c = "b" -> "B" [] c = "e" -> "E" [] OTHER -> c

\* A string without its NUL as a C string.
CStr(s) == [i \in 0..Len(s) |-> IF i < Len(s) THEN s[i + 1] ELSE NUL]

\* strlen(buf + off).
StrLenFrom(buf, off) == Min({j \in DOMAIN buf : j >= off /\ buf[j] = NUL}) - off

NoEntry == [name |-> [k \in 0..10 |-> NUL], attrib |-> 0, cluster |-> 0, size |-> 0]
NotFound == [found |-> FALSE, entry |-> NoEntry]

-----------------------------------------------------------------------------
(* Path handling *)

\* fsFat12Open's path: filename itself when it starts with a separator,
\* else cwd followed by filename (safestrcpy; no path here reaches
\* MAXCWDSIZE, so neither copy truncates).
BuildPath(fname) == CStr(IF fname[1] \in Sep THEN fname ELSE Cwd \o fname)

\* fsGetPathPart(path + off, pathPart): strcpy copies the whole rest of the
\* path, NUL included, over pathPart; a NUL then ends the part.  Bytes past
\* the copy keep what pathPart held.  A copy longer than pathPart writes
\* past it: undefined behaviour.  ret is the function's result, 0 for the
\* last part.
GetPathPart(pp, path, off) ==
    LET scan    == Min({j \in DOMAIN path : j >= off /\ (path[j] = NUL \/ path[j] \in Sep)})
        len     == scan - off
        copyLen == StrLenFrom(path, off) + 1
    IN [overflow |-> copyLen > PathPartSize,
        len      |-> len,
        ret      |-> IF path[scan] = NUL THEN 0 ELSE len,
        part     |-> [i \in 0..PathPartSize - 1 |->
                        IF i = len THEN NUL
                        ELSE IF i < copyLen THEN path[off + i] ELSE pp[i]]]

\* toDosFileName(fn, dos, 11): eleven spaces; "." and ".." as they are;
\* else the upper-cased characters before the first '.', at most 8; then,
\* after a '.', the three characters that follow it, each copied when it is
\* not 0.  The extension loop does not stop at the name's NUL: a short
\* extension takes the bytes after the NUL.
ToDosFileName(fn) ==
    LET len  == StrLenFrom(fn, 0)
        i    == Min({j \in 0..8 : j >= len \/ j = 8 \/ fn[j] = "."})
        base == [k \in 0..10 |-> IF k < i THEN Upper(fn[k]) ELSE " "]
    IN IF len = 1 /\ fn[0] = "." THEN [base EXCEPT ![0] = "."]
       ELSE IF len = 2 /\ fn[0] = "." /\ fn[1] = "." THEN [base EXCEPT ![0] = ".", ![1] = "."]
       ELSE IF fn[i] = "."
       THEN [k \in 0..10 |-> IF k >= 8 /\ fn[i + k - 7] # NUL THEN Upper(fn[i + k - 7]) ELSE base[k]]
       ELSE base

-----------------------------------------------------------------------------
(* Directory searches *)

\* The first entry of es whose name is dos.
FindIn(es, dos) ==
    LET hits == {k \in 1..Len(es) : es[k].name = dos}
    IN IF hits = {} THEN NotFound ELSE [found |-> TRUE, entry |-> es[Min(hits)]]

\* fsFat12FindInRootDirectory: every root entry whose first byte is not 0.
FindInRootDirectory(dos) == FindIn(SelectSeq(Root, LAMBDA e : e.name[0] # NUL), dos)

\* fsFat12FindInSubDirectory: the directory is read through a File made by
\* fsFat12CreateFileStructure, which gives it Type FD_FILE and Size =
\* FileSize, 0 for a directory; so the first fsFat12Read sets Eof and only
\* the first 512 bytes, ChunkEntries entries, are searched.
FindInSubDirectory(dos, dir) ==
    LET es == SubDir[dir.cluster]
    IN FindIn(SubSeq(es, 1, IF Len(es) < ChunkEntries THEN Len(es) ELSE ChunkEntries), dos)

-----------------------------------------------------------------------------
(* The reference: the spec's open(cwd, path, 0) *)

\* to_dos_name: "." and ".." as they are; else up to 8 upper-cased base
\* characters before the dot and up to 3 after it, padded with spaces.
SpecDosName(t) ==
    LET dots == {k \in 1..Len(t) : t[k] = "."}
        bl   == IF dots = {} THEN Len(t) ELSE Min(dots) - 1
        ext  == IF dots = {} THEN <<>> ELSE SubSeq(t, Min(dots) + 1, Len(t))
    IN IF t = <<".">> \/ t = <<".", ".">>
       THEN [k \in 0..10 |-> IF k < Len(t) THEN "." ELSE " "]
       ELSE [k \in 0..10 |-> IF k < 8 THEN (IF k < bl THEN Upper(t[k + 1]) ELSE " ")
                             ELSE IF k - 8 < Len(ext) THEN Upper(ext[k - 7]) ELSE " "]

\* The components of a path after its leading separator.
RECURSIVE Split(_, _)
Split(s, acc) ==
    IF s = <<>> THEN <<acc>>
    ELSE IF Head(s) \in Sep THEN <<acc>> \o Split(Tail(s), <<>>)
    ELSE Split(Tail(s), Append(acc, Head(s)))

\* The entries of a directory; FirstCluster 0 (in a ".." entry) is the root.
DirEntries(c) == IF c = 0 THEN Root ELSE SubDir[c]

\* Descend the tree: every component but the last must be a directory.
RECURSIVE Walk(_, _)
Walk(es, toks) ==
    LET l == FindIn(es, SpecDosName(Head(toks)))
    IN IF ~l.found THEN NotFound
       ELSE IF Len(toks) = 1
            THEN IF Directory = 1 /\ l.entry.attrib # DirAttrib THEN NotFound ELSE l
       ELSE IF l.entry.attrib # DirAttrib THEN NotFound
       ELSE Walk(DirEntries(l.entry.cluster), Tail(toks))

SpecOpen(fname) ==
    LET full == IF fname[1] \in Sep THEN fname ELSE Cwd \o fname
    IN Walk(Root, Split(Tail(full), <<>>))

-----------------------------------------------------------------------------
VARIABLES
    filename,       \* fsFat12Open's filename argument
    path,           \* its char path[255]
    p,              \* the offset of p in path
    pathPart,       \* its char pathPart[20]
    rootDirectory,  \* its rootDirectory flag
    cur,            \* its currentDirectoryEntry
    fileFree,       \* whether allocateFileStructure finds a free File
    result          \* running, or what fsFat12Open returned

openVars == <<filename, path, p, pathPart, rootDirectory, cur, fileFree, result>>
allVars == <<openVars, vars>>

Running == [kind |-> "running", entry |-> NoEntry]
Ret(k, e) == [kind |-> k, entry |-> e]

\* The regular files of the tree.
TreeFiles == {e \in Range(Root) \cup UNION {Range(SubDir[c]) : c \in DOMAIN SubDir} :
                 e.attrib # DirAttrib}

(* A call fsFat12Open(cwd, filename, Directory) on a disk whose files are *)
(* well formed, with the FAT and whether the file table has a free File   *)
(* as inputs.  Fat12's File is not made yet.                              *)
OpenInit ==
    /\ filename \in Paths
    /\ path = BuildPath(filename)
    /\ p = 1
    /\ pathPart \in Garbage
    /\ rootDirectory = TRUE
    /\ cur = NoEntry
    /\ fileFree \in BOOLEAN
    /\ result = Running
    /\ ent \in [DataClusters -> EntryValues]
    /\ \A e \in TreeFiles : WellFormed(ent, e.cluster, e.size)
    /\ first = 0 /\ size = 0 /\ pos = 0 /\ eof = FALSE /\ out = <<>>

(* One iteration of fsFat12Open's while (p) loop.  fsGetPathPart; the     *)
(* search of the root or of the directory found so far (whose File is     *)
(* allocated and freed inside fsFat12FindInSubDirectory, and used without *)
(* a check that allocation worked); then the last part gives a File from  *)
(* fsFat12CreateFileStructure, and any other part must be a directory.    *)
openStep ==
    /\ result = Running
    /\ LET g == GetPathPart(pathPart, path, p)
           dos == ToDosFileName(g.part)
           f == IF rootDirectory THEN FindInRootDirectory(dos) ELSE FindInSubDirectory(dos, cur)
       IN IF g.overflow \/ (~rootDirectory /\ ~fileFree)
          THEN /\ result' = Ret("ub", NoEntry)
               /\ UNCHANGED <<filename, path, p, pathPart, rootDirectory, cur, fileFree, vars>>
          ELSE /\ pathPart' = g.part
               /\ rootDirectory' = FALSE
               /\ cur' = IF f.found THEN f.entry ELSE cur
               /\ p' = p + g.ret + 1
               /\ result' =
                    CASE ~f.found -> Ret("none", NoEntry)
                      [] g.ret = 0 /\ Directory = 1 /\ f.entry.attrib # DirAttrib -> Ret("none", NoEntry)
                      [] g.ret = 0 /\ ~fileFree -> Ret("nofile", NoEntry)
                      [] g.ret = 0 -> Ret("file", f.entry)
                      [] f.entry.attrib # DirAttrib -> Ret("none", NoEntry)
                      [] OTHER -> Running
               /\ first' = IF result'.kind = "file" THEN f.entry.cluster ELSE first
               /\ size' = IF result'.kind = "file" THEN f.entry.size ELSE size
               /\ UNCHANGED <<filename, path, fileFree, ent, pos, eof, out>>

(* fsFat12Read on the File fsFat12Open returned. *)
readOpened(n) ==
    /\ result.kind = "file"
    /\ read(n)
    /\ UNCHANGED openVars

OpenNext == openStep \/ \E n \in ReadLens : readOpened(n)

OpenSpec == OpenInit /\ [][OpenNext]_allVars

-----------------------------------------------------------------------------
(* fsFat12Open resolves a path as the spec's open does, and the File it   *)
(* returns reads as the named file: it never writes past pathPart or      *)
(* dereferences a failed allocation; it returns a File exactly when the   *)
(* spec's walk finds the entry (or fails only for want of a free File),   *)
(* for that entry; and reading a regular file it opened returns that      *)
(* file's bytes.  It rests on fsGetPathPart, toDosFileName and both       *)
(* directory searches agreeing with the spec on every component.          *)
OpenReadsNamedFile ==
    LET s == SpecOpen(filename) IN
    /\ result.kind # "ub"
    /\ result.kind = "none" => ~s.found
    /\ result.kind = "file" => /\ s.found /\ result.entry = s.entry
                               /\ (result.entry.attrib # DirAttrib => ReadReturnsFileBytes)

=============================================================================
