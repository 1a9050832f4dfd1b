\* fsFat12Open then fsFat12Read, from cwd "/", on a root holding directory
\* A, file B.A and the empty file E, A holding ".", "..", A.B and B.  Sectors
\* of 8 bytes and clusters of 2 sectors, as in MCFat12.cfg; directory
\* searches read 3 entries at a time (512 bytes hold 16); reads of 3 and 8
\* bytes; every FAT that keeps the files well formed.
CONSTANTS
    BPS = 8
    SPC = 2
    RootOffset = 3
    RootSize = 2
    Wrap = 32
    DataClusters = {2, 3, 4, 5}
    EntryValues = {0, 3, 5, 4095}
    FileType = "FILE"
    Firsts = {0}
    Sizes = {0}
    ReadLens = {3, 8}
    MaxPos = 40
    Junk = Junk
    ChunkEntries = 3
    PathPartSize = 20
    Directory = 0
    Root <- MCRoot
    SubDir <- MCSubDir
    Cwd <- MCCwd
    Paths <- MCPaths
    Garbage <- MCGarbage
INIT OpenInit
NEXT OpenNext
\* fsFat12Open returns, and reading stops at Eof or MaxPos.
CHECK_DEADLOCK FALSE
INVARIANT OpenReadsNamedFile
