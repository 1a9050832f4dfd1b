\* A regular file (the FD_FILE that fsFat12Open returns to sys_read and
\* exec) read in whole sectors and whole clusters from Position 0.
\* Sectors of 8 bytes, clusters of 2 sectors, three data clusters after
\* a root directory at sectors 3..4, and every FAT over
\* {0, 2, 3, 4, 0xFF8, 0xFFF} that gives the file a chain of the clusters
\* its size needs: one to three clusters in any order, ended by either
\* mark, with the other entries free, chained or cyclic.  Sizes that end
\* mid-sector, on a sector and on a cluster boundary.
CONSTANTS
    BPS = 8
    SPC = 2
    RootOffset = 3
    RootSize = 2
    Wrap = 32
    DataClusters = {2, 3, 4}
    EntryValues = {0, 2, 3, 4, 4088, 4095}
    FileType = "FILE"
    Firsts = {2, 3, 4}
    Sizes = {5, 16, 23, 40}
    ReadLens = {8, 16}
    MaxPos = 56
    Junk = Junk
SPECIFICATION Spec
INVARIANT TypeOK
INVARIANT ReadFollowsChain
