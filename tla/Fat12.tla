------------------------------- MODULE Fat12 -------------------------------
(***************************************************************************)
(* Successive fsFat12Read calls on one open File of the UoDOS FAT12 reader *)
(* (src/UoDOS/fs.c): fsFat12GetNextCluster on the in-memory FAT,           *)
(* fsFat12ReadCluster's sector arithmetic, and fsFat12Read's walk of the   *)
(* cluster chain, checked against a reference reading of the same disk.    *)
(*                                                                         *)
(* The FAT is an input: every assignment of EntryValues to the data        *)
(* clusters, stored as FAT12 packs it (three bytes per pair of entries).   *)
(* A disk byte is named by its place, <<sector, index>>, so that a byte    *)
(* read from the wrong place is told apart from the right one.  A byte     *)
(* past the end of a DiskBuffer's Data array is Junk (the next buffer's    *)
(* header in the static buffer array).  Sector numbers are uint32_t and    *)
(* wrap modulo Wrap.                                                       *)
(***************************************************************************)
EXTENDS Integers, Sequences, FiniteSets, SequencesExt

CONSTANTS
    BPS,           \* Bpb.BytesPerSector
    SPC,           \* Bpb.SectorsPerCluster
    RootOffset,    \* mountInfo.RootOffset
    RootSize,      \* mountInfo.RootSize
    Wrap,          \* 2^32, the range of a uint32_t sector number
    DataClusters,  \* the data clusters 2..n
    EntryValues,   \* the values a data cluster's FAT entry may hold
    FileType,      \* "FILE" or "DIR"
    Firsts,        \* DirectoryEntry.FirstCluster values
    Sizes,         \* DirectoryEntry.FileSize values
    ReadLens,      \* the length argument of fsFat12Read
    MaxPos,        \* no read is started at or beyond this Position
    Junk

ASSUME /\ DataClusters = 2..(1 + Cardinality(DataClusters)) \* clusters from 2
       /\ FileType \in {"FILE", "DIR"}

ClusterSize == SPC * BPS

MaxLen == CHOOSE n \in ReadLens : \A m \in ReadLens : m <= n

\* The bytes a reader may receive: bytes of the data area, or Junk.
DataSectors == (RootOffset + RootSize)..(RootOffset + RootSize + SPC * Cardinality(DataClusters) - 1)
Bytes == (DataSectors \X (0..BPS-1)) \cup {Junk}

-----------------------------------------------------------------------------
(* The FAT *)

\* FAT entries: 0 and 1 are reserved (media byte 0xF0); the rest is input.
Entries(ent) == [n \in 0..1 + Cardinality(DataClusters) |->
                    IF n = 0 THEN 16^3 - 16 ELSE IF n = 1 THEN 16^3 - 1 ELSE ent[n]]

\* FAT12 packing: entries 2k and 2k+1 share bytes 3k, 3k+1 and 3k+2.
FatBytes(ent) ==
    LET e == Entries(ent)
        N == 2 + Cardinality(DataClusters)
        E(n) == IF n < N THEN e[n] ELSE 0
    IN [b \in 0..(3 * ((N + 1) \div 2)) - 1 |->
          LET k == b \div 3 IN
          CASE b % 3 = 0 -> E(2 * k) % 256
            [] b % 3 = 1 -> E(2 * k) \div 256 + (E(2 * k + 1) % 16) * 16
            [] b % 3 = 2 -> E(2 * k + 1) \div 16]

\* fsFat12Initialise's copy of the FAT into the static array fat: the loop
\* passes &fat + fatOffset, a pointer to the whole array, so only the first
\* FAT sector (fatOffset 0) lands in fat; the later sectors are written
\* far past it, and the rest of fat stays zero.
LoadedFat(fb) == [i \in DOMAIN fb |-> IF i < BPS THEN fb[i] ELSE 0]

\* fat[i]: the part of the static array past the loaded FAT is zero.
FatByte(fb, i) == IF i \in DOMAIN fb THEN fb[i] ELSE 0

\* A variant of Unpack12 that takes the odd entry from the low bits.
Unpack12Swapped(cluster, v) == IF cluster % 2 = 1 THEN v % 4096 ELSE v \div 16

\* nextCluster >>= 4 for an odd cluster, nextCluster &= 0x0FFF for an even.
Unpack12(cluster, v) == IF cluster % 2 = 1 THEN v \div 16 ELSE v % 4096

\* fsFat12GetNextCluster: the uint16_t at fat[cluster + cluster/2], unpacked;
\* 0 for an end-of-chain mark (>= 0xFF8) and for a free entry.
GetNextCluster(fb, cluster) ==
    LET off == cluster + cluster \div 2
        v   == FatByte(fb, off) + 256 * FatByte(fb, off + 1)
        nc  == Unpack12(cluster, v)
    IN IF nc >= 16^3 - 8 \/ nc = 0 THEN 0 ELSE nc

-----------------------------------------------------------------------------
(* Reading clusters *)

\* A variant of Sector that forgets the root directory's size.
SectorNoRoot(cluster) == (RootOffset + (cluster - 2) * SPC) % Wrap

\* The first sector of a cluster, in uint32_t arithmetic.
Sector(cluster) == (RootOffset + RootSize + (cluster - 2) * SPC) % Wrap

\* Byte i of the Data array of the buffer for sector s.
Byte(s, i) == IF i < BPS THEN <<s, i>> ELSE Junk

\* fsFat12ReadCluster's while loop: copy min(size, BPS) bytes from
\* Data + offset of each sector, offset 0 after the first.
RECURSIVE SectorCopy(_, _, _)
SectorCopy(s, offset, size) ==
    IF size = 0 THEN <<>>
    ELSE LET n == IF size < BPS THEN size ELSE BPS
         IN [i \in 1..n |-> Byte(s, offset + i - 1)]
              \o SectorCopy((s + 1) % Wrap, 0, size - n)

\* fsFat12ReadCluster(0, cluster, buffer, offset, size): clamp size and
\* offset to the cluster, step to the sector holding offset, copy.
ReadCluster(cluster, offset0, size0) ==
    LET size1  == IF size0 > ClusterSize THEN ClusterSize ELSE size0
        offset == IF offset0 >= ClusterSize THEN 0 ELSE offset0
        size   == IF offset + size1 > ClusterSize THEN ClusterSize - offset ELSE size1
        so     == offset \div BPS
    IN IF offset > 0
       THEN SectorCopy((Sector(cluster) + so) % Wrap, offset % BPS, size)
       ELSE SectorCopy(Sector(cluster), 0, size)

\* The hop loop: follow the chain n times from cluster c.
RECURSIVE Hop(_, _, _)
Hop(fb, c, n) == IF n = 0 THEN c ELSE Hop(fb, GetNextCluster(fb, c), n - 1)

\* fsFat12Read's second loop, from cluster cur at offset coff, with length
\* bytes still wanted: the bytes read, the new Position and Eof.
RECURSIVE ReadLoop(_, _, _, _, _, _, _)
ReadLoop(fb, size, cur, coff, length, pos, acc) ==
    IF length = 0 THEN [bytes |-> acc, pos |-> pos, eof |-> FALSE]
    ELSE LET rc == ReadCluster(cur, coff, length)
             rl == Len(rc)
             p2 == pos + rl
             nc == IF coff + rl = ClusterSize THEN GetNextCluster(fb, cur) ELSE cur
         IN IF p2 >= size /\ FileType = "FILE"
            THEN [bytes |-> acc \o rc, pos |-> p2, eof |-> TRUE]
            ELSE IF nc = 0
            THEN [bytes |-> acc \o rc, pos |-> p2, eof |-> TRUE]
            ELSE ReadLoop(fb, size, nc, 0, length - rl, p2, acc \o rc)

\* fsFat12Read(file, buffer, length) on a File that is not at Eof.
Fat12Read(fb, first, size, pos, length) ==
    ReadLoop(fb, size, Hop(fb, first, pos \div ClusterSize),
             pos % ClusterSize, length, pos, <<>>)

-----------------------------------------------------------------------------
(* The reference reading *)

\* The chain from c by the FAT entries, at most n clusters.
RECURSIVE RefChain(_, _, _)
RefChain(ent, c, n) ==
    IF c \notin DataClusters \/ n = 0 THEN <<>>
    ELSE <<c>> \o RefChain(ent, ent[c], n - 1)

\* The bytes of a data cluster, sector after sector.
ClusterBytes(c) ==
    [k \in 1..ClusterSize |->
        <<RootOffset + RootSize + (c - 2) * SPC + (k - 1) \div BPS, (k - 1) % BPS>>]

\* The bytes a reader of the File should see.
RECURSIVE Concat(_)
Concat(cs) == IF cs = <<>> THEN <<>> ELSE ClusterBytes(Head(cs)) \o Concat(Tail(cs))

-----------------------------------------------------------------------------
VARIABLES
    ent,    \* the FAT entries of the data clusters
    first,  \* DirectoryEntry.FirstCluster
    size,   \* File.Size (DirectoryEntry.FileSize)
    pos,    \* File.Position
    eof,    \* File.Eof
    out     \* history: the bytes the calls returned, in order

vars == <<ent, first, size, pos, eof, out>>

Content ==
    LET all == Concat(RefChain(ent, first, (MaxPos + MaxLen) \div ClusterSize + 1))
    IN IF FileType = "FILE" THEN SubSeq(all, 1, IF size < Len(all) THEN size ELSE Len(all))
       ELSE all

\* The bytes of the File's whole cluster chain, the last cluster included
\* past FileSize.
ChainBytes == Concat(RefChain(ent, first, (MaxPos + MaxLen) \div ClusterSize + 1))

\* A well-formed regular file: an empty one has FirstCluster 0, any other
\* a chain of exactly the clusters its FileSize needs.
WellFormed(e, f, sz) ==
    FileType = "FILE" =>
        IF sz = 0 THEN f = 0
        ELSE Len(RefChain(e, f, sz + 1)) = (sz + ClusterSize - 1) \div ClusterSize

(* fsFat12CreateFileStructure: Position 0, Eof 0, Size from the directory *)
(* entry; the FAT is whatever the disk holds.                             *)
Init ==
    /\ ent \in [DataClusters -> EntryValues]
    /\ first \in Firsts
    /\ size \in Sizes
    /\ WellFormed(ent, first, size)
    /\ pos = 0
    /\ eof = FALSE
    /\ out = <<>>

(* fsFat12Read(file, buffer, length): with Eof set it returns 0 and       *)
(* changes nothing; otherwise it reads from Position and advances it.     *)
read(length) ==
    /\ pos < MaxPos
    /\ IF eof
       THEN UNCHANGED vars
       ELSE LET r == Fat12Read(LoadedFat(FatBytes(ent)), first, size, pos, length)
            IN /\ out' = out \o r.bytes
               /\ pos' = r.pos
               /\ eof' = r.eof
               /\ UNCHANGED <<ent, first, size>>

Next == \E n \in ReadLens : read(n)

Spec == Init /\ [][Next]_vars

-----------------------------------------------------------------------------
(* Properties *)

TypeOK ==
    /\ ent \in [DataClusters -> EntryValues]
    /\ pos \in 0..(MaxPos + MaxLen) /\ eof \in BOOLEAN
    /\ out \in Seq(Bytes)

(* fsFat12Read returns the File's bytes in order: what the calls have     *)
(* returned is a prefix of the cluster chain's bytes (cut at FileSize for *)
(* a regular file), and once Eof is set it is all of them.  This needs    *)
(* GetNextCluster to unpack the right 12 bits, the hop loop to resume at  *)
(* the right cluster, and ReadCluster to copy from the right sector and   *)
(* offset.                                                                *)
ReadReturnsFileBytes ==
    /\ Len(out) <= Len(Content)
    /\ out = SubSeq(Content, 1, Len(out))
    /\ eof => out = Content

(* Successive reads of a regular file follow its cluster chain: what the  *)
(* calls returned is the chain's bytes in order from Position 0, Position *)
(* counts exactly those bytes, and Eof is set exactly when Position has   *)
(* reached FileSize.  The piece that crosses FileSize is returned whole   *)
(* (fs.c:333 returns totalRead, not the bytes up to Size), so the last    *)
(* call may carry bytes of the last cluster past FileSize, never bytes of *)
(* another cluster.  It needs GetNextCluster to unpack the right 12 bits, *)
(* the hop loop to resume at the right cluster after each call, and       *)
(* ReadCluster to copy from the right sector.                             *)
ReadFollowsChain ==
    /\ Len(out) <= Len(ChainBytes)
    /\ out = SubSeq(ChainBytes, 1, Len(out))
    /\ pos = Len(out)
    /\ eof <=> pos >= size

=============================================================================
