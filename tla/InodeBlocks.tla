----------------------------- MODULE InodeBlocks -----------------------------
(***************************************************************************)
(* The blocks of files: inode_map, inode_read, inode_write, inode_insert   *)
(* and inode_clear of src/fs/inode.c, cache_alloc and cache_free of        *)
(* src/fs/cache.c, fileread and filewrite of src/fs/file.c, on the image   *)
(* src/user/mkfs makes.                                                    *)
(*                                                                         *)
(* One regular file, opened several times, and the root directory.  The    *)
(* lock of an inode is held during a transfer; a write takes one step per  *)
(* block, as others may take blocks meanwhile.  Sizes, offsets and limits  *)
(* are those of the code, in bytes.  A failed assertion stops the system.  *)
(***************************************************************************)
EXTENDS Integers, FiniteSets, FiniteSetsExt

CONSTANTS
    Open, None,   \* struct files open on the regular file
    Count,        \* numbers of bytes given to read and write
    RootEntries,  \* entries of the root directory mkfs may have made
    ImageSize,    \* bytes mkfs may have put into the regular file
    MaxEntries,   \* bound: entries of the root directory
    MaxWrites     \* bound: calls of filewrite

BLOCK_SIZE == 512
INODE_NUM_DIRECT == 12
INODE_MAX_BLOCKS == 140
INODE_MAX_BYTES == INODE_MAX_BLOCKS * BLOCK_SIZE
OP_MAX_NUM_BLOCKS == 10
DIRENT == 16
FSSIZE == 1000
\* The layout of mkfs: boot and super block, log, inodes, bitmap, data.
NMETA == 92
BITMAP_BLOCK == NMETA - 1
INODE_BLOCK == NMETA - 2
\* The loop of filewrite takes at most so many bytes at a time.
MAX_CHUNK == ((INODE_MAX_BLOCKS - 1 - 1 - 2) \div 2) * 512

VARIABLES
    file, root,  \* inode entries: num_bytes, addrs (direct and indirect), indirect
    bitmap,      \* data blocks allocated
    used,        \* slots of the root directory in use
    off,         \* f->off of each open file, or Closed
    left,        \* bytes filewrite still has to write, 0 when it is not called
    op,          \* the write in progress: by whom, where it began, is and ends, its log
    top,         \* history: the end of the furthest write to the file
    writes,      \* calls of filewrite so far
    made,        \* history: entries of the root directory mkfs made
    stopped      \* an assertion failed

vars == <<file, root, bitmap, used, off, left, op, top, writes, made, stopped>>

Closed == -1
NoOp == [o |-> None, from |-> 0, begin |-> 0, end |-> 0, log |-> {}, modified |-> FALSE]
Index == 0 .. INODE_MAX_BLOCKS - 1
-----------------------------------------------------------------------------
least_free(b) == Min((NMETA .. NMETA + Cardinality(b)) \ b)

\* cache_alloc: the bit is set and the block is zeroed, both in the log.
cache_alloc(s) ==
    LET b == least_free(s.bitmap)
    IN  [s EXCEPT !.bitmap = @ \cup {b}, !.log = @ \cup {BITMAP_BLOCK, b}, !.modified = TRUE]

\* Mutant: the block of addresses is allocated for each address.
with_indirect_Again(s) == [cache_alloc(s) EXCEPT !.e.indirect = least_free(s.bitmap)]

with_indirect(s) ==
    IF s.e.indirect # 0 THEN s
    ELSE [cache_alloc(s) EXCEPT !.e.indirect = least_free(s.bitmap)]

\* inode_map, of s: the entry, the bitmap, the log and modified.  The block of
\* index k is allocated when there is none.
inode_map(s, k) ==
    IF s.e.addrs[k] # 0 THEN s
    ELSE LET i == IF k < INODE_NUM_DIRECT THEN s ELSE with_indirect(s)
             a == [cache_alloc(i) EXCEPT !.e.addrs[k] = least_free(i.bitmap)]
         IN  IF k < INODE_NUM_DIRECT THEN a ELSE [a EXCEPT !.log = @ \cup {a.e.indirect}]

\* A turn of the loop of inode_write: the block is mapped and synced.
write_block(e, log, modified, k) ==
    LET s == inode_map([e |-> e, bitmap |-> bitmap, log |-> log, modified |-> modified], k)
    IN  [s EXCEPT !.log = @ \cup {s.e.addrs[k]}]

\* Mutant: the size becomes the end of every write.
new_size_Always(e, end) == end % 2^16

\* The size after a write is cast to 16 bits.
new_size(e, end) == IF end > e.num_bytes THEN end % 2^16 ELSE e.num_bytes

Writable(e, offset, end) == offset <= e.num_bytes /\ end <= INODE_MAX_BYTES

\* inode_read asserts that it finds every block.
Readable(e, offset, end) ==
    /\ offset <= e.num_bytes
    /\ \A k \in offset \div BLOCK_SIZE .. (end - 1) \div BLOCK_SIZE : offset < end => e.addrs[k] # 0
-----------------------------------------------------------------------------
\* mkfs: iappend maps the blocks of n bytes in order, from the counter of free
\* blocks; the block of addresses comes before the first block it is needed for.
iappend(freeblock, n) ==
    LET blocks == (n + BLOCK_SIZE - 1) \div BLOCK_SIZE
    IN  [num_bytes |-> n,
         addrs |-> [k \in Index |-> IF k >= blocks THEN 0
                                    ELSE freeblock + IF k < INODE_NUM_DIRECT THEN k ELSE k + 1],
         indirect |-> IF blocks > INODE_NUM_DIRECT THEN freeblock + INODE_NUM_DIRECT ELSE 0]

Mapped(e) == ({e.addrs[k] : k \in Index} \cup {e.indirect}) \ {0}

\* balloc: the blocks below the counter are allocated.
balloc(freeblock) == NMETA .. freeblock - 1

\* Mutant: the size of the root is the next block's in any case.
root_size_Next(n) == (n \div BLOCK_SIZE + 2) * BLOCK_SIZE

\* mkfs rounds the size of the root up, by a block when it is a multiple already.
root_size(n) == (n \div BLOCK_SIZE + 1) * BLOCK_SIZE

Init ==
    \E n \in RootEntries, m \in ImageSize :
        LET r == iappend(NMETA, n * DIRENT)
        IN  /\ root = [r EXCEPT !.num_bytes = root_size(n * DIRENT)]
            /\ file = iappend(NMETA + Cardinality(Mapped(r)), m)
            /\ bitmap = balloc(NMETA + Cardinality(Mapped(root)) + Cardinality(Mapped(file)))
            /\ used = 0 .. n - 1 /\ made = n /\ top = m
            /\ off = [o \in Open |-> Closed] /\ left = [o \in Open |-> 0]
            /\ op = NoOp /\ writes = 0 /\ stopped = FALSE
-----------------------------------------------------------------------------
\* filealloc by openat, at the beginning of the file, and fileclose.
openat(o) ==
    /\ off[o] = Closed
    /\ off' = [off EXCEPT ![o] = 0]
    /\ UNCHANGED <<file, root, bitmap, used, left, op, top, stopped>>

fileclose(o) ==
    /\ off[o] # Closed /\ left[o] = 0
    /\ off' = [off EXCEPT ![o] = Closed]
    /\ UNCHANGED <<file, root, bitmap, used, left, op, top, stopped>>

filewrite(o, n) ==
    /\ off[o] # Closed /\ left[o] = 0
    /\ writes < MaxWrites /\ writes' = writes + 1
    /\ left' = [left EXCEPT ![o] = n]
    /\ UNCHANGED <<file, root, bitmap, used, off, op, top, stopped>>

stop == stopped' = TRUE /\ UNCHANGED <<file, root, bitmap, used, off, left, op, top>>

\* A turn of the loop of filewrite begins an operation and locks the inode.
write_begin(o) ==
    LET n1 == Min({left[o], MAX_CHUNK})
    IN  /\ left[o] > 0 /\ op = NoOp
        /\ IF ~Writable(file, off[o], off[o] + n1) THEN stop
           ELSE /\ op' = [NoOp EXCEPT !.o = o, !.from = off[o], !.begin = off[o], !.end = off[o] + n1]
                /\ UNCHANGED <<file, root, bitmap, used, off, left, top, stopped>>

write_step ==
    LET s == write_block(file, op.log, op.modified, op.begin \div BLOCK_SIZE)
    IN  /\ op.begin < op.end
        /\ file' = s.e /\ bitmap' = s.bitmap
        /\ op' = [op EXCEPT !.log = s.log, !.modified = s.modified,
                            !.begin = Min({op.end, (@ \div BLOCK_SIZE + 1) * BLOCK_SIZE})]
        /\ stopped' = (Cardinality(s.log) > OP_MAX_NUM_BLOCKS)
        /\ UNCHANGED <<root, used, off, left, top>>

\* The size is set, the inode synced and f->off moved.
write_end ==
    LET log == IF op.modified \/ op.end > file.num_bytes THEN op.log \cup {INODE_BLOCK} ELSE op.log
        full == Cardinality(log) > OP_MAX_NUM_BLOCKS
    IN  /\ op # NoOp /\ op.begin = op.end
        /\ file' = [file EXCEPT !.num_bytes = new_size(file, op.end)]
        /\ off' = [off EXCEPT ![op.o] = op.end]
        /\ left' = [left EXCEPT ![op.o] = @ - (op.end - op.from)]
        /\ top' = Max({top, op.end})
        /\ op' = IF full THEN [op EXCEPT !.log = log] ELSE NoOp
        /\ stopped' = full
        /\ UNCHANGED <<root, bitmap, used>>

\* fileread; inode_read stops at the end of the file.
clipped(offset, n) == Min({offset + n, file.num_bytes})

fileread(o, n) ==
    LET end == clipped(off[o], n)
    IN  /\ off[o] # Closed /\ left[o] = 0 /\ op = NoOp
        /\ IF ~Readable(file, off[o], end) THEN stop
           ELSE /\ off' = [off EXCEPT ![o] = end]
                /\ UNCHANGED <<file, root, bitmap, used, left, op, top, stopped>>

\* inode_insert reads the entries up to the first free one and writes that one.
inode_insert ==
    LET slots == root.num_bytes \div DIRENT
        slot == Min((0 .. slots) \ (used \cap 0 .. slots - 1))
        s == write_block(root, {}, FALSE, (slot * DIRENT) \div BLOCK_SIZE)
    IN  /\ Cardinality(used) < MaxEntries
        /\ IF ~Readable(root, 0, Min({(slot + 1) * DIRENT, root.num_bytes})) THEN stop
           ELSE /\ root' = [s.e EXCEPT !.num_bytes = new_size(root, (slot + 1) * DIRENT)]
                /\ bitmap' = s.bitmap
                /\ used' = used \cup {slot}
                /\ UNCHANGED <<file, off, left, op, top, stopped>>

\* Mutant: the block of addresses stays allocated.
cleared_Direct(e) == Mapped(e) \ {e.indirect}

\* The blocks inode_clear gives to cache_free.
cleared(e) == Mapped(e)

\* inode_clear, when the last reference to a file without a name is put (the
\* kernel takes no name away, its tests do): nobody has the file open.
inode_clear ==
    /\ \A o \in Open : off[o] = Closed
    /\ Mapped(file) # {}
    /\ file' = iappend(NMETA, 0) /\ bitmap' = bitmap \ cleared(file) /\ top' = 0
    /\ UNCHANGED <<root, used, off, left, op, stopped>>

Next ==
    /\ ~stopped /\ UNCHANGED made
    /\ \/ \E o \in Open, n \in Count : filewrite(o, n)
       \/ /\ UNCHANGED writes
          /\ \/ \E o \in Open, n \in Count : fileread(o, n)
             \/ \E o \in Open : openat(o) \/ fileclose(o) \/ write_begin(o)
             \/ write_step \/ write_end \/ inode_insert \/ inode_clear

Spec == Init /\ [][Next]_vars
-----------------------------------------------------------------------------
\* A data block is allocated exactly when an inode refers to it, and no block
\* is referred to twice: inode_map, mkfs and inode_clear lose and share nothing.
BitmapExact ==
    /\ bitmap = Mapped(file) \cup Mapped(root)
    /\ Mapped(file) \cap Mapped(root) = {}
    /\ \A e \in {file, root} :
         Cardinality(Mapped(e)) = Cardinality({k \in Index : e.addrs[k] # 0}) + Cardinality({e.indirect} \ {0})

\* While the file is shorter than 64 KiB (its size is kept in 16 bits, and
\* INODE_MAX_BYTES is more), the size is the end of the furthest write and
\* no open file is beyond it: the assertions of read and write hold.
SizeIsEnd == top < 2^16 => file.num_bytes = top /\ \A o \in Open : off[o] <= top

\* A write to few enough blocks fits the log entries reserved for it: three
\* are for the bitmap, the inode and the block of addresses.  (MAX_CHUNK of
\* filewrite is far more.)
FewBlocksFit ==
    (op.end - 1) \div BLOCK_SIZE - op.from \div BLOCK_SIZE + 1 <= OP_MAX_NUM_BLOCKS - 3
        => Cardinality(op.log) <= OP_MAX_NUM_BLOCKS

\* Every byte of a file is in a block: inode_read never allocates one.  Of
\* the root this is true unless mkfs made it of full blocks: it adds one to the size.
SizeIsMapped ==
    /\ top < 2^16 => Readable(file, 0, file.num_bytes)
    /\ (made * DIRENT) % BLOCK_SIZE # 0 => Readable(root, 0, root.num_bytes)
=============================================================================
