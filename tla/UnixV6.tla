-------------------------------- MODULE UnixV6 --------------------------------
(* What a Unix v6 disk image holds: the layout that whoever wrote the image    *)
(* gives to a tree of files.  A tree is a sequence of files, file i being that *)
(* of inode i.  The layout places block after block, without holes (a block     *)
(* number 0 that stands for a block of zeros); how a reader finds one is        *)
(* FileSystem's business.                                                      *)
EXTENDS Integers, SequencesExt

CONSTANTS
  DISKIMG_SECTOR_SIZE,   \* bytes in a sector (512)
  INO_PER_BLOCK,         \* inodes in a sector (16)
  BNUMS_PER_BLOCK,       \* block numbers in a sector (256)
  DIR_PER_BLOCK,         \* directory entries in a sector (32)
  INDIR_ADDR,            \* how many of i_addr are singly indirect in a large file (7)
  SIZE_BASE              \* what i_size1 can count (2^16)

ASSUME SizesAreNat ==
  /\ DISKIMG_SECTOR_SIZE \in Nat \ {0} /\ INO_PER_BLOCK \in Nat \ {0}
  /\ BNUMS_PER_BLOCK \in Nat \ {0} /\ DIR_PER_BLOCK \in Nat \ {0}
  /\ INDIR_ADDR \in Nat /\ SIZE_BASE \in Nat \ {0}
  /\ DISKIMG_SECTOR_SIZE % DIR_PER_BLOCK = 0

BOOTBLOCK_SECTOR == 0
SUPERBLOCK_SECTOR == 1
INODE_START_SECTOR == 2
ROOT_INUMBER == 1

DirentSize == DISKIMG_SECTOR_SIZE \div DIR_PER_BLOCK

Free == [alloc |-> FALSE, dir |-> FALSE, large |-> FALSE, size |-> 0, entries |-> <<>>]

File(tree, i) == IF i <= Len(tree) THEN tree[i] ELSE Free

BlocksOf(f) == (f.size + DISKIMG_SECTOR_SIZE - 1) \div DISKIMG_SECTOR_SIZE

(* Block k of file i holds its part of the entries, or bytes told apart by i and k. *)
Content(tree, i, k) ==
  LET f == File(tree, i)
  IN  IF f.dir
      THEN SubSeq(f.entries, k * DIR_PER_BLOCK + 1,
                  IF (k + 1) * DIR_PER_BLOCK < Len(f.entries)
                  THEN (k + 1) * DIR_PER_BLOCK ELSE Len(f.entries))
      ELSE <<"bytes", i, k>>

-------------------------------------------------------------------------------
(* Every file has a span of sectors: its data, then the blocks that number the *)
(* data, then the block that numbers those.                                    *)
Singles == INDIR_ADDR + BNUMS_PER_BLOCK
MaxBlocks == Singles * BNUMS_PER_BLOCK
Span == MaxBlocks + Singles + 1
Data(i, k) == i * Span + k
Single(i, j) == i * Span + MaxBlocks + j
Double(i) == i * Span + MaxBlocks + Singles

Inode(tree, i) ==
  LET f == File(tree, i)
      Address(a) ==
        CASE ~f.large /\ a < BlocksOf(f) -> Data(i, a)
          [] f.large /\ a < INDIR_ADDR /\ a * BNUMS_PER_BLOCK < BlocksOf(f) -> Single(i, a)
          [] f.large /\ a = INDIR_ADDR /\ INDIR_ADDR * BNUMS_PER_BLOCK < BlocksOf(f) -> Double(i)
          [] OTHER -> 0
  IN  [alloc |-> f.alloc, dir |-> f.dir, large |-> f.large,
       size0 |-> f.size \div SIZE_BASE, size1 |-> f.size % SIZE_BASE,
       addr |-> [a \in 0 .. INDIR_ADDR |-> Address(a)]]

InodeSectors(tree) == (Len(tree) + INO_PER_BLOCK - 1) \div INO_PER_BLOCK

Disk(tree) ==
  [n \in 0 .. (Len(tree) + 1) * Span |->
     LET i == n \div Span  r == n % Span
     IN  CASE n = BOOTBLOCK_SECTOR -> [magic |-> TRUE]
           [] n = SUPERBLOCK_SECTOR -> [s_isize |-> InodeSectors(tree)]
           [] n >= INODE_START_SECTOR /\ i = 0 ->
                [e \in 1 .. INO_PER_BLOCK |->
                   Inode(tree, (n - INODE_START_SECTOR) * INO_PER_BLOCK + e)]
           [] i > 0 /\ r < MaxBlocks -> Content(tree, i, r)
           [] i > 0 /\ r >= MaxBlocks /\ r < MaxBlocks + Singles ->
                [e \in 1 .. BNUMS_PER_BLOCK |-> Data(i, (r - MaxBlocks) * BNUMS_PER_BLOCK + e - 1)]
           [] OTHER -> [e \in 1 .. BNUMS_PER_BLOCK |-> Single(i, INDIR_ADDR + e - 1)]]
===============================================================================
