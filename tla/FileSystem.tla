------------------------------ MODULE FileSystem ------------------------------
(* diskimageaccess and the five layers it reads a Unix v6 image with: sectors, *)
(* inodes, files, directories and paths.  The image is one that UnixV6 lays    *)
(* out.  A name is a sequence of letters, a path the sequence of its names,    *)
(* a checksum the data that was hashed.                                        *)
EXTENDS UnixV6, Listing

CONSTANTS
  DIRNAME_MAX_LEN,   \* letters in the name of an entry (14)
  MaxNumEntries,     \* entries GetDirEntries makes room for (10000)
  Leading,           \* mappings listed at each end of a file (10)
  Tree               \* the trees an image is made of

(* What fits an image: small files have no more blocks than addresses, large  *)
(* ones no more than the indirect blocks number, and the inodes have room.    *)
ASSUME TreesFit ==
  /\ Leading \in Nat
  /\ \A t \in Tree :
       /\ Len(t) \in Nat /\ INODE_START_SECTOR + InodeSectors(t) <= Span
       /\ \A i \in 1 .. Len(t) :
            /\ t[i].alloc \in BOOLEAN /\ t[i].size \in Nat
            /\ BlocksOf(t[i]) <= IF t[i].large THEN MaxBlocks ELSE INDIR_ADDR + 1

(* There is a root.  A directory's size counts its entries, which name a file *)
(* of the tree or, deleted, none.                                             *)
ASSUME DirectoriesFit ==
  /\ DIRNAME_MAX_LEN \in Nat /\ MaxNumEntries \in Nat
  /\ \A t \in Tree :
       /\ Len(t) > 0
       /\ \A i \in 1 .. Len(t) :
            /\ t[i].entries \in Seq([d_name : Seq(STRING), d_inumber : 0 .. Len(t)])
            /\ t[i].dir => t[i].size = DirentSize * Len(t[i].entries)

VARIABLES
  tree,      \* what was written to the image; the program never looks at it
  disk,      \* the image's sectors
  flags,     \* the options given: a set of "i", "m", "b", "p"
  at,        \* "inodes" or "paths", the traversal going on; "end" or "aborted"
  inumber,   \* DumpInodeChecksum's loop counter
  todo,      \* the calls of DumpPathAndChildren still to come, in their order
  dumped,    \* the lines of DumpInodeChecksum
  found      \* the lines of DumpPathAndChildren

diskVars == <<tree, disk, flags, at, inumber, todo, dumped, found>>

diskimg_readsector(n) == disk[n]

(* unixfilesystem_init: a written image has the magic number, and its superblock is read. *)
s_isize == diskimg_readsector(SUPERBLOCK_SECTOR).s_isize
IsFileSystem == diskimg_readsector(BOOTBLOCK_SECTOR).magic

-------------------------------------------------------------------------------
(* inode.c.  C's division rounds towards zero: the last block of an empty file *)
(* is block 0.                                                                 *)
Readable(i) == i >= 1 /\ (i - 1) \div INO_PER_BLOCK < s_isize

inode_iget(i) ==
  diskimg_readsector(INODE_START_SECTOR + (i - 1) \div INO_PER_BLOCK)[((i - 1) % INO_PER_BLOCK) + 1]

inode_getsize(inp) == inp.size0 * SIZE_BASE + inp.size1

LastBlock(size) == IF size = 0 THEN 0 ELSE (size - 1) \div DISKIMG_SECTOR_SIZE

max_sindir_blocks_size == INDIR_ADDR * BNUMS_PER_BLOCK

\* Slip: the first doubly indirect block is looked for among the singly indirect ones.
SinglyIndirectUpTo(fileBlockIndex) == fileBlockIndex <= max_sindir_blocks_size
SinglyIndirect(fileBlockIndex) == fileBlockIndex < max_sindir_blocks_size

inode_indexlookup(inp, fileBlockIndex) ==
  LET inRange == fileBlockIndex >= 0 /\ fileBlockIndex <= LastBlock(inode_getsize(inp))
      total_dir_bnums == fileBlockIndex - max_sindir_blocks_size
      BnumAt(bnums, index) == diskimg_readsector(bnums)[index + 1]
  IN  CASE ~inRange -> -1
        [] inRange /\ ~inp.large -> inp.addr[fileBlockIndex]
        [] inRange /\ inp.large /\ SinglyIndirect(fileBlockIndex) ->
             BnumAt(inp.addr[fileBlockIndex \div BNUMS_PER_BLOCK], fileBlockIndex % BNUMS_PER_BLOCK)
        [] OTHER ->
             BnumAt(BnumAt(inp.addr[INDIR_ADDR], total_dir_bnums \div BNUMS_PER_BLOCK),
                    total_dir_bnums % BNUMS_PER_BLOCK)

(* file_getblock: the block and how many of its bytes are the file's. *)
file_getblock(i, fileBlockIndex) ==
  LET inp == inode_iget(i)
      size == inode_getsize(inp)
      last == fileBlockIndex = LastBlock(size)
  IN  [buf |-> diskimg_readsector(inode_indexlookup(inp, fileBlockIndex)),
       bytes |-> CASE last /\ size > 0 -> ((size - 1) % DISKIMG_SECTOR_SIZE) + 1
                   [] last /\ size = 0 -> 0
                   [] OTHER -> DISKIMG_SECTOR_SIZE]

-------------------------------------------------------------------------------
(* chksumfile.c: fails for an inode that is out of range or not allocated. *)
HasChecksum(i) == Readable(i) /\ inode_iget(i).alloc

chksumfile_byinumber(i) ==
  LET size == inode_getsize(inode_iget(i))
      blocks == (size + DISKIMG_SECTOR_SIZE - 1) \div DISKIMG_SECTOR_SIZE
  IN  [b \in 1 .. blocks |-> file_getblock(i, b - 1)]

(* directory.c: the entries of a directory, one block after the other, and the *)
(* first of them that the name looked for is a prefix of.                      *)
IsDirectory(i) == Readable(i) /\ inode_iget(i).dir

Entries(i) ==
  LET size == inode_getsize(inode_iget(i))
      blocks == IF size = 0 THEN 0 ELSE (size - 1) \div DISKIMG_SECTOR_SIZE + 1
      Block(e) == file_getblock(i, (e - 1) \div DIR_PER_BLOCK)
      Place(e) == ((e - 1) % DIR_PER_BLOCK) + 1
      entries == {e \in 1 .. blocks * DIR_PER_BLOCK : Place(e) <= Block(e).bytes \div DirentSize}
  IN  [e \in entries |-> Block(e).buf[Place(e)]]

\* Slip: the entry's name is compared up to its own length.
MatchesBeginning(name, d_name) == IsPrefix(d_name, name)
Matches(name, d_name) == IsPrefix(name, d_name)

directory_findname(name, dirinumber) ==
  IF ~IsDirectory(dirinumber) THEN -1
  ELSE LET entries == Entries(dirinumber)
           e == SelectInSeq(entries, LAMBDA d : Matches(name, d.d_name))
       IN  IF e = 0 THEN -1 ELSE entries[e].d_inumber

(* pathname.c: a name that is copied and fills its array is not terminated; it *)
(* is read as itself only if the byte after the array happens to be zero.      *)
pathname_lookup(path, terminated) ==
  LET Step(i, n) ==
        LET copied == n < Len(path)
        IN  IF copied /\ Len(path[n]) = DIRNAME_MAX_LEN /\ ~terminated THEN -1
            ELSE directory_findname(path[n], i)
      lookup[n \in 0 .. Len(path)] == IF n = 0 THEN ROOT_INUMBER ELSE Step(lookup[n - 1], n)
  IN  lookup[Len(path)]

-------------------------------------------------------------------------------
(* diskimageaccess.c.  An inode's line: its number and size, then its checksum *)
(* (-i) or the block numbers of its first and last blocks (-m).                *)
Mappings(i) ==
  LET inp == inode_iget(i)
      size == inode_getsize(inp)
      numMappings == (size + DISKIMG_SECTOR_SIZE - 1) \div DISKIMG_SECTOR_SIZE
      shown == FirstAndLast(numMappings, Leading)
  IN  [k \in 1 .. Len(shown) |-> <<shown[k] - 1, inode_indexlookup(inp, shown[k] - 1)>>]

InodeLine(i) ==
  [inumber |-> i, size |-> inode_getsize(inode_iget(i)),
   checksum |-> IF "i" \in flags THEN chksumfile_byinumber(i) ELSE <<>>,
   mappings |-> IF "m" \in flags /\ "i" \notin flags THEN Mappings(i) ELSE <<>>]

GetDirEntries(i) ==
  LET entries == Entries(i)
  IN  SubSeq(entries, 1, IF Len(entries) > MaxNumEntries THEN MaxNumEntries ELSE Len(entries))

Hidden == {<<".">>, <<".", ".">>}

(* The subdirectories and files that DumpPathAndChildren calls itself for. *)
Children(path, i) ==
  LET entries == GetDirEntries(i)
      shown == InOrder({e \in DOMAIN entries : entries[e].d_name \notin Hidden}, <)
  IN  [k \in 1 .. Len(shown) |->
         [path |-> Append(path, entries[shown[k]].d_name), inumber |-> entries[shown[k]].d_inumber]]

PathsOrEnd == IF "p" \in flags THEN "paths" ELSE "end"

DiskInit ==
  /\ tree \in Tree /\ disk = Disk(tree) /\ IsFileSystem
  /\ flags \in SUBSET {"i", "m", "b", "p"}
  /\ at = IF flags \cap {"i", "m", "b"} # {} THEN "inodes" ELSE PathsOrEnd
  /\ inumber = 1
  /\ todo = IF "p" \in flags THEN <<[path |-> <<>>, inumber |-> ROOT_INUMBER]>> ELSE <<>>
  /\ dumped = <<>> /\ found = <<>>

(* DumpInodeChecksum: one inode of the i list; those not allocated are skipped. *)
DumpInode ==
  /\ at = "inodes" /\ inumber <= s_isize * INO_PER_BLOCK
  /\ dumped' = IF inode_iget(inumber).alloc THEN Append(dumped, InodeLine(inumber)) ELSE dumped
  /\ inumber' = inumber + 1
  /\ UNCHANGED <<tree, disk, flags, at, todo, found>>

EndOfInodes ==
  /\ at = "inodes" /\ inumber > s_isize * INO_PER_BLOCK
  /\ at' = PathsOrEnd
  /\ UNCHANGED <<tree, disk, flags, inumber, todo, dumped, found>>

(* DumpPathAndChildren up to its recursive calls, which are the next things to *)
(* do.  An inode or a path without a checksum, or a path whose checksum is not *)
(* its inode's, is complained of and left with all that is below it; an entry  *)
(* for an inode that is free fails an assertion.                               *)
SamePathChecksum(call, terminated) ==
  LET i == pathname_lookup(call.path, terminated)
  IN  /\ HasChecksum(call.inumber) /\ HasChecksum(i)
      /\ chksumfile_byinumber(i) = chksumfile_byinumber(call.inumber)

IsFree(i) == Readable(i) /\ ~inode_iget(i).alloc

AssertFails ==
  /\ at = "paths" /\ todo # <<>> /\ IsFree(Head(todo).inumber)
  /\ at' = "aborted"
  /\ UNCHANGED <<tree, disk, flags, inumber, todo, dumped, found>>

DumpPath ==
  /\ at = "paths" /\ todo # <<>> /\ ~IsFree(Head(todo).inumber)
  /\ \E terminated \in BOOLEAN :
       LET call == Head(todo)
           same == SamePathChecksum(call, terminated)
       IN  /\ found' = IF same THEN Append(found, call) ELSE found
           /\ todo' = IF same /\ IsDirectory(call.inumber)
                      THEN Children(call.path, call.inumber) \o Tail(todo)
                      ELSE Tail(todo)
  /\ UNCHANGED <<tree, disk, flags, at, inumber, dumped>>

EndOfPaths ==
  /\ at = "paths" /\ todo = <<>>
  /\ at' = "end"
  /\ UNCHANGED <<tree, disk, flags, inumber, todo, dumped, found>>

DiskNext == DumpInode \/ EndOfInodes \/ DumpPath \/ AssertFails \/ EndOfPaths
DiskSpec == DiskInit /\ [][DiskNext]_diskVars

-------------------------------------------------------------------------------
(* The inode lines cover the allocated inodes in order, and what is read of a *)
(* file is every block that was written to it, once, in order, cut at its     *)
(* size: whether its blocks are direct, singly or doubly indirect.            *)
Bytes(f, b) ==
  IF b < BlocksOf(f) THEN DISKIMG_SECTOR_SIZE ELSE f.size - (b - 1) * DISKIMG_SECTOR_SIZE

RightLine(line) ==
  LET i == line.inumber  f == File(tree, i)
  IN  /\ line.size = f.size
      /\ "i" \in flags =>
           line.checksum = [b \in 1 .. BlocksOf(f) |-> [buf |-> Content(tree, i, b - 1), bytes |-> Bytes(f, b)]]
      /\ \A k \in 1 .. Len(line.mappings) : line.mappings[k][2] = Data(i, line.mappings[k][1])

InodesAreDumped ==
  /\ {dumped[n].inumber : n \in 1 .. Len(dumped)} = {i \in 1 .. inumber - 1 : File(tree, i).alloc}
  /\ at # "inodes" /\ flags \cap {"i", "m", "b"} # {} => Len(tree) < inumber
  /\ \A m, n \in 1 .. Len(dumped) : m < n => dumped[m].inumber < dumped[n].inumber
  /\ \A n \in 1 .. Len(dumped) : RightLine(dumped[n])

(* What the readers tell apart and have room for: entries have names, none     *)
(* stands before one whose name it begins with, no directory's name fills its  *)
(* array, and no directory has more entries than are listed.                   *)
Distinct(t) ==
  \A i \in 1 .. Len(t) :
    LET e == t[i].entries
    IN  /\ Len(e) <= MaxNumEntries
        /\ \A n \in 1 .. Len(e) : e[n].d_name # <<>>
        /\ \A m, n \in 1 .. Len(e) : m < n => ~IsPrefix(e[n].d_name, e[m].d_name)
        /\ \A n \in 1 .. Len(e) :
             e[n].d_inumber # 0 /\ File(t, e[n].d_inumber).dir =>
               e[n].d_name \in Hidden \/ Len(e[n].d_name) < DIRNAME_MAX_LEN

(* The paths of a directory's entries. *)
Named(t, path, i) ==
  LET e == t[i].entries
      live == {n \in 1 .. Len(e) : e[n].d_name \notin Hidden /\ e[n].d_inumber # 0}
  IN  {[path |-> Append(path, e[n].d_name), inumber |-> e[n].d_inumber] : n \in live}

(* A walk that ends, over an image whose names are distinct and no directory's *)
(* of full length, lists every file of the image under every path it has, with *)
(* the inode that path was given: it misses nothing and its lookups by path    *)
(* never find another file.  It does not end over a cycle of directories, and  *)
(* the program is aborted at an entry whose inode was freed.                   *)
PathsAreFound ==
  at = "end" /\ "p" \in flags /\ Distinct(tree) =>
    /\ found[1] = [path |-> <<>>, inumber |-> ROOT_INUMBER]
    /\ \A c \in ToSet(found) :
         File(tree, c.inumber).dir =>
           Named(tree, c.path, c.inumber) =
             {d \in ToSet(found) : d.path # <<>> /\ Front(d.path) = c.path}
    /\ IsInjective(found)
===============================================================================
