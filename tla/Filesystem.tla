----------------------------- MODULE Filesystem -----------------------------
(***************************************************************************)
(* Storages, their partitions, the registry of filesystems and the ext4    *)
(* reader: src/src/Storage/Storage.cpp, Partition.cpp, Filesystem.cpp and  *)
(* Ext4.cpp.                                                               *)
(*                                                                         *)
(* A disk is what its partition table and its ext4 images say.  An inode   *)
(* lists its extents as [at, pos, len]: file byte, partition byte, length. *)
(* Only those of the leftmost leaf of the extent tree are listed, since    *)
(* the reader never leaves that leaf; `visits' is the number of times it   *)
(* comes there.  Data is identified by its place on the disk.              *)
(***************************************************************************)
EXTENDS Integers, SequencesExt

CONSTANTS
  Disks,         \* disk -> [size, usable, parts]; parts has four entries
                 \* [type, offset, size, image], image <<>> without ext4
  Paths,         \* [num, more, names, slash]: "/fs", a digit, what follows
                 \* it up to the next "/", the other names, a final "/"
  Ranges,        \* the ranges read: [off, n]
  Span,          \* bytes of memory looked at around a buffer
  MaxStorages    \* bound on the disks added

Root == 2
Missing == -1    \* what getINodeNumber returns if the first name is missing,
Garbage == -2    \* and 2^63 - 1, which it makes of a miss further down
Entries == 0 .. 3
Unimplemented ==
  {"write", "createFile", "deleteFile", "createDirectory", "deleteDirectory",
   "getFileList", "rename", "getFileTime", "setFileTime", "getFilePermissions",
   "setFilePermissions", "getFileOwner", "setFileOwner"}

ASSUME DiskAssumption ==
  \A d \in DOMAIN Disks :
    /\ DOMAIN Disks[d].parts = Entries /\ Disks[d].size \in Nat
    /\ \A i \in Entries : {Disks[d].parts[i].offset, Disks[d].parts[i].size} \subseteq Nat

\* What ext4 keeps of every image: a directory's names differ, an entry tells
\* what its inode is, and a file's extents follow each other.
WellFormed(image) ==
  /\ Root \in DOMAIN image /\ DOMAIN image \subseteq Nat
  /\ \A n \in DOMAIN image :
       LET es == image[n].entries
           xs == image[n].extents
       IN  /\ DOMAIN es \subseteq Nat
           /\ \A j, k \in DOMAIN es : es[j].name = es[k].name => j = k
           /\ \A k \in DOMAIN es :
                /\ es[k].ino \in DOMAIN image
                /\ es[k].type = "dir" <=> image[es[k].ino].kind = "dir"
           /\ image[n].visits \in Nat /\ xs \in Seq([at : Nat, pos : Nat, len : Nat])
           /\ \A k \in DOMAIN xs : \A j \in 1 .. k - 1 : xs[j].at + xs[j].len <= xs[k].at

ASSUME ImageAssumption ==
  \A d \in DOMAIN Disks : \A i \in Entries :
    Disks[d].parts[i].image = <<>> \/ WellFormed(Disks[d].parts[i].image)

ASSUME CallAssumption ==
  /\ Span \in Nat
  /\ Ranges \subseteq [off : Nat, n : 0 .. Span]
  /\ \A p \in Paths : p.more \in Seq(STRING) /\ p.names \in Seq(STRING)

VARIABLES
  storages,   \* the list that begins at firstStorage
  registry,   \* the list that begins at firstFilesystemNode
  adding,     \* the loop over a new disk's partitions: [disk, next, count], or <<>>
  walk,       \* the operation that goes down a path or reads extents, or <<>>:
              \* [op, path, fs, range, depth, ino, seen, result]
  added,      \* history: the filesystems in the order they were added
  answer,     \* the operation that has just ended and its result, or <<>>
  buffer,     \* memory around the last read's buffer
  faults,     \* history: a read of a disk failed while it was added
  stopped     \* the kernel has stopped

vars == <<storages, registry, adding, walk, added, answer, buffer, faults, stopped>>

Untouched == [i \in -Span .. Span |-> -1]

Init ==
  /\ storages = <<>> /\ registry = <<>> /\ adding = <<>> /\ walk = <<>>
  /\ added = <<>> /\ answer = <<>> /\ buffer = Untouched
  /\ faults = FALSE /\ stopped = FALSE

-----------------------------------------------------------------------------
(***************************************************************************)
(* Partitions.                                                             *)
(***************************************************************************)
\* MBRPartitionTable::getPartition: no partition without type or size.
Present(part) == part.type # "none" /\ part.size > 0

\* Faulty: the last used entry is not counted.
getPartitionCountShort(d) ==
  Cardinality({i \in 0 .. 2 : Present(Disks[d].parts[i])})

getPartitionCount(d) == Cardinality({i \in Entries : Present(Disks[d].parts[i])})

\* Partition::read: -1, or all that was asked for.  The offset is not part of
\* the check; the disk refuses what lies behind its end.
PartitionRead(fs, pos, n) ==
  LET part == Disks[fs.disk].parts[fs.part] IN
  IF n > part.size \/ part.offset + pos + n > Disks[fs.disk].size THEN -1 ELSE n

(***************************************************************************)
(* The registry.                                                           *)
(***************************************************************************)
\* Faulty: a new filesystem goes to the front of the list.
InsertFront(list, fs) == <<fs>> \o list

\* Faulty: the list behind the first node is lost.
InsertLost(list, fs) == IF list = <<>> THEN <<fs>> ELSE <<Head(list), fs>>

\* addPartition: the first node stays, a new one comes second.
Insert(list, fs) ==
  IF list = <<>> THEN <<fs>> ELSE <<Head(list), fs>> \o Tail(list)

\* Faulty: the numbers begin at one.
PrefixNumberOne(i) == i + 1

\* The prefix is "/fs<i>", with the partition's index on every disk alike.
PrefixNumber(i) == i

NewFilesystem(d, i, readable) ==
  [disk |-> d, part |-> i, num |-> PrefixNumber(i),
   valid |-> readable /\ Disks[d].parts[i].image # <<>>]

\* A disk with a usable table, or without a size.  The table is read again for
\* its partitions, and a failure leaves it empty.
addStorage(d) ==
  /\ Disks[d].size > 0 => Disks[d].usable
  /\ \E again \in BOOLEAN :
       /\ adding' = [disk |-> d, next |-> 0,
                     count |-> IF Disks[d].size > 0 /\ again
                               THEN getPartitionCount(d) ELSE 0]
       /\ faults' = (faults \/ ~again)
  /\ UNCHANGED stopped

\* Without a usable table, or if it cannot be read, the table is a null
\* pointer, and using it stops the kernel.
addStorageNoTable(d) ==
  /\ Disks[d].size > 0
  /\ stopped' = TRUE
  /\ UNCHANGED <<adding, faults>>

Idle == ~stopped /\ adding = <<>> /\ walk = <<>> /\ answer = <<>>

AddStorage(d) ==
  /\ Idle /\ d \notin Range(storages) /\ Len(storages) < MaxStorages
  /\ storages' = <<d>> \o storages
  /\ addStorage(d) \/ addStorageNoTable(d)
  /\ UNCHANGED <<registry, walk, added, answer, buffer>>

\* createFilesystem makes one of a present partition of type 0x83.
HasFilesystem(part) == Present(part) /\ part.type = "linux"

\* One turn of addStorage's loop; a superblock that cannot be read makes the
\* filesystem invalid.
AddPartition ==
  LET d == adding.disk
      i == adding.next
  IN  /\ adding # <<>> /\ i < adding.count
      /\ adding' = [adding EXCEPT !.next = @ + 1]
      /\ IF HasFilesystem(Disks[d].parts[i])
         THEN \E readable \in BOOLEAN :
                /\ registry' = Insert(registry, NewFilesystem(d, i, readable))
                /\ added' = Append(added, NewFilesystem(d, i, readable))
                /\ faults' = (faults \/ ~readable)
         ELSE UNCHANGED <<registry, added, faults>>
      /\ UNCHANGED <<storages, walk, answer, buffer, stopped>>

EndAdd ==
  /\ adding # <<>> /\ adding.next = adding.count
  /\ adding' = <<>>
  /\ UNCHANGED <<storages, registry, walk, added, answer, buffer, faults, stopped>>

\* The first digit is the prefix's, and something follows it.
handles(fs, path) ==
  /\ path.num = fs.num
  /\ path.more # <<>> \/ path.names # <<>> \/ path.slash

\* The first filesystem of the list that handles the path; <<>> if none.
getFilesystem(list, path) ==
  LET able == {k \in DOMAIN list : handles(list[k], path)}
  IN  IF able = {} THEN <<>> ELSE list[Min(able)]

\* What is left of the path behind the prefix.
Components(path) == path.more \o path.names

-----------------------------------------------------------------------------
(***************************************************************************)
(* Ext4.                                                                   *)
(***************************************************************************)
Image(fs) == Disks[fs.disk].parts[fs.part].image

\* An entry of that name; a name followed by "/" must be a directory's.
Matches(e, name, isDir) == e.name = name /\ (isDir => e.type = "dir")

\* lookForFile in the directory `dir': the first entry that matches.
lookForFile(image, dir, name, isDir) ==
  LET es == image[dir].entries
      able == {k \in DOMAIN es : Matches(es[k], name, isDir)}
  IN  IF able = {} THEN Missing ELSE es[Min(able)].ino

\* Faulty: the nested call gets the default, the root, as its directory.
getINodeNumberRoot(image, path, dir, i) ==
  lookForFile(image, Root, Components(path)[i], i < Len(Components(path)) \/ path.slash)

\* The call of getINodeNumber that looks for the i-th name in `dir'.  What a
\* nested call returns has its sign bit cleared on the way up.
getINodeNumber(image, path, dir, i) ==
  LET names == Components(path)
      ino == lookForFile(image, dir, names[i], i < Len(names) \/ path.slash)
  IN  IF dir < 0 THEN dir
      ELSE IF ino = Missing /\ i > 1 THEN Garbage ELSE ino

\* Faulty: the overlap is not cut off at the end of the range.
OverlapLong(e, r) == [from |-> IF e.at > r.off THEN e.at ELSE r.off,
                      to |-> e.at + e.len]

\* The part of an extent inside the range, in file bytes.
Overlap(e, r) ==
  [from |-> IF e.at > r.off THEN e.at ELSE r.off,
   to |-> IF e.at + e.len < r.off + r.n THEN e.at + e.len ELSE r.off + r.n]

\* Faulty: the partition's offset is not added.
PlaceRaw(fs, pos) == pos

\* Where a byte of a partition lies on its disk.
Place(fs, pos) == Disks[fs.disk].parts[fs.part].offset + pos

\* travelFile: how often the callback is called, and with which extent; an
\* index node's entries are all taken to be the first one.
Calls(inode) == inode.visits * Len(inode.extents)
Travelled(inode, seen) == inode.extents[(seen % Len(inode.extents)) + 1]

\* Regular files and directories are mixed up.
implGetType(inode) ==
  CASE inode.kind = "file" -> "Directory"
    [] inode.kind = "dir" -> "File"
    [] OTHER -> "Other"

-----------------------------------------------------------------------------
(***************************************************************************)
(* The operations on paths.                                                *)
(***************************************************************************)
Answer(op, path, fs, ino, r, result) ==
  answer' = [op |-> op, path |-> path, fs |-> fs, ino |-> ino, range |-> r,
             result |-> result]

NoRange == [off |-> 0, n |-> 0]

\* No filesystem handles the path, or the one that does is not valid.
Refused(op, path) ==
  LET fs == getFilesystem(registry, path) IN
  /\ fs # <<>> => ~fs.valid
  /\ Answer(op, path, fs, 0, NoRange,
            IF op = "exists" THEN FALSE
            ELSE IF op = "getType" THEN (IF fs = <<>> THEN "Error" ELSE "Other")
            ELSE -1)
  /\ UNCHANGED <<walk, stopped>>

\* An operation that is not implemented stops the kernel.
Unsupported(op, path) ==
  LET fs == getFilesystem(registry, path) IN
  /\ fs # <<>> /\ fs.valid /\ op \in Unimplemented
  /\ stopped' = TRUE
  /\ UNCHANGED <<walk, answer>>

\* The others first look for the inode, from the root.
Begin(op, path) ==
  LET fs == getFilesystem(registry, path) IN
  /\ fs # <<>> /\ fs.valid /\ op \notin Unimplemented
  /\ \E r \in IF op = "read" THEN Ranges ELSE {NoRange} :
       walk' = [op |-> op, path |-> path, fs |-> fs, range |-> r,
                depth |-> 0, ino |-> Root, seen |-> 0, result |-> 0]
  /\ UNCHANGED <<answer, stopped>>

Operation(op, path) ==
  /\ Idle
  /\ Refused(op, path) \/ Unsupported(op, path) \/ Begin(op, path)
  /\ buffer' = Untouched
  /\ UNCHANGED <<storages, registry, adding, added, faults>>

Continue == UNCHANGED <<storages, registry, adding, added, faults, stopped>>

Descend ==
  /\ walk # <<>> /\ walk.depth < Len(Components(walk.path))
  /\ walk' = [walk EXCEPT !.depth = @ + 1,
                !.ino = getINodeNumber(Image(walk.fs), walk.path, @, walk.depth + 1)]
  /\ UNCHANGED <<answer, buffer>> /\ Continue

Located == walk # <<>> /\ walk.depth = Len(Components(walk.path))

End(result) ==
  /\ Answer(walk.op, walk.path, walk.fs, walk.ino, walk.range, result)
  /\ walk' = <<>>
  /\ Continue

\* The size and the type of an inode that was read from anywhere, or not at
\* all, can be anything.
SizeOf(image, ino) ==
  IF ino = Missing THEN {-1} ELSE IF ino = Garbage THEN {0, Span}
  ELSE {image[ino].size}

TypeOf(image, ino) ==
  IF ino < 0 THEN {"File", "Directory", "Other"} ELSE {implGetType(image[ino])}

\* exists compares an unsigned number with zero, so the answer is always yes.
Metadata ==
  /\ Located /\ walk.op # "read"
  /\ \E result \in CASE walk.op = "exists" -> {TRUE}
                     [] walk.op = "getSize" -> SizeOf(Image(walk.fs), walk.ino)
                     [] walk.op = "getType" -> TypeOf(Image(walk.fs), walk.ino) :
       End(result)
  /\ UNCHANGED buffer

\* travelFile returns at once, or reads an inode from anywhere.
ReadNothing ==
  /\ Located /\ walk.op = "read" /\ walk.ino < 0
  /\ \E result \in IF walk.ino = Missing THEN {0} ELSE {-1, 0, walk.range.n} : End(result)
  /\ buffer' \in {Untouched} \cup
       (IF walk.ino = Missing THEN {} ELSE {[i \in -Span .. Span |-> 0]})

\* implRead's callback for one extent, whose read may fail.  The extent's first
\* file byte is not subtracted from the position, and the place in the buffer
\* is negated.
ReadExtent ==
  LET inode == Image(walk.fs)[walk.ino]
      e == Travelled(inode, walk.seen)
      o == Overlap(e, walk.range)
      n == o.to - o.from
      pos == e.pos + o.from
      at == walk.range.off - o.from
  IN  /\ Located /\ walk.op = "read" /\ walk.ino >= 0 /\ walk.seen < Calls(inode)
      /\ \E got \in IF n <= 0 THEN {0} ELSE {-1, PartitionRead(walk.fs, pos, n)} :
           /\ walk' = [walk EXCEPT !.seen = @ + 1, !.result = @ + got]
           /\ buffer' = [i \in DOMAIN buffer |->
                           IF got > 0 /\ i - at \in 0 .. n - 1
                           THEN Place(walk.fs, pos + i - at) ELSE buffer[i]]
      /\ UNCHANGED answer /\ Continue

EndRead ==
  /\ Located /\ walk.op = "read" /\ walk.ino >= 0
  /\ walk.seen = Calls(Image(walk.fs)[walk.ino])
  /\ End(walk.result)
  /\ UNCHANGED buffer

\* The caller has used the answer and goes on.
Return ==
  /\ ~stopped /\ answer # <<>>
  /\ answer' = <<>> /\ buffer' = Untouched
  /\ UNCHANGED walk /\ Continue

Halted == stopped /\ UNCHANGED vars

Next ==
  \/ \E d \in DOMAIN Disks : AddStorage(d)
  \/ AddPartition \/ EndAdd
  \/ \E op \in Unimplemented \cup {"read", "getSize", "exists", "getType"},
        path \in Paths : Operation(op, path)
  \/ Descend \/ Metadata \/ ReadNothing \/ ReadExtent \/ EndRead
  \/ Return \/ Halted

Spec == Init /\ [][Next]_vars

-----------------------------------------------------------------------------
\* Types.
TypeOK ==
  /\ Range(storages) \subseteq DOMAIN Disks
  /\ \A fs \in Range(registry) :
       /\ fs.disk \in DOMAIN Disks /\ fs.part \in Entries /\ fs.num \in Entries
       /\ fs.valid \in BOOLEAN
  /\ Range(registry) = Range(added)
  /\ {faults, stopped} \subseteq BOOLEAN

\* Types, and the filesystem a path denotes: the first one ever added, if the
\* path has its prefix, and otherwise the one added last with that prefix.  (So
\* a second disk takes over the paths of the first, but for one partition.)
DenotesLatest ==
  /\ TypeOK
  /\ \A path \in Paths :
       LET able == {k \in DOMAIN added : handles(added[k], path)}
       IN  getFilesystem(registry, path) =
             IF able = {} THEN <<>>
             ELSE IF 1 \in able THEN added[1] ELSE added[Max(able)]

Compact(d) ==
  \A i \in Entries : Present(Disks[d].parts[i]) =>
                       \A j \in 0 .. i : Present(Disks[d].parts[j])

\* With one disk, whose used partition entries come first, every Linux
\* partition is reached under its own number, and only those are.
OneDiskReachable ==
  \A d \in DOMAIN Disks :
    storages = <<d>> /\ adding = <<>> /\ ~faults /\ ~stopped /\ Disks[d].size > 0
      /\ Compact(d) =>
      \A i \in Entries :
        LET path == [num |-> i, more |-> <<>>, names |-> <<>>, slash |-> TRUE]
            fs == getFilesystem(registry, path)
        IN  IF HasFilesystem(Disks[d].parts[i])
            THEN fs # <<>> /\ fs.part = i /\ fs.disk = d
            ELSE fs = <<>>

\* The chains of entries from the root that carry a path's names and go through
\* directories.
Chains(image, path) ==
  LET names == Components(path)
  IN  {c \in [0 .. Len(names) -> DOMAIN image] :
        /\ c[0] = Root
        /\ \A i \in 1 .. Len(names) :
             /\ \E e \in Range(image[c[i - 1]].entries) :
                  e.name = names[i] /\ e.ino = c[i]
             /\ i < Len(names) \/ path.slash => image[c[i]].kind = "dir"}

\* The inodes a path denotes: the ends of those chains.
Denoted(image, path) == {c[Len(Components(path))] : c \in Chains(image, path)}

Asked(op) == answer # <<>> /\ answer.op = op /\ answer.fs # <<>> /\ answer.fs.valid

\* getSize of a path that denotes something is that inode's size, and it is -1
\* if already the first name does not exist.  (A name that is missing further
\* down is not reported.)
SizeRight ==
  Asked("getSize") =>
    LET image == Image(answer.fs)
        names == Components(answer.path)
    IN  /\ \A n \in Denoted(image, answer.path) : answer.result = image[n].size
        /\ names # <<>> /\ (\A e \in Range(image[Root].entries) : e.name # names[1])
             => answer.result = -1

\* A read inside a file's first extent that reports bytes has put exactly the
\* file's bytes into the buffer, wherever on the disk the partition begins.
ReadExact ==
  Asked("read") =>
    LET r == answer.range IN
    \A n \in Denoted(Image(answer.fs), answer.path) :
      LET inode == Image(answer.fs)[n] IN
      /\ inode.extents # <<>> /\ answer.result > 0
      /\ inode.extents[1].at = 0 /\ r.off + r.n <= inode.extents[1].len
      => \A i \in 0 .. r.n - 1 :
           buffer[i] = Disks[answer.fs.disk].parts[answer.fs.part].offset
                         + inode.extents[1].pos + r.off + i

\* Memory outside the buffer is written only for a range that goes from one
\* extent into the next.
BufferKept ==
  /\ DOMAIN buffer = -Span .. Span
  /\ Asked("read") /\ answer.ino > 0 =>
    LET r == answer.range
        extents == Range(Image(answer.fs)[answer.ino].extents)
    IN  (\E i \in DOMAIN buffer \ (0 .. r.n - 1) : buffer[i] # -1)
          => \E e \in extents : r.off < e.at /\ e.at < r.off + r.n

\* A path's size is its inode's, and a read leaves the file's bytes in the
\* buffer and nothing elsewhere.
AnswersSound == SizeRight /\ ReadExact /\ BufferKept
=============================================================================
