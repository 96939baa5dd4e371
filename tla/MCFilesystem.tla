---------------------------- MODULE MCFilesystem ----------------------------
(* Three disks with ext4 partitions and one without a partition table.      *)
EXTENDS Filesystem

File(size, extents) ==
  [kind |-> "file", size |-> size, extents |-> extents, visits |-> 1, entries |-> <<>>]
Directory(entries) ==
  [kind |-> "dir", size |-> 2, extents |-> <<[at |-> 0, pos |-> 2, len |-> 2]>>,
   visits |-> 1, entries |-> entries]
Entry(name, ino, type) == [name |-> name, ino |-> ino, type |-> type]
Extent(at, pos, len) == [at |-> at, pos |-> pos, len |-> len]

\* "a" with two extents, "d/b" with one, "d/c" behind an index node of two.
Small ==
  2 :> Directory(<<Entry("a", 3, "file"), Entry("d", 4, "dir"), Entry("s", 7, "other")>>)
  @@ 3 :> File(5, <<Extent(0, 4, 3), Extent(3, 9, 2)>>)
  @@ 4 :> Directory(<<Entry("b", 5, "file"), Entry("c", 6, "file")>>)
  @@ 5 :> File(2, <<Extent(0, 1, 4)>>)
  @@ 6 :> [File(8, <<Extent(0, 8, 2)>>) EXCEPT !.visits = 2]
  @@ 7 :> [File(0, <<>>) EXCEPT !.kind = "other"]

Part(type, offset, size, image) ==
  [type |-> type, offset |-> offset, size |-> size, image |-> image]
Unused == Part("none", 0, 0, <<>>)

SomeDisks ==
  "two" :> [size |-> 24, usable |-> TRUE,
            parts |-> 0 :> Part("linux", 0, 12, Small) @@ 1 :> Part("linux", 12, 12, Small)
                      @@ 2 :> Unused @@ 3 :> Unused]
  @@ "four" :> [size |-> 48, usable |-> TRUE,
                parts |-> 0 :> Part("other", 0, 12, <<>>) @@ 1 :> Part("linux", 12, 12, Small)
                          @@ 2 :> Part("linux", 24, 12, <<>>) @@ 3 :> Part("linux", 36, 12, Small)]
  @@ "hole" :> [size |-> 24, usable |-> TRUE,
                parts |-> 0 :> Unused @@ 1 :> Part("linux", 12, 12, Small)
                          @@ 2 :> Unused @@ 3 :> Part("linux", 0, 12, Small)]
  @@ "none" :> [size |-> 24, usable |-> FALSE,
                parts |-> [i \in Entries |-> Unused]]

Path(num, names, slash) == [num |-> num, more |-> <<>>, names |-> names, slash |-> slash]
SomePaths ==
  {Path(i, names, FALSE) : i \in {0, 1, 3},
     names \in {<<"a">>, <<"d", "b">>, <<"d", "c">>, <<"d", "x">>, <<"x">>, <<"a", "b">>}}
  \cup {Path(1, <<>>, FALSE), Path(1, <<>>, TRUE), Path(0, <<"d">>, TRUE),
        Path(0, <<"s">>, FALSE), [Path(1, <<"a">>, FALSE) EXCEPT !.more = <<"0">>], Path(2, <<"a">>, FALSE)}

SomeRanges == {[off |-> o, n |-> n] : o \in {0, 1, 3}, n \in {1, 2, 4}}
=============================================================================
