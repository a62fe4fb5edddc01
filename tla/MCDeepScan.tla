----------------------------- MODULE MCDeepScan -----------------------------
(***************************************************************************)
(* Small file systems for DeepScan: directories that hold each other, live *)
(* and deleted namesakes and directories that cannot be read; data streams *)
(* of the MFT whose names meet, two of one record, one of a directory, with *)
(* and without data, some of them below a file; inodes that are not in use *)
(* and a last one; stretches of free clusters longer than a batch, with    *)
(* files and directories in them.                                          *)
(***************************************************************************)
EXTENDS DeepScan, FiniteSetsExt

Plain(dirs) == [kind |-> "other", root |-> 2, dirs |-> dirs, mft |-> <<>>, records |-> <<>>,
                inodes |-> <<>>, clusters |-> <<>>, carved |-> <<>>]

File(stem, deleted, inode) ==
  [name |-> <<stem, "txt">>, inode |-> inode, dir |-> FALSE, deleted |-> deleted, size |-> 1]
Dir(stem, inode) ==
  [name |-> <<stem, "">>, inode |-> inode, dir |-> TRUE, deleted |-> FALSE, size |-> 0]

Live == File("a", FALSE, 10)
Gone == File("a", TRUE, 11)
Up == Dir("up", 2)
Down == Dir("c", 4)

\* Directory 3 is below 2 and may be above it; 4 is too deep in some paths; 9 is unreadable.
WalkDirs ==
  {2 :> root @@ 3 :> sub @@ 4 :> <<Dir("f", 5)>> @@ 5 :> <<File("g", FALSE, 21)>> :
     root \in {<<Dir("d", 3)>> \o l : l \in {<<Live, Gone>>, <<Gone, Live>>, <<Dir("b", 9)>>}},
     sub \in {<<Up, Down>>, <<Down>>}}

WalkVolumes == {[Plain(dirs) EXCEPT !.carved = <<<<<<"JPG", "">>, <<"file_0", "jpg">>>>>>] : dirs \in WalkDirs}

Small == 2 :> <<File("a", FALSE, 10)>>

Inode(stem, used, dir, size, hint) ==
  [stem |-> stem, used |-> used, dir |-> dir, size |-> size, hint |-> hint]

Inodes ==
  {<<Inode("inode_12", TRUE, d, 1, h), Inode("inode_13", u, FALSE, z, "jpg"),
     Inode("inode_14", TRUE, FALSE, 1, "none")>> :
     d \in BOOLEAN, u \in BOOLEAN, h \in {"none", "jpg"}, z \in 0 .. 1}

ExtVolumes ==
  {[Plain(Small) EXCEPT !.kind = "ext", !.inodes = i, !.carved = <<<<<<"JPG", "">>, <<"file_0", "jpg">>>>>>] :
     i \in Inodes}

Stream(path, inode, size) == [path |-> path, inode |-> inode, size |-> size]
Record(dir, content, hint) == [dir |-> dir, content |-> content, hint |-> hint]

A == <<"a", "txt">>
J == <<"a", "jpg">>
X == <<"x", "">>

MCRecords ==
  30 :> Record(TRUE, "runs", "none") @@ 31 :> Record(FALSE, "runs", "none")
  @@ 32 :> Record(FALSE, "runs", "jpg") @@ 33 :> Record(FALSE, "none", "none")
  @@ 34 :> Record(FALSE, "resident", "pdf") @@ 35 :> Record(FALSE, "runs", "txt")

\* In the order of filesort: directories first, then by name.  The fourth is a second
\* stream of the third's record.
MCStreams ==
  <<Stream(<<<<"x:s", "">>>>, 30, 1), Stream(<<J>>, 31, 3), Stream(<<A>>, 32, 1),
    Stream(<<<<"a", "txt:s">>>>, 32, 2), Stream(<<A>>, 31, 2), Stream(<<A>>, 33, 0),
    Stream(<<<<"r", "txt">>>>, 34, 1), Stream(<<X>>, 31, 1), Stream(<<X, A>>, 32, 1),
    Stream(<<X, X, A>>, 31, 1)>>

Picked(ks) == [k \in 1 .. Cardinality(ks) |-> MCStreams[SetToSortSeq(ks, <)[k]]]

\* The second stream renames the node of the first, which then has the path of the third.
Led == <<Stream(<<J>>, 31, 3), Stream(<<J>>, 35, 3), Stream(<<A>>, 31, 2)>>

\* The second stream is renamed to what the first has for a directory.
Mixed == <<Stream(<<J, A>>, 31, 1), Stream(<<A>>, 32, 1), Stream(<<X>>, 31, 1)>>

MftVolumes ==
  {[Plain(Small) EXCEPT !.kind = "ntfs", !.records = MCRecords, !.mft = streams] :
     streams \in {Picked(ks) : ks \in UNION {kSubset(n, DOMAIN MCStreams) : n \in 1 .. 3}}
                  \cup {Led, Mixed}}

Cluster(free, readable, entries) == [free |-> free, readable |-> readable, entries |-> entries]
N(c) == <<[name |-> <<<<"n1", "n2", "n3", "n4">>[c], "">>, dir |-> c = 2, size |-> 1]>>

ClusterLists ==
  {[c \in 1 .. 4 |-> CASE k[c] = "used" -> Cluster(FALSE, TRUE, <<>>)
                       [] k[c] = "empty" -> Cluster(TRUE, TRUE, <<>>)
                       [] k[c] = "bad" -> Cluster(TRUE, FALSE, N(c))
                       [] OTHER -> Cluster(TRUE, TRUE, N(c))] :
     k \in [1 .. 4 -> {"used", "empty", "bad", "names"}]}

ClusterVolumes ==
  {[Plain(Small) EXCEPT !.kind = kind, !.clusters = cs] : kind \in {"fat", "ntfs"}, cs \in ClusterLists}

MCWords ==
  {"ORPHAN", "Deep Scan Results", "", "dir", "file", "txt", "jpg", "pdf", "none", "JPG", "file_0",
   "a", "b", "c", "d", "f", "g", "r", "x", "up", "inode_12", "inode_13", "n1", "n2", "n3", "n4", "inode_14", "x:s", "txt:s"}

\* Behind a slip there is nothing, or something with a path that the scan may come to.
MCJunk ==
  {<<>>, <<[path |-> <<Orphans, A>>, orphan |-> FALSE, clusters |-> <<"boot">>,
            item |-> Item(FALSE, TRUE, 7, NoSource)]>>}

MCVolumes == WalkVolumes \cup ExtVolumes \cup MftVolumes \cup ClusterVolumes
=============================================================================
