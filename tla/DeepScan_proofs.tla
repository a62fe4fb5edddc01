---------------------------- MODULE DeepScan_proofs ----------------------------
(***************************************************************************)
(* Proofs about DeepScan.  The tree is a tree whatever is scanned, saved,  *)
(* cut short and loaded again.                                             *)
(***************************************************************************)
EXTENDS DeepScan, ScanTree_proofs

(* The types. *)

ScanTrees == Trees(FileNames, Data)
SessionEntries == SavedEntries(FileNames, Data)

Frames == [inode : DOMAIN volume.dirs, path : Seq(FileNames), next : Nat]

StackOK ==
  /\ stack \in Seq(Frames) /\ Len(stack) <= MaxDirDepth
  /\ \A i \in DOMAIN stack : stack[i].next \in 1 .. Len(volume.dirs[stack[i].inode]) + 1

ClustersOK ==
  /\ run \in Seq(DOMAIN volume.clusters) /\ batch \in Seq(DOMAIN volume.clusters)
  /\ pc \notin {"fat", "indx"} => run = <<>>
  /\ Len(run) <= (IF pc = "fat" THEN FatBatch ELSE NtfsBatch - 1)

FileOK(f) ==
  f \in [kind : {"none", "unreadable", "session"}, entries : Seq(SessionEntries), completed : BOOLEAN]

Typed ==
  /\ volume \in Volumes /\ deep \in BOOLEAN /\ pc \in Phases \cup {"idle"}
  /\ at \in Nat /\ total \in Nat /\ runs \in 0 .. MaxRuns
  /\ cancel \in BOOLEAN /\ damaged \in BOOLEAN /\ whole \in BOOLEAN
  /\ tree \in ScanTrees
  /\ FileOK(file)
  /\ StackOK
  /\ ClustersOK

LEMMA TypedGivesTypeOK == Typed => TypeOK
<1> SUFFICES ASSUME Typed PROVE TypeOK
  OBVIOUS
<1> USE DEF Typed
<1>1. \A n \in Nodes(FileNames, Data) : NodeOK(n)
  BY DEF Nodes, NodeOK
<1>2. \A i \in DOMAIN tree : NodeOK(tree[i]) /\ tree[i].parent < i
  <2>1. \A i \in DOMAIN tree : tree[i] \in Nodes(FileNames, Data) /\ tree[i].parent < i
    BY TreeHas DEF ScanTrees, Trees
  <2> QED
    BY <1>1, <2>1
<1>3. Len(stack) <= MaxDirDepth /\ \A i \in DOMAIN stack : stack[i].next \in 1 .. Len(Listed(stack[i])) + 1
  BY DEF StackOK, Listed
<1>4. Len(run) <= (IF pc = "fat" THEN FatBatch ELSE NtfsBatch - 1)
  BY DEF ClustersOK
<1>5. file.kind \in {"none", "unreadable", "session"} /\ file.completed \in BOOLEAN
  BY DEF FileOK
<1> QED
  BY <1>2, <1>3, <1>4, <1>5 DEF TypeOK

LEMMA NoSourceIsData == NoSource \in Data
  BY DEF Data

\* What the listers give.
StreamSet == [path : Seq(FileNames), inode : Nat, size : Nat]
RecordSet == [dir : BOOLEAN, content : {"none", "resident", "runs"}, hint : Words]
InodeSet == [used : BOOLEAN, stem : Words, dir : BOOLEAN, size : Nat, hint : Words]
FoundSet == [name : FileNames, dir : BOOLEAN, size : Nat]
ClusterSet == [free : BOOLEAN, readable : BOOLEAN, entries : Seq(FoundSet)]

LEMMA VolumeHas ==
  ASSUME NEW v \in Volumes
  PROVE  /\ \A inode \in DOMAIN v.dirs :
              v.dirs[inode] \in
                Seq([name : FileNames, inode : Nat, dir : BOOLEAN, deleted : BOOLEAN, size : Nat])
         /\ v.mft \in Seq(StreamSet) /\ \A k \in DOMAIN v.mft : v.mft[k].inode \in DOMAIN v.records
         /\ \A inode \in DOMAIN v.records : v.records[inode] \in RecordSet
         /\ v.inodes \in Seq(InodeSet)
         /\ v.clusters \in Seq(ClusterSet)
         /\ v.carved \in Seq(Seq(FileNames))
  BY VolumesAssumption DEF StreamSet, RecordSet, InodeSet, ClusterSet, FoundSet

------------------------------------------------------------------------------
(* What each phase adds. *)

LEMMA SpecialNames == Orphans \in FileNames /\ Results \in FileNames
  BY WordsAssumption DEF Orphans, Results, FileNames

LEMMA RenamedIn ==
  ASSUME NEW name \in FileNames, NEW hint \in Words
  PROVE  Renamed(name, hint) \in FileNames
  BY DEF Renamed, FileNames

LEMMA ItemIn ==
  ASSUME NEW dir \in BOOLEAN, NEW deleted \in BOOLEAN, NEW size \in Nat, NEW src \in Data
  PROVE  Item(dir, deleted, size, src) \in Items(Data)
  BY DEF Item, Items

LEMMA PathsIn ==
  ASSUME NEW a \in FileNames, NEW b \in FileNames, NEW p \in Seq(FileNames)
  PROVE  <<a>> \o p \in Seq(FileNames) /\ <<a, b>> \in Seq(FileNames)
  OBVIOUS

RecordNode(node, inode) == InferName(FillClusters([node EXCEPT !.orphan = TRUE], inode))

InodeNode(node, inode) ==
  IF inode.dir \/ inode.size = 0 THEN node ELSE [node EXCEPT !.name = Renamed(@, inode.hint)]

\* The elements of a sequence.
LEMMA Elements ==
  ASSUME NEW S, NEW s \in Seq(S)
  PROVE  Len(s) \in Nat /\ \A i \in DOMAIN s : s[i] \in S /\ i \in 1 .. Len(s)
  OBVIOUS

\* A stream, and its record.
LEMMA StreamHas ==
  ASSUME volume \in Volumes, NEW k \in DOMAIN volume.mft
  PROVE  /\ k \in Nat /\ volume.mft[k] \in StreamSet
         /\ volume.mft[k].path \in Seq(FileNames) /\ volume.mft[k].size \in Nat
         /\ volume.mft[k].inode \in Nat /\ volume.mft[k].inode \in DOMAIN volume.records
         /\ volume.records[volume.mft[k].inode].dir \in BOOLEAN
         /\ volume.records[volume.mft[k].inode].hint \in Words
<1>1. volume.mft \in Seq(StreamSet) /\ volume.mft[k].inode \in DOMAIN volume.records
  BY VolumeHas
<1>2. k \in Nat /\ volume.mft[k] \in StreamSet
  BY <1>1, Elements
<1>3. volume.records[volume.mft[k].inode] \in RecordSet
  BY <1>1, VolumeHas
<1> QED
  BY <1>1, <1>2, <1>3 DEF StreamSet, RecordSet

LEMMA HintIn ==
  ASSUME volume \in Volumes, NEW clusters
  PROVE  Hint(clusters) \in Words \cup {"none"}
<1>1. \A inode \in DOMAIN volume.records : volume.records[inode].hint \in Words
  BY VolumeHas DEF RecordSet
<1> QED
  BY <1>1 DEF Hint

\* ntfs_fill_clusters changes nothing but the clusters.
LEMMA FillClustersIs ==
  ASSUME NEW n \in Nodes(FileNames, Data), NEW inode \in Nat
  PROVE  \/ FillClusters(n, inode) = n
         \/ \E c \in {<<"boot">>, <<"data", inode>>} :
              FillClusters(n, inode) = [n EXCEPT !.clusters = c]
  BY DEF FillClusters

LEMMA RecordNodeIn ==
  ASSUME volume \in Volumes, NEW n \in Nodes(FileNames, Data), NEW inode \in Nat
  PROVE  RecordNode(n, inode) \in Nodes(FileNames, Data) /\ RecordNode(n, inode).parent = n.parent
<1> DEFINE a == [n EXCEPT !.orphan = TRUE]
           b == FillClusters(a, inode)
<1>1. a \in Nodes(FileNames, Data) /\ a.parent = n.parent
  BY DEF Nodes
<1> HIDE DEF a
<1>2. <<"boot">> \in Data /\ <<"data", inode>> \in Data
  BY DEF Data
<1>3. b \in Nodes(FileNames, Data) /\ b.parent = a.parent
  <2>1. \A c \in Data : [a EXCEPT !.clusters = c] \in Nodes(FileNames, Data) /\ [a EXCEPT !.clusters = c].parent = a.parent
    BY <1>1 DEF Nodes
  <2>2. b = a \/ \E c \in {<<"boot">>, <<"data", inode>>} : b = [a EXCEPT !.clusters = c]
    BY <1>1, FillClustersIs
  <2> QED
    BY <1>1, <1>2, <2>1, <2>2
<1> HIDE DEF b
<1>4. PICK hint \in Words \cup {"none"} : hint = Hint(b.clusters)
  BY HintIn
<1>5. Renamed(b.name, hint) \in FileNames
  <2>1. Renamed(b.name, "none") = b.name /\ b.name \in FileNames
    BY <1>3 DEF Renamed, Nodes
  <2> QED
    BY <2>1, RenamedIn
<1>6. InferName(b) = IF b.clusters = NoSource THEN b ELSE [b EXCEPT !.name = Renamed(b.name, hint)]
  <2>1. [b EXCEPT !.name = Renamed(@, hint)] = [b EXCEPT !.name = Renamed(b.name, hint)]
    OBVIOUS
  <2> QED
    BY <1>4, <2>1 DEF InferName
<1>7. \A m \in FileNames : [b EXCEPT !.name = m] \in Nodes(FileNames, Data) /\ [b EXCEPT !.name = m].parent = b.parent
  BY <1>3 DEF Nodes
<1>8. InferName(b) \in Nodes(FileNames, Data) /\ InferName(b).parent = b.parent
  BY <1>3, <1>5, <1>6, <1>7
<1>9. RecordNode(n, inode) = InferName(b)
  BY DEF RecordNode, a, b
<1> QED
  BY <1>1, <1>3, <1>8, <1>9

LEMMA InodeNodeIn ==
  ASSUME NEW n \in Nodes(FileNames, Data),
         NEW inode \in InodeSet
  PROVE  InodeNode(n, inode) \in Nodes(FileNames, Data) /\ InodeNode(n, inode).parent = n.parent
<1>1. Renamed(n.name, inode.hint) \in FileNames
  <2>1. n.name \in FileNames /\ inode.hint \in Words
    BY DEF Nodes, InodeSet
  <2> QED
    BY <2>1, RenamedIn
<1>2. \A m \in FileNames : [n EXCEPT !.name = m] \in Nodes(FileNames, Data) /\ [n EXCEPT !.name = m].parent = n.parent
  BY DEF Nodes
<1> QED
  BY <1>1, <1>2 DEF InodeNode

RecordPath(k) == <<Orphans>> \o volume.mft[k].path
RecordAdded(t, k) ==
  AddPath(t, RecordPath(k), Item(volume.records[volume.mft[k].inode].dir, TRUE, volume.mft[k].size, <<"mft", k>>))

LEMMA AddRecordIs ==
  ASSUME NEW t, NEW k
  PROVE  AddRecord(t, k) =
           [i \in DOMAIN RecordAdded(t, k) |->
              IF i \in FindPath(RecordAdded(t, k), RecordPath(k))
              THEN RecordNode(RecordAdded(t, k)[i], volume.mft[k].inode) ELSE RecordAdded(t, k)[i]]
<1> DEFINE u == RecordAdded(t, k)
           path == RecordPath(k)
           R(w, found) == [i \in DOMAIN w |-> IF i \in found THEN RecordNode(w[i], volume.mft[k].inode) ELSE w[i]]
           Q(w) == CHOOSE r \in {R(w, x) : x \in {FindPath(w, path)}} : TRUE
<1>1. AddRecord(t, k) = CHOOSE r \in {Q(w) : w \in {u}} : TRUE
  BY DEF AddRecord, UpdateAt, With, RecordNode, RecordAdded, RecordPath
<1> HIDE DEF Q
<1>2. {Q(w) : w \in {u}} = {Q(u)}
  OBVIOUS
<1>3. AddRecord(t, k) = Q(u)
  BY <1>1, <1>2, Choice
<1> HIDE DEF R
<1>4. {R(u, x) : x \in {FindPath(u, path)}} = {R(u, FindPath(u, path))}
  OBVIOUS
<1>5. Q(u) = R(u, FindPath(u, path))
  BY <1>4, Choice DEF Q
<1> QED
  BY <1>3, <1>5 DEF R

LEMMA AddRecordIn ==
  ASSUME volume \in Volumes, NEW t \in ScanTrees, NEW k \in DOMAIN volume.mft
  PROVE  AddRecord(t, k) \in ScanTrees
<1>2. PICK inode \in Nat : inode = volume.mft[k].inode
  BY StreamHas
<1>3. k \in Nat /\ volume.mft[k].path \in Seq(FileNames)
      /\ volume.records[volume.mft[k].inode].dir \in BOOLEAN /\ volume.mft[k].size \in Nat
  BY StreamHas
<1>4. PICK path \in Seq(FileNames) : path = RecordPath(k)
  BY <1>3, PathsIn, SpecialNames DEF RecordPath
<1>5. PICK item \in Items(Data) :
        item = Item(volume.records[volume.mft[k].inode].dir, TRUE, volume.mft[k].size, <<"mft", k>>)
  <2>1. <<"mft", k>> \in Data
    BY <1>3 DEF Data
  <2> QED
    BY <1>3, <2>1, ItemIn
<1>6. PICK u \in ScanTrees : u = RecordAdded(t, k)
  BY <1>4, <1>5, NoSourceIsData, AddPathIn DEF ScanTrees, RecordAdded
<1> DEFINE v == [i \in DOMAIN u |-> IF i \in FindPath(u, path) THEN RecordNode(u[i], inode) ELSE u[i]]
<1>7. AddRecord(t, k) = v
  BY <1>2, <1>4, <1>6, AddRecordIs
<1>8. \A i \in DOMAIN u : u[i] \in Nodes(FileNames, Data)
  BY TreeHas DEF ScanTrees
<1>9. \A i \in DOMAIN u : v[i] \in Nodes(FileNames, Data) /\ v[i].parent = u[i].parent
  <2>1. ASSUME NEW i \in DOMAIN u
        PROVE  v[i] \in Nodes(FileNames, Data) /\ v[i].parent = u[i].parent
    <3>1. PICK n \in Nodes(FileNames, Data) : n = u[i]
      BY <1>8
    <3>2. RecordNode(n, inode) \in Nodes(FileNames, Data) /\ RecordNode(n, inode).parent = n.parent
      BY RecordNodeIn
    <3>3. v[i] = n \/ v[i] = RecordNode(n, inode)
      BY <3>1
    <3> QED
      BY <3>1, <3>2, <3>3
  <2> QED
    BY <2>1
<1>10. v \in [DOMAIN u -> Nodes(FileNames, Data)]
  BY <1>9
<1> HIDE DEF v
<1> QED
  BY <1>7, <1>9, <1>10, ChangedTree DEF ScanTrees

InodePath(n) == <<Results, <<volume.inodes[n].stem, IF volume.inodes[n].dir THEN "dir" ELSE "file">>>>
InodeAdded(t, n) ==
  AddPath(t, InodePath(n), Item(volume.inodes[n].dir, TRUE, volume.inodes[n].size, <<"inode", n>>))

LEMMA AddInodeIs ==
  ASSUME NEW t, NEW n
  PROVE  AddInode(t, n) =
           [i \in DOMAIN InodeAdded(t, n) |->
              IF i \in FindPath(InodeAdded(t, n), InodePath(n))
              THEN InodeNode(InodeAdded(t, n)[i], volume.inodes[n]) ELSE InodeAdded(t, n)[i]]
<1> DEFINE u == InodeAdded(t, n)
           path == InodePath(n)
           R(w, found) == [i \in DOMAIN w |-> IF i \in found THEN InodeNode(w[i], volume.inodes[n]) ELSE w[i]]
           Q(w) == CHOOSE r \in {R(w, x) : x \in {FindPath(w, path)}} : TRUE
<1>1. AddInode(t, n) = CHOOSE r \in {Q(w) : w \in {u}} : TRUE
  BY DEF AddInode, UpdateAt, With, InodeNode, InodeAdded, InodePath
<1> HIDE DEF Q
<1>2. {Q(w) : w \in {u}} = {Q(u)}
  OBVIOUS
<1>3. AddInode(t, n) = Q(u)
  BY <1>1, <1>2, Choice
<1> HIDE DEF R
<1>4. {R(u, x) : x \in {FindPath(u, path)}} = {R(u, FindPath(u, path))}
  OBVIOUS
<1>5. Q(u) = R(u, FindPath(u, path))
  BY <1>4, Choice DEF Q
<1> QED
  BY <1>3, <1>5 DEF R

LEMMA AddInodeIn ==
  ASSUME volume \in Volumes, NEW t \in ScanTrees, NEW n \in DOMAIN volume.inodes
  PROVE  AddInode(t, n) \in ScanTrees
<1>1. volume.inodes[n] \in InodeSet /\ n \in Nat
  BY VolumeHas, Elements
<1>2. PICK inode \in InodeSet : inode = volume.inodes[n]
  BY <1>1
<1>3. inode.stem \in Words /\ inode.dir \in BOOLEAN /\ inode.size \in Nat
  BY DEF InodeSet
<1>4. PICK path \in Seq(FileNames) : path = InodePath(n)
  <2>1. <<inode.stem, IF inode.dir THEN "dir" ELSE "file">> \in FileNames
    BY <1>3, WordsAssumption DEF FileNames
  <2> QED
    <3>1. InodePath(n) = <<Results, <<inode.stem, IF inode.dir THEN "dir" ELSE "file">>>>
      BY <1>2 DEF InodePath
    <3>2. PICK name \in FileNames : name = <<inode.stem, IF inode.dir THEN "dir" ELSE "file">>
      BY <2>1
    <3>3. <<Results, name>> \in Seq(FileNames)
      BY SpecialNames
    <3> QED
      BY <3>1, <3>2, <3>3
<1>5. PICK item \in Items(Data) : item = Item(volume.inodes[n].dir, TRUE, volume.inodes[n].size, <<"inode", n>>)
  <2>1. <<"inode", n>> \in Data
    BY <1>1 DEF Data
  <2> QED
    BY <1>2, <1>3, <2>1, ItemIn
<1>6. PICK u \in ScanTrees : u = InodeAdded(t, n)
  BY <1>4, <1>5, NoSourceIsData, AddPathIn DEF ScanTrees, InodeAdded
<1> DEFINE v == [i \in DOMAIN u |-> IF i \in FindPath(u, path) THEN InodeNode(u[i], inode) ELSE u[i]]
<1>7. AddInode(t, n) = v
  BY <1>2, <1>4, <1>6, AddInodeIs
<1>8. \A i \in DOMAIN u : u[i] \in Nodes(FileNames, Data)
  BY TreeHas DEF ScanTrees
<1>9. \A i \in DOMAIN u : v[i] \in Nodes(FileNames, Data) /\ v[i].parent = u[i].parent
  BY <1>8, InodeNodeIn
<1>10. v \in [DOMAIN u -> Nodes(FileNames, Data)]
  BY <1>9
<1> HIDE DEF v
<1> QED
  BY <1>7, <1>9, <1>10, ChangedTree DEF ScanTrees

ClusterItem(c, k) ==
  Item(volume.clusters[c].entries[k].dir, TRUE, volume.clusters[c].entries[k].size, <<"cluster", c, k>>)
ClusterPath(c, k) == <<Results, volume.clusters[c].entries[k].name>>

LEMMA AddClusterBuilt ==
  ASSUME volume \in Volumes, NEW t \in ScanTrees, NEW c \in DOMAIN volume.clusters
  PROVE  /\ Len(volume.clusters[c].entries) \in Nat
         /\ \E added \in [0 .. Len(volume.clusters[c].entries) -> ScanTrees] :
              /\ added[0] = t
              /\ \A k \in 1 .. Len(volume.clusters[c].entries) :
                   added[k] = AddPath(added[k - 1], ClusterPath(c, k), ClusterItem(c, k))
              /\ AddCluster(t, c) = added[Len(volume.clusters[c].entries)]
<1>1. volume.clusters[c] \in ClusterSet /\ c \in Nat
  BY VolumeHas, Elements
<1>2. PICK es \in Seq(FoundSet) : es = volume.clusters[c].entries
  BY <1>1 DEF ClusterSet
<1> DEFINE L == Len(es)
           S == ScanTrees
           back == [i \in 1 .. L |-> i - 1]
           Add(u, k) == AddPath(u, <<Results, es[k].name>>, ClusterItem(c, k))
           step == [p \in (1 .. L) \X S |-> Add(p[2], p[1])]
           Is(f) == f = [k \in 0 .. L |-> IF k = 0 THEN t ELSE With(f[k - 1], LAMBDA u : Add(u, k))]
<1>3. L \in Nat /\ \A i \in 1 .. L : es[i].name \in FileNames /\ es[i].dir \in BOOLEAN /\ es[i].size \in Nat
  <2>1. L \in Nat /\ \A i \in 1 .. L : es[i] \in FoundSet
    OBVIOUS
  <2> QED
    BY <2>1 DEF FoundSet
<1>4. \A i \in 1 .. L : back[i] \in 0 .. i - 1 /\ back[i] = i - 1 /\ i \in 0 .. L
  BY <1>3
<1>5. ASSUME NEW k \in 1 .. L, NEW u \in S PROVE Add(u, k) \in S
  <2>1. PICK path \in Seq(FileNames) : path = <<Results, es[k].name>>
    <3>1. PICK name \in FileNames : name = es[k].name
      BY <1>3
    <3>2. <<Results, name>> \in Seq(FileNames)
      BY SpecialNames
    <3> QED
      BY <3>1, <3>2
  <2>2. ClusterItem(c, k) \in Items(Data)
    <3>1. <<"cluster", c, k>> \in Data
      BY <1>1, <1>3 DEF Data
    <3> QED
      BY <1>2, <1>3, <3>1, ItemIn DEF ClusterItem
  <2>3. AddPath(u, path, ClusterItem(c, k)) \in S
    BY <2>2, NoSourceIsData, AddPathIn DEF ScanTrees
  <2> QED
    BY <2>1, <2>3
<1>6. \A k \in 1 .. L, u \in S : step[<<k, u>>] = Add(u, k)
  OBVIOUS
<1>7. step \in [(1 .. L) \X S -> S]
  <2>1. \A p \in (1 .. L) \X S : Add(p[2], p[1]) \in S
    BY <1>5
  <2> HIDE DEF S, Add
  <2> QED
    BY <2>1
<1>8. back \in [1 .. L -> Nat] /\ \A i \in 1 .. L : back[i] < i
  BY <1>3
<1> HIDE DEF back, step, S, L
<1>9. PICK g : Built(g, L, t, S, back, step)
  <2>1. t \in S
    BY DEF S
  <2> QED
    BY <1>3, <1>7, <1>8, <2>1, Builds
<1>10. g \in [0 .. L -> S] /\ g[0] = t /\ \A k \in 1 .. L : g[k] = Add(g[k - 1], k)
  <2> HIDE DEF Add
  <2>1. g \in [0 .. L -> S] /\ g[0] = t /\ \A i \in 1 .. L : g[i] = step[<<i, g[back[i]]>>]
    BY <1>9 DEF Built
  <2>2. \A i \in 1 .. L : g[i - 1] \in S /\ back[i] = i - 1
    BY <1>3, <1>4, <2>1
  <2> QED
    BY <1>6, <2>1, <2>2
<1> HIDE DEF Add
<1>11. \A u, k : With(u, LAMBDA w : Add(w, k)) = Add(u, k)
  <2>1. ASSUME NEW u, NEW k PROVE With(u, LAMBDA w : Add(w, k)) = Add(u, k)
    <3>1. {Add(w, k) : w \in {u}} = {Add(u, k)}
      OBVIOUS
    <3> QED
      BY <3>1, Choice DEF With
  <2> QED
    BY <2>1
<1>12. Is(g)
  <2>1. \A n \in 0 .. L : n # 0 => n \in 1 .. L
    BY <1>3
  <2>2. \A k \in 0 .. L : g[k] = IF k = 0 THEN t ELSE With(g[k - 1], LAMBDA u : Add(u, k))
    <3>1. ASSUME NEW k \in 0 .. L
          PROVE  g[k] = IF k = 0 THEN t ELSE With(g[k - 1], LAMBDA u : Add(u, k))
      <4>1. CASE k = 0
        BY <1>10, <4>1
      <4>2. CASE k # 0
        <5>1. g[k] = Add(g[k - 1], k)
          BY <1>10, <2>1, <4>2
        <5>2. With(g[k - 1], LAMBDA u : Add(u, k)) = Add(g[k - 1], k)
          BY <1>11
        <5> QED
          BY <4>2, <5>1, <5>2
      <4> QED
        BY <4>1, <4>2
    <3> QED
      BY <3>1
  <2>3. g = [n \in 0 .. L |-> g[n]]
    BY <1>10
  <2> QED
    BY <2>2, <2>3, Zenon
<1> DEFINE f == CHOOSE f : Is(f)
<1>13. Is(f)
  BY <1>12
<1>14. AddCluster(t, c) = f[L]
  BY <1>2 DEF AddCluster, Add, L, ClusterItem
<1> HIDE DEF f
<1>15. DOMAIN f = 0 .. L /\ f = [n \in DOMAIN f |-> f[n]] /\ f[0] = t
  BY <1>3, <1>13
<1>16. ASSUME NEW i \in 1 .. L, NEW s \in S, f[back[i]] = s PROVE f[i] = step[<<i, s>>]
  <2>1. i \in 0 .. L /\ i # 0 /\ back[i] = i - 1
    BY <1>4
  <2>2. f[i] = With(f[i - 1], LAMBDA u : Add(u, i))
    BY <1>13, <2>1
  <2>3. f[i] = Add(s, i)
    BY <1>11, <1>16, <2>1, <2>2
  <2> QED
    BY <1>6, <2>3
<1>17. f = g
  <2>1. Follows(f, L, t, S, back, step)
    BY <1>4, <1>15, <1>16 DEF Follows
  <2> QED
    BY <1>3, <1>9, <2>1, SameAsBuilt
<1>18. \A k \in 1 .. L : g[k] = AddPath(g[k - 1], ClusterPath(c, k), ClusterItem(c, k))
  BY <1>2, <1>10 DEF Add, ClusterPath
<1> QED
  BY <1>2, <1>3, <1>10, <1>14, <1>17, <1>18 DEF S, L

LEMMA AddClusterIn ==
  ASSUME volume \in Volumes, NEW t \in ScanTrees, NEW c \in DOMAIN volume.clusters
  PROVE  AddCluster(t, c) \in ScanTrees
<1> DEFINE L == Len(volume.clusters[c].entries)
<1>1. L \in Nat /\ \E added \in [0 .. L -> ScanTrees] : AddCluster(t, c) = added[L]
  BY AddClusterBuilt
<1> QED
  BY <1>1

------------------------------------------------------------------------------
(* The session file. *)

LEMMA ImageOK ==
  ASSUME NEW t \in ScanTrees, NEW completed \in BOOLEAN
  PROVE  FileOK(Image(t, completed))
<1>1. Serialize(t) \in Seq(SessionEntries)
  BY SerializeIn DEF ScanTrees, SessionEntries
<1> QED
  BY <1>1 DEF Image, FileOK

LEMMA NoFileOK == FileOK(NoSession) /\ FileOK(Unreadable)
<1>1. <<>> \in Seq(SessionEntries)
  OBVIOUS
<1> DEFINE R == [kind : {"none", "unreadable", "session"}, entries : Seq(SessionEntries), completed : BOOLEAN]
<1>2. \A b \in BOOLEAN : /\ [kind |-> "none", entries |-> <<>>, completed |-> b] \in R
                        /\ [kind |-> "unreadable", entries |-> <<>>, completed |-> b] \in R
  BY <1>1
<1> HIDE DEF R
<1>5. FileOK(NoSession)
  <2>1. FALSE \in BOOLEAN
    OBVIOUS
  <2>2. NoSession \in R
    BY <1>2, <2>1, Zenon DEF NoSession
  <2> QED
    BY <2>2 DEF FileOK, R
<1>3. Unreadable = [kind |-> "unreadable", entries |-> <<>>, completed |-> FALSE]
  <2>1. \A b : [[kind |-> "none", entries |-> <<>>, completed |-> b] EXCEPT !.kind = "unreadable"]
                = [kind |-> "unreadable", entries |-> <<>>, completed |-> b]
    OBVIOUS
  <2> QED
    BY <2>1, Zenon DEF Unreadable, NoSession
<1>4. FileOK(Unreadable)
  <2>1. FALSE \in BOOLEAN
    OBVIOUS
  <2>2. Unreadable \in R
    BY <1>2, <1>3, <2>1, Zenon
  <2> QED
    BY <2>2 DEF FileOK, R
<1> QED
  BY <1>4, <1>5

LEMMA TornOK ==
  ASSUME NEW image, FileOK(image), NEW f \in Torn(image)
  PROVE  FileOK(f)
<1>1. CASE f = Unreadable
  BY <1>1, NoFileOK
<1>2. CASE f # Unreadable
  <2>1. PICK k \in 0 .. Len(image.entries) - 1 : f = [image EXCEPT !.entries = SubSeq(@, 1, k)]
    BY <1>2 DEF Torn
  <2>2. PICK entries \in Seq(SessionEntries) : entries = image.entries
    BY DEF FileOK
  <2>3. SubSeq(entries, 1, k) \in Seq(SessionEntries)
    <3>1. k \in Int /\ \A i \in 1 .. k : entries[i] \in SessionEntries
      BY <2>1, <2>2
    <3> QED
      BY <3>1, SubSeqProperties
  <2> QED
    BY <2>1, <2>2, <2>3 DEF FileOK
<1> QED
  BY <1>1, <1>2

LEMMA SaveTyped ==
  ASSUME NEW t \in ScanTrees, NEW completed \in BOOLEAN, FileOK(file), damaged \in BOOLEAN,
         Save(t, completed)
  PROVE  FileOK(file') /\ damaged' \in BOOLEAN
<1>1. FileOK(Image(t, completed))
  BY ImageOK
<1>2. CASE file' = Image(t, completed) /\ UNCHANGED damaged
  BY <1>1, <1>2
<1>3. CASE damaged' = TRUE /\ file' \in {file, NoSession} \cup Torn(Image(t, completed))
  BY <1>1, <1>3, TornOK, NoFileOK
<1> QED
  BY <1>2, <1>3 DEF Save

LEMMA ProgressTyped ==
  ASSUME NEW t \in ScanTrees, FileOK(file), damaged \in BOOLEAN, Progress(t)
  PROVE  FileOK(file') /\ damaged' \in BOOLEAN
<1>1. CASE UNCHANGED <<file, damaged>>
  BY <1>1 DEF FileOK
<1>2. CASE Save(t, FALSE)
  BY <1>2, SaveTyped
<1> QED
  BY <1>1, <1>2 DEF Progress

LEMMA ProgressAfterTyped ==
  ASSUME NEW t \in ScanTrees, NEW n, FileOK(file), damaged \in BOOLEAN, ProgressAfter(n, t)
  PROVE  FileOK(file') /\ damaged' \in BOOLEAN
<1>1. CASE UNCHANGED <<file, damaged>>
  BY <1>1 DEF FileOK
<1>2. CASE Progress(t)
  BY <1>2, ProgressTyped
<1> QED
  BY <1>1, <1>2 DEF ProgressAfter

------------------------------------------------------------------------------
(* The steps. *)

LEMMA TypedInit ==
  ASSUME Init
  PROVE  Typed
<1>1. ScanTrees = Trees(FileNames, Data) /\ tree = <<>> /\ FileOK(file)
  BY NoFileOK DEF Init, ScanTrees
<1>2. tree \in ScanTrees
  BY <1>1, NoTree
<1>3. StackOK
  <2>1. stack = <<>> /\ MaxDirDepth \in Nat
    BY LimitsAssumption DEF Init
  <2> QED
    BY <2>1 DEF StackOK
<1>4. ClustersOK
  <2>1. run = <<>> /\ batch = <<>> /\ pc = "idle" /\ FatBatch \in Nat /\ NtfsBatch \in Nat \ {0}
    BY LimitsAssumption DEF Init
  <2> QED
    BY <2>1 DEF ClustersOK
<1>5. MaxRuns \in Nat
  BY LimitsAssumption
<1>6. /\ volume \in Volumes /\ deep \in BOOLEAN /\ pc \in Phases \cup {"idle"}
      /\ at \in Nat /\ total \in Nat /\ runs \in 0 .. MaxRuns
      /\ cancel \in BOOLEAN /\ damaged \in BOOLEAN /\ whole \in BOOLEAN
  <2>1. volume \in Volumes /\ deep \in BOOLEAN /\ pc = "idle" /\ at = 0 /\ total = 0 /\ runs = 0
    BY DEF Init
  <2>2. cancel \in BOOLEAN /\ damaged \in BOOLEAN /\ whole \in BOOLEAN
    BY Zenon DEF Init
  <2>3. at \in Nat /\ total \in Nat /\ runs \in 0 .. MaxRuns
    BY <1>5, <2>1
  <2> QED
    BY <2>1, <2>2, <2>3
<1> QED
  BY <1>1, <1>2, <1>3, <1>4, <1>6 DEF Typed

LEMMA SameStack ==
  ASSUME StackOK, UNCHANGED <<volume, stack>>
  PROVE  StackOK'
  BY DEF StackOK, Frames

LEMMA NoStack ==
  ASSUME stack' = <<>>
  PROVE  StackOK'
<1>1. MaxDirDepth \in Nat
  BY LimitsAssumption
<1> QED
  BY <1>1 DEF StackOK

LEMMA SameClusters ==
  ASSUME ClustersOK, UNCHANGED <<volume, run, batch>>,
         \/ pc' = pc
         \/ pc' \notin {"fat", "indx"} /\ run = <<>>
         \/ pc \notin {"fat", "indx"}
  PROVE  ClustersOK'
<1>1. FatBatch \in Nat /\ NtfsBatch \in Nat \ {0}
  BY LimitsAssumption
<1>2. CASE pc' = pc
  BY <1>2 DEF ClustersOK
<1>3. CASE run = <<>>
  BY <1>1, <1>3 DEF ClustersOK
<1> QED
  BY <1>2, <1>3 DEF ClustersOK

LEMMA SameFile ==
  ASSUME FileOK(file), UNCHANGED file
  PROVE  FileOK(file')
  OBVIOUS

\* Everything that is not the stack, the clusters, the tree or the file.
RestOK ==
  /\ volume \in Volumes /\ deep \in BOOLEAN /\ pc \in Phases \cup {"idle"}
  /\ at \in Nat /\ total \in Nat /\ runs \in 0 .. MaxRuns
  /\ cancel \in BOOLEAN /\ damaged \in BOOLEAN /\ whole \in BOOLEAN

LEMMA TypedParts ==
  Typed <=> RestOK /\ tree \in ScanTrees /\ FileOK(file) /\ StackOK /\ ClustersOK
  BY DEF Typed, RestOK

LEMMA SamePhaseStack ==
  ASSUME StackOK, ClustersOK, UNCHANGED <<volume, stack, run, batch>>,
         \/ pc' = pc
         \/ pc' \notin {"fat", "indx"} /\ run = <<>>
         \/ pc \notin {"fat", "indx"}
  PROVE  StackOK' /\ ClustersOK'
  BY SameStack, SameClusters

LEMMA LoadsIn ==
  ASSUME NEW entries \in Seq(SessionEntries), NEW nodes \in Loads(entries, Junk)
  PROVE  nodes \in ScanTrees
<1>1. \A es \in Seq(SessionEntries) : Load(es) \in ScanTrees
  BY NoSourceIsData, LoadIn DEF ScanTrees, SessionEntries
<1>2. Junk \subseteq Seq(SessionEntries)
  BY JunkAssumption DEF SessionEntries, SavedEntries, Items
<1>3. ASSUME NEW k \in DOMAIN entries, NEW junk \in Junk PROVE Load(SubSeq(entries, 1, k) \o junk) \in ScanTrees
  <2>1. SubSeq(entries, 1, k) \in Seq(SessionEntries)
    <3>1. k \in Nat /\ \A i \in 1 .. k : entries[i] \in SessionEntries
      OBVIOUS
    <3> QED
      BY <3>1, SubSeqProperties
  <2>2. SubSeq(entries, 1, k) \o junk \in Seq(SessionEntries)
    BY <1>2, <2>1, ConcatProperties
  <2> QED
    BY <1>1, <2>2
<1> QED
  BY <1>1, <1>3 DEF Loads, First

LEMMA StartTyped ==
  ASSUME Typed, Start \/ Resume
  PROVE  Typed'
<1>1. RestOK /\ FileOK(file) /\ StackOK /\ ClustersOK
  BY TypedParts
<1>2. PICK nodes \in ScanTrees : Run(nodes) /\ pc = "idle" /\ runs < MaxRuns
  <2>1. CASE Start
    <3>1. <<>> \in ScanTrees /\ MaxRuns \in Nat \ {0}
      BY NoTree, LimitsAssumption DEF ScanTrees
    <3> QED
      BY <2>1, <3>1 DEF Start
  <2>2. CASE Resume
    <3>1. file.entries \in Seq(SessionEntries)
      BY <1>1 DEF FileOK
    <3>2. PICK nodes \in Loads(file.entries, Junk) : Run(nodes) /\ pc = "idle" /\ runs \in 1 .. MaxRuns - 1
      BY <2>2 DEF Resume
    <3>3. nodes \in ScanTrees
      BY <3>1, LoadsIn
    <3>4. MaxRuns \in Nat
      BY LimitsAssumption
    <3> QED
      BY <3>2, <3>3, <3>4
  <2> QED
    BY <2>1, <2>2
<1>3. StackOK' /\ ClustersOK'
  <2>1. UNCHANGED <<volume, stack, run, batch>> /\ pc \notin {"fat", "indx"}
    BY <1>2 DEF Run
  <2> QED
    BY <1>1, <2>1, SamePhaseStack
<1>4. FileOK(file') /\ tree' \in ScanTrees
  BY <1>1, <1>2 DEF Run
<1>5. RestOK'
  <2>1. runs' \in 0 .. MaxRuns
    <3>1. MaxRuns \in Nat
      BY LimitsAssumption
    <3> QED
      BY <1>1, <1>2, <3>1 DEF Run, RestOK
  <2>2. cancel' \in BOOLEAN /\ whole' \in BOOLEAN
    BY <1>2, Zenon DEF Run
  <2>3. pc' \in Phases \cup {"idle"} /\ total' \in Nat
    BY <1>2 DEF Run, Phases
  <2>4. UNCHANGED <<volume, deep, at, damaged>>
    BY <1>2 DEF Run
  <2> QED
    BY <1>1, <2>1, <2>2, <2>3, <2>4 DEF RestOK
<1> QED
  BY <1>3, <1>4, <1>5, TypedParts DEF Typed, RestOK

LEMMA PhaseOf == {DeepPhase, ListPhase, "end", "walk"} \subseteq Phases
<1>1. DeepPhase \in {"end", "fat", "indx", "carve"}
  <2>1. CASE volume.kind = "fat"
    BY <2>1 DEF DeepPhase
  <2>2. CASE volume.kind = "ntfs"
    BY <2>2 DEF DeepPhase
  <2>3. CASE volume.kind \notin {"fat", "ntfs"}
    BY <2>3 DEF DeepPhase
  <2> QED
    BY <2>1, <2>2, <2>3
<1>2. ListPhase \in {"mft", "inodes"} \cup {DeepPhase}
  <2>1. CASE volume.kind = "ntfs"
    BY <2>1 DEF ListPhase
  <2>2. CASE volume.kind = "ext"
    BY <2>2 DEF ListPhase
  <2>3. CASE volume.kind \notin {"ntfs", "ext"}
    BY <2>3 DEF ListPhase
  <2> QED
    BY <2>1, <2>2, <2>3
<1> QED
  BY <1>1, <1>2 DEF Phases

LEMMA InitFsTyped ==
  ASSUME Typed, InitFs
  PROVE  Typed'
<1>1. RestOK /\ tree \in ScanTrees /\ FileOK(file) /\ StackOK /\ ClustersOK
  BY TypedParts
<1>2. UNCHANGED <<volume, deep, run, batch, total, tree, file, cancel, runs, damaged, whole>> /\ pc = "init"
  BY DEF InitFs
<1>3. pc' \in {"end", "walk"} /\ at' = 0
  BY DEF InitFs, Goto
<1>4. StackOK'
  <2>1. CASE UNCHANGED stack
    BY <1>1, <1>2, <2>1, SameStack
  <2>2. CASE stack' = <<>>
    BY <2>2, NoStack
  <2>3. CASE volume.root \in DOMAIN volume.dirs /\ stack' = <<[inode |-> volume.root, path |-> <<>>, next |-> 1]>>
    <3> DEFINE frame == [inode |-> volume.root, path |-> <<>>, next |-> 1]
    <3>1. frame \in Frames /\ frame.inode = volume.root /\ frame.next = 1
      <4>1. <<>> \in Seq(FileNames) /\ 1 \in Nat
        OBVIOUS
      <4> QED
        BY <2>3, <4>1 DEF Frames
    <3>2. volume.root \in DOMAIN volume'.dirs /\ volume' = volume
      BY <1>2, <2>3
    <3>3. Len(volume.dirs[volume.root]) \in Nat
      <4>1. PICK v \in Volumes : v = volume
        BY <1>1 DEF RestOK
      <4>2. v.dirs[v.root] \in Seq([name : FileNames, inode : Nat, dir : BOOLEAN, deleted : BOOLEAN, size : Nat])
        BY <2>3, <4>1, VolumeHas
      <4> QED
        BY <4>1, <4>2
    <3> HIDE DEF frame
    <3>4. <<frame>> \in Seq(Frames) /\ Len(<<frame>>) = 1 /\ \A i \in DOMAIN <<frame>> : <<frame>>[i] = frame
      BY <3>1
    <3>5. MaxDirDepth \in Nat \ {0}
      BY LimitsAssumption
    <3>6. stack' = <<frame>>
      BY <2>3 DEF frame
    <3>7. Frames' = Frames
      BY <1>2 DEF Frames
    <3>8. stack' \in Seq(Frames') /\ Len(stack') <= MaxDirDepth
      BY <3>4, <3>5, <3>6, <3>7
    <3>9. \A i \in DOMAIN stack' : stack'[i].next \in 1 .. Len(volume'.dirs[stack'[i].inode]) + 1
      BY <3>1, <3>2, <3>3, <3>4, <3>6
    <3> QED
      BY <3>8, <3>9 DEF StackOK
  <2> QED
    BY <2>1, <2>2, <2>3 DEF InitFs
<1>5. ClustersOK'
  BY <1>1, <1>2, SameClusters
<1>6. FileOK(file') /\ tree' \in ScanTrees
  BY <1>1, <1>2
<1>7. RestOK'
  BY <1>1, <1>2, <1>3 DEF RestOK, Phases
<1> QED
  BY <1>4, <1>5, <1>6, <1>7, TypedParts DEF Typed, RestOK

DirEntries == [name : FileNames, inode : Nat, dir : BOOLEAN, deleted : BOOLEAN, size : Nat]

LEMMA TopFrame ==
  ASSUME StackOK, volume \in Volumes, stack # <<>>
  PROVE  /\ Len(stack) \in Nat \ {0} /\ Len(stack) \in DOMAIN stack /\ Top \in Frames
         /\ Listed(Top) \in Seq(DirEntries) /\ Top.next \in 1 .. Len(Listed(Top)) + 1
         /\ Top.path \in Seq(FileNames) /\ Top.inode \in DOMAIN volume.dirs
<1>1. stack \in Seq(Frames)
  BY DEF StackOK
<1>2. Len(stack) \in Nat \ {0}
  BY <1>1, EmptySeq
<1>3. Len(stack) \in DOMAIN stack /\ Top = stack[Len(stack)]
  BY <1>1, <1>2 DEF Top
<1>4. Top \in Frames
  BY <1>1, <1>3
<1>5. Top.path \in Seq(FileNames) /\ Top.inode \in DOMAIN volume.dirs
  BY <1>4 DEF Frames
<1>6. Listed(Top) \in Seq(DirEntries)
  BY <1>5, VolumeHas DEF Listed, DirEntries
<1>7. Top.next \in 1 .. Len(Listed(Top)) + 1
  BY <1>3 DEF StackOK, Listed
<1> QED
  BY <1>2, <1>3, <1>4, <1>5, <1>6, <1>7

\* The stack after an entry: one further, and the directory it names on top of it.
LEMMA StackSteps ==
  ASSUME StackOK, volume \in Volumes, stack # <<>>, Top.next <= Len(Listed(Top)), UNCHANGED volume,
         NEW path \in Seq(FileNames), NEW inode,
         stack' = [stack EXCEPT ![Len(stack)].next = @ + 1]
         \/ /\ inode \in DOMAIN volume.dirs /\ Len(stack) < MaxDirDepth
            /\ stack' = Append([stack EXCEPT ![Len(stack)].next = @ + 1],
                               [inode |-> inode, path |-> path, next |-> 1])
  PROVE  StackOK'
<1> DEFINE n == Len(stack)
           stepped == [stack EXCEPT ![n].next = @ + 1]
           frame == [inode |-> inode, path |-> path, next |-> 1]
<1>1. n \in Nat \ {0} /\ n \in DOMAIN stack /\ Top = stack[n] /\ Top \in Frames
      /\ Listed(Top) \in Seq(DirEntries) /\ Top.next \in 1 .. Len(Listed(Top)) + 1
  BY TopFrame DEF Top
<1>2. stack \in Seq(Frames) /\ DOMAIN stack = 1 .. n /\ n <= MaxDirDepth /\ MaxDirDepth \in Nat
      /\ \A i \in DOMAIN stack : stack[i].next \in 1 .. Len(volume.dirs[stack[i].inode]) + 1
  BY LimitsAssumption DEF StackOK
<1>3. Frames' = Frames
  BY DEF Frames
<1> DEFINE top == [stack[n] EXCEPT !.next = @ + 1]
<1>4. top \in Frames /\ top.next = stack[n].next + 1 /\ top.inode = stack[n].inode
      /\ top.next \in 1 .. Len(volume.dirs[top.inode]) + 1
  <2>1. stack[n] \in Frames /\ stack[n].next \in Nat
    BY <1>1
  <2>2. top \in Frames /\ top.next = stack[n].next + 1 /\ top.inode = stack[n].inode
    BY <2>1 DEF Frames
  <2>3. PICK len \in Nat : len = Len(volume.dirs[stack[n].inode])
    BY <1>1 DEF Listed
  <2>4. stack[n].next \in 1 .. len
    BY <1>1, <2>3 DEF Listed
  <2>5. stack[n].next + 1 \in 1 .. len + 1
    BY <2>4
  <2> HIDE DEF top
  <2> QED
    BY <2>2, <2>3, <2>5
<1>5. PICK up \in Frames : up = top
  BY <1>4
<1>6. PICK s \in Seq(Frames) :
        /\ s = stepped /\ DOMAIN s = 1 .. n /\ Len(s) = n
        /\ \A j \in 1 .. n : s[j] = IF j = n THEN up ELSE stack[j]
  <2>1. stepped = [stack EXCEPT ![n] = up]
    BY <1>5
  <2> DEFINE changed == [stack EXCEPT ![n] = up]
  <2>2. /\ changed \in Seq(Frames) /\ Len(changed) = n
        /\ \A j \in 1 .. n : changed[j] = IF j = n THEN up ELSE stack[j]
    BY <1>1, <1>2, ExceptSeq
  <2> HIDE DEF changed, n
  <2>3. DOMAIN changed = 1 .. n
    BY <2>2
  <2> QED
    BY <2>1, <2>2, <2>3 DEF changed
<1>7. up.next \in 1 .. Len(volume.dirs[up.inode]) + 1
  BY <1>4, <1>5
<1> HIDE DEF top, stepped
<1>8. \A i \in 1 .. n : s[i].next \in 1 .. Len(volume.dirs[s[i].inode]) + 1
  BY <1>2, <1>6, <1>7
<1>9. CASE stack' = stepped
  <2>1. stack' = s
    BY <1>6, <1>9
  <2>2. stack' \in Seq(Frames') /\ Len(stack') <= MaxDirDepth
    BY <1>2, <1>3, <1>6, <2>1
  <2>3. \A i \in DOMAIN stack' : stack'[i].next \in 1 .. Len(volume'.dirs[stack'[i].inode]) + 1
    BY <1>6, <1>8, <2>1
  <2> QED
    BY <2>2, <2>3 DEF StackOK
<1>10. CASE inode \in DOMAIN volume.dirs /\ n < MaxDirDepth /\ stack' = Append(stepped, frame)
  <2>1. PICK f \in Frames : f = frame /\ f.next = 1 /\ f.inode = inode
    <3>1. inode \in DOMAIN volume.dirs
      BY <1>10
    <3>2. frame \in Frames /\ frame.next = 1 /\ frame.inode = inode
      BY <3>1 DEF Frames
    <3> HIDE DEF frame
    <3> QED
      BY <3>2
  <2>2. f.next \in 1 .. Len(volume.dirs[f.inode]) + 1
    <3>1. volume.dirs[inode] \in Seq(DirEntries)
      BY <1>10, VolumeHas DEF DirEntries
    <3> DEFINE listed == volume.dirs[inode]
    <3>2. PICK len \in Nat : len = Len(listed)
      <4> HIDE DEF listed
      <4>1. listed \in Seq(DirEntries)
        BY <3>1 DEF listed
      <4> QED
        BY <4>1
    <3> QED
      BY <2>1, <3>2
  <2>3. stack' = Append(s, f)
    BY <1>6, <1>10, <2>1
  <2> HIDE DEF frame
  <2>4. PICK r \in Seq(Frames) :
          r = Append(s, f) /\ Len(r) = n + 1 /\ r[n + 1] = f /\ \A i \in 1 .. n : r[i] = s[i]
    <3>1. /\ Append(s, f) \in Seq(Frames) /\ Len(Append(s, f)) = Len(s) + 1
          /\ \A i \in 1 .. Len(s) : Append(s, f)[i] = s[i]
          /\ Append(s, f)[Len(s) + 1] = f
      BY AppendProperties
    <3>2. Len(s) = n
      BY <1>6
    <3> HIDE DEF n
    <3> QED
      BY <3>1, <3>2
  <2>5. n \in Nat /\ DOMAIN r = 1 .. n + 1
    BY <1>1, <2>4
  <2> HIDE DEF n
  <2>6. \A i \in DOMAIN r : r[i].next \in 1 .. Len(volume.dirs[r[i].inode]) + 1
    <3>1. \A i \in DOMAIN r : i \in 1 .. n \/ i = n + 1
      BY <2>5
    <3> QED
      BY <1>8, <2>2, <2>4, <3>1
  <2>7. stack' = r /\ Len(r) <= MaxDirDepth
    BY <1>2, <1>10, <2>3, <2>4, <2>5
  <2>8. stack' \in Seq(Frames') /\ Len(stack') <= MaxDirDepth
    BY <1>3, <2>7
  <2>9. \A i \in DOMAIN stack' : stack'[i].next \in 1 .. Len(volume'.dirs[stack'[i].inode]) + 1
    BY <2>6, <2>7
  <2> QED
    BY <2>8, <2>9 DEF StackOK
<1> QED
  BY <1>9, <1>10 DEF stepped

LEMMA Pushed ==
  ASSUME NEW S, NEW s \in Seq(S), NEW e \in S
  PROVE  Append(s, e) \in Seq(S)
  BY AppendProperties

LEMMA WalkEntryTyped ==
  ASSUME Typed, WalkEntry
  PROVE  Typed'
<1>1. RestOK /\ tree \in ScanTrees /\ FileOK(file) /\ StackOK /\ ClustersOK
  BY TypedParts
<1>2. UNCHANGED <<volume, deep, pc, at, run, batch, cancel, runs, whole>>
      /\ stack # <<>> /\ Top.next <= Len(Listed(Top)) /\ total' = total + 1
  BY DEF WalkEntry
<1>3. volume \in Volumes /\ damaged \in BOOLEAN /\ total \in Nat
  BY <1>1 DEF RestOK
<1>4. Listed(Top) \in Seq(DirEntries) /\ Top.next \in 1 .. Len(Listed(Top)) /\ Top.path \in Seq(FileNames)
  <2>1. Listed(Top) \in Seq(DirEntries) /\ Top.next \in 1 .. Len(Listed(Top)) + 1 /\ Top.path \in Seq(FileNames)
    BY <1>1, <1>2, <1>3, TopFrame
  <2>2. PICK len \in Nat : len = Len(Listed(Top))
    BY <2>1
  <2> QED
    BY <1>2, <2>1, <2>2
<1>5. PICK e \in DirEntries : e = Listed(Top)[Top.next]
  BY <1>4
<1>6. e.name \in FileNames /\ e.inode \in Nat /\ e.dir \in BOOLEAN /\ e.deleted \in BOOLEAN /\ e.size \in Nat
  BY DEF DirEntries
<1>7. PICK path \in Seq(FileNames) : path = Append(Top.path, e.name)
  <2>1. PICK above \in Seq(FileNames), name \in FileNames : above = Top.path /\ name = e.name
    BY <1>4, <1>6
  <2> QED
    BY <2>1, Pushed
<1>8. PICK item \in Items(Data) : item = Item(e.dir, e.deleted, e.size, <<"walk", e.inode>>)
  <2>1. <<"walk", e.inode>> \in Data
    BY <1>6 DEF Data
  <2> QED
    BY <1>6, <2>1, ItemIn
<1>9. PICK t \in ScanTrees : t = AddPath(tree, path, item)
  BY <1>1, NoSourceIsData, AddPathIn DEF ScanTrees
<1>10. tree' = t /\ ProgressAfter(total + 1, t)
  BY <1>5, <1>7, <1>8, <1>9 DEF WalkEntry
<1>11. FileOK(file') /\ damaged' \in BOOLEAN
  BY <1>1, <1>3, <1>10, ProgressAfterTyped
<1>12. StackOK'
  <2>1. stack' = [stack EXCEPT ![Len(stack)].next = @ + 1]
        \/ /\ e.inode \in DOMAIN volume.dirs /\ Len(stack) < MaxDirDepth
           /\ stack' = Append([stack EXCEPT ![Len(stack)].next = @ + 1],
                              [inode |-> e.inode, path |-> path, next |-> 1])
    BY <1>5, <1>7 DEF WalkEntry, NewSubdir
  <2> QED
    BY <1>1, <1>2, <1>3, <2>1, StackSteps
<1>13. ClustersOK'
  <2>1. UNCHANGED <<volume, run, batch>> /\ pc' = pc
    BY <1>2
  <2> QED
    BY <1>1, <2>1, SameClusters
<1>14. RestOK'
  BY <1>1, <1>2, <1>3, <1>11 DEF RestOK
<1> QED
  BY <1>10, <1>11, <1>12, <1>13, <1>14 DEF Typed, RestOK

LEMMA LeaveDirTyped ==
  ASSUME Typed, LeaveDir
  PROVE  Typed'
<1>1. RestOK /\ tree \in ScanTrees /\ FileOK(file) /\ StackOK /\ ClustersOK
  BY TypedParts
<1>2. UNCHANGED <<volume, deep, pc, at, run, batch, total, tree, file, cancel, runs, damaged, whole>>
      /\ stack # <<>> /\ stack' = Front(stack)
  BY DEF LeaveDir
<1>3. StackOK'
  <2>1. stack \in Seq(Frames) /\ MaxDirDepth \in Nat /\ Len(stack) <= MaxDirDepth
    BY LimitsAssumption DEF StackOK, Typed
  <2>2. /\ stack' \in Seq(Frames) /\ Len(stack') = Len(stack) - 1 /\ Len(stack) \in Nat \ {0}
        /\ \A i \in 1 .. Len(stack) - 1 : stack'[i] = stack[i]
    BY <1>2, <2>1, FrontAndLast
  <2>3. DOMAIN stack' = 1 .. Len(stack) - 1 /\ \A i \in DOMAIN stack' : stack'[i] = stack[i] /\ i \in DOMAIN stack
    BY <2>1, <2>2
  <2>4. Frames' = Frames /\ Len(stack') <= MaxDirDepth
    BY <1>2, <2>1, <2>2 DEF Frames
  <2> QED
    BY <1>1, <1>2, <2>2, <2>3, <2>4 DEF StackOK
<1>4. ClustersOK'
  <2>1. UNCHANGED <<volume, run, batch>> /\ pc' = pc
    BY <1>2
  <2> QED
    BY <1>1, <2>1, SameClusters
<1>5. FileOK(file') /\ tree' \in ScanTrees /\ RestOK'
  BY <1>1, <1>2 DEF RestOK
<1> QED
  BY <1>3, <1>4, <1>5 DEF Typed, RestOK

LEMMA WalkDoneTyped ==
  ASSUME Typed, WalkDone
  PROVE  Typed'
<1>1. RestOK /\ tree \in ScanTrees /\ FileOK(file) /\ StackOK /\ ClustersOK
  BY TypedParts
<1>2. UNCHANGED <<volume, deep, stack, run, batch, total, tree, file, cancel, runs, damaged>> /\ pc = "walk"
      /\ whole' = ~cancel
  BY DEF WalkDone
<1>3. pc' \in Phases /\ at' = 0
  BY PhaseOf DEF WalkDone, Goto
<1>4. StackOK' /\ ClustersOK'
  <2>1. UNCHANGED <<volume, stack, run, batch>> /\ pc \notin {"fat", "indx"}
    BY <1>2
  <2> QED
    BY <1>1, <2>1, SameStack, SameClusters
<1>5. RestOK'
  <2>1. whole' \in BOOLEAN
    BY <1>2
  <2> QED
    BY <1>1, <1>2, <1>3, <2>1 DEF RestOK
<1> QED
  BY <1>1, <1>2, <1>4, <1>5 DEF Typed, RestOK

LEMMA MftRecordTyped ==
  ASSUME Typed, MftRecord
  PROVE  Typed'
<1>1. RestOK /\ tree \in ScanTrees /\ FileOK(file) /\ StackOK /\ ClustersOK
  BY TypedParts
<1>2. UNCHANGED <<volume, deep, stack, run, batch, cancel, runs, whole>> /\ pc = "mft"
  BY DEF MftRecord
<1>3. volume \in Volumes /\ at \in Nat /\ total \in Nat /\ damaged \in BOOLEAN
  BY <1>1 DEF RestOK
<1>4. StackOK' /\ ClustersOK'
  <2>1. UNCHANGED <<volume, stack, run, batch>> /\ pc \notin {"fat", "indx"}
    BY <1>2
  <2> QED
    BY <1>1, <2>1, SameStack, SameClusters
<1>5. CASE at < Len(volume.mft) /\ Recoverable(at + 1)
  <2>1. at + 1 \in DOMAIN volume.mft
    <3>1. volume.mft \in Seq(StreamSet)
      BY <1>3, VolumeHas
    <3> QED
      BY <1>3, <1>5, <3>1
  <2>2. PICK t \in ScanTrees : t = AddRecord(tree, at + 1)
    BY <1>1, <1>3, <2>1, AddRecordIn
  <2>3. tree' = t /\ ProgressAfter(total + 1, t) /\ at' = at + 1 /\ total' = total + 1 /\ UNCHANGED pc
    BY <1>5, <2>2 DEF MftRecord
  <2>4. FileOK(file') /\ damaged' \in BOOLEAN
    BY <1>1, <1>3, <2>3, ProgressAfterTyped
  <2>5. RestOK'
    BY <1>1, <1>2, <1>3, <2>3, <2>4 DEF RestOK
  <2> QED
    BY <1>4, <2>3, <2>4, <2>5 DEF Typed, RestOK
<1>6. CASE at < Len(volume.mft) /\ ~Recoverable(at + 1)
  <2>1. at' = at + 1 /\ UNCHANGED <<pc, tree, total, file, damaged>>
    BY <1>3, <1>6 DEF MftRecord
  <2>2. RestOK'
    BY <1>1, <1>2, <1>3, <2>1 DEF RestOK
  <2> QED
    BY <1>1, <1>4, <2>1, <2>2 DEF Typed, RestOK
<1>7. CASE at = Len(volume.mft)
  <2>1. pc' = DeepPhase /\ at' = 0 /\ UNCHANGED <<tree, total, file, damaged>>
    BY <1>3, <1>7 DEF MftRecord, Goto
  <2>2. RestOK'
    BY <1>1, <1>2, <2>1, PhaseOf DEF RestOK
  <2> QED
    BY <1>1, <1>4, <2>1, <2>2 DEF Typed, RestOK
<1> QED
  BY <1>5, <1>6, <1>7 DEF MftRecord

LEMMA ExtInodeTyped ==
  ASSUME Typed, ExtInode
  PROVE  Typed'
<1>1. RestOK /\ tree \in ScanTrees /\ FileOK(file) /\ StackOK /\ ClustersOK
  BY TypedParts
<1>2. UNCHANGED <<volume, deep, stack, run, batch, cancel, runs>> /\ pc = "inodes"
  BY DEF ExtInode
<1>3. volume \in Volumes /\ at \in Nat /\ total \in Nat /\ damaged \in BOOLEAN /\ whole \in BOOLEAN
  BY <1>1 DEF RestOK
<1>4. StackOK' /\ ClustersOK'
  <2>1. UNCHANGED <<volume, stack, run, batch>> /\ pc \notin {"fat", "indx"}
    BY <1>2
  <2> QED
    BY <1>1, <2>1, SameStack, SameClusters
<1>5. CASE at < LastInode /\ ~cancel
  <2>1. at + 1 \in DOMAIN volume.inodes
    <3>1. volume.inodes \in Seq(InodeSet)
      BY <1>3, VolumeHas
    <3> QED
      BY <1>3, <1>5, <3>1 DEF LastInode
  <2>2. AddInode(tree, at + 1) \in ScanTrees
    BY <1>1, <1>3, <2>1, AddInodeIn
  <2>3. /\ tree' \in {tree, AddInode(tree, at + 1)} /\ Progress(tree) /\ at' = at + 1
        /\ total' \in {total, total + 1} /\ UNCHANGED <<pc, whole>>
    BY <1>5 DEF ExtInode
  <2>4. FileOK(file') /\ damaged' \in BOOLEAN
    BY <1>1, <1>3, <2>3, ProgressTyped
  <2>5. RestOK'
    BY <1>1, <1>2, <1>3, <2>3, <2>4 DEF RestOK
  <2> QED
    BY <1>4, <2>2, <2>3, <2>4, <2>5 DEF Typed, RestOK
<1>6. CASE ~(at < LastInode /\ ~cancel)
  <2>1. pc' = DeepPhase /\ at' = 0 /\ UNCHANGED <<tree, total, file, damaged>>
        /\ whole' = (whole /\ at >= LastInode)
    BY <1>6 DEF ExtInode, Goto
  <2>2. whole' \in BOOLEAN
    BY <2>1
  <2>3. RestOK'
    BY <1>1, <1>2, <2>1, <2>2, PhaseOf DEF RestOK
  <2> QED
    BY <1>1, <1>4, <2>1, <2>3 DEF Typed, RestOK
<1> QED
  BY <1>5, <1>6

LEMMA LookAtTyped ==
  ASSUME Typed, LookAt
  PROVE  Typed'
<1>1. RestOK /\ tree \in ScanTrees /\ FileOK(file) /\ StackOK /\ ClustersOK
  BY TypedParts
<1>2. UNCHANGED <<volume, deep, pc, stack, at, run, total, file, cancel, runs, damaged, whole>>
      /\ batch # <<>> /\ tree' = AddCluster(tree, Head(batch)) /\ batch' = Tail(batch)
  BY DEF LookAt
<1>3. volume \in Volumes
  BY <1>1 DEF RestOK
<1>4. PICK w \in Seq(DOMAIN volume.clusters) : w = batch
  BY <1>1 DEF ClustersOK
<1>5. Head(w) \in DOMAIN volume.clusters /\ Tail(w) \in Seq(DOMAIN volume.clusters)
  BY <1>2, <1>4, HeadTailProperties
<1>6. tree' \in ScanTrees
  BY <1>1, <1>2, <1>3, <1>4, <1>5, AddClusterIn
<1>7. ClustersOK'
  <2>1. batch' \in Seq(DOMAIN volume'.clusters)
    BY <1>2, <1>4, <1>5
  <2> QED
    BY <1>1, <1>2, <2>1 DEF ClustersOK
<1>8. StackOK'
  BY <1>1, <1>2, SameStack
<1>9. RestOK'
  BY <1>1, <1>2 DEF RestOK
<1> QED
  BY <1>1, <1>2, <1>6, <1>7, <1>8, <1>9 DEF Typed, RestOK

\* The next cluster, and a run with it.
LEMMA NextCluster ==
  ASSUME volume \in Volumes, at \in Nat, at < Len(volume.clusters), run \in Seq(DOMAIN volume.clusters)
  PROVE  /\ Append(run, at + 1) \in Seq(DOMAIN volume.clusters)
         /\ Len(Append(run, at + 1)) = Len(run) + 1 /\ Len(run) \in Nat
<1>1. at + 1 \in DOMAIN volume.clusters
  <2>1. volume.clusters \in Seq(ClusterSet)
    BY VolumeHas
  <2> QED
    BY <2>1
<1> DEFINE S == DOMAIN volume.clusters
<1>2. PICK c \in S : c = at + 1
  BY <1>1
<1> HIDE DEF S
<1>3. run \in Seq(S)
  BY DEF S
<1>4. Append(run, c) \in Seq(S) /\ Len(Append(run, c)) = Len(run) + 1 /\ Len(run) \in Nat
  BY <1>3, AppendProperties
<1> QED
  BY <1>2, <1>4 DEF S

LEMMA NoClusters == ASSUME NEW S PROVE <<>> \in Seq(S) /\ Len(<<>>) = 0
  OBVIOUS

LEMMA FatClusterTyped ==
  ASSUME Typed, FatCluster
  PROVE  Typed'
<1>1. RestOK /\ tree \in ScanTrees /\ FileOK(file) /\ StackOK /\ ClustersOK
  BY TypedParts
<1>2. UNCHANGED <<volume, deep, pc, stack, total, tree, file, cancel, runs, damaged, whole>>
      /\ pc = "fat" /\ at < Len(volume.clusters) /\ at' = at + 1
  BY DEF FatCluster
<1>3. volume \in Volumes /\ at \in Nat /\ FatBatch \in Nat
  BY <1>1, LimitsAssumption DEF RestOK
<1>4. run \in Seq(DOMAIN volume.clusters) /\ batch \in Seq(DOMAIN volume.clusters) /\ Len(run) <= FatBatch
  BY <1>1, <1>2 DEF ClustersOK
<1>5. ClustersOK'
  <2>1. /\ Append(run, at + 1) \in Seq(DOMAIN volume.clusters)
        /\ Len(Append(run, at + 1)) = Len(run) + 1 /\ Len(run) \in Nat
    BY <1>2, <1>3, <1>4, NextCluster
  <2>2. run' \in Seq(DOMAIN volume.clusters) /\ Len(run') <= FatBatch /\ batch' \in Seq(DOMAIN volume.clusters)
    <3>1. CASE batch' = run /\ run' = <<>>
      BY <1>3, <1>4, <3>1, NoClusters
    <3>2. CASE run' = run /\ UNCHANGED batch
      BY <1>4, <3>2
    <3>3. CASE Len(run) < FatBatch /\ run' = Append(run, at + 1) /\ UNCHANGED batch
      BY <1>3, <1>4, <2>1, <3>3
    <3> QED
      BY <3>1, <3>2, <3>3 DEF FatCluster
  <2> QED
    BY <1>2, <2>2 DEF ClustersOK
<1>6. StackOK'
  BY <1>1, <1>2, SameStack
<1>7. RestOK'
  BY <1>1, <1>2, <1>3 DEF RestOK
<1> QED
  BY <1>1, <1>2, <1>5, <1>6, <1>7 DEF Typed, RestOK

LEMMA ReadRunTyped ==
  ASSUME NEW S, NEW cs \in Seq(S), ReadRun(cs)
  PROVE  batch' \in Seq(S)
<1>1. CASE batch' = cs
  BY <1>1
<1>2. CASE batch' = <<>>
  BY <1>2, NoClusters
<1> QED
  BY <1>1, <1>2 DEF ReadRun

LEMMA IndxClusterTyped ==
  ASSUME Typed, IndxCluster
  PROVE  Typed'
<1>1. RestOK /\ tree \in ScanTrees /\ FileOK(file) /\ StackOK /\ ClustersOK
  BY TypedParts
<1>2. UNCHANGED <<volume, deep, pc, stack, total, tree, file, cancel, runs, damaged>>
      /\ pc = "indx" /\ at < Len(volume.clusters)
  BY DEF IndxCluster
<1>3. volume \in Volumes /\ at \in Nat /\ NtfsBatch \in Nat \ {0} /\ whole \in BOOLEAN
      /\ Len(volume.clusters) \in Nat
  <2>1. volume \in Volumes /\ at \in Nat /\ NtfsBatch \in Nat \ {0} /\ whole \in BOOLEAN
    BY <1>1, LimitsAssumption DEF RestOK
  <2>2. volume.clusters \in Seq(ClusterSet)
    BY <2>1, VolumeHas
  <2> QED
    BY <2>1, <2>2
<1>4. run \in Seq(DOMAIN volume.clusters) /\ batch \in Seq(DOMAIN volume.clusters) /\ Len(run) <= NtfsBatch - 1
  BY <1>1, <1>2 DEF ClustersOK
<1>5. CASE at' = Len(volume.clusters) /\ whole' = FALSE /\ UNCHANGED <<run, batch>>
  <2>1. ClustersOK' /\ StackOK'
    <3>1. UNCHANGED <<volume, stack, run, batch>> /\ pc' = pc
      BY <1>2, <1>5
    <3> QED
      BY <1>1, <3>1, SameStack, SameClusters
  <2>2. whole' \in BOOLEAN
    BY <1>5
  <2>3. RestOK'
    BY <1>1, <1>2, <1>3, <1>5, <2>2 DEF RestOK
  <2> QED
    BY <1>1, <1>2, <2>1, <2>3 DEF Typed, RestOK
<1>6. CASE /\ at' = at + 1 /\ UNCHANGED whole
           /\ LET free == volume.clusters[at + 1].free
                  now == IF free THEN Append(run, at + 1) ELSE run
              IN IF free /\ Len(now) < NtfsBatch
                 THEN run' = now /\ UNCHANGED batch
                 ELSE run' = <<>> /\ ReadRun(now)
  <2> DEFINE now == IF volume.clusters[at + 1].free THEN Append(run, at + 1) ELSE run
  <2>1. now \in Seq(DOMAIN volume.clusters) /\ Len(now) \in Nat
    <3>1. Append(run, at + 1) \in Seq(DOMAIN volume.clusters) /\ Len(Append(run, at + 1)) = Len(run) + 1
          /\ Len(run) \in Nat
      BY <1>2, <1>3, <1>4, NextCluster
    <3> QED
      BY <1>4, <3>1
  <2>2. \/ Len(now) < NtfsBatch /\ run' = now /\ UNCHANGED batch
        \/ run' = <<>> /\ ReadRun(now)
    BY <1>6
  <2> HIDE DEF now
  <2>3. ClustersOK'
    <3>1. run' \in Seq(DOMAIN volume.clusters) /\ Len(run') <= NtfsBatch - 1
          /\ batch' \in Seq(DOMAIN volume.clusters)
      <4>1. CASE Len(now) < NtfsBatch /\ run' = now /\ UNCHANGED batch
        BY <1>3, <1>4, <2>1, <4>1
      <4>2. CASE run' = <<>> /\ ReadRun(now)
        <5>1. batch' \in Seq(DOMAIN volume.clusters)
          BY <2>1, <4>2, ReadRunTyped
        <5> QED
          BY <1>3, <4>2, <5>1, NoClusters
      <4> QED
        BY <2>2, <4>1, <4>2
    <3> QED
      BY <1>2, <3>1 DEF ClustersOK
  <2>4. StackOK'
    BY <1>1, <1>2, SameStack
  <2>5. RestOK'
    BY <1>1, <1>2, <1>3, <1>6 DEF RestOK
  <2> QED
    BY <1>1, <1>2, <2>3, <2>4, <2>5 DEF Typed, RestOK
<1> QED
  BY <1>5, <1>6 DEF IndxCluster

LEMMA ClustersDoneTyped ==
  ASSUME Typed, ClustersDone
  PROVE  Typed'
<1>1. RestOK /\ tree \in ScanTrees /\ FileOK(file) /\ StackOK /\ ClustersOK
  BY TypedParts
<1>2. UNCHANGED <<volume, deep, stack, total, tree, file, cancel, runs, damaged, whole>>
      /\ pc \in {"fat", "indx"}
  BY DEF ClustersDone
<1>3. FatBatch \in Nat /\ NtfsBatch \in Nat \ {0}
  BY LimitsAssumption
<1>4. run \in Seq(DOMAIN volume.clusters)
  BY <1>1 DEF ClustersOK
<1>5. CASE run' = <<>> /\ ReadRun(run) /\ UNCHANGED <<pc, at>>
  <2>1. ClustersOK'
    <3>1. batch' \in Seq(DOMAIN volume.clusters)
      BY <1>4, <1>5, ReadRunTyped
    <3> QED
      BY <1>2, <1>3, <1>5, <3>1, NoClusters DEF ClustersOK
  <2>2. StackOK'
    BY <1>1, <1>2, SameStack
  <2>3. RestOK'
    BY <1>1, <1>2, <1>5 DEF RestOK
  <2> QED
    BY <1>1, <1>2, <2>1, <2>2, <2>3 DEF Typed, RestOK
<1>6. CASE run = <<>> /\ pc' = "end" /\ at' = 0 /\ UNCHANGED <<run, batch>>
  <2>1. ClustersOK' /\ StackOK'
    <3>1. UNCHANGED <<volume, stack, run, batch>> /\ pc' \notin {"fat", "indx"} /\ run = <<>>
      BY <1>2, <1>6
    <3> QED
      BY <1>1, <3>1, SameStack, SameClusters
  <2>2. RestOK'
    BY <1>1, <1>2, <1>6, PhaseOf DEF RestOK
  <2> QED
    BY <1>1, <1>2, <2>1, <2>2 DEF Typed, RestOK
<1> QED
  BY <1>5, <1>6 DEF ClustersDone, Goto

LEMMA CarveFileTyped ==
  ASSUME Typed, CarveFile
  PROVE  Typed'
<1>1. RestOK /\ tree \in ScanTrees /\ FileOK(file) /\ StackOK /\ ClustersOK
  BY TypedParts
<1>2. UNCHANGED <<volume, deep, stack, run, batch, total, cancel, runs, whole>> /\ pc = "carve"
  BY DEF CarveFile
<1>3. volume \in Volumes /\ at \in Nat /\ damaged \in BOOLEAN
  BY <1>1 DEF RestOK
<1>4. StackOK' /\ ClustersOK'
  <2>1. UNCHANGED <<volume, stack, run, batch>> /\ pc \notin {"fat", "indx"}
    BY <1>2
  <2> QED
    BY <1>1, <2>1, SameStack, SameClusters
<1>5. CASE at < Len(volume.carved)
  <2>1. volume.carved[at + 1] \in Seq(FileNames)
    <3>1. volume.carved \in Seq(Seq(FileNames))
      BY <1>3, VolumeHas
    <3>2. at + 1 \in DOMAIN volume.carved
      BY <1>3, <1>5, <3>1
    <3> QED
      BY <3>1, <3>2, Elements
  <2>2. PICK path \in Seq(FileNames) : path = <<Orphans>> \o volume.carved[at + 1]
    BY <2>1, PathsIn, SpecialNames
  <2>3. PICK item \in Items(Data) : item = Item(FALSE, TRUE, 1, <<"carve", at + 1>>)
    <3>1. <<"carve", at + 1>> \in Data
      BY <1>3 DEF Data
    <3> QED
      BY <3>1, ItemIn
  <2>4. PICK t \in ScanTrees : t = AddPath(tree, path, item)
    BY <1>1, NoSourceIsData, AddPathIn DEF ScanTrees
  <2>5. tree' = t /\ Progress(t) /\ at' = at + 1 /\ UNCHANGED pc
    BY <1>5, <2>2, <2>3, <2>4 DEF CarveFile
  <2>6. FileOK(file') /\ damaged' \in BOOLEAN
    BY <1>1, <1>3, <2>5, ProgressTyped
  <2>7. RestOK'
    BY <1>1, <1>2, <1>3, <2>5, <2>6 DEF RestOK
  <2> QED
    BY <1>4, <2>5, <2>6, <2>7 DEF Typed, RestOK
<1>6. CASE ~(at < Len(volume.carved))
  <2>1. pc' = "end" /\ at' = 0 /\ UNCHANGED <<tree, file, damaged>>
    BY <1>6 DEF CarveFile, Goto
  <2>2. RestOK'
    BY <1>1, <1>2, <2>1, PhaseOf DEF RestOK
  <2> QED
    BY <1>1, <1>4, <2>1, <2>2 DEF Typed, RestOK
<1> QED
  BY <1>5, <1>6

LEMMA OtherStepsTyped ==
  ASSUME Typed, EndSession \/ PressCancel \/ Kill \/ UNCHANGED vars
  PROVE  Typed'
<1>1. RestOK /\ tree \in ScanTrees /\ FileOK(file) /\ StackOK /\ ClustersOK
  BY TypedParts
<1>2. CASE EndSession
  <2>1. UNCHANGED <<volume, deep, stack, at, run, batch, total, tree, cancel, runs, whole>>
        /\ pc = "end" /\ pc' = "idle"
    BY <1>2 DEF EndSession
  <2>2. FileOK(file') /\ damaged' \in BOOLEAN
    <3>1. TRUE \in BOOLEAN /\ damaged \in BOOLEAN
      BY <1>1 DEF RestOK
    <3>2. CASE Save(tree, TRUE)
      BY <1>1, <3>1, <3>2, SaveTyped
    <3>3. CASE UNCHANGED <<file, damaged>>
      BY <1>1, <3>1, <3>3 DEF FileOK
    <3> QED
      BY <1>2, <3>2, <3>3 DEF EndSession
  <2>3. StackOK' /\ ClustersOK'
    <3>1. UNCHANGED <<volume, stack, run, batch>> /\ pc \notin {"fat", "indx"}
      BY <2>1
    <3> QED
      BY <1>1, <3>1, SameStack, SameClusters
  <2>4. RestOK'
    BY <1>1, <2>1, <2>2 DEF RestOK
  <2> QED
    BY <1>1, <2>1, <2>2, <2>3, <2>4 DEF Typed, RestOK
<1>3. CASE PressCancel \/ UNCHANGED vars
  <2>1. UNCHANGED <<volume, deep, pc, stack, at, run, batch, total, tree, file, runs, damaged, whole>>
    BY <1>3 DEF PressCancel, vars
  <2>2. cancel' \in BOOLEAN
    BY <1>1, <1>3, Zenon DEF PressCancel, vars, RestOK
  <2>3. StackOK' /\ ClustersOK'
    <3>1. UNCHANGED <<volume, stack, run, batch>> /\ pc' = pc
      BY <2>1
    <3> QED
      BY <1>1, <3>1, SameStack, SameClusters
  <2>4. RestOK'
    BY <1>1, <2>1, <2>2 DEF RestOK
  <2> QED
    BY <1>1, <2>1, <2>3, <2>4 DEF Typed, RestOK
<1>4. CASE Kill
  <2>1. UNCHANGED <<volume, deep, file, runs, damaged>> /\ pc' = "idle" /\ stack' = <<>> /\ at' = 0
        /\ run' = <<>> /\ batch' = <<>> /\ total' = 0 /\ tree' = <<>>
    BY <1>4 DEF Kill
  <2>2. cancel' \in BOOLEAN /\ whole' \in BOOLEAN
    BY <1>4, Zenon DEF Kill
  <2>3. StackOK'
    BY <2>1, NoStack
  <2>4. ClustersOK'
    <3>1. FatBatch \in Nat /\ NtfsBatch \in Nat \ {0}
      BY LimitsAssumption
    <3> QED
      BY <2>1, <3>1, NoClusters DEF ClustersOK
  <2>5. tree' \in ScanTrees
    BY <2>1, NoTree DEF ScanTrees
  <2>6. RestOK'
    BY <1>1, <2>1, <2>2 DEF RestOK
  <2> QED
    BY <1>1, <2>1, <2>3, <2>4, <2>5, <2>6 DEF Typed, RestOK
<1> QED
  BY <1>2, <1>3, <1>4

------------------------------------------------------------------------------

LEMMA AlwaysTyped == Spec => []Typed
<1>1. Init => Typed
  BY TypedInit
<1>2. Typed /\ [Next]_vars => Typed'
  <2> SUFFICES ASSUME Typed, [Next]_vars PROVE Typed'
    OBVIOUS
  <2>1. CASE Start \/ Resume
    BY <2>1, StartTyped
  <2>2. CASE InitFs
    BY <2>2, InitFsTyped
  <2>3. CASE WalkEntry
    BY <2>3, WalkEntryTyped
  <2>4. CASE LeaveDir
    BY <2>4, LeaveDirTyped
  <2>5. CASE WalkDone
    BY <2>5, WalkDoneTyped
  <2>6. CASE MftRecord
    BY <2>6, MftRecordTyped
  <2>7. CASE ExtInode
    BY <2>7, ExtInodeTyped
  <2>8. CASE LookAt
    BY <2>8, LookAtTyped
  <2>9. CASE FatCluster
    BY <2>9, FatClusterTyped
  <2>10. CASE IndxCluster
    BY <2>10, IndxClusterTyped
  <2>11. CASE ClustersDone
    BY <2>11, ClustersDoneTyped
  <2>12. CASE CarveFile
    BY <2>12, CarveFileTyped
  <2>13. CASE EndSession \/ PressCancel \/ Kill \/ UNCHANGED vars
    BY <2>13, OtherStepsTyped
  <2> QED
    BY <2>1, <2>2, <2>3, <2>4, <2>5, <2>6, <2>7, <2>8, <2>9, <2>10, <2>11, <2>12, <2>13 DEF Next, Work
<1> QED
  BY <1>1, <1>2, PTL DEF Spec

\* Whatever the disk holds, and however often the scan is killed, its session cut short and
\* resumed: directories are gone into MaxDirDepth deep at most, what waits to be looked at
\* fits its buffer, every node of the tree is below an older one, and the number of runs is
\* what it was bound to be (scanner_run, its phases, session_save and session_load).
THEOREM DeepTypeCorrect == Spec => []TypeOK
<1>1. Typed => TypeOK
  BY TypedGivesTypeOK
<1> QED
  BY <1>1, AlwaysTyped, PTL

------------------------------------------------------------------------------
(* Whose clusters a node has. *)

\* What the theorems ask of a file system: no listed directory has the name of the one that
\* the deleted streams go to; paths are not cut in the session; and where a stream makes a
\* file, by its name or by the one its contents give it, no other has a directory.
Ordinary ==
  /\ \A inode \in DOMAIN volume.dirs : \A e \in Range(volume.dirs[inode]) : e.name # Orphans
  /\ \A k \in Streams : Len(volume.mft[k].path) \in 1 .. MaxChain - 1
  /\ \A k, m \in Streams : \A n \in 1 .. Len(volume.mft[m].path) - 1 :
       SubSeq(volume.mft[m].path, 1, n) \notin Names(volume.mft[k])

\* The paths a stream's node may have, and the streams a node of a path may owe its data and
\* its clusters to.
Aliases(k) == {<<Orphans>> \o q : q \in Names(volume.mft[k])}
Sires(P) == {j \in Streams : \E m \in Streams : P \in Aliases(m) /\ Kin(j, m)}
Heirs(P) == {k \in Streams : \E m \in Streams : P \in Aliases(m) /\ Kin(m, k)}

Opaque(P) == \E k \in Streams : P \in Aliases(k)

Folder(P) ==
  \E m \in Streams : \E n \in 1 .. Len(volume.mft[m].path) : P = SubSeq(RecordPath(m), 1, n)

\* Clusters of a record, and the node has the name that they give it.
Filled(P, clusters) ==
  \E k \in Heirs(P) :
    /\ clusters = <<"data", volume.mft[k].inode>>
    /\ Renamed(P[Len(P)], volume.records[volume.mft[k].inode].hint) = P[Len(P)]

\* What is so of a node, or of an entry of the session, with its path.  Among the orphans of
\* an NTFS volume a node nobody listed is a directory on the way to a stream, and is empty;
\* any other is a file that has its data from a stream that namesakes lead from to one of its
\* path, and clusters of one that they lead to.  Elsewhere there are no clusters.
Own(P, dir, size, src, clusters) ==
  IF volume.kind = "ntfs" /\ P[1] = Orphans
  THEN /\ src = NoSource => Folder(P) /\ size = 0 /\ clusters = NoSource
       /\ src # NoSource => ~dir /\ \E j \in Sires(P) : src = <<"mft", j>>
       /\ clusters \in {NoSource, <<"boot">>} \/ Filled(P, clusters)
       /\ ~dir => Opaque(P)
  ELSE /\ clusters = NoSource
       /\ volume.kind = "ntfs" => \A i \in 1 .. Len(P) : P[i] = Orphans => Len(P) <= 2

OwnNode(P, n) == Own(P, n.dir, n.size, n.src, n.clusters)
OwnTree(t) == \A i \in DOMAIN t : OwnNode(FullPath(t, i), t[i])
OwnEntry(e) ==
  /\ e.path # <<>>
  /\ Own(e.path, e.item.dir, e.item.size, e.item.src, e.clusters)

LEMMA KinSelf ==
  ASSUME NEW j \in Streams
  PROVE  Kin(j, j)
  BY DEF Kin

LEMMA KinThen ==
  ASSUME NEW j, NEW m \in Streams, NEW n \in Streams, Kin(j, m), Namesakes(m, n)
  PROVE  Kin(j, n)
  BY DEF Kin

LEMMA KinBefore ==
  ASSUME NEW m \in Streams, NEW n \in Streams, NEW k, Namesakes(m, n), Kin(n, k)
  PROVE  Kin(m, k)
  BY DEF Kin

\* A stream that is listed, and its record.
LEMMA StreamsHave ==
  ASSUME volume \in Volumes, NEW k \in Streams
  PROVE  /\ k \in DOMAIN volume.mft /\ k \in Nat
         /\ volume.mft[k].path \in Seq(FileNames) /\ volume.mft[k].size \in Nat
         /\ volume.mft[k].inode \in Nat /\ volume.mft[k].inode \in DOMAIN volume.records
         /\ volume.records[volume.mft[k].inode].dir = FALSE
         /\ volume.records[volume.mft[k].inode].hint \in Words
<1>1. k \in DOMAIN volume.mft /\ ~volume.records[volume.mft[k].inode].dir
  BY DEF Streams, Recoverable
<1> QED
  BY <1>1, StreamHas

LEMMA OrdinaryPath ==
  ASSUME volume \in Volumes, Ordinary, NEW k \in Streams
  PROVE  /\ volume.mft[k].path \in Seq(FileNames) /\ volume.mft[k].path # <<>>
         /\ Len(volume.mft[k].path) \in 1 .. MaxChain - 1 /\ Len(volume.mft[k].path) \in Nat
<1>1. volume.mft[k].path \in Seq(FileNames)
  BY StreamsHave
<1>2. Len(volume.mft[k].path) \in 1 .. MaxChain - 1
  BY DEF Ordinary
<1> QED
  BY <1>1, <1>2

LEMMA HeadOn ==
  ASSUME NEW S, NEW a \in S, NEW p \in Seq(S)
  PROVE  /\ <<a>> \o p \in Seq(S) /\ Len(<<a>> \o p) = Len(p) + 1 /\ (<<a>> \o p)[1] = a
         /\ \A i \in 1 .. Len(p) : (<<a>> \o p)[i + 1] = p[i]
  OBVIOUS

LEMMA HeadCut ==
  ASSUME NEW S, NEW a, NEW p \in Seq(S), NEW q \in Seq(S), <<a>> \o p = <<a>> \o q
  PROVE  p = q
<1>1. Len(<<a>> \o p) = Len(p) + 1 /\ Len(<<a>> \o q) = Len(q) + 1
  OBVIOUS
<1>2. \A i \in 1 .. Len(p) : (<<a>> \o p)[i + 1] = p[i]
  OBVIOUS
<1>3. \A i \in 1 .. Len(q) : (<<a>> \o q)[i + 1] = q[i]
  OBVIOUS
<1>4. Len(p) = Len(q) /\ \A i \in 1 .. Len(p) : p[i] = q[i]
  BY <1>1, <1>2, <1>3
<1> QED
  BY <1>4

\* The names of a stream differ in the last one only.
LEMMA NamesHave ==
  ASSUME volume \in Volumes, NEW k \in Streams, volume.mft[k].path # <<>>, NEW q \in Names(volume.mft[k])
  PROVE  /\ q \in Seq(FileNames) /\ Len(q) = Len(volume.mft[k].path) /\ Len(q) \in Nat \ {0}
         /\ \A i \in 1 .. Len(q) - 1 : q[i] = volume.mft[k].path[i]
<1>1. PICK p \in Seq(FileNames) : p = volume.mft[k].path /\ p # <<>>
  BY StreamsHave
<1>2. /\ Front(p) \in Seq(FileNames) /\ Len(Front(p)) = Len(p) - 1
      /\ \A i \in 1 .. Len(p) - 1 : Front(p)[i] = p[i]
      /\ Last(p) \in FileNames /\ Len(p) \in Nat \ {0}
  BY <1>1, FrontAndLast
<1>3. PICK n \in FileNames : n = Renamed(Last(p), volume.records[volume.mft[k].inode].hint)
  BY <1>2, RenamedIn, StreamsHave
<1>4. CASE q = p
  BY <1>1, <1>2, <1>4
<1>5. CASE q = Append(Front(p), n)
  <2>1. q \in Seq(FileNames) /\ Len(q) = Len(Front(p)) + 1
        /\ \A i \in 1 .. Len(Front(p)) : q[i] = Front(p)[i]
    BY <1>2, <1>5, AppendProperties
  <2> QED
    BY <1>1, <1>2, <2>1
<1> QED
  BY <1>1, <1>3, <1>4, <1>5 DEF Names, GivenName

LEMMA AliasHas ==
  ASSUME volume \in Volumes, Ordinary, NEW k \in Streams, NEW P \in Aliases(k)
  PROVE  /\ P \in Seq(FileNames) /\ Len(P) = Len(volume.mft[k].path) + 1
         /\ Len(P) \in 2 .. MaxChain /\ P[1] = Orphans
         /\ \A n \in 1 .. Len(P) - 1 : SubSeq(P, 1, n) = SubSeq(RecordPath(k), 1, n)
<1>1. PICK path \in Seq(FileNames) : path = volume.mft[k].path
  BY OrdinaryPath
<1>2. Len(path) \in 1 .. MaxChain - 1 /\ path # <<>> /\ Len(path) \in Nat
  BY <1>1, OrdinaryPath
<1>3. PICK q \in Names(volume.mft[k]) : P = <<Orphans>> \o q
  BY DEF Aliases
<1>4. /\ q \in Seq(FileNames) /\ Len(q) = Len(path)
      /\ \A i \in 1 .. Len(q) - 1 : q[i] = path[i]
  BY <1>1, <1>2, NamesHave
<1>5. P \in Seq(FileNames) /\ Len(P) = Len(q) + 1 /\ P[1] = Orphans
      /\ \A i \in 1 .. Len(q) : P[i + 1] = q[i]
  BY <1>3, <1>4, SpecialNames
<1>6. PICK R \in Seq(FileNames) : R = RecordPath(k) /\ Len(R) = Len(path) + 1 /\ R[1] = Orphans
      /\ \A i \in 1 .. Len(path) : R[i + 1] = path[i]
  <2>1. PICK R : R = <<Orphans>> \o path
    OBVIOUS
  <2>2. R = RecordPath(k)
    BY <1>1, <2>1 DEF RecordPath
  <2>3. R \in Seq(FileNames) /\ Len(R) = Len(path) + 1 /\ R[1] = Orphans
        /\ \A i \in 1 .. Len(path) : R[i + 1] = path[i]
    BY <1>2, <2>1, SpecialNames, HeadOn
  <2> QED
    BY <2>2, <2>3
<1>7. \A i \in 1 .. Len(P) - 1 : P[i] = R[i]
  <2>1. ASSUME NEW i \in 1 .. Len(P) - 1 PROVE P[i] = R[i]
    <3>1. CASE i = 1
      BY <1>5, <1>6, <3>1
    <3>2. CASE i # 1
      <4>1. PICK j \in 1 .. Len(q) - 1 : i = j + 1
        <5>1. i - 1 \in 1 .. Len(q) - 1 /\ i = (i - 1) + 1
          BY <1>2, <1>4, <1>5, <3>2
        <5> QED
          BY <5>1
      <4>2. j \in 1 .. Len(q) /\ j \in 1 .. Len(path)
        BY <1>2, <1>4
      <4> QED
        BY <1>4, <1>5, <1>6, <4>1, <4>2
    <3> QED
      BY <3>1, <3>2
  <2> QED
    BY <2>1
<1>8. ASSUME NEW n \in 1 .. Len(P) - 1 PROVE SubSeq(P, 1, n) = SubSeq(R, 1, n)
  <2>1. n \in 0 .. Len(P) /\ n \in 0 .. Len(R)
    BY <1>2, <1>4, <1>5, <1>6
  <2>2. SubSeq(P, 1, n) \in Seq(FileNames) /\ Len(SubSeq(P, 1, n)) = n
        /\ \A i \in 1 .. n : SubSeq(P, 1, n)[i] = P[i]
    BY <1>5, <2>1, PrefixIs
  <2>3. SubSeq(R, 1, n) \in Seq(FileNames) /\ Len(SubSeq(R, 1, n)) = n
        /\ \A i \in 1 .. n : SubSeq(R, 1, n)[i] = R[i]
    BY <2>1, PrefixIs
  <2>4. \A i \in 1 .. n : SubSeq(P, 1, n)[i] = SubSeq(R, 1, n)[i]
    BY <1>2, <1>4, <1>5, <1>7, <2>2, <2>3
  <2> QED
    BY <2>2, <2>3, <2>4
<1>9. Len(P) \in 2 .. MaxChain
  BY <1>2, <1>4, <1>5, ChainAssumption
<1> QED
  BY <1>1, <1>4, <1>5, <1>6, <1>8, <1>9

LEMMA RecordPathIs ==
  ASSUME volume \in Volumes, Ordinary, NEW k \in Streams
  PROVE  RecordPath(k) \in Aliases(k)
  BY DEF Aliases, Names, RecordPath

\* The directories on the way to a path.
LEMMA FolderHas ==
  ASSUME volume \in Volumes, Ordinary, NEW P, Folder(P)
  PROVE  /\ P \in Seq(FileNames) /\ Len(P) \in 1 .. MaxChain - 1 /\ P[1] = Orphans
         /\ \A n \in 1 .. Len(P) : Folder(SubSeq(P, 1, n))
<1>1. PICK m \in Streams : \E n \in 1 .. Len(volume.mft[m].path) : P = SubSeq(RecordPath(m), 1, n)
  BY DEF Folder
<1>2. PICK l \in 1 .. Len(volume.mft[m].path) : P = SubSeq(RecordPath(m), 1, l)
  BY <1>1
<1>3. PICK R \in Aliases(m) : R = RecordPath(m)
  BY RecordPathIs
<1>4. R \in Seq(FileNames) /\ Len(R) = Len(volume.mft[m].path) + 1 /\ Len(R) \in 2 .. MaxChain /\ R[1] = Orphans
  BY <1>3, AliasHas
<1>5. Len(volume.mft[m].path) \in 1 .. MaxChain - 1
  BY DEF Ordinary
<1>6. l \in 0 .. Len(R) /\ l \in 1 .. MaxChain - 1
  BY <1>4, <1>5, ChainAssumption
<1>7. P \in Seq(FileNames) /\ Len(P) = l /\ \A i \in 1 .. l : P[i] = R[i]
  BY <1>2, <1>3, <1>4, <1>6, PrefixIs
<1>8. ASSUME NEW n \in 1 .. Len(P) PROVE Folder(SubSeq(P, 1, n))
  <2>1. n \in 0 .. l /\ n \in 1 .. Len(volume.mft[m].path)
    BY <1>5, <1>7
  <2>2. SubSeq(P, 1, n) = SubSeq(R, 1, n)
    BY <1>2, <1>3, <1>4, <1>6, <2>1, PrefixOfPrefix
  <2> QED
    BY <1>3, <2>1, <2>2 DEF Folder
<1> QED
  BY <1>4, <1>6, <1>7, <1>8

LEMMA AliasFolders ==
  ASSUME volume \in Volumes, Ordinary, NEW k \in Streams, NEW P \in Aliases(k)
  PROVE  \A n \in 1 .. Len(P) - 1 : Folder(SubSeq(P, 1, n))
<1>1. Len(P) = Len(volume.mft[k].path) + 1 /\ Len(P) \in 2 .. MaxChain
      /\ \A n \in 1 .. Len(P) - 1 : SubSeq(P, 1, n) = SubSeq(RecordPath(k), 1, n)
  BY AliasHas
<1>2. Len(volume.mft[k].path) \in 1 .. MaxChain - 1
  BY DEF Ordinary
<1>3. \A n \in 1 .. Len(P) - 1 : n \in 1 .. Len(volume.mft[k].path)
  BY <1>1, <1>2, ChainAssumption
<1> QED
  BY <1>1, <1>3 DEF Folder

LEMMA FolderNotOpaque ==
  ASSUME volume \in Volumes, Ordinary, NEW P, Folder(P), Opaque(P)
  PROVE  FALSE
<1>1. PICK k \in Streams : P \in Aliases(k)
  BY DEF Opaque
<1>2. PICK q \in Names(volume.mft[k]) : P = <<Orphans>> \o q
  BY <1>1 DEF Aliases
<1>3. PICK m \in Streams : \E n \in 1 .. Len(volume.mft[m].path) : P = SubSeq(RecordPath(m), 1, n)
  BY DEF Folder
<1>4. PICK l \in 1 .. Len(volume.mft[m].path) : P = SubSeq(RecordPath(m), 1, l)
  BY <1>3
<1>5. PICK p \in Seq(FileNames) : p = volume.mft[m].path /\ Len(p) \in 1 .. MaxChain - 1 /\ Len(p) \in Nat
  BY OrdinaryPath
<1>6. q \in Seq(FileNames) /\ Len(q) \in Nat \ {0} /\ Len(q) \in Nat
  <2>1. volume.mft[k].path # <<>>
    BY OrdinaryPath
  <2> QED
    BY <1>2, <2>1, NamesHave
<1>7. PICK R \in Seq(FileNames) : R = RecordPath(m) /\ Len(R) = Len(p) + 1 /\ \A i \in 1 .. Len(p) : R[i + 1] = p[i]
  <2>1. PICK R : R = <<Orphans>> \o p
    OBVIOUS
  <2>2. R = RecordPath(m)
    BY <1>5, <2>1 DEF RecordPath
  <2>3. R \in Seq(FileNames) /\ Len(R) = Len(p) + 1
        /\ \A i \in 1 .. Len(p) : R[i + 1] = p[i]
    BY <2>1, SpecialNames, HeadOn
  <2> QED
    BY <2>2, <2>3
<1>8. l \in 0 .. Len(R)
  BY <1>5, <1>7
<1>9. P \in Seq(FileNames) /\ Len(P) = l /\ \A i \in 1 .. l : P[i] = R[i]
  BY <1>4, <1>7, <1>8, PrefixIs
<1>10. Len(P) = Len(q) + 1 /\ \A i \in 1 .. Len(q) : P[i + 1] = q[i]
  BY <1>2, <1>6
<1>11. PICK n \in 1 .. Len(p) - 1 : n = Len(q)
  BY <1>4, <1>5, <1>6, <1>9, <1>10
<1>12. n \in 0 .. Len(p)
  BY <1>5
<1>13. SubSeq(p, 1, n) \in Seq(FileNames) /\ Len(SubSeq(p, 1, n)) = n /\ \A i \in 1 .. n : SubSeq(p, 1, n)[i] = p[i]
  BY <1>12, PrefixIs
<1>14. ASSUME NEW i \in 1 .. n PROVE SubSeq(p, 1, n)[i] = q[i]
  <2>1. i \in 1 .. Len(p) /\ i + 1 \in 1 .. l /\ i \in 1 .. Len(q)
    BY <1>5, <1>9, <1>10, <1>11
  <2> QED
    BY <1>7, <1>9, <1>10, <1>13, <2>1
<1>15. SubSeq(p, 1, n) = q
  BY <1>6, <1>11, <1>13, <1>14
<1> QED
  BY <1>1, <1>2, <1>5, <1>11, <1>15 DEF Ordinary

\* Two streams whose nodes may have one path are namesakes.
LEMMA SharedAlias ==
  ASSUME volume \in Volumes, Ordinary, NEW m \in Streams, NEW n \in Streams,
         NEW P \in Aliases(m), P \in Aliases(n)
  PROVE  Namesakes(m, n)
<1>1. PICK q \in Names(volume.mft[m]) : P = <<Orphans>> \o q
  BY DEF Aliases
<1>2. PICK r \in Names(volume.mft[n]) : P = <<Orphans>> \o r
  BY DEF Aliases
<1>3. volume.mft[m].path # <<>> /\ volume.mft[n].path # <<>>
  BY OrdinaryPath
<1>4. q \in Seq(FileNames) /\ r \in Seq(FileNames)
  BY <1>1, <1>2, <1>3, NamesHave
<1>5. q = r
  BY <1>1, <1>2, <1>4, HeadCut
<1> QED
  BY <1>1, <1>2, <1>5 DEF Namesakes

\* What a node owes passes to the other name of the record.
LEMMA SiresPass ==
  ASSUME volume \in Volumes, Ordinary, NEW r \in Streams,
         NEW P \in Aliases(r), NEW Q \in Aliases(r)
  PROVE  Sires(P) \subseteq Sires(Q) /\ Heirs(P) \subseteq Heirs(Q) /\ r \in Sires(P) /\ r \in Heirs(P)
<1>1. ASSUME NEW j \in Sires(P) PROVE j \in Sires(Q)
  <2>1. PICK m \in Streams : P \in Aliases(m) /\ Kin(j, m)
    BY DEF Sires
  <2>2. Namesakes(m, r)
    BY <2>1, SharedAlias
  <2>3. Kin(j, r)
    BY <2>1, <2>2, KinThen
  <2> QED
    BY <2>3 DEF Sires
<1>2. ASSUME NEW k \in Heirs(P) PROVE k \in Heirs(Q)
  <2>1. PICK m \in Streams : P \in Aliases(m) /\ Kin(m, k)
    BY DEF Heirs
  <2>2. Namesakes(r, m)
    BY <2>1, SharedAlias
  <2>3. Kin(r, k)
    BY <2>1, <2>2, KinBefore
  <2> QED
    BY <2>3 DEF Heirs
<1>3. r \in Sires(P) /\ r \in Heirs(P)
  BY KinSelf DEF Sires, Heirs
<1> QED
  BY <1>1, <1>2, <1>3

\* Whatever has its place, the directories on the way to it have.
LEMMA WayOwn ==
  ASSUME volume \in Volumes, Ordinary, NEW P \in Seq(FileNames),
         NEW dir, NEW size, NEW src, NEW clusters, Own(P, dir, size, src, clusters)
  PROVE  \A k \in 1 .. Len(P) - 1 : Own(SubSeq(P, 1, k), TRUE, 0, NoSource, NoSource)
<1> SUFFICES ASSUME NEW k \in 1 .. Len(P) - 1
             PROVE  Own(SubSeq(P, 1, k), TRUE, 0, NoSource, NoSource)
  OBVIOUS
<1>1. k \in 0 .. Len(P) /\ k \in 1 .. Len(P) /\ Len(P) \in Nat
  OBVIOUS
<1>2. PICK Q \in Seq(FileNames) : Q = SubSeq(P, 1, k) /\ Len(Q) = k /\ \A i \in 1 .. k : Q[i] = P[i]
  BY <1>1, PrefixIs
<1>3. CASE volume.kind = "ntfs" /\ P[1] = Orphans
  <2>1. Folder(Q)
    <3>1. CASE src = NoSource
      <4>1. Folder(P)
        BY <1>3, <3>1 DEF Own
      <4> QED
        BY <1>1, <1>2, <4>1, FolderHas
    <3>2. CASE src # NoSource
      <4>1. PICK j \in Sires(P) : TRUE
        BY <1>3, <3>2 DEF Own
      <4>2. PICK m \in Streams : P \in Aliases(m)
        BY <4>1 DEF Sires
      <4> QED
        BY <1>2, <4>2, AliasFolders
    <3> QED
      BY <3>1, <3>2
  <2> QED
    BY <1>2, <2>1 DEF Own
<1>4. CASE ~(volume.kind = "ntfs" /\ P[1] = Orphans)
  <2>1. ~(volume.kind = "ntfs" /\ Q[1] = Orphans)
    BY <1>2, <1>4
  <2>2. ASSUME volume.kind = "ntfs", NEW i \in 1 .. Len(Q), Q[i] = Orphans PROVE Len(Q) <= 2
    <3>1. Len(P) <= 2
      BY <1>1, <1>2, <1>4, <2>2 DEF Own
    <3> QED
      BY <1>1, <1>2, <3>1
  <2> QED
    BY <1>2, <2>1, <2>2 DEF Own
<1> QED
  BY <1>3, <1>4

\* An existing node takes an item of its path.
LEMMA RelistOwn ==
  ASSUME volume \in Volumes, Ordinary, NEW P \in Seq(FileNames), NEW n \in Nodes(FileNames, Data),
         NEW item \in Items(Data), OwnNode(P, n),
         NEW clusters, Own(P, item.dir, item.size, item.src, clusters)
  PROVE  OwnNode(P, Relist(n, item))
<1>1. CASE n.deleted \/ ~item.deleted \/ n.dir
  <2>1. PICK m : m = Relist(n, item) /\ m.dir = n.dir /\ m.size = n.size /\ m.src = n.src
                 /\ m.clusters = n.clusters
    <3>1. /\ Relist(n, item).dir = n.dir /\ Relist(n, item).size = n.size
          /\ Relist(n, item).src = n.src /\ Relist(n, item).clusters = n.clusters
      BY <1>1 DEF Relist, Nodes
    <3> QED
      BY <3>1
  <2> QED
    BY <2>1 DEF OwnNode
<1>2. CASE ~(n.deleted \/ ~item.deleted \/ n.dir)
  <2>1. PICK m : m = Relist(n, item) /\ m.dir = n.dir /\ m.size = item.size /\ m.src = item.src
                 /\ m.clusters = n.clusters
    <3>1. /\ Relist(n, item).dir = n.dir /\ Relist(n, item).size = item.size
          /\ Relist(n, item).src = item.src /\ Relist(n, item).clusters = n.clusters
      BY <1>2 DEF Relist, Nodes
    <3> QED
      BY <3>1
  <2>2. Own(P, n.dir, n.size, n.src, n.clusters) /\ ~n.dir
    BY <1>2 DEF OwnNode
  <2>3. CASE volume.kind = "ntfs" /\ P[1] = Orphans
    <3>1. Opaque(P)
      BY <2>2, <2>3 DEF Own
    <3>2. item.src # NoSource
      BY <2>3, <3>1, FolderNotOpaque DEF Own
    <3>3. Own(P, n.dir, item.size, item.src, n.clusters)
      BY <2>2, <2>3, <3>2 DEF Own
    <3> QED
      BY <2>1, <3>3 DEF OwnNode
  <2>4. CASE ~(volume.kind = "ntfs" /\ P[1] = Orphans)
    <3>1. Own(P, n.dir, item.size, item.src, n.clusters)
      BY <2>2, <2>4 DEF Own
    <3> QED
      BY <2>1, <3>1 DEF OwnNode
  <2> QED
    BY <2>3, <2>4
<1> QED
  BY <1>1, <1>2

LEMMA NewNodeOwn ==
  ASSUME NEW P, NEW parent, NEW name, NEW item, NEW clusters,
         Own(P, item.dir, item.size, item.src, clusters)
  PROVE  OwnNode(P, NewNode(parent, name, item))
<1>1. PICK n : /\ n = NewNode(parent, name, item) /\ n.dir = item.dir /\ n.size = item.size
               /\ n.src = item.src /\ n.clusters = NoSource
  <2>1. /\ NewNode(parent, name, item).dir = item.dir /\ NewNode(parent, name, item).size = item.size
        /\ NewNode(parent, name, item).src = item.src
        /\ NewNode(parent, name, item).clusters = NoSource
    BY DEF NewNode
  <2> QED
    BY <2>1
<1>2. Own(P, item.dir, item.size, item.src, NoSource)
  BY DEF Own
<1> QED
  BY <1>1, <1>2 DEF OwnNode

LEMMA UnlistedOwn ==
  ASSUME NEW P, NEW n, Unlisted(n), Own(P, TRUE, 0, NoSource, NoSource)
  PROVE  OwnNode(P, n)
<1>1. n.dir = TRUE /\ n.size = 0 /\ n.src = NoSource /\ n.clusters = NoSource
  BY DEF Unlisted, NewNode, Item
<1> QED
  BY <1>1 DEF OwnNode

\* tree_add_path.
LEMMA AddPathOwn ==
  ASSUME volume \in Volumes, Ordinary, NEW t \in ScanTrees, OwnTree(t),
         NEW path \in Seq(FileNames), path # <<>>, NEW item \in Items(Data),
         NEW clusters, Own(path, item.dir, item.size, item.src, clusters)
  PROVE  OwnTree(AddPath(t, path, item))
<1>1. t \in Trees(FileNames, Data) /\ NoSource \in Data
  BY NoSourceIsData DEF ScanTrees
<1>2. PICK u \in Trees(FileNames, Data) : u = AddPath(t, path, item)
  BY <1>1, AddPathIn
<1>3. PutInTree(t, u, path, item)
  BY <1>1, <1>2, AddPathPuts
<1>4. ASSUME NEW i \in DOMAIN u PROVE OwnNode(FullPath(u, i), u[i])
  <2>1. CASE i \in DOMAIN t
    <3>1. PICK P \in Seq(FileNames) : P = FullPath(t, i) /\ i \in 0 .. Len(t)
      BY <1>1, <2>1, NodeHas
    <3>2. FullPath(u, i) = P
      BY <1>3, <3>1 DEF PutInTree
    <3>3. PICK n \in Nodes(FileNames, Data) : n = t[i]
      BY <1>1, <2>1, TreeHas
    <3>4. OwnNode(P, n)
      BY <2>1, <3>1, <3>3 DEF OwnTree
    <3>5. u[i] = n \/ (P = path /\ u[i] = Relist(n, item))
      BY <1>3, <2>1, <3>1, <3>3 DEF PutInTree
    <3>6. P = path => OwnNode(P, Relist(n, item))
      BY <3>4, RelistOwn
    <3> QED
      BY <3>2, <3>4, <3>5, <3>6
  <2>2. CASE i \notin DOMAIN t
    <3>1. \/ Unlisted(u[i]) /\ \E k \in 1 .. Len(path) - 1 : FullPath(u, i) = SubSeq(path, 1, k)
          \/ FullPath(u, i) = path /\ \E parent \in Nat : u[i] = NewNode(parent, Last(path), item)
      BY <1>3, <2>2 DEF PutInTree
    <3>2. CASE Unlisted(u[i]) /\ \E k \in 1 .. Len(path) - 1 : FullPath(u, i) = SubSeq(path, 1, k)
      <4>1. PICK k \in 1 .. Len(path) - 1 : FullPath(u, i) = SubSeq(path, 1, k)
        BY <3>2
      <4>2. Own(SubSeq(path, 1, k), TRUE, 0, NoSource, NoSource)
        BY WayOwn
      <4> QED
        BY <3>2, <4>1, <4>2, UnlistedOwn
    <3>3. CASE FullPath(u, i) = path /\ \E parent \in Nat : u[i] = NewNode(parent, Last(path), item)
      <4>1. PICK parent \in Nat : u[i] = NewNode(parent, Last(path), item)
        BY <3>3
      <4>2. OwnNode(path, NewNode(parent, Last(path), item))
        BY NewNodeOwn
      <4> QED
        BY <3>3, <4>1, <4>2
    <3> QED
      BY <3>1, <3>2, <3>3
  <2> QED
    BY <2>1, <2>2
<1> QED
  BY <1>2, <1>4 DEF OwnTree

\* session_read_tree: the node of the entry's path takes its flag and its clusters.
LEMMA LoadedNodeOwn ==
  ASSUME volume \in Volumes, Ordinary, NEW n \in Nodes(FileNames, Data), NEW e \in SessionEntries,
         OwnEntry(e), OwnNode(e.path, n)
  PROVE  OwnNode(e.path, LoadedNode(n, e))
<1>1. PICK c : c = IF e.clusters = NoSource \/ e.item.dir THEN n.clusters ELSE e.clusters
  OBVIOUS
<1>2. PICK m : m = LoadedNode(n, e) /\ m.dir = n.dir /\ m.size = n.size /\ m.src = n.src /\ m.clusters = c
  <2>1. /\ LoadedNode(n, e).dir = n.dir /\ LoadedNode(n, e).size = n.size
        /\ LoadedNode(n, e).src = n.src /\ LoadedNode(n, e).clusters = c
    BY <1>1 DEF LoadedNode, Nodes
  <2> QED
    BY <2>1
<1>3. PICK P : P = e.path
  OBVIOUS
<1>4. Own(P, e.item.dir, e.item.size, e.item.src, e.clusters) /\ Own(P, n.dir, n.size, n.src, n.clusters)
  BY <1>3 DEF OwnEntry, OwnNode
<1>5. CASE e.clusters = NoSource \/ e.item.dir
  BY <1>1, <1>2, <1>3, <1>4, <1>5 DEF OwnNode
<1>6. CASE ~(e.clusters = NoSource \/ e.item.dir)
  <2>1. c = e.clusters /\ c # NoSource /\ ~e.item.dir
    BY <1>1, <1>6
  <2>2. volume.kind = "ntfs" /\ P[1] = Orphans
    BY <1>4, <2>1 DEF Own
  <2>3. Opaque(P)
    BY <1>4, <2>1, <2>2 DEF Own
  <2>4. n.src # NoSource
    BY <1>4, <2>2, <2>3, FolderNotOpaque DEF Own
  <2>5. Own(P, n.dir, n.size, n.src, c)
    BY <1>4, <2>1, <2>2, <2>4 DEF Own
  <2> QED
    BY <1>2, <1>3, <2>5 DEF OwnNode
<1> QED
  BY <1>5, <1>6

LEMMA LoadEntryOwn ==
  ASSUME volume \in Volumes, Ordinary, NEW t \in ScanTrees, OwnTree(t),
         NEW e \in SessionEntries, OwnEntry(e)
  PROVE  OwnTree(LoadEntry(t, e))
<1>1. t \in Trees(FileNames, Data) /\ NoSource \in Data /\ e \in SavedEntries(FileNames, Data)
  BY NoSourceIsData DEF ScanTrees, SessionEntries
<1>2. e.path \in Seq(FileNames) /\ e.item \in Items(Data) /\ e.path # <<>>
      /\ Own(e.path, e.item.dir, e.item.size, e.item.src, e.clusters)
  BY <1>1 DEF SavedEntries, OwnEntry
<1>3. PICK u \in Trees(FileNames, Data) : u = AddPath(t, e.path, e.item)
  BY <1>1, <1>2, AddPathIn
<1>4. OwnTree(u)
  BY <1>2, <1>3, AddPathOwn
<1>5. PICK w \in Trees(FileNames, Data) : w = LoadEntry(t, e)
  BY <1>1, LoadEntryIn
<1>6. w = [i \in DOMAIN u |-> IF i \in FindPath(u, e.path) THEN LoadedNode(u[i], e) ELSE u[i]]
  BY <1>3, <1>5, LoadEntryIs
<1>7. \A i \in DOMAIN u : u[i] \in Nodes(FileNames, Data)
  BY TreeHas
<1>8. DOMAIN w = DOMAIN u /\ Len(w) = Len(u)
  <2>1. DOMAIN w = DOMAIN u
    BY <1>6
  <2>2. Len(w) \in Nat /\ DOMAIN w = 1 .. Len(w) /\ Len(u) \in Nat /\ DOMAIN u = 1 .. Len(u)
    BY TreeHas
  <2>3. \A m, n \in Nat : 1 .. m = 1 .. n => m = n
    <3>1. \A m, n \in Nat : m > n => m \in 1 .. m /\ m \notin 1 .. n
      OBVIOUS
    <3> QED
      BY <3>1
  <2> QED
    BY <2>1, <2>2, <2>3
<1>9. \A i \in DOMAIN u : w[i].parent = u[i].parent /\ w[i].name = u[i].name
  BY <1>6, <1>7 DEF LoadedNode, Nodes
<1>10. \A i \in 0 .. Len(u) : FullPath(w, i) = FullPath(u, i)
  <2>1. Len(u) <= Len(w)
    <3>1. Len(u) \in Nat
      BY TreeHas
    <3> QED
      BY <1>8, <3>1
  <2> QED
    BY <1>9, <2>1, SamePaths
<1>11. ASSUME NEW i \in DOMAIN w PROVE OwnNode(FullPath(w, i), w[i])
  <2>1. PICK n \in Nodes(FileNames, Data) : n = u[i]
    BY <1>7, <1>8
  <2>2. i \in 0 .. Len(u)
    BY <1>8, NodeHas
  <2>3. OwnNode(FullPath(u, i), n)
    BY <1>4, <1>8, <2>1 DEF OwnTree
  <2>4. CASE i \in FindPath(u, e.path)
    <3>1. FullPath(u, i) = e.path
      BY <1>2, <2>4, FoundThere
    <3>2. OwnNode(e.path, LoadedNode(n, e))
      BY <2>3, <3>1, LoadedNodeOwn
    <3>3. w[i] = LoadedNode(n, e)
      BY <1>6, <1>8, <2>1, <2>4
    <3> QED
      BY <1>10, <2>2, <3>1, <3>2, <3>3
  <2>5. CASE i \notin FindPath(u, e.path)
    <3>1. w[i] = n
      BY <1>6, <1>8, <2>1, <2>5
    <3> QED
      BY <1>10, <2>2, <2>3, <3>1
  <2> QED
    BY <2>4, <2>5
<1> QED
  BY <1>5, <1>11 DEF OwnTree

OwnEntries(entries) == \A k \in DOMAIN entries : OwnEntry(entries[k])

\* No directory has clusters.
LEMMA FolderHasNone ==
  ASSUME NEW P, NEW dir, NEW size, NEW src, NEW clusters, Own(P, dir, size, src, clusters), dir
  PROVE  clusters = NoSource
  BY DEF Own

LEMMA OwnsNeverSlip ==
  ASSUME NEW entries, OwnEntries(entries)
  PROVE  \A k \in DOMAIN entries : ~Slips(entries[k])
<1>1. ASSUME NEW e, OwnEntry(e) PROVE ~Slips(e)
  BY <1>1, FolderHasNone DEF OwnEntry, Slips
<1> QED
  BY <1>1 DEF OwnEntries

LEMMA OwnTreeNeverSlips ==
  ASSUME NEW t, OwnTree(t)
  PROVE  ~Slipping(t)
<1>1. ASSUME NEW i \in DOMAIN t, t[i].dir PROVE t[i].clusters = NoSource
  <2>1. Own(FullPath(t, i), t[i].dir, t[i].size, t[i].src, t[i].clusters)
    BY DEF OwnTree, OwnNode
  <2> QED
    BY <1>1, <2>1, FolderHasNone
<1> QED
  BY <1>1 DEF Slipping

LEMMA LoadOwn ==
  ASSUME volume \in Volumes, Ordinary, NEW entries \in Seq(SessionEntries), OwnEntries(entries)
  PROVE  OwnTree(Load(entries))
<1> DEFINE L == Len(entries)
<1>1. PICK read \in [0 .. L -> Trees(FileNames, Data)] :
        /\ read[0] = <<>>
        /\ \A n \in 1 .. L : read[n] = LoadEntry(read[n - 1], entries[n])
        /\ Load(entries) = read[L]
  BY LoadBuilt, NoSourceIsData DEF SessionEntries
<1>2. L \in Nat
  OBVIOUS
<1> DEFINE bad == {n \in 0 .. L : ~OwnTree(read[n])}
<1>3. bad = {}
  <2> SUFFICES ASSUME bad # {} PROVE FALSE
    OBVIOUS
  <2>1. PICK m \in bad : \A k \in bad : m <= k
    <3>1. bad \in SUBSET Nat
      OBVIOUS
    <3> HIDE DEF bad
    <3> QED
      BY <3>1, LeastNat
  <2>2. m \in 0 .. L /\ ~OwnTree(read[m])
    OBVIOUS
  <2>3. m # 0
    <3>1. OwnTree(<<>>)
      BY DEF OwnTree
    <3> QED
      BY <1>1, <2>2, <3>1
  <2>4. m \in 1 .. L /\ m - 1 \in 0 .. L /\ ~(m <= m - 1)
    BY <1>2, <2>2, <2>3
  <2>5. OwnTree(read[m - 1])
    BY <2>1, <2>4
  <2>6. PICK t \in ScanTrees : t = read[m - 1]
    BY <1>1, <2>4 DEF ScanTrees
  <2>7. PICK e \in SessionEntries : e = entries[m] /\ OwnEntry(e)
    BY <1>2, <2>4 DEF OwnEntries
  <2>8. OwnTree(LoadEntry(t, e))
    BY <2>5, <2>6, <2>7, LoadEntryOwn
  <2> QED
    BY <1>1, <2>2, <2>4, <2>6, <2>7, <2>8
<1>4. L \in 0 .. L
  BY <1>2
<1> QED
  BY <1>1, <1>3, <1>4

LEMMA HeadedAppend ==
  ASSUME NEW S, NEW a \in S, NEW f \in Seq(S), NEW x \in S
  PROVE  <<a>> \o Append(f, x) = Append(<<a>> \o f, x)
<1>1. PICK p : p = <<a>> \o f
  OBVIOUS
<1>2. PICK q : q = Append(f, x)
  OBVIOUS
<1>3. PICK l : l = <<a>> \o q
  OBVIOUS
<1>4. PICK r : r = Append(p, x)
  OBVIOUS
<1>11. p \in Seq(S) /\ Len(p) = Len(f) + 1 /\ p[1] = a /\ \A i \in 1 .. Len(f) : p[i + 1] = f[i]
  BY <1>1, HeadOn
<1>12. q \in Seq(S) /\ Len(q) = Len(f) + 1 /\ q[Len(f) + 1] = x /\ \A i \in 1 .. Len(f) : q[i] = f[i]
  BY <1>2, AppendProperties
<1>13. l \in Seq(S) /\ Len(l) = Len(q) + 1 /\ l[1] = a /\ \A i \in 1 .. Len(q) : l[i + 1] = q[i]
  BY <1>3, <1>12, HeadOn
<1>14. r \in Seq(S) /\ Len(r) = Len(p) + 1 /\ r[Len(p) + 1] = x /\ \A i \in 1 .. Len(p) : r[i] = p[i]
  BY <1>4, <1>11, AppendProperties
<1>5. Len(f) \in Nat /\ Len(l) = Len(f) + 2 /\ Len(r) = Len(f) + 2
  BY <1>11, <1>12, <1>13, <1>14
<1>6. ASSUME NEW i \in 1 .. Len(f) + 2 PROVE l[i] = r[i]
  <2>1. CASE i = 1
    BY <1>11, <1>13, <1>14, <1>5, <2>1
  <2>2. CASE i \in 2 .. Len(f) + 1
    <3>1. PICK j \in 1 .. Len(f) : i = j + 1
      <4>1. i - 1 \in 1 .. Len(f) /\ i = (i - 1) + 1
        BY <1>5, <2>2
      <4> QED
        BY <4>1
    <3>2. j \in 1 .. Len(q) /\ j + 1 \in 1 .. Len(p)
      BY <1>11, <1>12, <1>5
    <3> QED
      BY <1>11, <1>12, <1>13, <1>14, <3>1, <3>2
  <2>3. CASE i = Len(f) + 2
    <3>1. i = (Len(f) + 1) + 1 /\ Len(f) + 1 \in 1 .. Len(q) /\ i = Len(p) + 1
      BY <1>11, <1>12, <1>5, <2>3
    <3> QED
      BY <1>12, <1>13, <1>14, <3>1
  <2> QED
    BY <1>5, <2>1, <2>2, <2>3
<1>7. l = r
  BY <1>5, <1>6, <1>13, <1>14
<1> QED
  BY <1>1, <1>2, <1>3, <1>4, <1>7

\* The path of a record, and the one it has by its contents.
LEMMA RenamedAlias ==
  ASSUME volume \in Volumes, Ordinary, NEW r \in Streams,
         NEW A \in Seq(FileNames), NEW name \in FileNames, RecordPath(r) = Append(A, name)
  PROVE  Append(A, Renamed(name, volume.records[volume.mft[r].inode].hint)) \in Aliases(r)
<1>1. PICK hint \in Words : hint = volume.records[volume.mft[r].inode].hint
  BY StreamsHave
<1>2. PICK p \in Seq(FileNames) : p = volume.mft[r].path /\ p # <<>>
  BY OrdinaryPath
<1>3. PICK front \in Seq(FileNames), last \in FileNames :
        front = Front(p) /\ last = Last(p) /\ p = Append(front, last)
  <2>1. Front(p) \in Seq(FileNames) /\ Len(Front(p)) = Len(p) - 1
        /\ (\A i \in 1 .. Len(p) - 1 : Front(p)[i] = p[i])
        /\ Last(p) = p[Len(p)] /\ Last(p) \in FileNames /\ Len(p) \in Nat \ {0}
    BY <1>2, FrontAndLast
  <2>2. PICK f \in Seq(FileNames), l \in FileNames : f = Front(p) /\ l = Last(p)
    BY <2>1
  <2>3. PICK q : q = Append(f, l)
    OBVIOUS
  <2>4. q \in Seq(FileNames) /\ Len(q) = Len(f) + 1 /\ q[Len(f) + 1] = l
        /\ \A i \in 1 .. Len(f) : q[i] = f[i]
    BY <2>3, AppendProperties
  <2>6. Len(q) = Len(p) /\ \A i \in 1 .. Len(p) : q[i] = p[i]
    <3>1. Len(q) = Len(p) /\ Len(f) + 1 = Len(p) /\ Len(p) \in Nat \ {0}
      BY <2>1, <2>2, <2>4
    <3>2. \A i \in 1 .. Len(p) - 1 : q[i] = p[i]
      BY <2>1, <2>2, <2>4, <3>1
    <3>3. q[Len(p)] = p[Len(p)]
      BY <2>1, <2>2, <2>4, <3>1
    <3>4. \A i \in 1 .. Len(p) : i \in 1 .. Len(p) - 1 \/ i = Len(p)
      BY <3>1
    <3> QED
      BY <3>1, <3>2, <3>3, <3>4
  <2>5. q = p
    BY <2>4, <2>6
  <2> QED
    BY <2>2, <2>3, <2>5
<1>4. PICK new \in FileNames : new = Renamed(last, hint)
  BY RenamedIn
<1>5. <<Orphans>> \o p = Append(<<Orphans>> \o front, last)
  BY <1>3, SpecialNames, HeadedAppend
<1>6. <<Orphans>> \o Append(front, new) = Append(<<Orphans>> \o front, new)
  BY SpecialNames, HeadedAppend
<1>7. PICK B \in Seq(FileNames) : B = <<Orphans>> \o front
  BY SpecialNames, HeadOn
<1>8. RecordPath(r) = <<Orphans>> \o p
  BY <1>2 DEF RecordPath
<1>9. A = B /\ name = last
  <2>1. Append(A, name) = Append(B, last)
    BY <1>5, <1>7, <1>8
  <2> QED
    BY <2>1, AppendInjective
<1>10. Append(front, new) \in Names(volume.mft[r])
  BY <1>1, <1>2, <1>3, <1>4 DEF Names, GivenName
<1> QED
  BY <1>1, <1>4, <1>6, <1>7, <1>9, <1>10 DEF Aliases

LEMMA RenamedOnce ==
  ASSUME NEW name, NEW hint
  PROVE  Renamed(Renamed(name, hint), hint) = Renamed(name, hint)
  BY DEF Renamed

LEMMA LastOf ==
  ASSUME NEW S, NEW A \in Seq(S), NEW x \in S, NEW P, P = Append(A, x)
  PROVE  P[Len(P)] = x
<1>1. Len(P) = Len(A) + 1 /\ P[Len(A) + 1] = x
  BY AppendProperties
<1> QED
  BY <1>1

\* ntfs_fill_clusters and the name from the contents, on a node of the stream's path.
LEMMA RecordNodeOwn ==
  ASSUME volume \in Volumes, Ordinary, volume.kind = "ntfs", NEW r \in Streams,
         NEW A \in Seq(FileNames), NEW n \in Nodes(FileNames, Data),
         RecordPath(r) = Append(A, n.name), OwnNode(RecordPath(r), n),
         NEW m, m = RecordNode(n, volume.mft[r].inode)
  PROVE  OwnNode(Append(A, m.name), m)
<1>1. PICK inode \in Nat : inode = volume.mft[r].inode /\ inode \in DOMAIN volume.records
  BY StreamsHave
<1>2. PICK P \in Aliases(r) : P = RecordPath(r)
  BY RecordPathIs
<1>3. P[1] = Orphans /\ n.name \in FileNames /\ P[Len(P)] = n.name
  <2>1. PICK name \in FileNames : name = n.name
    BY DEF Nodes
  <2>2. P = Append(A, name)
    BY <1>2, <2>1
  <2>3. P[Len(P)] = name
    BY <2>2, LastOf
  <2>4. P[1] = Orphans
    BY AliasHas
  <2> QED
    BY <2>1, <2>3, <2>4
<1>4. PICK c : c = IF n.size = 0 \/ volume.records[inode].content = "none" THEN n.clusters
                   ELSE IF volume.records[inode].content = "resident" THEN <<"boot">> ELSE <<"data", inode>>
  OBVIOUS
<1>5. PICK new : new = IF c = NoSource THEN n.name ELSE Renamed(n.name, Hint(c))
  OBVIOUS
<1>6. m.dir = n.dir /\ m.size = n.size /\ m.src = n.src /\ m.clusters = c /\ m.name = new
  <2>1. PICK f : f = [n EXCEPT !.orphan = TRUE]
    OBVIOUS
  <2>2. f.dir = n.dir /\ f.size = n.size /\ f.src = n.src /\ f.clusters = n.clusters /\ f.name = n.name
        /\ f \in Nodes(FileNames, Data)
    BY <2>1 DEF Nodes
  <2>3. PICK g : g = FillClusters(f, inode)
    OBVIOUS
  <2>4. g.dir = n.dir /\ g.size = n.size /\ g.src = n.src /\ g.clusters = c /\ g.name = n.name
        /\ DOMAIN g = DOMAIN f
    BY <1>4, <2>2, <2>3 DEF FillClusters, Nodes
  <2>5. m = InferName(g)
    BY <1>1, <2>1, <2>3 DEF RecordNode
  <2>6. "name" \in DOMAIN g
    BY <2>2, <2>4 DEF Nodes
  <2> QED
    BY <1>5, <2>4, <2>5, <2>6 DEF InferName
<1>7. Own(P, n.dir, n.size, n.src, n.clusters)
  BY <1>2 DEF OwnNode
<1>8. CASE c \in {NoSource, <<"boot">>}
  <2>1. new = n.name
    <3>1. <<"boot">>[1] # "data"
      OBVIOUS
    <3>2. Hint(<<"boot">>) = "none"
      BY <3>1 DEF Hint
    <3> QED
      BY <1>5, <1>8, <3>2 DEF Renamed
  <2>2. n.src = NoSource => c = NoSource
    BY <1>3, <1>4, <1>7 DEF Own
  <2>3. Own(P, n.dir, n.size, n.src, c)
    BY <1>3, <1>7, <1>8, <2>2 DEF Own
  <2> QED
    BY <1>2, <1>6, <2>1, <2>3 DEF OwnNode
<1>9. CASE c = n.clusters /\ Filled(P, c)
  <2>1. PICK k \in Heirs(P) : /\ c = <<"data", volume.mft[k].inode>>
                              /\ Renamed(n.name, volume.records[volume.mft[k].inode].hint) = n.name
    BY <1>3, <1>9 DEF Filled
  <2>2. k \in Streams
    BY DEF Heirs
  <2>3. volume.mft[k].inode \in DOMAIN volume.records
    BY <2>2, StreamsHave
  <2>4. Hint(c) = volume.records[volume.mft[k].inode].hint
    <3>1. c[1] = "data" /\ c[2] = volume.mft[k].inode
      BY <2>1
    <3> QED
      BY <2>3, <3>1 DEF Hint
  <2>5. new = n.name
    BY <1>5, <2>1, <2>4
  <2> QED
    BY <1>2, <1>6, <1>7, <1>9, <2>5 DEF OwnNode
<1>10. CASE c = <<"data", inode>> /\ n.src # NoSource
  <2>1. Hint(c) = volume.records[inode].hint
    <3>1. c[1] = "data" /\ c[2] = inode
      BY <1>10
    <3> QED
      BY <1>1, <3>1 DEF Hint
  <2>2. new = Renamed(n.name, volume.records[inode].hint)
    BY <1>5, <1>10, <2>1 DEF NoSource
  <2>3. PICK Q \in Aliases(r) : Q = Append(A, new)
    BY <1>1, <1>3, <2>2, RenamedAlias
  <2>4. new \in FileNames
    BY <1>1, <1>3, <2>2, RenamedIn, StreamsHave
  <2>5. Q[Len(Q)] = new /\ Q[1] = Orphans
    <3>1. Q[Len(Q)] = new
      BY <2>3, <2>4, LastOf
    <3>2. Q[1] = Orphans
      BY AliasHas
    <3> QED
      BY <3>1, <3>2
  <2>6. Renamed(new, volume.records[inode].hint) = new
    BY <2>2, RenamedOnce
  <2>7. r \in Heirs(Q) /\ Sires(P) \subseteq Sires(Q)
    BY <1>2, <2>3, SiresPass
  <2>8. Filled(Q, c)
    BY <1>1, <1>10, <2>5, <2>6, <2>7 DEF Filled
  <2>9. Opaque(Q)
    BY <2>3 DEF Opaque
  <2>10. ~n.dir /\ \E j \in Sires(Q) : n.src = <<"mft", j>>
    BY <1>3, <1>7, <1>10, <2>7 DEF Own
  <2>11. Own(Q, n.dir, n.size, n.src, c)
    BY <1>10, <2>5, <2>8, <2>9, <2>10 DEF Own
  <2> QED
    BY <1>6, <2>3, <2>11 DEF OwnNode
<1>11. \/ c \in {NoSource, <<"boot">>} \/ (c = n.clusters /\ Filled(P, c))
       \/ (c = <<"data", inode>> /\ n.src # NoSource)
  <2>1. n.src = NoSource => n.size = 0
    BY <1>3, <1>7 DEF Own
  <2>2. n.clusters \in {NoSource, <<"boot">>} \/ Filled(P, n.clusters)
    BY <1>3, <1>7 DEF Own
  <2> QED
    BY <1>4, <2>1, <2>2
<1> QED
  BY <1>8, <1>9, <1>10, <1>11

\* scanner_run, one stream.
LEMMA RecordOwn ==
  ASSUME volume \in Volumes, Ordinary, volume.kind = "ntfs", NEW k \in Streams
  PROVE  /\ RecordPath(k) \in Seq(FileNames) /\ RecordPath(k) # <<>> /\ RecordPath(k)[1] = Orphans
         /\ Opaque(RecordPath(k))
         /\ \A size : Own(RecordPath(k), FALSE, size, <<"mft", k>>, NoSource)
<1>1. PICK P \in Aliases(k) : P = RecordPath(k)
  BY RecordPathIs
<1>2. P \in Seq(FileNames) /\ Len(P) \in 2 .. MaxChain /\ P[1] = Orphans
  BY AliasHas
<1>3. k \in Sires(P)
  BY SiresPass
<1>4. Opaque(P)
  BY DEF Opaque
<1>5. <<"mft", k>> # NoSource
  BY DEF NoSource
<1>6. ASSUME NEW size PROVE Own(P, FALSE, size, <<"mft", k>>, NoSource)
  BY <1>2, <1>3, <1>4, <1>5 DEF Own
<1>7. P # <<>>
  BY <1>2
<1> QED
  BY <1>1, <1>2, <1>4, <1>6, <1>7

\* Nothing is below a node whose path is opaque.
LEMMA NothingBelow ==
  ASSUME volume \in Volumes, Ordinary, volume.kind = "ntfs", NEW t \in ScanTrees, OwnTree(t),
         NEW i \in DOMAIN t, FullPath(t, t[i].parent)[1] = Orphans, t[i].parent # Root,
         Opaque(FullPath(t, t[i].parent))
  PROVE  FALSE
<1>1. t \in Trees(FileNames, Data)
  BY DEF ScanTrees
<1>2. PICK A \in Seq(FileNames), name \in FileNames :
        A = FullPath(t, t[i].parent) /\ name = t[i].name /\ FullPath(t, i) = Append(A, name)
  BY <1>1, NodeHas
<1>3. PICK P \in Seq(FileNames) : P = Append(A, name)
  BY AppendProperties
<1>4. Len(P) = Len(A) + 1 /\ \A j \in 1 .. Len(A) : P[j] = A[j]
  BY <1>3, AppendProperties
<1>5. A # <<>> /\ Len(A) \in Nat \ {0}
  <2>1. PICK p : p = t[i].parent /\ p \in DOMAIN t
    <3>1. t[i].parent \in 0 .. Len(t)
      BY <1>1, NodeHas
    <3>2. t[i].parent \in 1 .. Len(t) /\ DOMAIN t = 1 .. Len(t)
      BY <1>1, <3>1, TreeHas DEF Root
    <3> QED
      BY <3>2
  <2>2. FullPath(t, p) # <<>>
    BY <1>1, <2>1, NodeHas
  <2>3. A # <<>>
    BY <1>2, <2>1, <2>2
  <2> QED
    BY <2>3, EmptySeq
<1>6. SubSeq(P, 1, Len(A)) = A
  <2>1. Len(A) \in 0 .. Len(P)
    BY <1>4, <1>5
  <2>2. SubSeq(P, 1, Len(A)) \in Seq(FileNames) /\ Len(SubSeq(P, 1, Len(A))) = Len(A)
        /\ \A j \in 1 .. Len(A) : SubSeq(P, 1, Len(A))[j] = P[j]
    BY <2>1, PrefixIs
  <2> QED
    BY <1>4, <2>2
<1>7. OwnNode(P, t[i])
  BY <1>2, <1>3 DEF OwnTree
<1>8. Own(A, TRUE, 0, NoSource, NoSource)
  <2>1. Len(A) \in 1 .. Len(P) - 1
    BY <1>4, <1>5
  <2>2. Own(P, t[i].dir, t[i].size, t[i].src, t[i].clusters)
    BY <1>7 DEF OwnNode
  <2> QED
    BY <1>6, <2>1, <2>2, WayOwn
<1>9. Folder(A)
  BY <1>2, <1>8 DEF Own
<1> QED
  BY <1>2, <1>9, FolderNotOpaque

LEMMA AddRecordOwn ==
  ASSUME volume \in Volumes, Ordinary, volume.kind = "ntfs", NEW t \in ScanTrees, OwnTree(t),
         NEW k \in Streams
  PROVE  OwnTree(AddRecord(t, k))
<1>1. PICK inode \in Nat : inode = volume.mft[k].inode /\ volume.records[inode].dir = FALSE
  BY StreamsHave
<1>2. PICK P \in Seq(FileNames) : /\ P = RecordPath(k) /\ P # <<>> /\ P[1] = Orphans /\ Opaque(P)
                                  /\ \A size : Own(P, FALSE, size, <<"mft", k>>, NoSource)
  BY RecordOwn
<1>3. PICK item \in Items(Data) : item = Item(volume.records[inode].dir, TRUE, volume.mft[k].size, <<"mft", k>>)
  <2>1. k \in Nat /\ volume.mft[k].size \in Nat
    BY StreamsHave
  <2>2. <<"mft", k>> \in Data
    BY <2>1 DEF Data
  <2> QED
    BY <1>1, <2>1, <2>2, ItemIn
<1>4. item.dir = FALSE /\ item.src = <<"mft", k>>
  BY <1>1, <1>3 DEF Item
<1>5. PICK u \in ScanTrees : u = RecordAdded(t, k) /\ u = AddPath(t, P, item)
  <2>1. AddPath(t, P, item) \in ScanTrees
    BY NoSourceIsData, AddPathIn DEF ScanTrees
  <2>2. RecordAdded(t, k) = AddPath(t, P, item)
    BY <1>1, <1>2, <1>3 DEF RecordAdded
  <2> QED
    BY <2>1, <2>2
<1>6. OwnTree(u)
  <2>1. Own(P, item.dir, item.size, item.src, NoSource)
    BY <1>2, <1>4
  <2> QED
    BY <1>2, <1>5, <2>1, AddPathOwn
<1>7. u \in Trees(FileNames, Data)
  BY DEF ScanTrees
<1>8. PICK w \in Trees(FileNames, Data) : w = AddRecord(t, k)
  <2>1. k \in DOMAIN volume.mft
    BY StreamsHave
  <2> QED
    BY <2>1, AddRecordIn DEF ScanTrees
<1>9. PICK found : found = FindPath(u, P)
  OBVIOUS
<1>10. w = [i \in DOMAIN u |-> IF i \in found THEN RecordNode(u[i], inode) ELSE u[i]]
  BY <1>1, <1>2, <1>5, <1>8, <1>9, AddRecordIs
<1>11. \A i \in found : i \in 0 .. Len(u) /\ FullPath(u, i) = P
  BY <1>2, <1>7, <1>9, FoundThere
<1>12. DOMAIN w = DOMAIN u /\ Len(w) = Len(u) /\ DOMAIN u = 1 .. Len(u) /\ Len(u) \in Nat
  <2>1. DOMAIN w = DOMAIN u
    BY <1>10
  <2>2. Len(w) \in Nat /\ DOMAIN w = 1 .. Len(w) /\ Len(u) \in Nat /\ DOMAIN u = 1 .. Len(u)
    BY <1>7, TreeHas
  <2>3. \A m, n \in Nat : 1 .. m = 1 .. n => m = n
    <3>1. \A m, n \in Nat : m > n => m \in 1 .. m /\ m \notin 1 .. n
      OBVIOUS
    <3> QED
      BY <3>1
  <2> QED
    BY <2>1, <2>2, <2>3
<1>13. ASSUME NEW i \in DOMAIN u, i \in found
       PROVE  /\ w[i].parent = u[i].parent
              /\ OwnNode(Append(FullPath(u, u[i].parent), w[i].name), w[i])
  <2>1. PICK n \in Nodes(FileNames, Data) : n = u[i]
    BY <1>7, TreeHas
  <2>2. w[i] = RecordNode(n, inode)
    BY <1>10, <1>13, <2>1
  <2>3. PICK A \in Seq(FileNames) : A = FullPath(u, u[i].parent)
    BY <1>7, NodeHas
  <2>4. P = Append(A, n.name)
    <3>1. FullPath(u, i) = Append(FullPath(u, u[i].parent), u[i].name)
      BY <1>7, NodeHas
    <3> QED
      BY <1>11, <1>13, <2>1, <2>3, <3>1
  <2>5. OwnNode(P, n)
    BY <1>6, <1>11, <1>13, <2>1 DEF OwnTree
  <2>6. w[i].parent = n.parent
    BY <2>2, RecordNodeIn
  <2>7. OwnNode(Append(A, w[i].name), w[i])
    BY <1>1, <1>2, <2>2, <2>4, <2>5, RecordNodeOwn
  <2> QED
    BY <2>1, <2>3, <2>6, <2>7
<1>14. PICK S : S = {i \in DOMAIN u : i \in found /\ w[i].name # u[i].name}
  OBVIOUS
<1>15. \A i \in DOMAIN u : w[i].parent = u[i].parent /\ (i \notin S => w[i].name = u[i].name)
  <2>1. ASSUME NEW i \in DOMAIN u PROVE w[i].parent = u[i].parent /\ (i \notin S => w[i].name = u[i].name)
    <3>1. CASE i \in found
      BY <1>13, <1>14, <3>1
    <3>2. CASE i \notin found
      BY <1>10, <3>2
    <3> QED
      BY <3>1, <3>2
  <2> QED
    BY <2>1
<1>16. ASSUME NEW i \in DOMAIN u PROVE u[i].parent \notin S
  <2> SUFFICES ASSUME u[i].parent \in S PROVE FALSE
    OBVIOUS
  <2>1. PICK p \in DOMAIN u : p = u[i].parent /\ p \in found /\ w[p].name # u[p].name
    BY <1>14
  <2>2. Opaque(P) /\ FullPath(u, p) = P
    BY <1>2, <1>11, <2>1
  <2>3. p # Root
    BY <1>12, <2>1 DEF Root
  <2> QED
    BY <1>2, <1>6, <2>1, <2>2, <2>3, NothingBelow
<1>17. /\ \A i \in 0 .. Len(u) : i \notin S => FullPath(w, i) = FullPath(u, i)
       /\ \A i \in DOMAIN u : FullPath(w, i) = Append(FullPath(u, u[i].parent), w[i].name)
  <2>1. \A i \in DOMAIN u : w[i].parent = u[i].parent /\ u[i].parent \notin S
    BY <1>15, <1>16
  <2>2. \A i \in DOMAIN u : i \notin S => w[i].name = u[i].name
    BY <1>15
  <2>3. Len(w) = Len(u)
    BY <1>12
  <2> QED
    <3>1. Retitled(u, w, S)
      BY <2>1, <2>2, <2>3 DEF Retitled
    <3> QED
      BY <1>7, <3>1, OthersKeepPaths
<1>18. ASSUME NEW i \in DOMAIN w PROVE OwnNode(FullPath(w, i), w[i])
  <2>1. i \in DOMAIN u /\ i \in 0 .. Len(u)
    BY <1>12
  <2>2. CASE i \in found
    BY <1>13, <1>17, <2>1, <2>2
  <2>3. CASE i \notin found
    <3>1. w[i] = u[i] /\ i \notin S
      BY <1>10, <1>14, <2>1, <2>3
    <3>2. FullPath(w, i) = FullPath(u, i)
      BY <1>17, <2>1, <3>1
    <3>3. OwnNode(FullPath(u, i), u[i])
      BY <1>6, <2>1 DEF OwnTree
    <3> QED
      BY <3>1, <3>2, <3>3
  <2> QED
    BY <2>2, <2>3
<1> QED
  BY <1>8, <1>18 DEF OwnTree

\* scanner_deep_ext meets no NTFS volume.
LEMMA NoClustersOwn ==
  ASSUME volume.kind # "ntfs", NEW t
  PROVE  OwnTree(t) <=> \A i \in DOMAIN t : t[i].clusters = NoSource
  BY DEF OwnTree, OwnNode, Own

LEMMA AddInodeOwn ==
  ASSUME volume \in Volumes, Ordinary, volume.kind # "ntfs", NEW t \in ScanTrees, OwnTree(t),
         NEW n \in DOMAIN volume.inodes
  PROVE  OwnTree(AddInode(t, n))
<1>1. PICK inode \in InodeSet : inode = volume.inodes[n] /\ n \in Nat
  BY VolumeHas, Elements
<1>2. PICK P \in Seq(FileNames) : P = InodePath(n) /\ P # <<>>
  <2>1. PICK name \in FileNames : name = <<inode.stem, IF inode.dir THEN "dir" ELSE "file">>
    <3>1. inode.stem \in Words /\ {"dir", "file"} \subseteq Words
      BY WordsAssumption DEF InodeSet
    <3>2. <<inode.stem, IF inode.dir THEN "dir" ELSE "file">> \in FileNames
      BY <3>1 DEF FileNames
    <3> QED
      BY <3>2
  <2>2. <<Results, name>> \in Seq(FileNames) /\ <<Results, name>> # <<>>
    BY SpecialNames
  <2> QED
    BY <1>1, <2>1, <2>2 DEF InodePath
<1>3. PICK item \in Items(Data) : item = Item(inode.dir, TRUE, inode.size, <<"inode", n>>)
  <2>1. <<"inode", n>> \in Data /\ inode.dir \in BOOLEAN /\ inode.size \in Nat
    BY <1>1 DEF Data, InodeSet
  <2> QED
    BY <2>1, ItemIn
<1>4. PICK u \in ScanTrees : u = InodeAdded(t, n) /\ u = AddPath(t, P, item)
  <2>1. AddPath(t, P, item) \in ScanTrees
    BY NoSourceIsData, AddPathIn DEF ScanTrees
  <2>2. InodeAdded(t, n) = AddPath(t, P, item)
    BY <1>1, <1>2, <1>3 DEF InodeAdded
  <2> QED
    BY <2>1, <2>2
<1>5. OwnTree(u)
  <2>1. Own(P, item.dir, item.size, item.src, NoSource)
    BY DEF Own
  <2> QED
    BY <1>2, <1>4, <2>1, AddPathOwn
<1>6. AddInode(t, n) = [i \in DOMAIN u |-> IF i \in FindPath(u, InodePath(n))
                                           THEN InodeNode(u[i], inode) ELSE u[i]]
  BY <1>1, <1>4, AddInodeIs
<1>7. \A i \in DOMAIN u : u[i] \in Nodes(FileNames, Data) /\ u[i].clusters = NoSource
  <2>1. u \in Trees(FileNames, Data)
    BY DEF ScanTrees
  <2> QED
    BY <1>5, <2>1, TreeHas, NoClustersOwn
<1>8. \A i \in DOMAIN u : InodeNode(u[i], inode).clusters = NoSource
  BY <1>7 DEF InodeNode, Nodes
<1>9. \A i \in DOMAIN AddInode(t, n) : AddInode(t, n)[i].clusters = NoSource
  BY <1>6, <1>7, <1>8
<1> QED
  BY <1>9, NoClustersOwn

LEMMA ResultOwn ==
  ASSUME NEW name \in FileNames, NEW dir, NEW size, NEW src
  PROVE  /\ <<Results, name>> \in Seq(FileNames) /\ <<Results, name>> # <<>>
         /\ Own(<<Results, name>>, dir, size, src, NoSource)
<1>1. PICK P \in Seq(FileNames) : P = <<Results, name>> /\ Len(P) = 2 /\ P[1] = Results
  <2>1. <<Results, name>> \in Seq(FileNames)
    BY SpecialNames
  <2>2. Len(<<Results, name>>) = 2 /\ <<Results, name>>[1] = Results
    OBVIOUS
  <2> QED
    BY <2>1, <2>2
<1>2. Results # Orphans
  BY DEF Results, Orphans
<1>3. Own(P, dir, size, src, NoSource)
  BY <1>1, <1>2 DEF Own
<1> QED
  BY <1>1, <1>3

LEMMA AddClusterOwn ==
  ASSUME volume \in Volumes, Ordinary, NEW t \in ScanTrees, OwnTree(t), NEW c \in DOMAIN volume.clusters
  PROVE  OwnTree(AddCluster(t, c))
<1>1. volume.clusters[c] \in ClusterSet /\ c \in Nat
  BY VolumeHas, Elements
<1>2. PICK es \in Seq(FoundSet) : es = volume.clusters[c].entries
  BY <1>1 DEF ClusterSet
<1>3. PICK L \in Nat : L = Len(es)
  OBVIOUS
<1>4. PICK added \in [0 .. L -> ScanTrees] :
        /\ added[0] = t
        /\ \A k \in 1 .. L : added[k] = AddPath(added[k - 1], ClusterPath(c, k), ClusterItem(c, k))
        /\ AddCluster(t, c) = added[L]
  BY <1>2, <1>3, AddClusterBuilt
<1> DEFINE bad == {n \in 0 .. L : ~OwnTree(added[n])}
<1>5. bad = {}
  <2> SUFFICES ASSUME bad # {} PROVE FALSE
    OBVIOUS
  <2>1. PICK m \in bad : \A k \in bad : m <= k
    <3>1. bad \in SUBSET Nat
      OBVIOUS
    <3> HIDE DEF bad
    <3> QED
      BY <3>1, LeastNat
  <2>2. m \in 0 .. L /\ ~OwnTree(added[m])
    OBVIOUS
  <2>3. m # 0
    BY <1>4, <2>2
  <2>4. m \in 1 .. L /\ m - 1 \in 0 .. L /\ ~(m <= m - 1) /\ m \in Nat
    BY <1>3, <2>2, <2>3
  <2>5. OwnTree(added[m - 1])
    BY <2>1, <2>4
  <2>6. PICK u \in ScanTrees : u = added[m - 1]
    BY <1>4, <2>4
  <2>7. PICK e \in FoundSet : e = es[m]
    BY <1>3, <2>4
  <2>8. PICK item \in Items(Data) : item = ClusterItem(c, m)
    <3>1. <<"cluster", c, m>> \in Data /\ e.dir \in BOOLEAN /\ e.size \in Nat
      BY <1>1, <2>4 DEF Data, FoundSet
    <3> QED
      BY <1>2, <2>7, <3>1, ItemIn DEF ClusterItem
  <2>10. PICK P \in Seq(FileNames) : P = ClusterPath(c, m) /\ P # <<>>
                                     /\ Own(P, item.dir, item.size, item.src, NoSource)
    <3>1. ClusterPath(c, m) = <<Results, e.name>> /\ e.name \in FileNames
      BY <1>2, <2>7 DEF ClusterPath, FoundSet
    <3> QED
      BY <3>1, ResultOwn
  <2>11. OwnTree(AddPath(u, P, item))
    BY <2>5, <2>6, <2>10, AddPathOwn
  <2> QED
    BY <1>4, <2>2, <2>4, <2>6, <2>8, <2>10, <2>11
<1>6. L \in 0 .. L
  BY <1>3
<1> QED
  BY <1>4, <1>5, <1>6

\* session_write_node_rec.
LEMMA EntryOwn ==
  ASSUME volume \in Volumes, Ordinary, MaxChain >= 2, NEW t \in ScanTrees, OwnTree(t), NEW i \in DOMAIN t
  PROVE  OwnEntry(Entry(t, i))
<1>1. t \in Trees(FileNames, Data)
  BY DEF ScanTrees
<1>2. PICK P \in Seq(FileNames) : P = FullPath(t, i) /\ P # <<>> /\ Len(P) \in Nat \ {0}
  <2>1. FullPath(t, i) \in Seq(FileNames) /\ FullPath(t, i) # <<>>
    BY <1>1, NodeHas
  <2> QED
    BY <2>1, EmptySeq
<1>3. PICK n \in Nodes(FileNames, Data) : n = t[i]
  BY <1>1, TreeHas
<1>4. Own(P, n.dir, n.size, n.src, n.clusters)
  BY <1>2, <1>3 DEF OwnTree, OwnNode
<1>5. PICK Q : Q = GetPath(t, i)
  OBVIOUS
<1>6. Q = IF Len(P) > MaxChain THEN SubSeq(P, Len(P) - MaxChain + 1, Len(P)) ELSE P
  BY <1>2, <1>5, GetPathIs
<1>7. Q # <<>> /\ Own(Q, n.dir, n.size, n.src, n.clusters)
  <2>1. CASE ~(Len(P) > MaxChain)
    BY <1>2, <1>4, <1>6, <2>1
  <2>2. CASE Len(P) > MaxChain
    <3>1. MaxChain \in Nat /\ Len(P) - MaxChain + 1 \in 1 .. Len(P)
      BY <1>2, <2>2, ChainAssumption
    <3>2. Q \in Seq(FileNames) /\ Len(Q) = MaxChain /\ \A j \in 1 .. MaxChain : Q[j] = P[Len(P) - MaxChain + j]
      <4>1. Q = SubSeq(P, Len(P) - MaxChain + 1, Len(P))
        BY <1>6, <2>2
      <4>2. PICK m \in 1 .. Len(P) : m = Len(P) - MaxChain + 1
        BY <3>1
      <4>3. Q \in Seq(FileNames) /\ Len(Q) = Len(P) - m + 1 /\ \A j \in 1 .. Len(P) - m + 1 : Q[j] = P[m + j - 1]
        <5>1. Q = SubSeq(P, m, Len(P))
          BY <4>1, <4>2
        <5>2. \A j \in m .. Len(P) : P[j] \in FileNames
          BY <1>2
        <5> QED
          BY <1>2, <5>1, <5>2, SubSeqProperties
      <4>4. Len(P) - m + 1 = MaxChain /\ \A j \in 1 .. MaxChain : m + j - 1 = Len(P) - MaxChain + j
        BY <1>2, <3>1, <4>2
      <4> QED
        BY <4>3, <4>4
    <3>3. ~(volume.kind = "ntfs" /\ P[1] = Orphans)
      <4> SUFFICES ASSUME volume.kind = "ntfs", P[1] = Orphans PROVE FALSE
        OBVIOUS
      <4>1. CASE n.src = NoSource
        <5>1. Folder(P)
          BY <1>4, <4>1 DEF Own
        <5>2. Len(P) \in 1 .. MaxChain - 1
          BY <5>1, FolderHas
        <5> QED
          BY <2>2, <3>1, <5>2
      <4>2. CASE n.src # NoSource
        <5>1. PICK j \in Sires(P) : TRUE
          BY <1>4, <4>2 DEF Own
        <5>2. PICK m \in Streams : P \in Aliases(m)
          BY <5>1 DEF Sires
        <5>3. Len(P) \in 2 .. MaxChain
          BY <5>2, AliasHas
        <5> QED
          BY <2>2, <3>1, <5>3
      <4> QED
        BY <4>1, <4>2
    <3>4. n.clusters = NoSource
      BY <1>4, <3>3 DEF Own
    <3>5. volume.kind = "ntfs" => \A j \in 1 .. Len(Q) : Q[j] # Orphans
      <4>1. ASSUME volume.kind = "ntfs", NEW j \in 1 .. Len(Q) PROVE Q[j] # Orphans
        <5>1. PICK l \in 1 .. Len(P) : l = Len(P) - MaxChain + j
          <6>1. Len(P) - MaxChain + j \in 1 .. Len(P)
            BY <1>2, <2>2, <3>1, <3>2
          <6> QED
            BY <6>1
        <5>2. ~(Len(P) <= 2)
          BY <1>2, <2>2, <3>1
        <5>3. P[l] # Orphans
          BY <1>4, <3>3, <4>1, <5>2 DEF Own
        <5> QED
          BY <3>2, <5>1, <5>3
      <4> QED
        BY <4>1
    <3>6. Q # <<>> /\ (volume.kind = "ntfs" => Q[1] # Orphans)
      BY <3>1, <3>2, <3>5
    <3> QED
      BY <3>4, <3>5, <3>6 DEF Own
  <2> QED
    BY <2>1, <2>2
<1>8. PICK e : e = Entry(t, i)
  OBVIOUS
<1>9. e.path = Q /\ e.clusters = n.clusters /\ e.item.dir = n.dir /\ e.item.size = n.size /\ e.item.src = n.src
  BY <1>3, <1>5, <1>8 DEF Entry, Item
<1> QED
  BY <1>7, <1>8, <1>9 DEF OwnEntry

LEMMA ImageOwn ==
  ASSUME volume \in Volumes, Ordinary, MaxChain >= 2, NEW t \in ScanTrees, OwnTree(t), NEW completed
  PROVE  OwnEntries(Image(t, completed).entries)
<1>1. PICK x \in Seq(DOMAIN t) : Serialize(t) = Entries(t, x)
  BY SavedInOrder DEF ScanTrees
<1>2. \A k \in 1 .. Len(x) : OwnEntry(Entry(t, x[k]))
  <2>1. \A k \in 1 .. Len(x) : x[k] \in DOMAIN t
    OBVIOUS
  <2> QED
    BY <2>1, EntryOwn
<1>3. OwnEntries(Entries(t, x))
  BY <1>2 DEF OwnEntries, Entries
<1> QED
  BY <1>1, <1>3 DEF Image

LEMMA SaveOwn ==
  ASSUME volume \in Volumes, Ordinary, MaxChain >= 2, NEW t \in ScanTrees, OwnTree(t),
         NEW completed \in BOOLEAN, OwnEntries(file.entries), Save(t, completed)
  PROVE  OwnEntries(file'.entries)
<1>1. PICK image : image = Image(t, completed) /\ FileOK(image) /\ OwnEntries(image.entries)
  BY ImageOK, ImageOwn
<1>2. OwnEntries(NoSession.entries) /\ OwnEntries(Unreadable.entries)
  <2>1. NoSession.entries = <<>> /\ Unreadable.entries = <<>>
    BY DEF NoSession, Unreadable
  <2>2. OwnEntries(<<>>)
    BY DEF OwnEntries
  <2> QED
    BY <2>1, <2>2
<1>3. ASSUME NEW f \in Torn(image) PROVE OwnEntries(f.entries)
  <2>1. CASE f = Unreadable
    BY <1>2, <2>1
  <2>2. CASE f # Unreadable
    <3>1. PICK k \in 0 .. Len(image.entries) - 1 : f = [image EXCEPT !.entries = SubSeq(@, 1, k)]
      BY <2>2 DEF Torn
    <3>2. PICK entries \in Seq(SessionEntries) : entries = image.entries
      BY <1>1 DEF FileOK
    <3>3. k \in 0 .. Len(entries)
      BY <3>1, <3>2
    <3>4. Len(SubSeq(entries, 1, k)) = k /\ SubSeq(entries, 1, k) \in Seq(SessionEntries)
          /\ \A i \in 1 .. k : SubSeq(entries, 1, k)[i] = entries[i]
      BY <3>3, PrefixIs
    <3>5. f.entries = SubSeq(entries, 1, k)
      BY <1>1, <3>1, <3>2 DEF FileOK
    <3>6. \A i \in DOMAIN entries : OwnEntry(entries[i])
      BY <1>1, <3>2 DEF OwnEntries
    <3>7. \A i \in DOMAIN f.entries : i \in 1 .. k /\ i \in DOMAIN entries
      BY <3>3, <3>4, <3>5
    <3> QED
      BY <3>4, <3>5, <3>6, <3>7 DEF OwnEntries
  <2> QED
    BY <2>1, <2>2
<1>4. file' = image \/ file' = file \/ file' = NoSession \/ file' \in Torn(image)
  BY <1>1 DEF Save
<1> QED
  BY <1>1, <1>2, <1>3, <1>4

LEMMA ProgressOwn ==
  ASSUME volume \in Volumes, Ordinary, MaxChain >= 2, NEW t \in ScanTrees, OwnTree(t),
         OwnEntries(file.entries), NEW n, Progress(t) \/ ProgressAfter(n, t)
  PROVE  OwnEntries(file'.entries)
<1>1. CASE UNCHANGED <<file, damaged>>
  BY <1>1
<1>2. CASE Save(t, FALSE)
  <2>1. FALSE \in BOOLEAN
    OBVIOUS
  <2> QED
    BY <1>2, <2>1, SaveOwn
<1> QED
  BY <1>1, <1>2 DEF Progress, ProgressAfter

\* The walk meets no name of the orphans' directory.
Listable(path) == \A n \in DOMAIN path : path[n] # Orphans
Walking(s) == \A i \in DOMAIN s : Listable(s[i].path)

Phased(phase) ==
  /\ phase = "mft" => volume.kind = "ntfs"
  /\ phase \in {"inodes", "carve"} => volume.kind # "ntfs"

Held(t, f, s, phase) == OwnTree(t) /\ OwnEntries(f.entries) /\ Walking(s) /\ Phased(phase)

Held0 == Typed /\ Ordinary /\ MaxChain >= 2 /\ Held(tree, file, stack, pc)

LEMMA HeldHas ==
  ASSUME Held0
  PROVE  /\ Typed /\ volume \in Volumes /\ Ordinary /\ MaxChain >= 2
         /\ tree \in ScanTrees /\ OwnTree(tree) /\ OwnEntries(file.entries) /\ Walking(stack) /\ Phased(pc)
         /\ StackOK /\ ClustersOK /\ FileOK(file) /\ at \in Nat
  BY DEF Held0, Held, Typed

LEMMA PhasesHeld == Phased(DeepPhase) /\ Phased(ListPhase) /\ Phased("end") /\ Phased("walk") /\ Phased("idle")
                    /\ Phased("init")
  BY DEF Phased, DeepPhase, ListPhase

LEMMA StartOwn ==
  ASSUME Held0, Start \/ Resume
  PROVE  Held(tree', file', stack', pc')
<1>1. UNCHANGED <<volume, file, stack>> /\ pc' = "init"
  BY DEF Start, Resume, Run
<1>2. OwnTree(tree')
  <2>1. CASE Start
    <3>1. tree' = <<>>
      BY <2>1 DEF Start, Run
    <3>2. OwnTree(<<>>)
      BY DEF OwnTree
    <3> QED
      BY <3>1, <3>2
  <2>2. CASE Resume
    <3>1. file.entries \in Seq(SessionEntries)
      BY HeldHas DEF FileOK
    <3>2. Loads(file.entries, Junk) = {Load(file.entries)}
      BY <3>1, HeldHas, OwnsNeverSlip, LoadsOfTree
    <3>3. tree' = Load(file.entries)
      BY <2>2, <3>2 DEF Resume, Run
    <3> QED
      BY <3>1, <3>3, HeldHas, LoadOwn
  <2> QED
    BY <2>1, <2>2
<1> QED
  BY <1>1, <1>2, HeldHas, PhasesHeld DEF Held

LEMMA InitFsOwn ==
  ASSUME Held0, InitFs
  PROVE  Held(tree', file', stack', pc')
<1>1. UNCHANGED <<tree, file>> /\ pc' \in {"end", "walk"}
      /\ (stack' = stack \/ stack' = <<>> \/ stack' = <<[inode |-> volume.root, path |-> <<>>, next |-> 1]>>)
  BY DEF InitFs, Goto
<1>2. Walking(stack')
  <2>1. CASE stack' = <<>>
    BY <2>1 DEF Walking
  <2>2. CASE stack' = <<[inode |-> volume.root, path |-> <<>>, next |-> 1]>>
    BY <2>2 DEF Walking, Listable
  <2> QED
    BY <1>1, <2>1, <2>2, HeldHas
<1> QED
  BY <1>1, <1>2, HeldHas, PhasesHeld DEF Held

LEMMA WalkEntryOwn ==
  ASSUME Held0, WalkEntry
  PROVE  Held(tree', file', stack', pc')
<1>1. UNCHANGED pc /\ stack # <<>> /\ Top.next <= Len(Listed(Top))
  BY DEF WalkEntry
<1>2. volume \in Volumes /\ StackOK /\ Ordinary /\ tree \in ScanTrees
  BY HeldHas
<1>3. /\ Listed(Top) \in Seq(DirEntries) /\ Top.next \in 1 .. Len(Listed(Top))
      /\ Top.path \in Seq(FileNames) /\ Top.inode \in DOMAIN volume.dirs
      /\ Len(stack) \in DOMAIN stack /\ DOMAIN stack = 1 .. Len(stack) /\ Len(stack) \in Nat
  <2>1. /\ Listed(Top) \in Seq(DirEntries) /\ Top.next \in 1 .. Len(Listed(Top)) + 1
        /\ Top.path \in Seq(FileNames) /\ Top.inode \in DOMAIN volume.dirs
        /\ Len(stack) \in DOMAIN stack
    BY <1>1, <1>2, TopFrame
  <2>2. PICK len \in Nat : len = Len(Listed(Top))
    BY <2>1
  <2>3. stack \in Seq(Frames)
    BY <1>2 DEF StackOK
  <2>4. DOMAIN stack = 1 .. Len(stack) /\ Len(stack) \in Nat
    BY <2>3
  <2> QED
    BY <1>1, <2>1, <2>2, <2>4
<1>4. PICK e \in DirEntries : e = Listed(Top)[Top.next] /\ e.name # Orphans
  <2>1. PICK list \in Seq(DirEntries) : list = Listed(Top) /\ list = volume.dirs[Top.inode]
    BY <1>3 DEF Listed
  <2>2. Top.next \in DOMAIN list
    BY <1>3, <2>1
  <2>3. list[Top.next] \in DirEntries /\ list[Top.next] \in Range(list)
    BY <2>2 DEF Range
  <2>4. list[Top.next].name # Orphans
    BY <1>2, <1>3, <2>1, <2>3 DEF Ordinary
  <2> QED
    BY <2>1, <2>3, <2>4
<1>5. e.name \in FileNames /\ e.inode \in Nat /\ e.dir \in BOOLEAN /\ e.deleted \in BOOLEAN /\ e.size \in Nat
  BY DEF DirEntries
<1>6. Listable(Top.path)
  <2>1. Top = stack[Len(stack)]
    BY DEF Top
  <2> QED
    BY <1>3, <2>1, HeldHas DEF Walking
<1>7. PICK path : path = Append(Top.path, e.name)
  OBVIOUS
<1>8. path \in Seq(FileNames) /\ path # <<>> /\ Listable(path)
  <2>1. PICK above \in Seq(FileNames), name \in FileNames : above = Top.path /\ name = e.name
    BY <1>3, <1>5
  <2>2. /\ path \in Seq(FileNames) /\ Len(path) = Len(above) + 1 /\ Len(above) \in Nat
        /\ (\A n \in 1 .. Len(above) : path[n] = above[n]) /\ path[Len(above) + 1] = name
    BY <1>7, <2>1, AppendProperties
  <2>3. \A n \in DOMAIN path : n \in 1 .. Len(above) \/ n = Len(above) + 1
    BY <2>2
  <2> QED
    BY <1>4, <1>6, <2>1, <2>2, <2>3 DEF Listable
<1>9. PICK item \in Items(Data) : item = Item(e.dir, e.deleted, e.size, <<"walk", e.inode>>)
  <2>1. <<"walk", e.inode>> \in Data
    BY <1>5 DEF Data
  <2> QED
    BY <1>5, <2>1, ItemIn
<1>10. PICK t \in ScanTrees : t = AddPath(tree, path, item)
  BY <1>2, <1>8, NoSourceIsData, AddPathIn DEF ScanTrees
<1>11. OwnTree(t)
  <2>1. 1 \in DOMAIN path /\ DOMAIN path = 1 .. Len(path)
    <3>1. Len(path) \in Nat \ {0}
      BY <1>8, EmptySeq
    <3> QED
      BY <1>8, <3>1
  <2>2. Own(path, item.dir, item.size, item.src, NoSource)
    BY <1>8, <2>1 DEF Own, Listable
  <2> QED
    BY <1>2, <1>8, <1>10, <2>2, HeldHas, AddPathOwn
<1>12. tree' = t /\ ProgressAfter(total + 1, t)
  BY <1>4, <1>7, <1>9, <1>10 DEF WalkEntry
<1>13. OwnEntries(file'.entries)
  BY <1>11, <1>12, HeldHas, ProgressOwn
<1>14. Walking(stack')
  <2> DEFINE stepped == [stack EXCEPT ![Len(stack)].next = @ + 1]
             frame == [inode |-> e.inode, path |-> path, next |-> 1]
  <2>1. stack' = stepped \/ stack' = Append(stepped, frame)
    BY <1>4, <1>7 DEF WalkEntry
  <2>2. DOMAIN stepped = DOMAIN stack /\ \A i \in DOMAIN stack : stepped[i].path = stack[i].path
    <3>1. \A i \in DOMAIN stack : stack[i] \in Frames
      BY <1>2 DEF StackOK
    <3> QED
      BY <1>3, <3>1 DEF Frames
  <2>3. PICK s : s = stepped
    OBVIOUS
  <2>4. Walking(s) /\ DOMAIN s = 1 .. Len(stack)
    BY <1>3, <2>2, <2>3, HeldHas DEF Walking
  <2>5. PICK f : f = frame
    OBVIOUS
  <2>9. f.path = path
    BY <2>5
  <2>6. \E F : s \in Seq(F) /\ f \in F
    <3>1. stepped = [i \in 1 .. Len(stack) |-> stepped[i]]
      BY <1>3
    <3> DEFINE F == {s[i] : i \in 1 .. Len(stack)} \cup {f}
    <3>2. s \in [1 .. Len(stack) -> F]
      BY <2>3, <3>1
    <3>3. s \in Seq(F)
      BY <1>3, <3>2
    <3> QED
      BY <3>3
  <2>7. PICK F : s \in Seq(F) /\ f \in F
    BY <2>6
  <2>8. Walking(Append(s, f))
    <3>1. PICK r : r = Append(s, f)
      OBVIOUS
    <3>2. r \in Seq(F) /\ Len(r) = Len(s) + 1 /\ (\A i \in 1 .. Len(s) : r[i] = s[i]) /\ r[Len(s) + 1] = f
          /\ Len(s) \in Nat /\ DOMAIN s = 1 .. Len(s)
      BY <2>7, <3>1, AppendProperties
    <3>3. \A i \in DOMAIN r : i \in 1 .. Len(s) \/ i = Len(s) + 1
      BY <3>2
    <3>4. \A i \in 1 .. Len(s) : Listable(s[i].path)
      BY <2>4, <3>2 DEF Walking
    <3>5. Walking(r)
      BY <1>8, <2>9, <3>2, <3>3, <3>4 DEF Walking
    <3> QED
      BY <3>1, <3>5
  <2> HIDE DEF stepped, frame
  <2> QED
    BY <2>1, <2>3, <2>4, <2>5, <2>8
<1> QED
  BY <1>1, <1>11, <1>12, <1>13, <1>14, HeldHas DEF Held

LEMMA LeaveDirOwn ==
  ASSUME Held0, LeaveDir
  PROVE  Held(tree', file', stack', pc')
<1>1. UNCHANGED <<pc, tree, file>> /\ stack # <<>> /\ stack' = Front(stack)
  BY DEF LeaveDir
<1>2. stack \in Seq(Frames)
  BY HeldHas DEF StackOK
<1>3. /\ stack' \in Seq(Frames) /\ Len(stack') = Len(stack) - 1 /\ Len(stack) \in Nat \ {0}
      /\ \A i \in 1 .. Len(stack) - 1 : stack'[i] = stack[i]
  BY <1>1, <1>2, FrontAndLast
<1>4. \A i \in DOMAIN stack' : stack'[i] = stack[i] /\ i \in DOMAIN stack
  BY <1>2, <1>3
<1>5. Walking(stack')
  BY <1>4, HeldHas DEF Walking
<1> QED
  BY <1>1, <1>5, HeldHas DEF Held

LEMMA MftRecordOwn ==
  ASSUME Held0, MftRecord
  PROVE  Held(tree', file', stack', pc')
<1>1. UNCHANGED stack /\ pc = "mft"
  BY DEF MftRecord
<1>2. volume.kind = "ntfs" /\ volume \in Volumes /\ tree \in ScanTrees /\ at \in Nat
  BY <1>1, HeldHas DEF Phased
<1>3. CASE at < Len(volume.mft) /\ Recoverable(at + 1)
  <2>1. at + 1 \in Streams /\ at + 1 \in DOMAIN volume.mft
    <3>1. volume.mft \in Seq(StreamSet)
      BY <1>2, VolumeHas
    <3>2. at + 1 \in DOMAIN volume.mft
      BY <1>2, <1>3, <3>1
    <3> QED
      BY <1>3, <3>2 DEF Streams
  <2>2. PICK t \in ScanTrees : t = AddRecord(tree, at + 1)
    BY <1>2, <2>1, AddRecordIn
  <2>3. OwnTree(t)
    BY <1>2, <2>1, <2>2, HeldHas, AddRecordOwn
  <2>4. tree' = t /\ ProgressAfter(total + 1, t) /\ UNCHANGED pc
    BY <1>2, <1>3, <2>2 DEF MftRecord
  <2>5. OwnEntries(file'.entries)
    BY <2>3, <2>4, HeldHas, ProgressOwn
  <2> QED
    BY <1>1, <2>3, <2>4, <2>5, HeldHas DEF Held
<1>4. CASE UNCHANGED <<tree, file>> /\ pc' \in {pc, DeepPhase}
  BY <1>1, <1>4, HeldHas, PhasesHeld DEF Held
<1>5. (at < Len(volume.mft) /\ Recoverable(at + 1)) \/ (UNCHANGED <<tree, file>> /\ pc' \in {pc, DeepPhase})
  BY DEF MftRecord, Goto
<1> QED
  BY <1>3, <1>4, <1>5

LEMMA ExtInodeOwn ==
  ASSUME Held0, ExtInode
  PROVE  Held(tree', file', stack', pc')
<1>1. UNCHANGED stack /\ pc = "inodes"
  BY DEF ExtInode
<1>2. volume.kind # "ntfs" /\ volume \in Volumes /\ tree \in ScanTrees /\ at \in Nat
  BY <1>1, HeldHas DEF Phased
<1>3. CASE at < LastInode /\ ~cancel
  <2>1. at + 1 \in DOMAIN volume.inodes
    <3>1. volume.inodes \in Seq(InodeSet)
      BY <1>2, VolumeHas
    <3>2. at < Len(volume.inodes) - 1 /\ Len(volume.inodes) \in Nat /\ DOMAIN volume.inodes = 1 .. Len(volume.inodes)
      BY <1>3, <3>1 DEF LastInode
    <3> QED
      BY <1>2, <3>2
  <2>2. OwnTree(AddInode(tree, at + 1))
    BY <1>2, <2>1, HeldHas, AddInodeOwn
  <2>3. tree' \in {tree, AddInode(tree, at + 1)} /\ Progress(tree) /\ UNCHANGED pc
    BY <1>3 DEF ExtInode
  <2>4. OwnEntries(file'.entries)
    BY <2>3, HeldHas, ProgressOwn
  <2> QED
    BY <1>1, <2>2, <2>3, <2>4, HeldHas DEF Held
<1>4. CASE ~(at < LastInode /\ ~cancel)
  <2>1. pc' = DeepPhase /\ UNCHANGED <<tree, file>>
    BY <1>4 DEF ExtInode, Goto
  <2> QED
    BY <1>1, <2>1, HeldHas, PhasesHeld DEF Held
<1> QED
  BY <1>3, <1>4

LEMMA LookAtOwn ==
  ASSUME Held0, LookAt
  PROVE  Held(tree', file', stack', pc')
<1>1. UNCHANGED <<pc, stack, file>> /\ batch # <<>> /\ tree' = AddCluster(tree, Head(batch))
  BY DEF LookAt
<1>2. PICK w \in Seq(DOMAIN volume.clusters) : w = batch
  BY HeldHas DEF ClustersOK
<1>3. Head(w) \in DOMAIN volume.clusters
  BY <1>1, <1>2, HeadTailProperties
<1>4. OwnTree(tree')
  BY <1>1, <1>2, <1>3, HeldHas, AddClusterOwn
<1> QED
  BY <1>1, <1>4, HeldHas DEF Held

LEMMA CarveFileOwn ==
  ASSUME Held0, CarveFile
  PROVE  Held(tree', file', stack', pc')
<1>1. UNCHANGED stack /\ pc = "carve"
  BY DEF CarveFile
<1>2. volume.kind # "ntfs" /\ volume \in Volumes /\ tree \in ScanTrees /\ at \in Nat
  BY <1>1, HeldHas DEF Phased
<1>3. CASE at < Len(volume.carved)
  <2>1. PICK name \in Seq(FileNames) : name = volume.carved[at + 1]
    <3>1. volume.carved \in Seq(Seq(FileNames))
      BY <1>2, VolumeHas
    <3>2. at + 1 \in DOMAIN volume.carved
      BY <1>2, <1>3, <3>1
    <3> QED
      BY <3>1, <3>2, Elements
  <2>2. PICK path \in Seq(FileNames) : path = <<Orphans>> \o volume.carved[at + 1] /\ path # <<>>
    <3>1. PICK p : p = <<Orphans>> \o name
      OBVIOUS
    <3>2. p \in Seq(FileNames) /\ Len(p) = Len(name) + 1 /\ Len(name) \in Nat
      BY <3>1, SpecialNames, HeadOn
    <3>3. p # <<>>
      BY <3>2
    <3> QED
      BY <2>1, <3>1, <3>2, <3>3
  <2>3. PICK item \in Items(Data) : item = Item(FALSE, TRUE, 1, <<"carve", at + 1>>)
    <3>1. <<"carve", at + 1>> \in Data
      BY <1>2 DEF Data
    <3> QED
      BY <3>1, ItemIn
  <2>4. PICK t \in ScanTrees : t = AddPath(tree, path, item)
    BY <1>2, NoSourceIsData, AddPathIn DEF ScanTrees
  <2>5. OwnTree(t)
    <3>1. Own(path, item.dir, item.size, item.src, NoSource)
      BY <1>2 DEF Own
    <3> QED
      BY <2>2, <2>4, <3>1, HeldHas, AddPathOwn
  <2>6. tree' = t /\ Progress(t) /\ UNCHANGED pc
    BY <1>3, <2>2, <2>3, <2>4 DEF CarveFile
  <2>7. OwnEntries(file'.entries)
    BY <2>5, <2>6, HeldHas, ProgressOwn
  <2> QED
    BY <1>1, <2>5, <2>6, <2>7, HeldHas DEF Held
<1>4. CASE ~(at < Len(volume.carved))
  <2>1. pc' = "end" /\ UNCHANGED <<tree, file>>
    BY <1>4 DEF CarveFile, Goto
  <2> QED
    BY <1>1, <2>1, HeldHas, PhasesHeld DEF Held
<1> QED
  BY <1>3, <1>4

LEMMA OtherStepsOwn ==
  ASSUME Held0,
         WalkDone \/ FatCluster \/ IndxCluster \/ ClustersDone \/ EndSession \/ PressCancel \/ Kill
         \/ UNCHANGED vars
  PROVE  Held(tree', file', stack', pc')
<1>1. CASE WalkDone
  <2>1. UNCHANGED <<tree, file, stack>> /\ pc' \in {"end", ListPhase}
    BY <1>1 DEF WalkDone, Goto
  <2> QED
    BY <2>1, HeldHas, PhasesHeld DEF Held
<1>2. CASE FatCluster \/ IndxCluster \/ PressCancel \/ UNCHANGED vars
  <2>1. UNCHANGED <<tree, file, stack, pc>>
    BY <1>2 DEF FatCluster, IndxCluster, PressCancel, vars
  <2> QED
    BY <2>1, HeldHas DEF Held
<1>3. CASE ClustersDone
  <2>1. UNCHANGED <<tree, file, stack>> /\ pc' \in {pc, "end"}
    BY <1>3 DEF ClustersDone, Goto
  <2> QED
    BY <2>1, HeldHas, PhasesHeld DEF Held
<1>4. CASE EndSession
  <2>1. UNCHANGED <<tree, stack>> /\ pc' = "idle" /\ (Save(tree, TRUE) \/ UNCHANGED file)
    BY <1>4 DEF EndSession
  <2>2. OwnEntries(file'.entries)
    <3>1. CASE Save(tree, TRUE)
      <4>1. TRUE \in BOOLEAN
        OBVIOUS
      <4> QED
        BY <3>1, <4>1, HeldHas, SaveOwn
    <3>2. CASE UNCHANGED file
      BY <3>2, HeldHas
    <3> QED
      BY <2>1, <3>1, <3>2
  <2> QED
    BY <2>1, <2>2, HeldHas, PhasesHeld DEF Held
<1>5. CASE Kill
  <2>1. UNCHANGED file /\ pc' = "idle" /\ stack' = <<>> /\ tree' = <<>>
    BY <1>5 DEF Kill
  <2>2. OwnTree(<<>>) /\ Walking(<<>>)
    BY DEF OwnTree, Walking
  <2> QED
    BY <2>1, <2>2, HeldHas, PhasesHeld DEF Held
<1> QED
  BY <1>1, <1>2, <1>3, <1>4, <1>5

\* The volume is never written, and neither is what is said of its streams.
LEMMA VolumeStays ==
  ASSUME UNCHANGED volume
  PROVE  /\ Ordinary' <=> Ordinary
         /\ \A t, f, s, phase : Held(t, f, s, phase)' <=> Held(t, f, s, phase)
<1>1. Streams' = Streams
  BY DEF Streams, Recoverable
<1>2. \A stream : Names(stream)' = Names(stream)
  BY DEF Names, GivenName
<1>3. Ordinary' <=> Ordinary
  BY <1>1, <1>2 DEF Ordinary
<1>4. \A j, k : Namesakes(j, k)' <=> Namesakes(j, k)
  BY <1>2 DEF Namesakes
<1>5. \A j, k : Kin(j, k)' <=> Kin(j, k)
  BY <1>1, <1>4 DEF Kin
<1>6. \A k : Aliases(k)' = Aliases(k)
  BY <1>2 DEF Aliases
<1>7. \A P : Sires(P)' = Sires(P)
  BY <1>1, <1>5, <1>6 DEF Sires
<1>8. \A P : Heirs(P)' = Heirs(P)
  BY <1>1, <1>5, <1>6 DEF Heirs
<1>9. \A P : Opaque(P)' <=> Opaque(P)
  BY <1>1, <1>6 DEF Opaque
<1>10. \A k : RecordPath(k)' = RecordPath(k)
  BY DEF RecordPath
<1>11. \A P : Folder(P)' <=> Folder(P)
  BY <1>1, <1>10 DEF Folder
<1>12. \A P, clusters : Filled(P, clusters)' <=> Filled(P, clusters)
  BY <1>8 DEF Filled
<1>13. \A P, dir, size, src, clusters : Own(P, dir, size, src, clusters)' <=> Own(P, dir, size, src, clusters)
  BY <1>7, <1>9, <1>11, <1>12 DEF Own
<1>14. \A t : OwnTree(t)' <=> OwnTree(t)
  BY <1>13 DEF OwnTree, OwnNode
<1>15. \A entries : OwnEntries(entries)' <=> OwnEntries(entries)
  BY <1>13 DEF OwnEntries, OwnEntry
<1>16. \A s : Walking(s)' <=> Walking(s)
  BY DEF Walking, Listable
<1>17. \A phase : Phased(phase)' <=> Phased(phase)
  BY DEF Phased
<1> QED
  BY <1>3, <1>14, <1>15, <1>16, <1>17 DEF Held

\* Where namesakes lead is closed.
LEMMA KinJoins ==
  ASSUME NEW j, NEW m \in Streams, NEW k, Kin(j, m), Kin(m, k)
  PROVE  Kin(j, k)
<1> SUFFICES ASSUME NEW S \in SUBSET Streams, j \in S,
                    \A a \in S, b \in Streams : Namesakes(a, b) => b \in S
             PROVE  k \in S
  BY DEF Kin
<1>1. m \in S
  BY DEF Kin
<1> QED
  BY <1>1 DEF Kin

\* A node with clusters of a record is among the orphans, and two streams have its path: one
\* that namesakes lead to from the stream of its data, one from which they lead to that of its
\* clusters.  As both have the path they are namesakes.
LEMMA HeldIsOwn ==
  ASSUME Typed, Ordinary, OwnTree(tree)
  PROVE  OwnClusters
<1> SUFFICES ASSUME NEW i \in DOMAIN tree, tree[i].clusters # NoSource, tree[i].clusters # <<"boot">>
             PROVE  /\ tree[i].src[1] = "mft"
                    /\ \E k \in Streams : Kin(tree[i].src[2], k)
                                          /\ tree[i].clusters = <<"data", volume.mft[k].inode>>
  BY DEF OwnClusters
<1>1. PICK P : P = FullPath(tree, i)
  OBVIOUS
<1>2. Own(P, tree[i].dir, tree[i].size, tree[i].src, tree[i].clusters)
  BY <1>1 DEF OwnTree, OwnNode
<1>3. PICK j \in Sires(P) : tree[i].src = <<"mft", j>>
  BY <1>2 DEF Own
<1>4. PICK k \in Heirs(P) : tree[i].clusters = <<"data", volume.mft[k].inode>>
  <2>1. Filled(P, tree[i].clusters)
    BY <1>2 DEF Own
  <2> QED
    BY <2>1 DEF Filled
<1>5. PICK m \in Streams : P \in Aliases(m) /\ Kin(j, m)
  BY DEF Sires
<1>6. k \in Streams /\ \E n \in Streams : P \in Aliases(n) /\ Kin(n, k)
  BY DEF Heirs
<1>7. PICK n \in Streams : P \in Aliases(n) /\ Kin(n, k)
  BY <1>6
<1>8. Namesakes(m, n)
  BY <1>5, <1>7, SharedAlias DEF Typed
<1>9. Kin(j, k)
  <2>1. Kin(j, n)
    BY <1>5, <1>8, KinThen
  <2> QED
    BY <1>7, <2>1, KinJoins
<1> QED
  BY <1>3, <1>4, <1>6, <1>9

\* Nothing in the session is misread, as no directory of the tree has clusters.
LEMMA HeldReadsBack ==
  ASSUME Typed, OwnTree(tree)
  PROVE  SavedReadsBack
<1>1. tree \in Trees(FileNames, Data) /\ NoSource \in Data
  BY NoSourceIsData DEF Typed, ScanTrees
<1>2. ~Slipping(tree)
  BY OwnTreeNeverSlips
<1>3. ASSUME NEW loaded \in Loads(Serialize(tree), Junk), NEW i \in DOMAIN tree, Alone(tree, i)
      PROVE  ReadBack(tree, loaded, i)
  BY <1>1, <1>2, <1>3, RoundTrip
<1> QED
  BY <1>3 DEF SavedReadsBack

\* The invariant: what is so of the tree is so of the session that a later run takes it from,
\* the walk stays away from the orphans, and the phase is one of the volume's kind.
OwnInv == Ordinary => Held(tree, file, stack, pc)

LEMMA InitOwn ==
  ASSUME Init
  PROVE  OwnInv
<1>1. tree = <<>> /\ stack = <<>> /\ file.entries = <<>> /\ pc = "idle"
  BY DEF Init, NoSession
<1>2. OwnTree(<<>>) /\ OwnEntries(<<>>) /\ Walking(<<>>)
  BY DEF OwnTree, OwnEntries, Walking
<1> QED
  BY <1>1, <1>2, PhasesHeld DEF OwnInv, Held

LEMMA NextOwn ==
  ASSUME Typed, MaxChain >= 2, OwnInv, [Next]_vars
  PROVE  OwnInv'
<1>1. UNCHANGED volume
  <2>1. CASE Start \/ Resume
    BY <2>1 DEF Start, Resume, Run
  <2>2. CASE Work
    BY <2>2 DEF Work, InitFs, WalkEntry, LeaveDir, WalkDone, MftRecord, ExtInode, LookAt, FatCluster,
                IndxCluster, ClustersDone, CarveFile, EndSession
  <2>3. CASE PressCancel \/ Kill \/ UNCHANGED vars
    BY <2>3 DEF PressCancel, Kill, vars
  <2> QED
    BY <2>1, <2>2, <2>3 DEF Next
<1>2. ASSUME Ordinary PROVE Held(tree', file', stack', pc')
  <2>1. Held0
    BY <1>2 DEF OwnInv, Held0
  <2>2. CASE Start \/ Resume
    BY <2>1, <2>2, StartOwn
  <2>3. CASE InitFs
    BY <2>1, <2>3, InitFsOwn
  <2>4. CASE WalkEntry
    BY <2>1, <2>4, WalkEntryOwn
  <2>5. CASE LeaveDir
    BY <2>1, <2>5, LeaveDirOwn
  <2>6. CASE MftRecord
    BY <2>1, <2>6, MftRecordOwn
  <2>7. CASE ExtInode
    BY <2>1, <2>7, ExtInodeOwn
  <2>8. CASE LookAt
    BY <2>1, <2>8, LookAtOwn
  <2>9. CASE CarveFile
    BY <2>1, <2>9, CarveFileOwn
  <2>10. CASE WalkDone \/ FatCluster \/ IndxCluster \/ ClustersDone \/ EndSession \/ PressCancel \/ Kill
              \/ UNCHANGED vars
    BY <2>1, <2>10, OtherStepsOwn
  <2> QED
    BY <2>2, <2>3, <2>4, <2>5, <2>6, <2>7, <2>8, <2>9, <2>10 DEF Next, Work
<1>3. Ordinary' <=> Ordinary
  BY <1>1, VolumeStays
<1>4. Held(tree, file, stack, pc)' <=> Held(tree', file', stack', pc')
  BY <1>1, VolumeStays DEF Held, OwnTree, OwnNode, OwnEntries, OwnEntry, Walking, Listable, Phased
<1> QED
  BY <1>2, <1>3, <1>4 DEF OwnInv

\* On an Ordinary volume, and whatever the scan was cut short by and however often it was
\* resumed: no directory of the tree has clusters, so that the session is read entry by entry
\* as it was written, and a node that is alone with its path is read back with its data, its
\* flags and its cluster list.  It is written after the directories above it
\* (session_write_node_rec), so that when its entry is read nothing made for another entry is
\* in its place, and no later entry changes it (tree_add_path, session_read_tree).
THEOREM SavedIsReadBack ==
  ASSUME MaxChain >= 2
  PROVE  Spec => [](Ordinary => SavedReadsBack)
<1>1. Init => OwnInv
  BY InitOwn
<1>2. Typed /\ OwnInv /\ [Next]_vars => OwnInv'
  BY NextOwn
<1>3. Typed /\ OwnInv => (Ordinary => SavedReadsBack)
  BY HeldReadsBack DEF OwnInv, Held
<1> QED
  BY <1>1, <1>2, <1>3, AlwaysTyped, PTL DEF Spec

\* On an Ordinary volume a file has clusters of the first stream of the record that gave its
\* size, or of one that namesakes lead to from it, whatever the scan was cut short by and
\* however often it was resumed (tree_add_path and ntfs_fill_clusters over one tree, the names
\* scanner_run takes from the contents, session_load).  On one that is not Ordinary a stream may
\* find a node that is no stream's.
THEOREM ClustersAreOwn ==
  ASSUME MaxChain >= 2
  PROVE  Spec => [](Ordinary => OwnClusters)
<1>1. Init => OwnInv
  BY InitOwn
<1>2. Typed /\ OwnInv /\ [Next]_vars => OwnInv'
  BY NextOwn
<1>3. Typed /\ OwnInv => (Ordinary => OwnClusters)
  BY HeldIsOwn DEF OwnInv, Held
<1> QED
  BY <1>1, <1>2, <1>3, AlwaysTyped, PTL DEF Spec
=============================================================================
