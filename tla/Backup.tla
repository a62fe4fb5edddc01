------------------------------- MODULE Backup -------------------------------
(***************************************************************************)
(* The .dsk index of a partition: backup_create and backup_restore of      *)
(* core/backup.c, run by onBackupRequested and onRestoreRequested.  The    *)
(* index is written entry by entry while the directories are walked, its   *)
(* count comes last; a comparison reads it, walks the partition as it is   *)
(* now and makes a tree of what is gone or looks different.  Between the   *)
(* two the partition changes, and anything may cut the writing short.      *)
(***************************************************************************)
EXTENDS ScanTree, Integers, FiniteSets

CONSTANTS
  Volumes,      \* what the partition may hold
  MaxDepth,     \* 256, the size of inode_known
  MaxClusters,  \* BACKUP_MAX_CLUSTERS_PER_FILE
  Wide,         \* 2^32: what the high half of a 64-bit block number is worth
  MaxCompares   \* bound: comparisons

ASSUME BackupAssumption == {MaxDepth, MaxClusters, Wide, MaxCompares} \subseteq Nat \ {0}

\* What get_dir gives of an entry, and, read by properties only, how the file lies on the
\* disk and where.  Names are numbers, in the order of strcmp.
Listings ==
  [name : Nat, inode : Nat, dir : BOOLEAN, gone : BOOLEAN, size : Nat, mtime : Nat,
   layout : STRING, own : Seq(Int)]

\* The directories, the FAT or the chain of exFAT, the runs of NTFS inodes, the words of
\* i_block and the blocks of pointers of ext; the size of a cluster, where FAT (reserved
\* sectors and FATs) and exFAT (clus_blocknr) have the data begin, how much the root
\* directory of FAT12 and FAT16 takes after that, whether the type code says FAT, and the
\* last cluster as backup.c reckons it.
ASSUME VolumesAssumption ==
  \A v \in Volumes :
    /\ {v.last, v.unit, v.data, v.rootDir} \subseteq Nat
    /\ \A b \in DOMAIN v.blocks : v.blocks[b] \in Seq(Nat)
    /\ \A inode \in DOMAIN v.dirs :
         /\ v.dirs[inode] \in Seq(Listings)
         /\ \A i \in DOMAIN v.dirs[inode] :
              LET e == v.dirs[inode][i]
              IN ~e.dir =>
                   /\ v.kind = "ntfs" => v.runs[e.inode] \in Seq(Int)
                   /\ v.kind = "ext" =>
                        v.inodes[e.inode] \in [direct : Seq(Nat), indirect : [1 .. 3 -> Nat]]

VARIABLES
  volume,    \* the partition; only Change writes it
  pc,        \* "idle", "create" (backup_walk_dir) or "live" (backup_walk_live)
  stack,     \* the calls of the walk, innermost last
  words,     \* what backup_create has given to stdio, after the header
  written,   \* written_count
  live,      \* live_array
  file,      \* the .dsk file
  tree,      \* m_scanTree
  report,    \* what the last dialog said: "none", "created", "failed", "compared"
  compares,  \* comparisons so far
  (* history, read by properties only *)
  full,      \* the destination ran full
  snapshot   \* the partition when backup_create began

vars == <<volume, pc, stack, words, written, live, file, tree, report, compares, full, snapshot>>

-----------------------------------------------------------------------------
(* The lists of clusters.  A collector that fails leaves the entry none. *)

NoClusters == [none |-> TRUE, clusters |-> <<>>]
Recorded(list) == [none |-> FALSE, clusters |-> list]

NextCluster(v, c) == IF c \in DOMAIN v.next THEN v.next[c] ELSE 0

\* Mutant: the mark of the end is looked for before the cluster is recorded.
FollowLess(v, first) ==
  LET loop[n \in 0 .. MaxClusters] ==
        IF n = 0 THEN [cluster |-> first, list |-> <<>>]
        ELSE With(loop[n - 1], LAMBDA s :
               IF s.cluster \in 2 .. v.last + 1 /\ NextCluster(v, s.cluster) # 0
               THEN [cluster |-> NextCluster(v, s.cluster), list |-> Append(s.list, s.cluster)] ELSE s)
  IN loop[MaxClusters].list

\* fat_collect_clusters, exfat_collect_clusters.  The bound is one cluster past the last;
\* a mark of the end or of a free cluster, or a FAT that cannot be read, leads nowhere.
Follow(v, first) ==
  LET loop[n \in 0 .. MaxClusters] ==
        IF n = 0 THEN [cluster |-> first, list |-> <<>>]
        ELSE With(loop[n - 1], LAMBDA s :
               IF s.cluster \in 2 .. v.last + 1
               THEN [cluster |-> NextCluster(v, s.cluster), list |-> Append(s.list, s.cluster)] ELSE s)
  IN loop[MaxClusters].list

\* ntfs_collect_clusters: a hole, -1, is passed over.
Mapped(list) ==
  LET loop[n \in 0 .. Len(list)] ==
        IF n = 0 THEN <<>>
        ELSE With(loop[n - 1], LAMBDA s :
               IF list[n] < 0 \/ Len(s) = MaxClusters THEN s ELSE Append(s, list[n]))
  IN loop[Len(list)]

Runs(list) == With(Mapped(list), LAMBDA kept : IF kept = <<>> THEN NoClusters ELSE Recorded(kept))

NonZero(list) ==
  LET kept[n \in 0 .. Len(list)] ==
        IF n = 0 THEN <<>>
        ELSE With(kept[n - 1], LAMBDA s : IF list[n] = 0 THEN s ELSE Append(s, list[n]))
  IN kept[Len(list)]

\* One level of ext2_read_blocks: two 32-bit pointers are taken for one of 64 bits.
Pointed(v, b) ==
  NonZero([i \in 1 .. Len(v.blocks[b]) \div 2 |-> v.blocks[b][2 * i - 1] + Wide * v.blocks[b][2 * i]])

ReadLevel(v, s) ==
  IF s.none \/ ~(ToSet(s.clusters) \subseteq DOMAIN v.blocks) THEN NoClusters
  ELSE Recorded(FlattenSeq([k \in DOMAIN s.clusters |-> Pointed(v, s.clusters[k])]))

\* ext2_read_blocks of the block that i_block[11 + level] names.
Indirect(v, b, level) ==
  LET read[n \in 0 .. level] ==
        IF n = 0 THEN Recorded(NonZero(<<b>>)) ELSE With(read[n - 1], LAMBDA s : ReadLevel(v, s))
  IN read[level]

\* ext2_collect_blocks: the words of i_block are block numbers, whatever the inode says.
\* An empty list is none, whatever i_blocks: the two are read back alike.
Blocks(v, inode) ==
  With([level \in 1 .. 3 |-> Indirect(v, inode.indirect[level], level)], LAMBDA parts :
    With(NonZero(inode.direct) \o parts[1].clusters \o parts[2].clusters \o parts[3].clusters, LAMBDA all :
      IF all = <<>> \/ \E level \in 1 .. 3 : parts[level].none THEN NoClusters ELSE Recorded(all)))

\* The clusters that collect_clusters_fs comes to.
Found(v, e) ==
  CASE v.kind \in {"fat", "exfat"} -> Recorded(Follow(v, e.inode))
    [] v.kind = "ntfs" -> Runs(v.runs[e.inode])
    [] v.kind = "ext" -> Blocks(v, v.inodes[e.inode])
    [] OTHER -> NoClusters

Numbered(v, c) == IF v.kind \in {"fat", "exfat"} THEN c - 2 ELSE c

\* The offset of a cluster in the partition, in bytes: FAT's root directory is forgotten.
Offset(v, c) == v.data + Numbered(v, c) * v.unit

Offsets(v, list) == [k \in DOMAIN list |-> Offset(v, list[k])]

\* collect_clusters_fs records the offsets.
Collect(v, e) ==
  With(Found(v, e), LAMBDA found : [none |-> found.none, clusters |-> Offsets(v, found.clusters)])

\* What the header has for the size of a cluster: FAT is asked for its type code alone.
ClusterBytes(v) == IF v.kind = "other" \/ (v.kind = "fat" /\ ~v.typed) THEN 0 ELSE v.unit

-----------------------------------------------------------------------------
(* The file, in words: the fixed part of an entry, its path, each cluster. *)

NoFile == [kind |-> "none", count |-> 0, words |-> <<>>, unit |-> 0, disk |-> [disk |-> 0, offset |-> 0, size |-> 0]]

\* The walk gives its directories no size and no time.
DirEntry(path) == [path |-> path, dir |-> TRUE, size |-> 0, mtime |-> 0, none |-> TRUE, clusters |-> <<>>]

FileEntry(v, path, e) ==
  With(Collect(v, e), LAMBDA found :
    [path |-> path, dir |-> FALSE, size |-> e.size, mtime |-> e.mtime,
     none |-> found.none, clusters |-> found.clusters])

\* write_backup_entry
Words(entry) ==
  <<<<"head", [dir |-> entry.dir, none |-> entry.none, size |-> entry.size, mtime |-> entry.mtime,
               count |-> Len(entry.clusters)]>>, <<"path", entry.path>>>>
  \o (IF entry.none THEN <<>> ELSE [k \in DOMAIN entry.clusters |-> <<"cluster", entry.clusters[k]>>])

ReadEntry(s) ==
  LET head == s.words[1][2]
      size == 2 + (IF head.none THEN 0 ELSE head.count)
  IN IF Len(s.words) < size THEN [s EXCEPT !.words = <<>>]
     ELSE [words |-> SubSeq(s.words, size + 1, Len(s.words)),
           entries |-> Append(s.entries,
             [path |-> s.words[2][2], dir |-> head.dir, size |-> head.size, mtime |-> head.mtime,
              none |-> head.none, clusters |-> [k \in 1 .. size - 2 |-> s.words[k + 2][2]]])]

\* backup_restore: as many entries as were counted, or as there are whole.
LoadFile(f) ==
  LET read[n \in 0 .. f.count] ==
        IF n = 0 THEN [words |-> f.words, entries |-> <<>>]
        ELSE With(read[n - 1], LAMBDA s : IF s.words = <<>> THEN s ELSE ReadEntry(s))
  IN read[f.count].entries

\* The size of the partition, when it does not begin the disk, is held against the disk.
SizesMatch(recorded, now) ==
  LET orig == IF recorded.offset = 0 \/ recorded.size = 0 THEN recorded.disk ELSE recorded.size
      diff == IF now.disk < orig THEN orig - now.disk ELSE now.disk - orig
  IN diff <= orig \div 2

-----------------------------------------------------------------------------
(* The walk, of backup_walk_dir and of backup_walk_live. *)

Top == Last(stack)
Listed == Head(Top.left)
ListedPath == Append(Top.path, Listed.name)
Rest == [stack EXCEPT ![Len(stack)].left = Tail(@)]
Call(inode, path) == [inode |-> inode, path |-> path, left |-> volume.dirs[inode]]

Dot == 0
DotDot == 1

\* "." and "..", and what is deleted.
Ignored(e) == (e.dir /\ e.name \in {Dot, DotDot}) \/ e.gone

\* Mutant: no limit on the depth.
DescendsAnywhere(e) == e.dir /\ \A k \in DOMAIN stack : stack[k].inode # e.inode

\* The call is made unless the directory is one of those it is in, and returns at once
\* when it is too deep.
Descends(e) == DescendsAnywhere(e) /\ Len(stack) < MaxDepth

\* No directory has two entries of one name, other than deleted ones.
NamesApart ==
  \A v \in Volumes : \A inode \in DOMAIN v.dirs : \A i, j \in DOMAIN v.dirs[inode] :
    LET e == v.dirs[inode][i]
        f == v.dirs[inode][j]
    IN ~Ignored(e) /\ ~Ignored(f) /\ e.name = f.name => i = j

Readable(inode) == inode \in DOMAIN volume.dirs

Init ==
  /\ volume \in Volumes /\ pc = "idle" /\ stack = <<>> /\ words = <<>> /\ written = 0 /\ live = <<>>
  /\ file = NoFile /\ tree = <<>> /\ report = "none" /\ compares = 0 /\ full = FALSE /\ snapshot = volume

-----------------------------------------------------------------------------
(* backup_create *)

\* The volume does not open, its root cannot be read (the file is removed), or there is
\* no file to open.
CreateRefused ==
  /\ pc = "idle" /\ file = NoFile
  /\ report' = "failed"
  /\ UNCHANGED <<volume, pc, stack, words, written, live, file, tree, compares, full, snapshot>>

\* The header, with a count of 0, and the entry of "/".
BeginCreate ==
  /\ pc = "idle" /\ file = NoFile /\ Readable(volume.root)
  /\ pc' = "create" /\ snapshot' = volume /\ report' = "none"
  /\ stack' = <<Call(volume.root, <<>>)>>
  /\ words' = Words(DirEntry(<<>>)) /\ written' = 1
  /\ UNCHANGED <<volume, live, file, tree, compares, full>>

Walking == pc \in {"create", "live"} /\ stack # <<>>

SkipEntry ==
  /\ Walking /\ Top.left # <<>> /\ Ignored(Listed)
  /\ stack' = Rest
  /\ UNCHANGED <<volume, pc, words, written, live, file, tree, report, compares, full, snapshot>>

\* What comes after the destination is full is lost; nobody looks at the result.
Put(entry) == words' = IF full THEN words ELSE words \o Words(entry)

\* Mutant: the directories are not counted.
CountFiles(e) == written' = IF e.dir THEN written ELSE written + 1

Count(e) == written' = written + 1

\* A directory that cannot be read is an entry with nothing below it.
WriteEntry ==
  /\ pc = "create" /\ Walking /\ Top.left # <<>> /\ ~Ignored(Listed)
  /\ Put(IF Listed.dir THEN DirEntry(ListedPath) ELSE FileEntry(volume, ListedPath, Listed))
  /\ Count(Listed)
  /\ stack' = IF Descends(Listed) /\ Readable(Listed.inode)
              THEN Append(Rest, Call(Listed.inode, ListedPath)) ELSE Rest
  /\ UNCHANGED <<volume, pc, live, file, tree, report, compares, full, snapshot>>

\* Mutant: the directory is listed again.
LeaveDirAgain ==
  /\ Walking /\ Top.left = <<>>
  /\ stack' = [stack EXCEPT ![Len(stack)].left = volume.dirs[Top.inode]]
  /\ UNCHANGED <<volume, pc, words, written, live, file, tree, report, compares, full, snapshot>>

LeaveDir ==
  /\ Walking /\ Top.left = <<>>
  /\ stack' = Front(stack)
  /\ UNCHANGED <<volume, pc, words, written, live, file, tree, report, compares, full, snapshot>>

\* The file has what fits.
RunFull ==
  /\ pc = "create" /\ ~full
  /\ full' = TRUE
  /\ words' \in {SubSeq(words, 1, n) : n \in 0 .. Len(words)}
  /\ UNCHANGED <<volume, pc, stack, written, live, file, tree, report, compares, snapshot>>

\* With a count of 0 nothing of the words is read.
Made(count, what) ==
  [kind |-> "dsk", count |-> count, words |-> what, unit |-> ClusterBytes(volume), disk |-> volume.disk]

\* Nothing but "/": the file is removed.  Otherwise the count goes over the header's, if
\* the seek to it could empty the buffer.
CreateDone ==
  /\ pc = "create" /\ stack = <<>>
  /\ pc' = "idle" /\ words' = <<>> /\ written' = 0
  /\ \/ written <= 1 /\ report' = "failed" /\ UNCHANGED file
     \/ /\ written > 1 /\ report' = "created"
        /\ \/ file' = Made(written, words)
           \/ full /\ file' = Made(0, <<>>)
  /\ UNCHANGED <<volume, stack, live, tree, compares, full, snapshot>>

\* The program dies: the file has some of what was written, and no count.
KillCreate ==
  /\ pc = "create"
  /\ file' = Made(0, <<>>)
  /\ pc' = "idle" /\ stack' = <<>> /\ words' = <<>> /\ written' = 0 /\ report' = "none"
  /\ UNCHANGED <<volume, live, tree, compares, full, snapshot>>

\* Between the backup and the comparison.  Bound: not while either runs.
Change ==
  /\ pc = "idle" /\ file # NoFile /\ compares = 0
  /\ volume' \in {v \in Volumes : v.kind = snapshot.kind} \ {volume}
  /\ UNCHANGED <<pc, stack, words, written, live, file, tree, report, compares, full, snapshot>>

-----------------------------------------------------------------------------
(* backup_restore.  The tree is a new one, and the browser shows it in any case. *)

Compare == pc = "idle" /\ file # NoFile /\ compares < MaxCompares /\ compares' = compares + 1

CompareRefused ==
  /\ Compare
  /\ ~SizesMatch(file.disk, volume.disk) \/ ~Readable(volume.root)
  /\ tree' = <<>> /\ report' = "failed"
  /\ UNCHANGED <<volume, pc, stack, words, written, live, file, full, snapshot>>

\* count_live_files makes live_array large enough: the partition does not change now.
BeginCompare ==
  /\ Compare
  /\ SizesMatch(file.disk, volume.disk) /\ Readable(volume.root)
  /\ pc' = "live" /\ stack' = <<Call(volume.root, <<>>)>> /\ live' = <<>>
  /\ tree' = <<>> /\ report' = "none"
  /\ UNCHANGED <<volume, words, written, file, full, snapshot>>

Noted(e) == [path |-> ListedPath, size |-> e.size, mtime |-> e.mtime]

LiveEntry ==
  /\ pc = "live" /\ Walking /\ Top.left # <<>> /\ ~Ignored(Listed)
  /\ Descends(Listed) => Readable(Listed.inode)
  /\ live' = Append(live, Noted(Listed))
  /\ stack' = IF Descends(Listed) THEN Append(Rest, Call(Listed.inode, ListedPath)) ELSE Rest
  /\ UNCHANGED <<volume, pc, words, written, file, tree, report, compares, full, snapshot>>

\* A directory that cannot be read ends the comparison.
LiveFails ==
  /\ pc = "live" /\ Walking /\ Top.left # <<>> /\ ~Ignored(Listed)
  /\ Descends(Listed) /\ ~Readable(Listed.inode)
  /\ pc' = "idle" /\ stack' = <<>> /\ live' = <<>> /\ report' = "failed"
  /\ UNCHANGED <<volume, words, written, file, tree, compares, full, snapshot>>

\* strcmp of two paths.
Before(p, q) ==
  \E n \in 0 .. Len(p) :
    /\ n < Len(q) /\ SubSeq(p, 1, n) = SubSeq(q, 1, n)
    /\ n = Len(p) \/ p[n + 1] < q[n + 1]

\* qsort with compare_path: an entry at a time goes to its place.
Insert(s, e) ==
  InsertAt(s, CHOOSE i \in 1 .. Len(s) + 1 :
                /\ \A j \in 1 .. i - 1 : ~Before(e.path, s[j].path)
                /\ \A j \in i .. Len(s) : Before(e.path, s[j].path), e)

Sorted(list) ==
  LET sorted[n \in 0 .. Len(list)] ==
        IF n = 0 THEN <<>> ELSE With(sorted[n - 1], LAMBDA s : Insert(s, list[n]))
  IN sorted[Len(list)]

\* Mutant: the upper bound is taken for a member.
BisectShort(sorted, path, s) ==
  LET mid == s.lo + (s.hi - s.lo) \div 2
  IN IF s.lo >= s.hi THEN s
     ELSE IF sorted[mid + 1].path = path THEN [s EXCEPT !.hi = s.lo, !.found = {sorted[mid + 1]}]
     ELSE IF Before(path, sorted[mid + 1].path) THEN [s EXCEPT !.hi = mid - 1] ELSE [s EXCEPT !.lo = mid + 1]

\* A round of find_live_entry, which ends when the bounds meet; hi is not among what is left.
Bisect(sorted, path, s) ==
  LET mid == s.lo + (s.hi - s.lo) \div 2
  IN IF s.lo >= s.hi THEN s
     ELSE IF sorted[mid + 1].path = path THEN [s EXCEPT !.hi = s.lo, !.found = {sorted[mid + 1]}]
     ELSE IF Before(path, sorted[mid + 1].path) THEN [s EXCEPT !.hi = mid] ELSE [s EXCEPT !.lo = mid + 1]

\* find_live_entry.  As many rounds as there are entries are enough.
FindLive(sorted, path) ==
  LET search[n \in 0 .. Len(sorted)] ==
        IF n = 0 THEN [lo |-> 0, hi |-> Len(sorted), found |-> {}]
        ELSE With(search[n - 1], LAMBDA s : Bisect(sorted, path, s))
  IN search[Len(sorted)].found

\* One entry of backup_restore_build_tree; "src" stands for the two flags.
Judge(t, entry, sorted) ==
  With(FindLive(sorted, entry.path), LAMBDA found :
    IF \E e \in found : e.size = entry.size /\ e.mtime = entry.mtime THEN t
    ELSE UpdateAt(AddPath(t, entry.path, Item(entry.dir, found = {}, entry.size, NoSource)), entry.path,
                  LAMBDA node : [node EXCEPT !.src = IF found = {} THEN <<"restored">> ELSE <<"modified">>,
                                             !.clusters = IF entry.dir \/ entry.clusters = <<>> THEN @
                                                          ELSE entry.clusters]))

JudgeAll(entries, sorted) ==
  LET judged[n \in 0 .. Len(entries)] ==
        IF n = 0 THEN <<>> ELSE With(judged[n - 1], LAMBDA t : Judge(t, entries[n], sorted))
  IN judged[Len(entries)]

BuildTree ==
  /\ pc = "live" /\ stack = <<>>
  /\ tree' = With(LoadFile(file), LAMBDA entries :
               With(Sorted(live), LAMBDA sorted : JudgeAll(entries, sorted)))
  /\ pc' = "idle" /\ live' = <<>> /\ report' = "compared"
  /\ UNCHANGED <<volume, stack, words, written, file, compares, full, snapshot>>

-----------------------------------------------------------------------------
Next ==
  \/ CreateRefused \/ BeginCreate \/ WriteEntry \/ RunFull \/ CreateDone \/ KillCreate
  \/ SkipEntry \/ LeaveDir
  \/ Change
  \/ CompareRefused \/ BeginCompare \/ LiveEntry \/ LiveFails \/ BuildTree

Spec == Init /\ [][Next]_vars

\* The worker's thread goes on.
FairSpec ==
  /\ Spec
  /\ WF_vars(WriteEntry \/ SkipEntry \/ LeaveDir \/ CreateDone \/ LiveEntry \/ LiveFails \/ BuildTree)

-----------------------------------------------------------------------------
\* The types, and no deeper a walk than inode_known has room for.
TypeOK ==
  /\ volume \in Volumes /\ snapshot \in Volumes
  /\ pc \in {"idle", "create", "live"}
  /\ Len(stack) <= MaxDepth
  /\ written \in Nat /\ compares \in 0 .. MaxCompares /\ full \in BOOLEAN
  /\ file.kind \in {"none", "dsk"} /\ file.count \in Nat
  /\ report \in {"none", "created", "failed", "compared"}
  /\ \A i \in DOMAIN tree : tree[i].parent \in 0 .. i - 1

\* What the walk is to list, by depth and not by calls: "above" are the inodes of the
\* directories something is in.
Inside(v, d) ==
  {[path |-> Append(d.path, e.name), entry |-> e, above |-> d.above \cup {d.entry.inode}] :
     e \in {e \in ToSet(v.dirs[d.entry.inode]) : ~Ignored(e)}}

Opened(v, found) == {d \in found : d.entry.dir /\ d.entry.inode \in DOMAIN v.dirs \ d.above}

Reachable(v) ==
  LET level[n \in 0 .. MaxDepth] ==
        IF n = 0
        THEN [dirs |-> {[path |-> <<>>, entry |-> [inode |-> v.root], above |-> {}]}, all |-> {}]
        ELSE With(level[n - 1], LAMBDA s :
               With(UNION {Inside(v, d) : d \in s.dirs}, LAMBDA found :
                 [dirs |-> Opened(v, found), all |-> s.all \cup found]))
  IN level[MaxDepth].all

\* A backup that was reported as created, to a destination that had room, reads back with
\* one entry for everything that could be reached, and "/" (backup_walk_dir, the count).
BackupComplete ==
  pc = "idle" /\ report = "created" /\ ~full =>
    With(LoadFile(file), LAMBDA loaded : With(Reachable(snapshot), LAMBDA all :
      /\ {loaded[k].path : k \in DOMAIN loaded} = {<<>>} \cup {x.path : x \in all}
      /\ Len(loaded) = Cardinality(all) + 1))

\* A comparison that ended well shows of the files in the index, cut or not, those that
\* are gone, as deleted, those whose size or time is another, as modified, and no others.
ComparisonExact ==
  pc = "idle" /\ report = "compared" =>
    With(Reachable(volume), LAMBDA all :
      \A entry \in {e \in ToSet(LoadFile(file)) : ~e.dir} :
        LET now == {x.entry : x \in {x \in all : x.path = entry.path}}
            same == \E e \in now : e.size = entry.size /\ e.mtime = entry.mtime
            shown == {tree[i] : i \in FindPath(tree, entry.path)}
        IN IF same THEN shown = {}
           ELSE \E node \in shown : /\ ~node.dir /\ node.size = entry.size
                                    /\ node.deleted <=> now = {}
                                    /\ node.src = IF now = {} THEN <<"restored">> ELSE <<"modified">>)

\* Where a file lies, as the file system has it: each cluster leads to the next, from the one
\* the directory names, and the last to none.
ChainIsOwn(v, e) ==
  /\ e.own \in Seq(2 .. v.last + 1)
  /\ \A k \in 0 .. Len(e.own) :
       LET c == IF k = 0 THEN e.inode ELSE NextCluster(v, e.own[k])
       IN IF k < Len(e.own) THEN c = e.own[k + 1] ELSE c \notin 2 .. v.last + 1

\* The runs are all there is, and none is a hole.
RunsAreOwn(v, e) == v.runs[e.inode] = e.own /\ \A k \in DOMAIN e.own : e.own[k] >= 0

\* The direct blocks, without holes, and the only one that the block at "b" points to, if any.
BlocksAreOwn(v, e) ==
  LET direct == v.inodes[e.inode].direct
      b == v.inodes[e.inode].indirect[1]
  IN /\ \A level \in 2 .. 3 : v.inodes[e.inode].indirect[level] = 0
     /\ \E n \in 0 .. Len(direct) :
          /\ n <= Len(e.own) /\ \A k \in 1 .. n : direct[k] = e.own[k] /\ e.own[k] # 0
          /\ \A k \in n + 1 .. Len(direct) : direct[k] = 0
          /\ \/ b = 0 /\ Len(e.own) = n
             \/ /\ b \in DOMAIN v.blocks \ {0} /\ Len(e.own) = n + 1 /\ Len(v.blocks[b]) >= 2
                /\ v.blocks[b][1] = e.own[n + 1] /\ e.own[n + 1] # 0
                /\ \A k \in 2 .. Len(v.blocks[b]) : v.blocks[b][k] = 0

\* What is laid out as "kept" is laid out so, and is not too long.
LayoutsTrue ==
  \A v \in Volumes : \A inode \in DOMAIN v.dirs : \A i \in DOMAIN v.dirs[inode] :
    LET e == v.dirs[inode][i]
    IN ~e.dir /\ e.layout = "kept" =>
         /\ Len(e.own) <= MaxClusters
         /\ \/ v.kind \in {"fat", "exfat"} /\ ChainIsOwn(v, e)
            \/ v.kind = "ntfs" /\ RunsAreOwn(v, e)
            \/ v.kind = "ext" /\ BlocksAreOwn(v, e)

\* Where the drivers read a cluster (start_data in fat_copy).
DriverOffset(v, c) == v.data + v.rootDir + Numbered(v, c) * v.unit

\* FAT32, known by its type code; or not FAT.
Plain(v) == v.rootDir = 0 /\ (v.kind = "fat" => v.typed)

\* What a file that is restored from the comparison is read from are the places its clusters
\* had when the backup was made, in pieces of their size, when they are chained in the FAT,
\* runs without holes, or the direct blocks and at most one more (collect_clusters_fs, the
\* index, the tree).  FAT12 and FAT16 are excepted, for backup.c forgets their root
\* directory, and FAT without its type code, for which it records no size.
ClustersKept ==
  report = "compared" /\ Plain(snapshot) =>
    \A x \in {x \in Reachable(snapshot) : ~x.entry.dir /\ x.entry.layout = "kept"} :
      \A i \in FindPath(tree, x.path) :
        /\ tree[i].clusters = [k \in DOMAIN x.entry.own |-> DriverOffset(snapshot, x.entry.own[k])]
        /\ file.unit = snapshot.unit

\* A backup or a comparison that is begun ends (inode_known, the depth).
BackupEnds == pc # "idle" ~> pc = "idle"

\* A backup of a partition whose directories can all be read is not refused when it is
\* compared with that partition, unchanged (the size check of backup_restore).
OwnBackupAccepted ==
  report = "failed" /\ file.count > 0 /\ volume = snapshot =>
    \E x \in Reachable(volume) : x.entry.dir /\ ~Readable(x.entry.inode)
=============================================================================
