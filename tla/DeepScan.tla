------------------------------ MODULE DeepScan ------------------------------
(***************************************************************************)
(* A file system scan with session saving, over several runs of the        *)
(* program: scanner_run of core/scanner.c with its directory walk and its  *)
(* phases (MFT records, EXT inodes, free FAT clusters, free NTFS clusters, *)
(* the carve at the end), scanner_deep_ntfs of fs/ntfs_udl.c, the tree it  *)
(* fills, the checkpoints and the final save, and onContinueSession.       *)
(* updateSessionPhase has no caller: a session always resumes at phase 0,  *)
(* and the conditions on g_scanner_resume_phase are all true.              *)
(***************************************************************************)
EXTENDS ScanTree, FiniteSets

CONSTANTS
  Words,         \* the stems and extensions of names
  Volumes,       \* what the scan may meet on the disk
  MaxDirDepth,   \* MAX_DIR_DEPTH
  FatBatch,      \* FAT_BATCH_CLUSTERS
  NtfsBatch,     \* max_batch of scanner_deep_ntfs
  BitmapChunk,   \* clusters in one read of $Bitmap
  Every,         \* entries between two calls of update_progress
  Junk,          \* what session_read_tree may take for entries where there are none
  MaxRuns        \* bound: how often the scan is started or resumed

ASSUME LimitsAssumption ==
  {MaxDirDepth, FatBatch, NtfsBatch, BitmapChunk, Every, MaxRuns} \subseteq Nat \ {0}

FileNames == Words \X Words    \* stem and extension

ASSUME WordsAssumption == {"ORPHAN", "Deep Scan Results", "", "dir", "file"} \subseteq Words

\* What a node may hold for the place of its data, or for its clusters.
Data ==
  {NoSource, <<"boot">>} \cup ({"walk", "mft", "data", "inode", "carve"} \X Nat)
                         \cup ({"cluster"} \X Nat \X Nat)

ASSUME JunkAssumption ==
  Junk \subseteq Seq([path : Seq(FileNames), orphan : BOOLEAN, clusters : Data,
                     item : [dir : BOOLEAN, deleted : BOOLEAN, size : Nat, src : Data]])

\* What the listers give: the entries of directories; the data streams of the deleted
\* records of the MFT, in the order of filesort, and of each record whether it is a directory
\* and what its first stream is; the inodes, by their numbers; the clusters of a FAT or
\* NTFS partition, with the entries found in them; the names of carved files.
ASSUME VolumesAssumption ==
  \A v \in Volumes :
    /\ \A inode \in DOMAIN v.dirs :
         v.dirs[inode] \in
           Seq([name : FileNames, inode : Nat, dir : BOOLEAN, deleted : BOOLEAN, size : Nat])
    /\ v.mft \in Seq([path : Seq(FileNames), inode : Nat, size : Nat])
    /\ \A k \in DOMAIN v.mft : v.mft[k].inode \in DOMAIN v.records
    /\ \A inode \in DOMAIN v.records :
         v.records[inode] \in [dir : BOOLEAN, content : {"none", "resident", "runs"}, hint : Words]
    /\ v.inodes \in Seq([used : BOOLEAN, stem : Words, dir : BOOLEAN, size : Nat, hint : Words])
    /\ v.clusters \in Seq([free : BOOLEAN, readable : BOOLEAN,
                           entries : Seq([name : FileNames, dir : BOOLEAN, size : Nat])])
    /\ v.carved \in Seq(Seq(FileNames))

VARIABLES
  volume,   \* the file system; read only
  deep,     \* a deep scan, with a session; or a fast one, which has none
  pc,       \* "idle", or the phase: "init", "walk", "mft", "inodes", "fat", "indx",
            \* "carve", "end"
  stack,    \* the calls of scan_dir_recursive, innermost last
  at,       \* streams, inodes, clusters or files of the phase that are done
  run,      \* the free clusters that are not looked at yet: batch_buffer, free_start/free_count
  batch,    \* those that are being looked at
  total,    \* g_total_count
  tree,     \* m_scanTree
  file,     \* the session file
  cancel,   \* the cancel flag
  (* history, read by properties only *)
  runs,     \* starts and resumes so far
  damaged,  \* a save did not succeed
  whole     \* the last run that ended was neither cancelled nor refused

vars == <<volume, deep, pc, stack, at, run, batch, total, tree, file, cancel, runs, damaged, whole>>

-----------------------------------------------------------------------------
(* What the phases list. *)

Orphans == <<"ORPHAN", "">>
Results == <<"Deep Scan Results", "">>

\* The new extension when the first bytes of the file show its type.
Renamed(name, hint) == IF hint = "none" THEN name ELSE <<name[1], hint>>

\* Mutant: the streams of directories are listed as well.
RecoverableAny(k) == TRUE

\* calc_percentage gives 0 for a directory, and scan_disk lists none of its streams.
Recoverable(k) == ~volume.records[volume.mft[k].inode].dir

Streams == {k \in DOMAIN volume.mft : Recoverable(k)}

\* ntfs_fill_clusters, on the node that has the stream's path: what the node is now, in
\* bytes, decides, and the list is that of the record's first stream, whichever stream the
\* node is of.  Resident data is recorded as cluster 0.
FillClusters(node, inode) ==
  LET content == volume.records[inode].content
  IN IF node.size = 0 \/ content = "none" THEN node
     ELSE [node EXCEPT !.clusters = IF content = "resident" THEN <<"boot">> ELSE <<"data", inode>>]

\* The type that the first cluster of a list shows.
Hint(clusters) ==
  IF clusters[1] = "data" /\ clusters[2] \in DOMAIN volume.records
  THEN volume.records[clusters[2]].hint ELSE "none"

InferName(node) ==
  IF node.clusters = NoSource THEN node
  ELSE [node EXCEPT !.name = Renamed(@, Hint(node.clusters))]

\* scanner_run, one stream that scan_disk returned.
AddRecord(t, k) ==
  LET stream == volume.mft[k]
      path == <<Orphans>> \o stream.path
  IN UpdateAt(AddPath(t, path, Item(volume.records[stream.inode].dir, TRUE, stream.size, <<"mft", k>>)),
              path,
              LAMBDA node : InferName(FillClusters([node EXCEPT !.orphan = TRUE], stream.inode)))

\* scanner_deep_ext, one inode that is a file or a directory with something in it: live ones
\* as well.
AddInode(t, n) ==
  LET inode == volume.inodes[n]
      path == <<Results, <<inode.stem, IF inode.dir THEN "dir" ELSE "file">>>>
  IN UpdateAt(AddPath(t, path, Item(inode.dir, TRUE, inode.size, <<"inode", n>>)), path,
              LAMBDA node : IF inode.dir \/ inode.size = 0 THEN node
                            ELSE [node EXCEPT !.name = Renamed(@, inode.hint)])

\* The entries found in one cluster, directories as well.
AddCluster(t, c) ==
  LET es == volume.clusters[c].entries
      added[k \in 0 .. Len(es)] ==
        IF k = 0 THEN t
        ELSE With(added[k - 1], LAMBDA u :
               AddPath(u, <<Results, es[k].name>>,
                       Item(es[k].dir, TRUE, es[k].size, <<"cluster", c, k>>)))
  IN added[Len(es)]

-----------------------------------------------------------------------------
(* The session file. *)

NoSession == [kind |-> "none", entries |-> <<>>, completed |-> FALSE]
Unreadable == [NoSession EXCEPT !.kind = "unreadable"]     \* truncated in its header

Image(t, completed) == [kind |-> "session", entries |-> Serialize(t), completed |-> completed]

\* A save cut short: the header goes first, session_load takes what entries it finds.
Torn(image) ==
  {Unreadable} \cup {[image EXCEPT !.entries = SubSeq(@, 1, k)] : k \in 0 .. Len(image.entries) - 1}

\* session_save: see CarveSession.  Bound: one save fails.
Save(t, completed) ==
  \E image \in {Image(t, completed)} :
    \/ file' = image /\ UNCHANGED damaged
    \/ ~damaged /\ damaged' = TRUE /\ file' \in {file, NoSession} \cup Torn(image)

\* update_progress: g_session_save_cb is there in a deep scan, and lets some calls go by.
Progress(t) ==
  \/ UNCHANGED <<file, damaged>>
  \/ deep /\ Save(t, FALSE)

ProgressAfter(n, t) == IF n % Every = 0 THEN Progress(t) ELSE UNCHANGED <<file, damaged>>

-----------------------------------------------------------------------------
Init ==
  /\ volume \in Volumes /\ deep \in BOOLEAN
  /\ pc = "idle" /\ stack = <<>> /\ at = 0 /\ run = <<>> /\ batch = <<>> /\ total = 0 /\ tree = <<>>
  /\ file = NoSession /\ cancel = FALSE
  /\ runs = 0 /\ damaged = FALSE /\ whole = FALSE

Run(nodes) ==
  /\ pc' = "init" /\ total' = 0 /\ tree' = nodes /\ cancel' = FALSE
  /\ runs' = runs + 1 /\ whole' = FALSE
  /\ UNCHANGED <<volume, deep, stack, at, run, batch, file, damaged>>

\* runScannerOperation
Start == pc = "idle" /\ runs = 0 /\ Run(<<>>)

\* onContinueSession on an incomplete session.
Resume ==
  /\ pc = "idle" /\ runs \in 1 .. MaxRuns - 1
  /\ file.kind = "session" /\ ~file.completed
  /\ \E nodes \in Loads(file.entries, Junk) : Run(nodes)

\* Where scanner_run goes when the phases before have been gone through.
DeepPhase ==
  IF ~deep THEN "end"
  ELSE CASE volume.kind = "fat" -> "fat" [] volume.kind = "ntfs" -> "indx" [] OTHER -> "carve"

ListPhase ==
  CASE volume.kind = "ntfs" -> "mft" [] volume.kind = "ext" -> "inodes" [] OTHER -> DeepPhase

Goto(phase) == pc' = phase /\ at' = 0

\* scanner_init_fs finds no file system, or scan_dir_recursive reads the root directory;
\* the value it returns for an unreadable one is not looked at.
InitFs ==
  /\ pc = "init"
  /\ \/ Goto("end") /\ UNCHANGED stack
     \/ /\ Goto("walk")
        /\ stack' = IF volume.root \in DOMAIN volume.dirs
                    THEN <<[inode |-> volume.root, path |-> <<>>, next |-> 1]>> ELSE <<>>
  /\ UNCHANGED <<volume, deep, run, batch, total, tree, file, cancel, runs, damaged, whole>>

Top == stack[Len(stack)]
Listed(frame) == volume.dirs[frame.inode]

\* Mutant: directories are gone into at any depth.
NewSubdirAnyDepth(e) ==
  e.dir /\ (\A i \in DOMAIN stack : stack[i].inode # e.inode) /\ e.inode \in DOMAIN volume.dirs

\* is_valid_inode, the depth limit, and get_dir of the directory.
NewSubdir(e) ==
  /\ e.dir
  /\ \A i \in DOMAIN stack : stack[i].inode # e.inode
  /\ Len(stack) < MaxDirDepth
  /\ e.inode \in DOMAIN volume.dirs

\* One entry of the innermost directory.
WalkEntry ==
  /\ pc = "walk" /\ stack # <<>> /\ Top.next <= Len(Listed(Top))
  /\ LET e == Listed(Top)[Top.next]
         path == Append(Top.path, e.name)
         stepped == [stack EXCEPT ![Len(stack)].next = @ + 1]
     IN /\ \E t \in {AddPath(tree, path, Item(e.dir, e.deleted, e.size, <<"walk", e.inode>>))} :
             tree' = t /\ ProgressAfter(total + 1, t)
        /\ stack' = IF NewSubdir(e)
                    THEN Append(stepped, [inode |-> e.inode, path |-> path, next |-> 1])
                    ELSE stepped
        /\ total' = total + 1
  /\ UNCHANGED <<volume, deep, pc, at, run, batch, cancel, runs, whole>>

LeaveDir ==
  /\ pc = "walk" /\ stack # <<>> /\ Top.next > Len(Listed(Top))
  /\ stack' = Front(stack)
  /\ UNCHANGED <<volume, deep, pc, at, run, batch, total, tree, file, cancel, runs, damaged, whole>>

\* The first look at the cancel flag; a cancelled scan returns 1.
WalkDone ==
  /\ pc = "walk" /\ stack = <<>>
  /\ Goto(IF cancel THEN "end" ELSE ListPhase)
  /\ whole' = ~cancel
  /\ UNCHANGED <<volume, deep, stack, run, batch, total, tree, file, cancel, runs, damaged>>

\* The MFT phase never looks at the flag.
MftRecord ==
  /\ pc = "mft"
  /\ \/ /\ at < Len(volume.mft) /\ Recoverable(at + 1)
        /\ \E t \in {AddRecord(tree, at + 1)} : tree' = t /\ ProgressAfter(total + 1, t)
        /\ at' = at + 1 /\ total' = total + 1
        /\ UNCHANGED pc
     \/ /\ at < Len(volume.mft) /\ ~Recoverable(at + 1)
        /\ at' = at + 1
        /\ UNCHANGED <<pc, tree, total, file, damaged>>
     \/ /\ at = Len(volume.mft)
        /\ Goto(DeepPhase)
        /\ UNCHANGED <<tree, total, file, damaged>>
  /\ UNCHANGED <<volume, deep, stack, run, batch, cancel, runs, whole>>

\* The last inode that scanner_deep_ext looks at: ino >= total_inodes ends the loop before the
\* one that has this number.
LastInode == Len(volume.inodes) - 1

\* scanner_deep_ext: a cancelled loop ends, and scanner_run goes on.
ExtInode ==
  /\ pc = "inodes"
  /\ IF at < LastInode /\ ~cancel
     THEN /\ at' = at + 1
          /\ Progress(tree)
          /\ IF volume.inodes[at + 1].used
             THEN tree' = AddInode(tree, at + 1) /\ total' = total + 1
             ELSE UNCHANGED <<tree, total>>
          /\ UNCHANGED <<pc, whole>>
     ELSE /\ Goto(DeepPhase)
          /\ whole' = (whole /\ at >= LastInode)
          /\ UNCHANGED <<tree, total, file, damaged>>
  /\ UNCHANGED <<volume, deep, stack, run, batch, cancel, runs>>

\* The clusters of a batch are looked at one by one.
LookAt ==
  /\ batch # <<>>
  /\ tree' = AddCluster(tree, Head(batch))
  /\ batch' = Tail(batch)
  /\ UNCHANGED <<volume, deep, pc, stack, at, run, total, file, cancel, runs, damaged, whole>>


\* scanner_deep_fat has neither progress nor cancel.  Of a stretch of free clusters it
\* keeps FatBatch readable ones, and looks at them when the stretch ends.
FatCluster ==
  /\ pc = "fat" /\ batch = <<>> /\ at < Len(volume.clusters)
  /\ at' = at + 1
  /\ LET c == volume.clusters[at + 1]
     IN IF ~c.free THEN batch' = run /\ run' = <<>>
        ELSE /\ run' = IF c.readable /\ Len(run) < FatBatch THEN Append(run, at + 1) ELSE run
             /\ UNCHANGED batch
  /\ UNCHANGED <<volume, deep, pc, stack, total, tree, file, cancel, runs, damaged, whole>>

\* One read of the whole run: when a part of it fails, nothing of it is looked at.
ReadRun(cs) ==
  batch' = IF \A c \in Range(cs) : volume.clusters[c].readable THEN cs ELSE <<>>

\* scanner_deep_ntfs: a run of free clusters is read when it ends or is NtfsBatch long.
\* The flag is looked at after each piece of $Bitmap.
IndxCluster ==
  /\ pc = "indx" /\ batch = <<>> /\ at < Len(volume.clusters)
  /\ IF at > 0 /\ at % BitmapChunk = 0 /\ cancel
     THEN at' = Len(volume.clusters) /\ whole' = FALSE /\ UNCHANGED <<run, batch>>
     ELSE /\ at' = at + 1
          /\ LET free == volume.clusters[at + 1].free
                 now == IF free THEN Append(run, at + 1) ELSE run
             IN IF free /\ Len(now) < NtfsBatch
                THEN run' = now /\ UNCHANGED batch
                ELSE run' = <<>> /\ ReadRun(now)
          /\ UNCHANGED whole
  /\ UNCHANGED <<volume, deep, pc, stack, total, tree, file, cancel, runs, damaged>>

\* Mutant: the run is not reset.
ClustersDoneAgain ==
  /\ pc \in {"fat", "indx"} /\ batch = <<>> /\ at = Len(volume.clusters)
  /\ IF run # <<>> THEN ReadRun(run) /\ UNCHANGED <<pc, at>>
                   ELSE Goto("end") /\ UNCHANGED batch
  /\ UNCHANGED <<volume, deep, stack, run, total, tree, file, cancel, runs, damaged, whole>>

\* What is still waiting is read after the last cluster.
ClustersDone ==
  /\ pc \in {"fat", "indx"} /\ batch = <<>> /\ at = Len(volume.clusters)
  /\ IF run # <<>> THEN run' = <<>> /\ ReadRun(run) /\ UNCHANGED <<pc, at>>
                   ELSE Goto("end") /\ UNCHANGED <<run, batch>>
  /\ UNCHANGED <<volume, deep, stack, total, tree, file, cancel, runs, damaged, whole>>

\* carver_run; CarverScan has what it finds.  Its chunks are progress too.
CarveFile ==
  /\ pc = "carve"
  /\ IF at < Len(volume.carved)
     THEN /\ \E t \in {AddPath(tree, <<Orphans>> \o volume.carved[at + 1],
                                Item(FALSE, TRUE, 1, <<"carve", at + 1>>))} :
               tree' = t /\ Progress(t)
          /\ at' = at + 1
          /\ UNCHANGED pc
     ELSE Goto("end") /\ UNCHANGED <<tree, file, damaged>>
  /\ UNCHANGED <<volume, deep, stack, run, batch, total, cancel, runs, whole>>

\* The finished slot: endSession whatever the result.
EndSession ==
  /\ pc = "end"
  /\ IF deep THEN Save(tree, TRUE) ELSE UNCHANGED <<file, damaged>>
  /\ pc' = "idle"
  /\ UNCHANGED <<volume, deep, stack, at, run, batch, total, tree, cancel, runs, whole>>

PressCancel ==
  /\ pc \notin {"idle", "end"} /\ ~cancel
  /\ cancel' = TRUE
  /\ UNCHANGED <<volume, deep, pc, stack, at, run, batch, total, tree, file, runs, damaged, whole>>

\* The program is killed; only the file survives.
Kill ==
  /\ pc # "idle"
  /\ pc' = "idle" /\ stack' = <<>> /\ at' = 0 /\ run' = <<>> /\ batch' = <<>> /\ total' = 0 /\ tree' = <<>>
  /\ cancel' = FALSE /\ whole' = FALSE
  /\ UNCHANGED <<volume, deep, file, runs, damaged>>

Work == \/ InitFs \/ WalkEntry \/ LeaveDir \/ WalkDone \/ MftRecord \/ ExtInode \/ LookAt
        \/ FatCluster \/ IndxCluster \/ ClustersDone \/ CarveFile \/ EndSession

Next == Start \/ Resume \/ Work \/ PressCancel \/ Kill

Spec == Init /\ [][Next]_vars

\* The operating system runs the worker thread, the event loop delivers its last signal.
FairSpec == Spec /\ WF_vars(Work)

-----------------------------------------------------------------------------
(* Properties. *)

Phases == {"init", "walk", "mft", "inodes", "fat", "indx", "carve", "end"}
NodeOK(n) ==
  /\ n.parent \in Nat /\ {n.dir, n.deleted, n.orphan} \subseteq BOOLEAN
  /\ n.size \in Nat

TypeOK ==
  /\ deep \in BOOLEAN /\ pc \in Phases \cup {"idle"}
  /\ Len(stack) <= MaxDirDepth
  /\ \A i \in DOMAIN stack : stack[i].next \in 1 .. Len(Listed(stack[i])) + 1
  /\ at \in Nat /\ total \in Nat /\ Len(run) <= (IF pc = "fat" THEN FatBatch ELSE NtfsBatch - 1)
  /\ \A i \in DOMAIN tree : NodeOK(tree[i]) /\ tree[i].parent < i
  /\ file.kind \in {"none", "unreadable", "session"} /\ file.completed \in BOOLEAN
  /\ runs \in 0 .. MaxRuns /\ {cancel, damaged, whole} \subseteq BOOLEAN

(* What there is to find. *)

\* The directories the walk may stand in, by their depth: no directory is below itself.
Places ==
  LET here[d \in 1 .. MaxDirDepth] ==
        IF d = 1
        THEN {[chain |-> <<volume.root>>, path |-> <<>>] : r \in {volume.root} \cap DOMAIN volume.dirs}
        ELSE UNION {{[chain |-> Append(p.chain, e.inode), path |-> Append(p.path, e.name)] :
                     e \in {f \in Range(volume.dirs[Last(p.chain)]) :
                            f.dir /\ f.inode \notin Range(p.chain) /\ f.inode \in DOMAIN volume.dirs}} :
                    p \in here[d - 1]}
  IN UNION {here[d] : d \in 1 .. MaxDirDepth}

WalkFound ==
  \A p \in Places : \A e \in Range(volume.dirs[Last(p.chain)]) :
    \E i \in FindPath(tree, Append(p.path, e.name)) : e.deleted => tree[i].deleted

\* The path that what is in its record's clusters gives a stream.
GivenName(stream) ==
  Append(Front(stream.path), Renamed(Last(stream.path), volume.records[stream.inode].hint))

Names(stream) == {stream.path, GivenName(stream)}

Namesakes(j, k) == Names(volume.mft[j]) \cap Names(volume.mft[k]) # {}

\* The streams that namesakes lead to from j: of streams that share names, one can give a
\* node the name of another.
Kin(j, k) ==
  \A S \in SUBSET Streams :
    j \in S /\ (\A m \in S, n \in Streams : Namesakes(m, n) => n \in S) => k \in S

\* A stream is under its path, or under a name that its contents, or those of a namesake
\* it shares its node with, gave it.
RecordFound(k) ==
  \E m \in {n \in Streams : Kin(k, n)} : \E i \in DOMAIN tree, p \in Names(volume.mft[m]) :
    tree[i].orphan /\ tree[i].deleted /\ FullPath(tree, i) = <<Orphans>> \o p

InodeFound(n) == \E i \in DOMAIN tree : tree[i].src = <<"inode", n>>

Found(c) == \A e \in Range(volume.clusters[c].entries) : FindPath(tree, <<Results, e.name>>) # {}

\* The free clusters right before c.
FreeBefore(c) == {b \in 1 .. c - 1 : \A d \in b .. c - 1 : volume.clusters[d].free}

FreeFound(limit(_)) ==
  \A c \in DOMAIN volume.clusters :
    volume.clusters[c].free /\ volume.clusters[c].readable /\ limit(c) => Found(c)

Complete == whole /\ pc \in {"end", "idle"}


\* No stream is renamed to what another has for a directory.  Where one is, the resumed session
\* puts the clusters of the file on the directory, and the next save writes what
\* session_read_tree does not read.
Unmixed ==
  \A j, k \in Streams : \A n \in 1 .. Len(volume.mft[j].path) - 1 :
    SubSeq(volume.mft[j].path, 1, n) = GivenName(volume.mft[k])
      => GivenName(volume.mft[k]) = volume.mft[k].path

\* Saved and loaded, the tree has every node that is alone with its path as it was, with its
\* data, its flags and its cluster list; whatever the session before was, no directory has
\* clusters, whose bytes session_read_tree would take for what comes next.
SavedReadsBack ==
  Unmixed => \A loaded \in Loads(Serialize(tree), Junk) :
               \A i \in DOMAIN tree : Alone(tree, i) => ReadBack(tree, loaded, i)

\* The clusters a file is restored from are those of the first stream of the record that gave
\* its size, or of one that namesakes lead to (ntfs_fill_clusters after tree_add_path found
\* an older node).
OwnClusters ==
  Unmixed => \A i \in DOMAIN tree :
    LET node == tree[i]
    IN node.clusters # NoSource /\ node.clusters # <<"boot">> =>
         /\ node.src[1] = "mft"
         /\ \E k \in Streams : Kin(node.src[2], k) /\ node.clusters = <<"data", volume.mft[k].inode>>

DeletedData(entries) == {entries[i].item.src : i \in {j \in DOMAIN entries : entries[j].item.deleted}}

\* A session never forgets: each save has the data of every deleted file that the one before
\* had, unless streams are namesakes, or one has the name of another's directory.
SavedFilesStay ==
  [][/\ file.kind = "session" /\ file'.kind = "session" /\ ~damaged'
     /\ Unmixed /\ \A j, k \in Streams : Namesakes(j, k) => j = k
     => DeletedData(file.entries) \subseteq DeletedData(file'.entries)]_vars

\* The worker comes to its end on every file system, one with directories in each other as
\* well, and the session is closed.
ScanEnds == pc \in Phases ~> pc = "idle"
=============================================================================
