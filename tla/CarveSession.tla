---------------------------- MODULE CarveSession ----------------------------
(***************************************************************************)
(* A carve with session saving, over several runs of the program: the      *)
(* chunk loop of core/carver.c, the checkpoints and the final save of      *)
(* core/session.c and wrappers/sessionmanager.cpp, the tree of             *)
(* core/tree.c, and onContinueSession of ui/mainwindow.cpp, which resumes  *)
(* from the file after the program was killed.  One worker, no other       *)
(* operation: OperationLifecycle has those.                                *)
(***************************************************************************)
EXTENDS CarverScan

CONSTANTS
  Disks,    \* the disks to carve, functions from Sectors to sector contents
  MaxFiles, \* MAX_ORPHAN_FILES: a carve adds no more
  MaxRuns   \* bound: how often the carve is started or resumed

ASSUME RunsAssumption == MaxRuns \in Nat \ {0} /\ MaxFiles \in Nat
ASSUME DisksAssumption == Disks \subseteq [Sectors -> SectorType]

VARIABLES
  disk,     \* the partition's sectors; read only
  pc,       \* "idle", or where the carver is: "scan", "cancelled", "flush", "end"
  pos,      \* chunk_pos
  open,     \* the in_file variables of carver_scan
  count,    \* g_carved_count
  tree,     \* m_scanTree: its file nodes in the order they were added
  file,     \* the session file
  cancel,   \* the cancel flag
  (* history, read by properties only *)
  runs,     \* starts and resumes so far
  seen,     \* sectors examined for headers since the carve began
  damaged,  \* a save did not succeed
  cut       \* a run was cancelled or met a read error

vars == <<disk, pc, pos, open, count, tree, file, cancel, runs, seen, damaged, cut>>

-----------------------------------------------------------------------------
(* The tree.  Every node the carver adds is /ORPHAN/<EXT>/file_<n>.<ext>, deleted. *)

Path(node) == <<node.hint, node.n>>

\* Mutant: the new file takes the place of the one that has its path.
TreeReplacePath(t, node) ==
  Append(SelectSeq(t, LAMBDA m : Path(m) # Path(node)), node)

\* tree_add_path: an existing node of that path is returned and, being deleted already,
\* left as it is.
TreeAddPath(t, node) ==
  IF \E m \in Range(t) : Path(m) = Path(node) THEN t ELSE Append(t, node)

\* g_carved_count stops at MAX_ORPHAN_FILES: the files past it are dropped.
Kept(n, found) == SubSeq(found, 1, Min({Len(found), MaxFiles - n}))

\* carver_add_entry for each file kept; g_carved_count numbers them.
AddEntries(t, n, found) ==
  LET after[k \in 0 .. Len(found)] ==
        IF k = 0 THEN t
        ELSE TreeAddPath(after[k - 1], [hint |-> found[k].hint, n |-> n + k - 1,
                                        start |-> found[k].start, size |-> found[k].size])
  IN after[Len(found)]

-----------------------------------------------------------------------------
(* The session file. *)

\* A node goes to the end of its directory, and a new directory to the end of /ORPHAN.
PutInFolder(nodes, node) ==
  LET folder == {k \in DOMAIN nodes : nodes[k].hint = node.hint}
  IN IF folder = {} THEN Append(nodes, node) ELSE InsertAt(nodes, Max(folder) + 1, node)

\* session_write_tree: directory by directory, in the order they were created.
Serialize(t) ==
  LET written[i \in 0 .. Len(t)] == IF i = 0 THEN <<>> ELSE PutInFolder(written[i - 1], t[i])
  IN written[Len(t)]

NoSession == [kind |-> "none", progress |-> 0, nodes |-> <<>>, completed |-> FALSE]
Unreadable == [NoSession EXCEPT !.kind = "unreadable"]     \* truncated in its header

Image(progress, t, completed) ==
  [kind |-> "session", progress |-> progress, nodes |-> Serialize(t), completed |-> completed]

\* A save cut short: the header goes first, session_load takes what nodes it finds.
Torn(image) ==
  {Unreadable} \cup {[image EXCEPT !.nodes = SubSeq(@, 1, k)] : k \in 0 .. Len(image.nodes) - 1}

\* session_save: fopen "wb" truncates the old session.  When fopen fails the file stays;
\* when a write in the tree fails the file is removed; when one in the header fails, the
\* program dies half-way, or the last buffer is lost in fclose, it is torn.  Bound: one save fails.
Save(image) ==
  \/ file' = image /\ UNCHANGED damaged
  \/ ~damaged /\ damaged' = TRUE /\ file' \in {file, NoSession} \cup Torn(image)

-----------------------------------------------------------------------------
Init ==
  /\ disk \in Disks
  /\ pc = "idle" /\ pos = 0 /\ open = NoFile /\ count = 0 /\ tree = <<>>
  /\ file = NoSession /\ cancel = FALSE
  /\ runs = 0 /\ seen = {} /\ damaged = FALSE /\ cut = FALSE

\* Mutant: the resume offset is lost before the scan reads it.
RunFromStart(from, nodes) ==
  /\ pc' = "scan" /\ pos' = 0 /\ open' = NoFile /\ count' = 0
  /\ tree' = nodes /\ cancel' = FALSE /\ runs' = runs + 1

\* carver_scan up to its loop.
Run(from, nodes) ==
  /\ pc' = "scan"
  /\ pos' = from
  /\ open' = NoFile /\ count' = 0
  /\ tree' = nodes
  /\ cancel' = FALSE
  /\ runs' = runs + 1

\* onCarveRequested with a new session file; nothing is saved before the first chunk.
Start ==
  /\ pc = "idle" /\ runs = 0
  /\ Run(0, <<>>)
  /\ UNCHANGED <<disk, file, seen, damaged, cut>>

\* Mutant: back by the overlap instead of down to a chunk.
ResumeAtOverlap(progress) == IF progress > Overlap THEN progress - Overlap ELSE 0

\* carver_scan on g_carver_resume_offset: down to the start of its chunk.
ResumeFrom(progress) ==
  LET p == (progress \div Chunk) * Chunk IN IF p >= Size THEN 0 ELSE p

\* onContinueSession on an incomplete session: session_load, setupResume, Carver::start.
Resume ==
  /\ pc = "idle" /\ runs \in 1 .. MaxRuns - 1
  /\ file.kind = "session" /\ ~file.completed
  /\ Run(ResumeFrom(file.progress), file.nodes)
  /\ UNCHANGED <<disk, file, seen, damaged, cut>>

\* g_session_save_cb after a chunk: SESSION_SAVE_INTERVAL lets some go by unsaved.
Checkpoint(progress, t) ==
  \/ UNCHANGED <<file, damaged>>
  \/ Save(Image(progress, t, FALSE))

CarveChunk ==
  LET r == ScanChunk(disk, open, pos)
      kept == Kept(count, r.found)
  IN /\ pc = "scan" /\ pos < Size
     /\ open' = r.file
     /\ tree' = AddEntries(tree, count, kept)
     /\ count' = count + Len(kept)
     /\ seen' = seen \cup Examined(pos)
     /\ Checkpoint(pos, tree')
     /\ \/ cancel /\ pc' = "cancelled" /\ UNCHANGED pos
        \/ ~cancel /\ pos' = pos + Chunk /\ UNCHANGED pc
     /\ UNCHANGED <<disk, cancel, runs, cut>>

\* pread gave less than it was asked for: the loop ends as at the end of the partition.
ReadError ==
  /\ pc = "scan" /\ pos < Size
  /\ pc' = "flush"
  /\ cut' = TRUE
  /\ UNCHANGED <<disk, pos, open, count, tree, file, cancel, runs, seen, damaged>>

\* Mutant: the loop stops before a last chunk that is not full.
EndBeforePartialChunk ==
  /\ pc = "scan" /\ pos + Chunk > Size
  /\ pc' = "flush"
  /\ UNCHANGED <<disk, pos, open, count, tree, file, cancel, runs, seen, damaged, cut>>

EndOfPartition ==
  /\ pc = "scan" /\ pos >= Size
  /\ pc' = "flush"
  /\ UNCHANGED <<disk, pos, open, count, tree, file, cancel, runs, seen, damaged, cut>>

FlushLast ==
  LET kept == Kept(count, Flush(disk, open))
  IN /\ pc = "flush"
     /\ tree' = AddEntries(tree, count, kept)
     /\ count' = count + Len(kept)
     /\ pc' = "end"
     /\ UNCHANGED <<disk, pos, open, file, cancel, runs, seen, damaged, cut>>

\* "saving incomplete session for resume"
SaveCancelled ==
  /\ pc = "cancelled"
  /\ Save(Image(pos, tree, FALSE))
  /\ pc' = "end"
  /\ cut' = TRUE
  /\ UNCHANGED <<disk, pos, open, count, tree, cancel, runs, seen>>

\* The finished slot: SessionManager::endSession, after a cancelled carve as well; its
\* progress is m_saveCtx.resume_offset, which is 0.
EndSession ==
  /\ pc = "end"
  /\ Save(Image(0, tree, TRUE))
  /\ pc' = "idle"
  /\ UNCHANGED <<disk, pos, open, count, tree, cancel, runs, seen, cut>>

PressCancel ==
  /\ pc = "scan" /\ ~cancel
  /\ cancel' = TRUE
  /\ UNCHANGED <<disk, pc, pos, open, count, tree, file, runs, seen, damaged, cut>>

\* The program is killed; only the file survives.
Kill ==
  /\ pc # "idle"
  /\ pc' = "idle"
  /\ pos' = 0 /\ open' = NoFile /\ count' = 0 /\ tree' = <<>> /\ cancel' = FALSE
  /\ UNCHANGED <<disk, file, runs, seen, damaged, cut>>

Next == \/ Start \/ Resume \/ CarveChunk \/ ReadError \/ EndOfPartition \/ FlushLast
        \/ SaveCancelled \/ EndSession \/ PressCancel \/ Kill

Spec == Init /\ [][Next]_vars

-----------------------------------------------------------------------------
(* Properties. *)

Node == [hint : Hints, n : Nat, start : Sectors, size : 1 .. Size + MaxGap]

TypeOK ==
  /\ pc \in {"idle", "scan", "cancelled", "flush", "end"}
  /\ pos \in Nat /\ pos % Chunk = 0
  /\ open = NoFile \/ (open.hint \in Hints /\ open.start \in Sectors /\ open.footer \in 0 .. Size)
  /\ count \in 0 .. Size /\ count <= MaxFiles
  /\ tree \in Seq(Node) /\ file.nodes \in Seq(Node)
  /\ file.kind \in {"none", "unreadable", "session"}
  /\ file.progress \in ChunkStarts /\ file.completed \in BOOLEAN
  /\ cancel \in BOOLEAN /\ damaged \in BOOLEAN /\ cut \in BOOLEAN
  /\ runs \in 0 .. MaxRuns /\ seen \subseteq Sectors

Whole == file.kind = "session" /\ file.completed /\ ~damaged /\ ~cut

\* However often it was killed and resumed, a carve that ended by itself examined every
\* sector that an uninterrupted carve examines: no resume point lies past a sector nobody
\* looked at (carver.c, the loop and g_carver_resume_offset).
NoChunkSkipped ==
  Whole => UNION {Examined(p) : p \in ChunkStarts} \subseteq seen

\* A session never forgets: each save of the file holds all the files of the one before
\* (the numbering restarts at 0 in every run and the new names meet the old ones).
SavedFilesStay ==
  [][file.kind = "session" /\ ~damaged' => Range(file.nodes) \subseteq Range(file'.nodes)]_vars

\* An incomplete session never moves its resume point backwards.
ProgressStays ==
  [][file.kind = "session" /\ ~damaged' /\ ~file'.completed
       => file.progress <= file'.progress]_vars

\* Within one run the files carved follow each other on the disk without overlapping, so
\* that no sector is given to two files.
CarvedApart ==
  runs = 1 => \A i, j \in DOMAIN tree :
    tree[i].n < tree[j].n => tree[i].start + tree[i].size <= tree[j].start

IsHeader(s) == disk[s].kind = "header"
ExaminedHeaders == {s \in UNION {Examined(p) : p \in ChunkStarts} : IsHeader(s)}

\* The headers no embedded-file rule may pass over: the one before is of another type.
OwnFile(s) ==
  LET before == {r \in ExaminedHeaders : r < s}
  IN before # {} => disk[Max(before)].hint # disk[s].hint

\* No header's sector from s on holds a footer of its type that would leave its file fewer
\* than CARVER_MIN_SIZE bytes: carver_add_entry drops such a file (carver.c:466, 679).
LongEnough(s) ==
  \A r \in ExaminedHeaders : r >= s => ~(disk[r].footer = disk[s].hint /\ disk[r].short)

AllCarved ==
  \A s \in ExaminedHeaders : OwnFile(s) /\ LongEnough(s) =>
    \E m \in Range(file.nodes) : m.start = s /\ m.hint = disk[s].hint

\* A carve done in one run that did not fill its MAX_ORPHAN_FILES finds a file at every
\* examined header that starts one, across chunk boundaries, footers, gaps and the flush
\* at the end, unless a footer cuts it down to less than CARVER_MIN_SIZE.
OneRunFindsAll == Whole /\ runs = 1 /\ Len(file.nodes) < MaxFiles => AllCarved

(* What the repository says of the program, and the code does not do. *)

\* README.md:194 "checks for file headers at every 512-byte sector boundary".
EverySectorChecked == Whole => seen = Sectors
=============================================================================
