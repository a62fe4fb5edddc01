---------------------------- MODULE RestoreData ----------------------------
(***************************************************************************)
(* The copying of core/restore.c: the marked nodes of a tree restored one  *)
(* after another into a directory (restore_files, restore_node_recursive,  *)
(* restore_file, restore_orphan), and single files read for the preview    *)
(* (read_file_bytes), which goes over clusters and sectors with loops of   *)
(* its own and falls back on restore_file_node.  A byte is the address it  *)
(* was read from.  What the drivers' copy_file functions hand over is left *)
(* open: the file's bytes or stale ones, all or some, reported good or bad *)
(* without regard to it, for fat_copy does no better.                      *)
(***************************************************************************)
EXTENDS Naturals, Sequences

CONSTANTS
  Batches,      \* sequences of marked nodes, in the order of the tree
  Buf,          \* 64 KiB: buffer of restore_orphan, piece of read_file_bytes
  SectorSize,
  PreviewCap,   \* maxRead, and the first allocation: 64 MiB
  Unreadable,   \* addresses that cannot be read
  MaxTasks      \* bound: restores and previews in a behaviour

NodeType ==
  [path : Seq(STRING), dir : BOOLEAN, orphan : BOOLEAN, backup : BOOLEAN, size : Nat,
   clusters : Seq(Nat), unit : Nat, first : Nat, sectors : Nat]

ASSUME SizesAssumption == {Buf, SectorSize, PreviewCap, MaxTasks} \subseteq Nat \ {0}
ASSUME BatchesAssumption == Batches \subseteq Seq(NodeType) \ {<<>>}

VARIABLES
  batch,      \* the marked nodes; read only
  queue,      \* those restore_node_recursive has not come to
  node, mode, \* the file being copied, and for what: "restore" or "preview"
  state,      \* "copying", or how the last copy ended: "whole" or "part"
  ci,         \* clusters begun
  from, left, \* what of the cluster, or of the sectors, is left
  remaining,  \* what of the file is left
  room,       \* allocated, in a preview
  used, out,  \* what was written or put into the buffer, a function on 1 .. used
  dest,       \* the destination: a function on paths
  outside,    \* paths written outside of it
  (* history, read by properties only *)
  done,       \* the copies that ended, in order
  starved,    \* a realloc failed
  full        \* a write failed, or the one in fclose

vars == <<batch, queue, node, mode, state, ci, from, left, remaining, room, used, out, dest, outside,
          done, starved, full>>

copier == <<node, mode, ci, from, left, remaining, room, used, out>>

Least(a, b) == IF a < b THEN a ELSE b
Last(s) == s[Len(s)]

-----------------------------------------------------------------------------
(* Which bytes a file has: pieces of the same length, the last one cut to its size. *)

HasClusters(n) == n.clusters # <<>> /\ n.unit > 0

\* The dispatch of restore_file, and that of read_file_bytes.
Raw(n) == n.orphan \/ (n.backup /\ n.clusters # <<>>)

Way(n, m) ==
  CASE (m = "preview" \/ Raw(n)) /\ HasClusters(n) -> "clusters"
    [] m = "restore" /\ Raw(n) /\ ~HasClusters(n) -> "sectors"
    [] m = "preview" /\ ~HasClusters(n) /\ n.orphan /\ n.first # 0 /\ n.sectors > 0 -> "sectors"
    [] m = "preview" /\ ~HasClusters(n) /\ Raw(n) /\ ~(n.first # 0 /\ n.sectors > 0) -> "astray"
    [] OTHER -> "driver"

Layout(n, m) ==
  LET all == n.sectors * SectorSize
      some == IF m = "preview" THEN Least(all, PreviewCap) ELSE all
  IN CASE Way(n, m) = "clusters" -> [list |-> n.clusters, unit |-> n.unit, size |-> n.size]
       [] Way(n, m) = "sectors" -> [list |-> <<n.first>>, unit |-> some, size |-> some]
       [] Way(n, m) = "astray" -> [list |-> <<n.first>>, unit |-> all, size |-> all]
       [] OTHER -> [list |-> <<n.first>>, unit |-> n.size, size |-> n.size]

\* Copied by a driver: fs/*_dir.c.
Driven == Way(node, mode) = "driver"

\* How much of the file the list has.
Covered(l) == Least(l.size, Len(l.list) * l.unit)

Bytes(l) ==
  [i \in 1 .. Covered(l) |->
     l.list[(i - 1) \div l.unit + 1] + ((i - 1) % l.unit)]

Content(n, m) == Bytes(Layout(n, m))

-----------------------------------------------------------------------------
(* The destination. *)

Directory == [dir |-> TRUE, bytes |-> <<>>]
File(bytes) == [dir |-> FALSE, bytes |-> bytes]

Parent(path) == SubSeq(path, 1, Len(path) - 1)
Above(path) == {SubSeq(path, 1, k) : k \in 1 .. Len(path) - 1}

With(d, path, entry) == [q \in DOMAIN d \cup {path} |-> IF q = path THEN entry ELSE d[q]]

Files(d) == {q \in DOMAIN d : ~d[q].dir}

\* Mutant: the directory, but not those above it.
MakeDirsFlat(d, path) ==
  IF path = <<>> \/ path \in DOMAIN d \/ ~(Above(path) \subseteq DOMAIN d \ Files(d)) THEN d
  ELSE With(d, path, Directory)

\* mkdir_recursive: what is in the way stays, and nobody is told.
MakeDirs(d, path) ==
  LET made == {q \in (Above(path) \cup {path}) \ (DOMAIN d \cup {<<>>}) : Above(q) \cap Files(d) = {}}
  IN [q \in DOMAIN d \cup made |-> IF q \in made THEN Directory ELSE d[q]]

CanOpen(d, path) == Above(path) \subseteq DOMAIN d \ Files(d) /\ (path \in DOMAIN d => ~d[path].dir)

-----------------------------------------------------------------------------
Nothing == [i \in 1 .. 0 |-> 0]

Init ==
  /\ batch \in Batches /\ queue = <<>>
  /\ node = batch[1] /\ mode = "restore" /\ state = "part"
  /\ ci = 0 /\ from = 0 /\ left = 0 /\ remaining = 0 /\ room = 0 /\ used = 0 /\ out = Nothing
  /\ dest = [q \in {} |-> Directory] /\ outside = {}
  /\ done = <<>> /\ starved = FALSE /\ full = FALSE

Idle == state # "copying" /\ queue = <<>> /\ Len(done) < MaxTasks

\* restore_files; the tree and its marks stay, and may be restored again.
Restore ==
  /\ Idle
  /\ queue' = batch
  /\ UNCHANGED <<batch, state, dest, outside, done, starved, full>> /\ UNCHANGED copier

AtDirectory == state # "copying" /\ queue # <<>> /\ Head(queue).dir

\* Mutant: every marked directory is remade as a file's parents are, and replaces a file.
MakeDirectoryOver ==
  /\ AtDirectory
  /\ dest' = With(dest, <<Last(Head(queue).path)>>, Directory)
  /\ queue' = Tail(queue)
  /\ UNCHANGED <<batch, state, outside, done, starved, full>> /\ UNCHANGED copier

\* A marked directory is made under its name alone: the recursion hands on dest_dir as it is.
MakeDirectory ==
  /\ AtDirectory
  /\ dest' = MakeDirs(dest, <<Last(Head(queue).path)>>)
  /\ queue' = Tail(queue)
  /\ UNCHANGED <<batch, state, outside, done, starved, full>> /\ UNCHANGED copier

Ended(n, m, result, bytes) ==
  done' = Append(done, [node |-> n, mode |-> m, result |-> result, bytes |-> bytes])

Begin(n, m) ==
  /\ node' = n /\ mode' = m /\ state' = "copying"
  /\ ci' = 0 /\ from' = 0 /\ left' = 0 /\ used' = 0 /\ out' = Nothing
  /\ remaining' = Layout(n, m).size
  /\ room' = Least(Layout(n, m).size, PreviewCap)
  /\ UNCHANGED <<batch, done, starved, full>>

\* restore_file: fopen "wb", or CP_CREATE_FAILED.
RestoreFile ==
  /\ state # "copying" /\ queue # <<>> /\ ~Head(queue).dir
  /\ queue' = Tail(queue)
  /\ LET path == Head(queue).path
         made == MakeDirs(dest, Parent(path))
     IN IF CanOpen(made, path)
        THEN dest' = With(made, path, File(Nothing)) /\ Begin(Head(queue), "restore")
        ELSE /\ dest' = made
             /\ Ended(Head(queue), "restore", "failed", Nothing)
             /\ UNCHANGED <<batch, state, starved, full>> /\ UNCHANGED copier
  /\ UNCHANGED outside

\* A driver that opens no file: ntfs_copy that finds no $DATA fails, a file system that has no
\* copy_file is CP_OK.
DriverDeclines ==
  /\ state # "copying" /\ queue # <<>> /\ ~Head(queue).dir /\ Way(Head(queue), "restore") = "driver"
  /\ queue' = Tail(queue)
  /\ \E result \in {"ok", "failed"} : Ended(Head(queue), "restore", result, Nothing)
  /\ UNCHANGED <<batch, state, dest, outside, starved, full>> /\ UNCHANGED copier

\* read_file_bytes, on the UI thread, when no restore is at work.  An orphan that is in
\* neither of its paths is restored into "/": restore_orphan knows nothing of the capture.
Preview ==
  /\ Idle
  /\ \E k \in DOMAIN batch :
       /\ ~batch[k].dir /\ batch[k].size > 0
       /\ Begin(batch[k], "preview")
       /\ outside' = outside \cup (IF Way(batch[k], "preview") = "astray" THEN {batch[k].path} ELSE {})
  /\ UNCHANGED <<queue, dest>>

\* Mutant: the last cluster is copied whole.
NextClusterUncut ==
  LET l == Layout(node, mode)
  IN /\ state = "copying" /\ left = 0 /\ ci < Len(l.list) /\ remaining > 0
     /\ ci' = ci + 1 /\ from' = l.list[ci + 1] /\ left' = l.unit
     /\ UNCHANGED <<batch, queue, node, mode, state, remaining, room, used, out, dest, outside,
                    done, starved, full>>

\* One turn of the loop over the clusters; the sectors and the driver's file are one piece.
NextCluster ==
  LET l == Layout(node, mode)
  IN /\ state = "copying" /\ left = 0 /\ ci < Len(l.list) /\ remaining > 0
     /\ ci' = ci + 1
     /\ from' = l.list[ci + 1]
     /\ left' = Least(l.unit, remaining)
     /\ UNCHANGED <<batch, queue, node, mode, state, remaining, room, used, out, dest, outside,
                    done, starved, full>>

Chunk == Least(left, Buf)
Readable == (from .. from + Chunk - 1) \cap Unreadable = {}
NoRoom == mode = "preview" /\ Way(node, mode) = "clusters" /\ used + Chunk > room

\* restore_orphan reads a cluster once, however long it is; every other loop goes on.
LeftAfter == IF mode = "restore" /\ Way(node, mode) = "clusters" THEN 0 ELSE left - Chunk

\* Mutant: the offset stays.
CopyPieceInPlace ==
  /\ state = "copying" /\ left > 0 /\ Readable
  /\ out' = [i \in 1 .. used + Chunk |-> IF i <= used THEN out[i] ELSE from + (i - used - 1)]
  /\ used' = used + Chunk
  /\ remaining' = remaining - Chunk /\ left' = LeftAfter
  /\ UNCHANGED <<batch, queue, node, mode, state, ci, from, room, dest, outside, done, starved, full>>

\* One pread and one fwrite, or one piece of the preview's buffer.
CopyPiece ==
  /\ state = "copying" /\ left > 0 /\ Readable
  /\ out' = [i \in 1 .. used + Chunk |-> IF i <= used THEN out[i] ELSE from + (i - used - 1)]
  /\ used' = used + Chunk
  /\ remaining' = remaining - Chunk /\ from' = from + Chunk /\ left' = LeftAfter
  /\ room' = IF NoRoom THEN (IF 2 * room < used + Chunk THEN used + Chunk ELSE 2 * room) ELSE room
  /\ UNCHANGED <<batch, queue, node, mode, state, ci, dest, outside, done, starved, full>>

\* fat_copy and exfat_copy write what was in their buffer when a cluster cannot be read, or read
\* another than the file's: a byte of neither is a 0 here.
DriverStale ==
  /\ state = "copying" /\ left > 0 /\ Driven
  /\ out' = [i \in 1 .. used + Chunk |-> IF i <= used THEN out[i] ELSE 0]
  /\ used' = used + Chunk
  /\ remaining' = remaining - Chunk /\ from' = from + Chunk /\ left' = LeftAfter
  /\ UNCHANGED <<batch, queue, node, mode, state, ci, room, dest, outside, done, starved, full>>

\* realloc fails: the break leaves the inner loop, and the next cluster goes on behind a gap.
ReallocFails ==
  /\ state = "copying" /\ left > 0 /\ NoRoom
  /\ left' = 0 /\ starved' = TRUE
  /\ UNCHANGED <<batch, queue, node, mode, state, ci, from, remaining, room, used, out, dest,
                 outside, done, full>>

\* The copy is over; a restored file holds the bytes on the destination.
Close(result, bytes) ==
  /\ state' = IF mode = "restore" /\ result = "ok" THEN "whole" ELSE "part"
  /\ Ended(node, mode, result, bytes)
  /\ dest' = IF mode = "restore" THEN With(dest, node.path, File(bytes)) ELSE dest
  /\ UNCHANGED <<batch, queue, outside, starved>> /\ UNCHANGED copier

\* CP_READ_FAILED, or no preview.
ReadFails ==
  /\ state = "copying" /\ left > 0 /\ ~Readable /\ ~Driven
  /\ Close("failed", IF mode = "restore" THEN out ELSE Nothing)
  /\ UNCHANGED full

\* A driver stops: CP_STAT_FAILED or CP_READ_FAILED, or CP_OK at the end of a chain shorter
\* than the file.  A preview does not look at the result, but at whether there is anything.
DriverStops ==
  /\ state = "copying" /\ Driven
  /\ IF mode = "restore" THEN \E result \in {"ok", "failed"} : Close(result, out)
     ELSE Close(IF used = 0 THEN "failed" ELSE "ok", out)
  /\ UNCHANGED full

\* CP_NOSPACE.  Bound: the destination is full once.
WriteFails ==
  /\ state = "copying" /\ left > 0 /\ mode = "restore" /\ ~full
  /\ Close("failed", out) /\ full' = TRUE

\* Mutant: the list may end before the file does.
AtEndOfFile == state = "copying" /\ left = 0 /\ remaining = 0

AtEnd == state = "copying" /\ left = 0 /\ (remaining = 0 \/ ci >= Len(Layout(node, mode).list))

\* The loops are over.  The preview of a file that went astray has captured nothing.
Finish ==
  /\ AtEnd
  /\ IF Way(node, mode) = "astray" THEN Close("failed", Nothing) ELSE Close("ok", out)
  /\ UNCHANGED full

\* fclose could not write what was buffered, and CP_OK is returned all the same.
FlushFails ==
  /\ AtEnd /\ mode = "restore" /\ ~full /\ full' = TRUE
  /\ \E n \in 0 .. used - 1 : Close("ok", [i \in 1 .. n |-> out[i]])

Copying ==
  \/ NextCluster \/ CopyPiece \/ ReallocFails \/ ReadFails \/ WriteFails \/ Finish \/ FlushFails
  \/ DriverStale \/ DriverStops

Next == Restore \/ MakeDirectory \/ RestoreFile \/ DriverDeclines \/ Preview \/ Copying

Spec == Init /\ [][Next]_vars

\* The worker's thread, or the UI thread in a preview, goes on.
FairSpec == Spec /\ WF_vars(Copying)

-----------------------------------------------------------------------------
(* Properties. *)

TypeOK ==
  /\ mode \in {"restore", "preview"} /\ state \in {"copying", "whole", "part"}
  /\ ci \in 0 .. Len(Layout(node, mode).list)
  /\ {from, left, used, remaining, room} \subseteq Nat
  /\ state = "copying" /\ ~starved => used + remaining = Layout(node, mode).size
  /\ DOMAIN out = 1 .. used
  /\ \A q \in DOMAIN dest : dest[q].dir \in BOOLEAN
  /\ {starved, full} \subseteq BOOLEAN

Nodes == UNION {{b[k] : k \in DOMAIN b} : b \in Batches}

Copy == INSTANCE FileCopy WITH
          Contents <- {Content(n, m) : n \in Nodes, m \in {"restore", "preview"}},
          content <- Content(node, mode), out <- out, state <- state

\* Every copy but a driver's implements FileCopy, up to a realloc that failed: what
\* restore_orphan hands to fwrite and what read_file_bytes gathers is a prefix of the file's
\* contents, and a restore_orphan that reports success has handed over all of them.
CopiesFaithfully == Copy!Init /\ [][Copy!Next \/ starved' \/ Driven']_(Copy!copyVars)

Restores == {k \in DOMAIN done : done[k].mode = "restore"}

\* Restored by restore_orphan, and not by a driver.
Orphaned(k) == Way(done[k].node, "restore") # "driver"

\* The file that was restored last under its path.
Lasting(k) ==
  /\ \A j \in Restores : j > k => done[j].node.path # done[k].node.path
  /\ ~(state = "copying" /\ mode = "restore" /\ node.path = done[k].node.path)

\* What restore_orphan reported good stays on the destination, whatever is restored after it,
\* by a driver or not, and holds the file's contents, unless a later file had the same path
\* (restore_node_recursive over several restores); a destination that is full is excepted, for
\* fclose is not looked at, and so is what a driver reports good.
RestoredStays ==
  \A k \in Restores :
    done[k].result = "ok" /\ Orphaned(k) /\ Lasting(k) /\ ~full =>
      LET n == done[k].node
      IN n.path \in Files(dest) /\ dest[n.path].bytes = Content(n, "restore")

\* A marked directory, or a file above or below, that wants the place of file n.
Clash(n) ==
  \E k \in DOMAIN batch :
    LET other == batch[k]
    IN IF other.dir THEN <<Last(other.path)>> = n.path \/ n.path \in Above(other.path)
       ELSE other.path \in Above(n.path) \/ n.path \in Above(other.path)

\* restore_orphan reports a file as failed only when the disk could not be read, the
\* destination was full, or two marked nodes clash (mkdir_recursive and fopen); a driver
\* may have other reasons.
OnlyClashesFail ==
  \A k \in Restores :
    done[k].result = "failed" /\ Orphaned(k) /\ ~full =>
      LET n == done[k].node
          bytes == Content(n, "restore")
      IN Clash(n) \/ \E i \in DOMAIN bytes : bytes[i] \in Unreadable

\* A copy comes to its end (the loops of restore_orphan and read_file_bytes).
CopyEnds == state = "copying" ~> state # "copying"

(* What the repository says of the program, and the code does not do. *)

\* restore.c:430: "The cluster-loop in PATH 1 is structurally identical to the cluster loop
\* in restore_orphan() - same chunk size (64KB), same offset calculation".
PreviewShowsRestored ==
  \A j, k \in DOMAIN done :
    /\ done[j].mode = "preview" /\ done[k].mode = "restore" /\ done[j].node = done[k].node
    /\ done[j].result = "ok" /\ done[k].result = "ok" /\ ~starved /\ ~full
    /\ Way(done[j].node, "preview") = "clusters"
    => \A i \in DOMAIN done[j].bytes \cap DOMAIN done[k].bytes : done[j].bytes[i] = done[k].bytes[i]
=============================================================================
