------------------------------ MODULE Selection ------------------------------
(***************************************************************************)
(* Which disk and which partition the user works on: the pages of          *)
(* ui/mainwindow.cpp and ui/partitionselectionwidget.cpp, the list of      *)
(* wrappers/partitionlist.cpp, LUKS volumes that are opened in its place,  *)
(* sessions that are continued, and the search for deleted partitions of   *)
(* core/ghostscan.c, which wrappers/ghostfinder.cpp runs in a thread while *)
(* its dialog, that may be closed, holds the window.  An operation runs in *)
(* one step here: see OperationLifecycle.  Indices count from 1.           *)
(***************************************************************************)
EXTENDS Integers, Sequences, SequencesExt, FiniteSets

CONSTANTS
  Disks,    \* what the disk page offers
  Media,    \* what is on each of them and on the decrypted ones
  Strides,  \* GHOSTSCAN_STRIDE_*
  Window,   \* GHOSTSCAN_BUFFER_SIZE, in sectors
  Near,     \* GHOSTSCAN_DEDUP_SECTORS
  Width     \* 2^64, in sectors

\* A partition of this width: where it is, in sectors.
PartType == [at : {n \in Nat : n < Width}, size : Nat, type : STRING, encrypted : BOOLEAN]

ASSUME SelectionAssumption ==
  /\ Disks \subseteq DOMAIN Media /\ "none" \notin DOMAIN Media
  /\ Strides \subseteq Nat \ {0} /\ {Window, Near, Width} \subseteq Nat \ {0} /\ 2 * Near < Width

\* A disk: its size, its table of partitions, and by sector what is found there.
ASSUME MediaAssumption ==
  \A d \in DOMAIN Media :
    /\ Media[d].size \in Nat /\ Media[d].parts \in Seq(PartType)
    /\ DOMAIN Media[d].sigs \subseteq Nat /\ \A s \in DOMAIN Media[d].sigs : Media[d].sigs[s] \in PartType

VARIABLES
  page,      \* m_stack: "disks", "parts" or "browser"
  disk,      \* m_currentDisk
  parts,     \* m_partList
  listed,    \* m_partitions
  row,       \* selectedPartitionIndex()
  idx,       \* m_selectedPartIdx
  tree,      \* what the shown m_scanTree was made from
  session,   \* what the session file was saved for
  finder,    \* the search's thread
  results,   \* m_resultList of the GhostFinder
  dialog,    \* the search's dialog: "none", "open", "unheard" or "finished"
  alive,     \* the program runs
  (* history, read by properties only *)
  known,     \* the tree is of what the user picked: not continued, not decrypted
  dismissed  \* the search's dialog was closed before the search had ended

vars == <<page, disk, parts, listed, row, idx, tree, session, finder, results, dialog, alive,
          known, dismissed>>
pages == <<page, disk, parts, row, idx, tree, session, known>>

None == [disk |-> "none", part |-> [at |-> 0, size |-> 0, type |-> "none", encrypted |-> FALSE]]
NoRow == -1
WholeRow == -2

Idle == [phase |-> "idle", disk |-> "none", known |-> <<>>, stale |-> FALSE, stride |-> 1, sector |-> 0, found |-> <<>>]
NoResults == [state |-> "none", list |-> <<>>]

-----------------------------------------------------------------------------
(* core/ghostscan.c *)

Diff(a, b) == IF a < b THEN b - a ELSE a - b

\* Mutant: a partition is known by its type as well.
MatchesKnownOfType(list, part) == \E p \in ToSet(list) : Diff(part.at, p.at) <= Near /\ p.type = part.type

\* matches_known_partition
MatchesKnown(list, part) == \E p \in ToSet(list) : Diff(part.at, p.at) <= Near

\* Mutant: a type is taken once.
IsDuplicateType(list, part) == \E p \in ToSet(list) : p.type = part.type

\* is_duplicate: the subtraction is unsigned.
IsDuplicate(list, part) ==
  \E p \in ToSet(list) :
    /\ p.type = part.type
    /\ part.at >= (p.at - Near) % Width /\ part.at <= p.at + Near

\* Mutant: found partitions are put at the front.
PutFirst(list, part) == <<part>> \o list

Larger(p, part) == p.at > part.at \/ (p.at = part.at /\ p.size > part.size)

\* insert_new_partition with force_insert: before the first that is larger.
Insert(list, part) ==
  InsertAt(list, Min({i \in 1..Len(list) + 1 : i <= Len(list) => Larger(list[i], part)}), part)

\* A window that reaches over the end of the disk is not read.
Readable(medium, sector) == sector + Window <= medium.size /\ sector \notin medium.bad

\* One sector: what search_type_* make of it is a partition, maybe elsewhere.
Examined(medium, list, skip, sector) ==
  IF ~Readable(medium, sector) \/ sector \notin DOMAIN medium.sigs THEN list
  ELSE LET part == medium.sigs[sector]
       IN IF IsDuplicate(list, part) \/ MatchesKnown(skip, part) THEN list ELSE Insert(list, part)

-----------------------------------------------------------------------------
(* Pages. *)

Init ==
  /\ page = "disks" /\ disk = "none" /\ parts = <<>> /\ listed = <<>> /\ row = NoRow /\ idx = NoRow
  /\ tree = None /\ session = None /\ finder = Idle /\ results = NoResults /\ dialog = "none" /\ alive = TRUE
  /\ known = FALSE /\ dismissed = FALSE

Free == alive /\ dialog = "none"

Plain(list) == [i \in DOMAIN list |-> [part |-> list[i], ghost |-> FALSE]]

\* A decrypted disk is closed when another takes its place, whoever reads it; the lists of
\* partitions are never freed.
Closed == IF finder.phase = "scan" /\ disk \notin Disks THEN [finder EXCEPT !.stale = TRUE] ELSE finder

\* Mutant: the table keeps what is selected.
DetectAndKeep(d) ==
  /\ disk' = d /\ parts' = Media[d].parts /\ listed' = Plain(Media[d].parts) /\ row' = row /\ finder' = Closed

\* m_currentDisk = d, detectPartitions: the table is filled again, nothing is selected in it.
Detect(d) ==
  /\ disk' = d /\ parts' = Media[d].parts /\ listed' = Plain(Media[d].parts) /\ row' = NoRow /\ finder' = Closed

OnDiskSelected(d) ==
  /\ Free /\ page = "disks"
  /\ Detect(d) /\ page' = "parts"
  /\ UNCHANGED <<idx, tree, session, results, dialog, alive, known, dismissed>>

Select ==
  /\ Free /\ page = "parts"
  /\ row' \in {WholeRow} \cup DOMAIN listed
  /\ UNCHANGED <<page, disk, parts, listed, idx, tree, session, finder, results, dialog, alive, known, dismissed>>

\* onBackToDisks, onBrowserQuit.  The tree is replaced before it is shown again.
ToDisks ==
  /\ Free /\ page # "disks" /\ page' = "disks" /\ tree' = None /\ known' = FALSE
  /\ UNCHANGED <<disk, parts, listed, row, idx, session, finder, results, dialog, alive, dismissed>>

Whole(d) == [at |-> 0, size |-> Media[d].size, type |-> "whole", encrypted |-> FALSE]

\* Mutant: the list is counted from its second element.
RawAtNext(i) == IF i + 1 \in DOMAIN parts THEN [disk |-> disk, part |-> parts[i + 1]] ELSE None

\* What rawAt(i) returns.
RawAt(i) == IF i \in DOMAIN parts THEN [disk |-> disk, part |-> parts[i]] ELSE None

Picked ==
  IF row = WholeRow THEN [disk |-> disk, part |-> Whole(disk)]
  ELSE IF listed[row].ghost THEN [disk |-> disk, part |-> listed[row].part] ELSE RawAt(row)

Encrypted == row # WholeRow /\ listed[row].part.encrypted

\* A deep scan or a carve may save a session, and leave it incomplete.
Saved(source) == session' \in {session, source}

\* A scan, a carve or a comparison of what is selected.  The buttons of a scan and of a
\* comparison need a partition; an encrypted one is carved or compared as it is.
Operate ==
  /\ Free /\ page = "parts" /\ row # NoRow
  /\ idx' = row /\ tree' = Picked /\ known' = TRUE /\ page' = "browser"
  /\ Saved(Picked)
  /\ UNCHANGED <<disk, parts, listed, row, finder, results, dialog, alive, dismissed>>

\* The backup; or a dialog that is cancelled before the tree is made.
OperateOnly ==
  /\ Free /\ page = "parts" /\ row # NoRow
  /\ idx' = row
  /\ UNCHANGED <<page, disk, parts, listed, row, tree, session, finder, results, dialog, alive, known, dismissed>>

\* decryptLUKSAndRedetect: the decrypted disk takes the place of the disk, the first of
\* its partitions, if any, that of the one selected.  A carve may yet be cancelled.
Decrypt ==
  /\ Free /\ page = "parts" /\ row # NoRow /\ Encrypted /\ Media[disk].inner \in DOMAIN Media
  /\ Detect(Media[disk].inner) /\ idx' = row
  /\ \/ /\ parts' # <<>>
        /\ tree' = [disk |-> disk', part |-> parts'[1]] /\ known' = FALSE /\ page' = "browser"
        /\ Saved(tree')
     \/ UNCHANGED <<tree, known, page, session>>
  /\ UNCHANGED <<results, dialog, alive, dismissed>>

\* The partition of a session is known by its place and size.
Matching(d, part) == {p \in ToSet(Media[d].parts) : p.at = part.at /\ p.size = part.size}

\* onContinueSession, which leaves m_selectedPartIdx alone.  A decrypted disk is saved by a
\* name that no device has.
Continue ==
  /\ Free /\ page = "disks" /\ session.disk \in Disks
  /\ Detect(session.disk)
  /\ \/ \E part \in Matching(session.disk, session.part) :
          tree' = [disk |-> disk', part |-> part] /\ known' = FALSE /\ page' = "browser"
     \/ /\ Matching(session.disk, session.part) = {}
        /\ UNCHANGED <<tree, known, page>>
  /\ UNCHANGED <<idx, session, results, dialog, alive, dismissed>>

\* What onRestoreFromBrowser and onPreviewRequested read from.
Given ==
  IF idx \in DOMAIN listed THEN RawAt(idx)
  ELSE IF idx = WholeRow THEN [disk |-> disk, part |-> Whole(disk)] ELSE None

-----------------------------------------------------------------------------
(* The search for deleted partitions: the window's side. *)

\* The results of the last search are taken off the table.
WithoutGhosts(list) ==
  LET kept[i \in 0..Len(list)] ==
        IF i = 0 THEN <<>> ELSE IF list[i].ghost THEN kept[i - 1] ELSE Append(kept[i - 1], list[i])
  IN kept[Len(list)]

\* onFindPartitionsRequested up to exec.  start does nothing while a search runs, the end of
\* which then ends this dialog, unless it has been announced already; the results of the
\* last search are freed, though the window may have freed them.
Find(stride) ==
  /\ Free /\ page = "parts"
  /\ listed' = WithoutGhosts(listed)
  /\ row' = IF listed' = listed THEN row ELSE NoRow
  /\ \/ /\ finder.phase = "idle"
        /\ finder' = [Idle EXCEPT !.phase = "scan", !.disk = disk, !.known = parts, !.stride = stride]
        /\ results' = NoResults /\ dialog' = "open"
        /\ alive' \in IF results.state = "freed" THEN BOOLEAN ELSE {TRUE}
     \/ /\ finder.phase # "idle"
        /\ dialog' = IF finder.phase = "scan" THEN "open" ELSE "unheard"
        /\ UNCHANGED <<finder, results, alive>>
  /\ UNCHANGED <<page, disk, parts, idx, tree, session, known, dismissed>>

\* After exec: the results, if any, are copied to the table and freed, but stay in the finder.
Take ==
  /\ dialog' = "none"
  /\ CASE results.state = "none" -> UNCHANGED <<listed, row, results, alive>>
       [] results.state = "held" ->
            /\ listed' = listed \o [i \in DOMAIN results.list |-> [part |-> results.list[i], ghost |-> TRUE]]
            /\ row' = NoRow
            /\ results' = [results EXCEPT !.state = "freed", !.list = <<>>]
            /\ UNCHANGED alive
       [] results.state = "freed" -> alive' \in BOOLEAN /\ UNCHANGED <<listed, row, results>>
  /\ UNCHANGED <<page, disk, parts, idx, tree, session, finder, known>>

Accept == alive /\ dialog = "finished" /\ Take /\ UNCHANGED dismissed

\* Escape, before the search has ended.  The button that cancels has no effect on a search.
Dismiss == alive /\ dialog \in {"open", "unheard"} /\ Take /\ dismissed' = TRUE

-----------------------------------------------------------------------------
(* The search for deleted partitions: the thread. *)

Ended == finder.sector >= Media[finder.disk].size

\* The progress callback asks whether the thread runs, never whether it was cancelled.
Look ==
  /\ alive /\ finder.phase = "scan" /\ ~Ended
  /\ finder' = [finder EXCEPT !.found = Examined(Media[finder.disk], @, finder.known, finder.sector),
                              !.sector = @ + finder.stride]
  /\ alive' \in IF finder.stale THEN BOOLEAN ELSE {TRUE}
  /\ UNCHANGED <<pages, listed, results, dialog, dismissed>>

\* Mutant: only a search that found something ends its dialog.
ReportedSome(d) == IF d = "open" /\ finder.found # <<>> THEN "finished" ELSE d

\* What finished does to the dialog that hears it.
Reported(d) == IF d = "open" THEN "finished" ELSE d

\* emit finished: a dialog that was closed is called all the same.
Emit ==
  /\ alive /\ finder.phase = "scan" /\ Ended
  /\ finder' = [finder EXCEPT !.phase = "emitted"]
  /\ results' = IF finder.found = <<>> THEN NoResults ELSE [state |-> "held", list |-> finder.found]
  /\ dialog' = Reported(dialog)
  /\ alive' \in IF dialog = "open" THEN {TRUE} ELSE BOOLEAN
  /\ UNCHANGED <<pages, listed, dismissed>>

\* m_running.store(false)
ClearRunning ==
  /\ alive /\ finder.phase = "emitted" /\ finder' = Idle
  /\ UNCHANGED <<pages, listed, results, dialog, alive, dismissed>>

-----------------------------------------------------------------------------
Worker == Look \/ Emit \/ ClearRunning

Next ==
  \/ \E d \in Disks : OnDiskSelected(d)
  \/ Select \/ ToDisks \/ Operate \/ OperateOnly \/ Decrypt \/ Continue
  \/ \E stride \in Strides : Find(stride)
  \/ Accept \/ Dismiss
  \/ Worker

Spec == Init /\ [][Next]_vars

\* The thread goes on, and a user closes a dialog that has finished.
FairSpec == Spec /\ WF_vars(Worker) /\ WF_vars(Accept)

-----------------------------------------------------------------------------
(* Properties. *)

PartsOf(d) == ToSet(Media[d].parts)
SignaturesOf(d) == {Media[d].sigs[s] : s \in DOMAIN Media[d].sigs}

\* What is selected is a row of the table, and the fields have their types
\* (PartitionSelectionWidget::setPartitions empties the selection).
TypeOK ==
  /\ page \in {"disks", "parts", "browser"} /\ disk \in DOMAIN Media \cup {"none"}
  /\ row \in {NoRow, WholeRow} \cup DOMAIN listed
  /\ idx \in Int /\ dialog \in {"none", "open", "unheard", "finished"} /\ {alive, known, dismissed} \subseteq BOOLEAN
  /\ finder.phase \in {"idle", "scan", "emitted"} /\ results.state \in {"none", "held", "freed"}
  /\ finder.phase # "idle" => finder.sector % finder.stride = 0 /\ finder.known = Media[finder.disk].parts

\* The indices of the table are those of m_partList, deleted partitions come behind them,
\* and each is of the disk that is shown and far from the partitions that are known, unless
\* a search was left alone while it ran (onFindPartitionsRequested, scan_for_ghost_partitions).
ListedTrue ==
  /\ Len(listed) >= Len(parts)
  /\ \A i \in DOMAIN listed : listed[i].ghost <=> i > Len(parts)
  /\ \A i \in DOMAIN parts : listed[i].part = parts[i]
  /\ ~dismissed => \A i \in DOMAIN listed : listed[i].ghost =>
       /\ listed[i].part \in SignaturesOf(disk)
       /\ \A p \in PartsOf(disk) : Diff(listed[i].part.at, p.at) > Near

\* What is found is in order, and two of a type are further apart than Near, but for those
\* at the begin of the disk, where is_duplicate's subtraction wraps around.
GhostsApart ==
  \A i, j \in DOMAIN finder.found : i < j =>
    /\ finder.found[i].at <= finder.found[j].at
    /\ finder.found[i].type = finder.found[j].type =>
         Diff(finder.found[i].at, finder.found[j].at) > Near \/ finder.found[i].at < Near

\* When a search ends, each signature on its way that could be read is near a partition that
\* is known or near one of its type that was found (scan_for_ghost_partitions): what is
\* dropped as a duplicate stands for something that is listed.
GhostsComplete ==
  finder.phase = "emitted" =>
    \A s \in DOMAIN Media[finder.disk].sigs :
      s % finder.stride = 0 /\ Readable(Media[finder.disk], s) =>
        LET part == Media[finder.disk].sigs[s]
        IN \/ \E p \in ToSet(finder.known) : Diff(part.at, p.at) <= Near
           \/ \E p \in ToSet(finder.found) : p.type = part.type /\ Diff(part.at, p.at) <= Near

\* While the files of a partition are shown that the user picked in the table, a restore or
\* a preview reads that partition, and is refused when it is a deleted one
\* (onRestoreFromBrowser, onPreviewRequested).
RightPartition ==
  page = "browser" /\ known =>
    /\ tree = [disk |-> disk, part |-> IF idx = WholeRow THEN Whole(disk) ELSE listed[idx].part]
    /\ Given = IF idx # WholeRow /\ listed[idx].ghost THEN None ELSE tree

\* A search the dialog heard of ends, and its dialog with it (GhostFinder::start,
\* onFindPartitionsRequested), unless the program died of the results of the search before.
SearchCloses == dialog = "open" ~> dialog = "none" \/ ~alive
=============================================================================
