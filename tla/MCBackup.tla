------------------------------ MODULE MCBackup ------------------------------
(***************************************************************************)
(* Small partitions for Backup.  Each kind comes as it was and as it may   *)
(* be later: files gone, files of another size or time, a directory in the *)
(* place of a file; directories that hold each other, that are too deep or *)
(* that cannot be read; and lists of clusters of every sort.               *)
(***************************************************************************)
EXTENDS Backup, TLC

ASSUME NamesAssumption == NamesApart
ASSUME LayoutsAssumption == LayoutsTrue

Whole == [disk |-> 10, offset |-> 0, size |-> 10]

Volume(kind, dirs) ==
  [kind |-> kind, root |-> 1, dirs |-> dirs, disk |-> Whole, next |-> <<>>, last |-> 9,
   runs |-> <<>>, inodes |-> <<>>, blocks |-> <<>>,
   unit |-> 4, data |-> IF kind \in {"fat", "exfat"} THEN 7 ELSE 0, rootDir |-> 0, typed |-> TRUE]

File(name, inode, size, mtime, layout, own) ==
  [name |-> name, inode |-> inode, dir |-> FALSE, gone |-> FALSE, size |-> size, mtime |-> mtime,
   layout |-> layout, own |-> own]

Dir(name, inode, size) == [File(name, inode, size, 5, "kept", <<>>) EXCEPT !.dir = TRUE]

Gone(e) == [e EXCEPT !.gone = TRUE]

\* FAT: a chain, an empty file, one whose chain comes back to its first cluster.
FatNext == 2 :> 4 @@ 3 :> 0 @@ 4 :> 3 @@ 5 :> 5 @@ 6 :> 0
A == File(2, 2, 3, 1, "kept", <<2, 4, 3>>)
B == File(3, 0, 0, 1, "kept", <<>>)
C == File(4, 5, 1, 1, "cyclic", <<5>>)

FatDirs ==
  {1 :> root @@ 2 :> sub @@ 3 :> <<A, Dir(5, 4, 0)>> @@ 4 :> <<B>> :
     root \in {<<Dir(5, 2, 0), A, C>>, <<Dir(5, 2, 0), [A EXCEPT !.size = 2]>>, <<Dir(2, 2, 0), B>>,
               <<C, Gone(A)>>, <<Dir(5, 2, 0), Dir(6, 9, 0)>>, <<Gone(A)>>},
     sub \in {<<Dir(Dot, 2, 0), Dir(DotDot, 1, 0), B, Dir(6, 3, 0)>>, <<Dir(5, 1, 0), [A EXCEPT !.mtime = 2]>>}}

\* FAT16, and FAT32 without its type code.
OddVolumes ==
  {[Volume("fat", 1 :> root) EXCEPT !.next = FatNext, !.rootDir = 2 - 2 * k, !.typed = (k = 0)] :
     root \in {<<A, C>>, <<C, Gone(A)>>}, k \in 0 .. 1}

FatVolumes == {[Volume("fat", d) EXCEPT !.next = FatNext] : d \in FatDirs} \cup OddVolumes

\* exFAT: a file whose clusters follow each other without the FAT.
ExfatNext == [c \in 2 .. 9 |-> IF c = 8 THEN 9 ELSE 0]
ExfatVolumes ==
  {[Volume("exfat", 1 :> files) EXCEPT !.next = ExfatNext] :
     files \in {<<File(2, 2, 3, t, "contiguous", <<2, 3, 4>>), File(3, 8, 2, t, "kept", <<8, 9>>)>> : t \in 1 .. 2}
               \cup {<<File(27, 7, 1, 1, "kept", <<7>>)>>}}

\* NTFS: a hole, nothing but holes, resident data (no runs).
NtfsVolumes ==
  {[Volume("ntfs", 1 :> files) EXCEPT !.runs = 10 :> <<20, 21, 7>> @@ 11 :> <<20, -1, 7>> @@ 12 :> <<-1>> @@ 13 :> <<>>] :
     files \in {<<File(3, 10, 3, t, "kept", <<20, 21, 7>>), File(2, 11, 3, 1, "holed", <<20, -1, 7>>)>> : t \in 1 .. 2}
               \cup {<<File(4, 12, 1, 1, "holed", <<-1>>), File(19, 13, 1, 1, "kept", <<>>), Dir(5, 1, 2)>>}}

\* ext: direct blocks and one more, two more, another level, an extent header.
Inode(direct, ind, dind) == [direct |-> direct, indirect |-> <<ind, dind, 0>>]
ExtVolumes ==
  {[Volume("ext", 1 :> files)
      EXCEPT !.inodes = 10 :> Inode(<<30, 31>>, 40, 0) @@ 11 :> Inode(<<30, 31>>, 41, 0)
                        @@ 12 :> Inode(<<30, 31>>, 42, 43) @@ 13 :> Inode(<<999, 4, 1, 0, 30>>, 0, 0)
                        @@ 14 :> Inode(<<0, 0>>, 0, 0),
             !.blocks = 40 :> <<32, 0, 0, 0>> @@ 41 :> <<32, 33, 0, 0>> @@ 42 :> <<32, 0, 0, 0>>
                        @@ 43 :> <<41, 44, 0, 0>>] :
     files \in {<<File(2, 10, 3, t, "kept", <<30, 31, 32>>), File(3, 11, 4, 1, "indirect", <<30, 31, 32, 33>>),
                  File(4, 12, 5, t, "indirect", <<30, 31, 32, 33, 34>>)>> : t \in 1 .. 2}
               \cup {<<File(5, 13, 1, 1, "extents", <<30>>), File(6, 14, 0, 1, "kept", <<>>)>>}}

\* A driver without a collector.
OtherVolumes == {Volume("other", 1 :> <<File(2, 2, 1, t, "uncollected", <<2>>)>>) : t \in 1 .. 2}

\* The same partition seen on a disk of twice the size.
MovedVolume == [Volume("exfat", 1 :> <<>>) EXCEPT !.disk.disk = 20, !.next = ExfatNext]

MCVolumes == FatVolumes \cup ExfatVolumes \cup NtfsVolumes \cup ExtVolumes \cup OtherVolumes \cup {MovedVolume}

\* A partition that begins the disk and one that does not, of most and of half of it.
SizedVolumes ==
  {[Volume("fat", 1 :> <<A>>) EXCEPT !.next = FatNext, !.disk = [disk |-> 10, offset |-> o, size |-> z]] :
     o \in 0 .. 1, z \in {5, 8}}
=============================================================================
