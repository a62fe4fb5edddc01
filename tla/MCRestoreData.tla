---------------------------- MODULE MCRestoreData ----------------------------
(***************************************************************************)
(* Small batches for RestoreData: files of clusters and of sectors, cut    *)
(* and whole, over good and unreadable addresses; files of a driver;       *)
(* namesakes; files below files; directories.                              *)
(***************************************************************************)
EXTENDS RestoreData

Node(path) == [path |-> path, dir |-> FALSE, orphan |-> FALSE, backup |-> FALSE, size |-> 0,
               clusters |-> <<>>, unit |-> 0, first |-> 0, sectors |-> 0]

DirNode(path) == [Node(path) EXCEPT !.dir = TRUE]

Clusters(path, list, unit, size) ==
  [Node(path) EXCEPT !.orphan = TRUE, !.clusters = list, !.unit = unit, !.size = size,
                     !.first = 7, !.sectors = 1]

Carved(path, first, sectors, size) ==
  [Node(path) EXCEPT !.orphan = TRUE, !.first = first, !.sectors = sectors, !.size = size]

Listed(path, size) == [Node(path) EXCEPT !.first = 50, !.size = size, !.sectors = 1]

F == <<"f">>
DF == <<"d", "f">>
DDF == <<"d", "d", "f">>

Lists(unit) == {<<10>>, <<20, 10>>, <<30, 10, 20>>, <<10, 90>>}

\* One file: every size against every list.
Alone(units) ==
  {<<n>> : n \in UNION {{Clusters(DF, l, u, z) : l \in Lists(u), z \in 0 .. 3 * u + 1} : u \in units}
                 \cup {Carved(DF, f, s, 1) : f \in {0, 10, 90}, s \in 1 .. 3}
                 \cup {[Clusters(F, <<20, 10>>, 2, 3) EXCEPT !.orphan = FALSE, !.backup = TRUE]}
                 \cup {Listed(F, z) : z \in {1, 3, 5}}}

\* Several: clashes.
Together ==
  LET files == {Clusters(F, <<20, 10>>, 2, 3), Clusters(<<"d">>, <<30>>, 2, 2), Carved(DF, 10, 1, 1),
                Carved(DDF, 12, 1, 1), Clusters(DF, <<90>>, 1, 1), Listed(DF, 1)}
      dirs == {DirNode(<<"d">>), DirNode(<<"d", "d">>), DirNode(<<"d", "f">>)}
  IN {<<a, b>> : a \in files \cup dirs, b \in files} \cup {<<a, b, c>> : a \in dirs, b \in files, c \in dirs \cup files}

MCBatches == Alone({1, 2}) \cup Together
MCUnreadable == {90, 91, 92}

\* Clusters longer than a piece.
LargeBatches == Alone({3})
=============================================================================
