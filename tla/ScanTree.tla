------------------------------ MODULE ScanTree ------------------------------
(***************************************************************************)
(* The tree of core/tree.c as a value, and what core/session.c writes of   *)
(* it and reads back.  A tree is the sequence of its nodes in the order    *)
(* they were made; a parent is made before its children, a new child goes  *)
(* to the end of its parent's list, and no node is ever removed, so that   *)
(* the children of a node, in the order of their list, are those of the    *)
(* sequence.  Node 0 is the root, which is not in it.                      *)
(***************************************************************************)
EXTENDS Naturals, Sequences, SequencesExt

CONSTANT MaxChain   \* tree_get_path: chain[128]

ASSUME ChainAssumption == MaxChain \in Nat \ {0}

Root == 0
NoSource == <<>>    \* the data of a directory nobody listed, the clusters of a node without

\* Op(v), with v worked out once.
With(v, Op(_)) == CHOOSE r \in {Op(w) : w \in {v}} : TRUE

First(S) == {i \in S : \A j \in S : i <= j}

\* Mutant: names are compared without their extension.
FindStem(tree, at, name) ==
  First({i \in DOMAIN tree : tree[i].parent = at /\ tree[i].name[1] = name[1]})

\* tree_find_child: the first of that name, if there is one.
FindChild(tree, at, name) ==
  First({i \in DOMAIN tree : tree[i].parent = at /\ tree[i].name = name})

\* tree_find_path: the node, if there is one.
FindPath(tree, path) ==
  LET found[n \in 0 .. Len(path)] ==
        IF n = 0 THEN {Root} ELSE UNION {FindChild(tree, at, path[n]) : at \in found[n - 1]}
  IN found[Len(path)]

\* What a lister says of a file: where its data is, and whether it is deleted.
Item(dir, deleted, size, src) == [dir |-> dir, deleted |-> deleted, size |-> size, src |-> src]

NewNode(at, name, item) ==
  [parent |-> at, name |-> name, dir |-> item.dir, deleted |-> item.deleted, orphan |-> FALSE,
   size |-> item.size, src |-> item.src, clusters |-> NoSource]

\* node_ensure_dir: anything of that name will do.
EnsureDir(s, name) ==
  LET found == FindChild(s.tree, s.at, name)
  IN IF found # {} THEN [s EXCEPT !.at = CHOOSE i \in found : TRUE]
     ELSE [tree |-> Append(s.tree, NewNode(s.at, name, Item(TRUE, FALSE, 0, NoSource))),
           at |-> Len(s.tree) + 1]

EnsureDirs(tree, path) ==
  LET made[n \in 0 .. Len(path)] ==
        IF n = 0 THEN [tree |-> tree, at |-> Root]
        ELSE With(made[n - 1], LAMBDA s : EnsureDir(s, path[n]))
  IN made[Len(path)]

\* Mutant: the last item listed wins.
RelistAlways(node, item) ==
  [node EXCEPT !.deleted = item.deleted, !.size = item.size, !.src = item.src]

\* The existing node learns that it is deleted, and then where its data is.
Relist(node, item) ==
  IF node.deleted \/ ~item.deleted THEN node
  ELSE [node EXCEPT !.deleted = TRUE,
                    !.size = IF node.dir THEN @ ELSE item.size,
                    !.src = IF node.dir THEN @ ELSE item.src]

PutAt(tree, at, name, item) ==
  With(FindChild(tree, at, name), LAMBDA old :
    IF old = {} THEN Append(tree, NewNode(at, name, item))
    ELSE [i \in DOMAIN tree |-> IF i \in old THEN Relist(tree[i], item) ELSE tree[i]])

AddPath(tree, path, item) ==
  IF path = <<>> THEN tree
  ELSE With(EnsureDirs(tree, Front(path)), LAMBDA s : PutAt(s.tree, s.at, Last(path), item))

\* Assignments to the fields of the node that tree_find_path returned.
UpdateAt(tree, path, Change(_)) ==
  With(tree, LAMBDA t : With(FindPath(t, path), LAMBDA found :
    [i \in DOMAIN t |-> IF i \in found THEN Change(t[i]) ELSE t[i]]))

FullPath(tree, node) ==
  LET names[i \in 0 .. Len(tree)] ==
        IF i = Root THEN <<>> ELSE Append(names[tree[i].parent], tree[i].name)
  IN names[node]

\* tree_get_path: of a deeper node, the names nearest to it.
GetPath(tree, node) ==
  With(FullPath(tree, node), LAMBDA path :
    IF Len(path) > MaxChain THEN SubSeq(path, Len(path) - MaxChain + 1, Len(path)) ELSE path)

-----------------------------------------------------------------------------
(* The session file's entries. *)

Entry(tree, i) ==
  [path |-> GetPath(tree, i), orphan |-> tree[i].orphan, clusters |-> tree[i].clusters,
   item |-> Item(tree[i].dir, tree[i].deleted, tree[i].size, tree[i].src)]

\* session_write_node_rec: a node, what is below it when it is a directory, and the children
\* of its parent that come after it.  written[i][at] is what the nodes from i on give
\* below "at".
Serialize(tree) ==
  LET written[i \in 1 .. Len(tree) + 1] ==
        IF i > Len(tree) THEN [at \in 0 .. Len(tree) |-> <<>>]
        ELSE With(written[i + 1], LAMBDA later :
               [later EXCEPT ![tree[i].parent] =
                  <<Entry(tree, i)>> \o (IF tree[i].dir THEN later[i] ELSE <<>>) \o @])
  IN written[1][Root]

\* session_read_tree, one entry: tree_add_path, then the fields it does not set; the
\* clusters of a directory are left in the file.
LoadEntry(tree, e) ==
  UpdateAt(AddPath(tree, e.path, e.item), e.path,
           LAMBDA node : [node EXCEPT !.orphan = e.orphan,
                                      !.clusters = IF e.clusters = NoSource \/ e.item.dir THEN @
                                                   ELSE e.clusters])

Load(entries) ==
  LET read[n \in 0 .. Len(entries)] ==
        IF n = 0 THEN <<>> ELSE With(read[n - 1], LAMBDA t : LoadEntry(t, entries[n]))
  IN read[Len(entries)]

\* The clusters of a directory are written and not read: what follows is read from their bytes.
Slips(e) == e.item.dir /\ e.clusters # NoSource

\* session_read_tree: the trees it may make of what was written, "junks" being what it may
\* take for entries in the bytes behind a slip.
Loads(entries, junks) ==
  LET slips == {k \in DOMAIN entries : Slips(entries[k])}
  IN IF slips = {} THEN {Load(entries)}
     ELSE {Load(SubSeq(entries, 1, k) \o junk) : k \in First(slips), junk \in junks}

-----------------------------------------------------------------------------
(* When a saved node is read back as it was. *)

Lineage(tree, node) ==
  LET above[i \in 0 .. Len(tree)] == IF i = Root THEN {} ELSE {i} \cup above[tree[i].parent]
  IN above[node]

\* Its ancestors are directories, nobody else is written under its path, it is not too deep,
\* and no node that is too deep is written as if it were below it.
Alone(tree, node) ==
  LET TooDeep(i) == Len(FullPath(tree, i)) > MaxChain
  IN /\ ~TooDeep(node)
     /\ \A i \in Lineage(tree, node) \ {node} : tree[i].dir
     /\ \A i \in DOMAIN tree \ {node} : GetPath(tree, i) # FullPath(tree, node)
     /\ \A i \in DOMAIN tree : TooDeep(i) => ~IsPrefix(FullPath(tree, node), GetPath(tree, i))

\* What is said of a node, but for its parent; the clusters of a directory are never read.
Facts(node) == [node EXCEPT !.parent = Root, !.clusters = IF node.dir THEN NoSource ELSE @]

ReadBack(tree, loaded, node) ==
  \E i \in FindPath(loaded, FullPath(tree, node)) : i # Root /\ Facts(loaded[i]) = Facts(tree[node])
=============================================================================
