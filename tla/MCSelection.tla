----------------------------- MODULE MCSelection -----------------------------
(***************************************************************************)
(* Two small disks for Selection.  The first has an encrypted partition,   *)
(* two partitions of a type that lie close together, at its begin and      *)
(* behind it, a signature that is a copy kept elsewhere, and a sector that *)
(* cannot be read; the second is a file system without a table, of which a *)
(* session can be continued.                                               *)
(***************************************************************************)
EXTENDS Selection, TLC

Part(at, size, type) == [at |-> at, size |-> size, type |-> type, encrypted |-> type = "luks"]

First ==
  [size |-> 9, parts |-> <<Part(3, 1, "fat"), Part(8, 1, "luks")>>, bad |-> {5}, inner |-> "inner",
   sigs |-> 0 :> Part(0, 1, "ext") @@ 1 :> Part(1, 1, "ext") @@ 2 :> Part(4, 1, "ntfs") @@ 3 :> Part(3, 1, "fat")
            @@ 4 :> Part(6, 1, "ntfs") @@ 5 :> Part(5, 1, "ntfs") @@ 6 :> Part(6, 1, "ext")
            @@ 7 :> Part(6, 2, "ext")]

Second ==
  [size |-> 4, parts |-> <<Part(0, 4, "fat")>>, bad |-> {}, inner |-> "none",
   sigs |-> 0 :> Part(0, 4, "fat") @@ 2 :> Part(2, 2, "ext")]

Inner ==
  [size |-> 2, parts |-> <<Part(0, 2, "ext")>>, bad |-> {}, inner |-> "none", sigs |-> 0 :> Part(0, 2, "ext")]

MCDisks == {"first", "second"}
MCMedia == "first" :> First @@ "second" :> Second @@ "inner" :> Inner
MCStrides == {1, 2}
=============================================================================
