------------------------- MODULE RestoreData_proofs -------------------------
(***************************************************************************)
(* RestoreData implements FileCopy, for every set of batches whose         *)
(* clusters are no longer than a piece, every size of a piece, a sector    *)
(* and the preview's buffer, and any number of restores and previews; and  *)
(* what is restored stays on the destination, and fails for a cause only.  *)
(***************************************************************************)
EXTENDS RestoreData, SequenceTheorems, TLAPS

Modes == {"restore", "preview"}
LayoutType == [list : Seq(Nat), unit : Nat, size : Nat]

-----------------------------------------------------------------------------
(* Arithmetic. *)

LEMMA Product ==
  ASSUME NEW a \in Nat, NEW b \in Nat, NEW u \in Nat, a < b
  PROVE  a * u + u <= b * u
<1> DEFINE d == b - a - 1
<1>1. d \in Nat /\ b = a + 1 + d
  OBVIOUS
<1>2. d * u >= 0
  BY <1>1
<1>3. b * u = a * u + u + d * u
  BY <1>1
<1> QED
  BY <1>2, <1>3

LEMMA DivMod ==
  ASSUME NEW u \in Nat \ {0}, NEW q \in Nat, NEW r \in 0 .. u - 1
  PROVE  (q * u + r) \div u = q /\ (q * u + r) % u = r
<1> DEFINE a == q * u + r
           p == a \div u
           s == a % u
<1>1. a \in Nat
  OBVIOUS
<1>2. p \in Nat /\ s \in Nat /\ s < u /\ a = p * u + s
  BY <1>1
<1>3. ~(p < q)
  <2> SUFFICES ASSUME p < q PROVE FALSE
    OBVIOUS
  <2>1. p * u + u <= q * u
    BY <1>2, Product
  <2> HIDE DEF p, s
  <2> QED
    BY <1>2, <2>1
<1>4. ~(q < p)
  <2> SUFFICES ASSUME q < p PROVE FALSE
    OBVIOUS
  <2>1. q * u + u <= p * u
    BY <1>2, Product
  <2> HIDE DEF p, s
  <2> QED
    BY <1>2, <2>1
<1>5. p = q
  BY <1>2, <1>3, <1>4
<1>6. a = q * u + s
  BY <1>2, <1>5
<1>7. s = r
  <2> HIDE DEF p, s
  <2> QED
    BY <1>1, <1>2, <1>6
<1> QED
  BY <1>5, <1>7

-----------------------------------------------------------------------------
(* Layouts. *)

LEMMA LayoutIsTyped ==
  ASSUME NEW n \in NodeType, NEW m \in Modes
  PROVE  Layout(n, m) \in LayoutType
<1> DEFINE all == n.sectors * SectorSize
           some == IF m = "preview" THEN Least(all, PreviewCap) ELSE all
<1>1. all \in Nat
  BY SizesAssumption DEF NodeType
<1>2. some \in Nat
  BY <1>1, SizesAssumption DEF Least
<1>3. <<n.first>> \in Seq(Nat) /\ n.clusters \in Seq(Nat) /\ n.unit \in Nat /\ n.size \in Nat
  BY DEF NodeType
<1> HIDE DEF all, some
<1> QED
  BY <1>1, <1>2, <1>3 DEF Layout, LayoutType, all, some

\* A restore goes over a list of clusters only when no cluster is longer than a piece.
SmallClusters == \A n \in Nodes : n.unit <= Buf

LEMMA ShortPieces ==
  ASSUME SmallClusters, NEW n \in Nodes, NEW m \in Modes, Way(n, m) = "clusters"
  PROVE  Layout(n, m).unit <= Buf
BY DEF SmallClusters, Layout

LEMMA NodesAreTyped == Nodes \subseteq NodeType
<1> SUFFICES ASSUME NEW b \in Batches, NEW k \in DOMAIN b PROVE b[k] \in NodeType
  BY DEF Nodes
<1>1. b \in Seq(NodeType)
  BY BatchesAssumption
<1> QED
  BY <1>1

\* p bytes come before place r of cluster c.
Place(u, c, r, p) == p \in Nat /\ c - 1 \in Nat /\ r \in Nat /\ p = (c - 1) * u + r

\* Byte i of the file.
Byte(list, u, i) == list[(i - 1) \div u + 1] + ((i - 1) % u)

\* A piece of k bytes there is in the list.
LEMMA PieceFits ==
  ASSUME NEW list \in Seq(Nat), NEW u \in Nat \ {0}, NEW c \in 1 .. Len(list), NEW r \in Nat,
         NEW k \in Nat \ {0}, r + k <= u, NEW p \in Nat, Place(u, c, r, p)
  PROVE  p + k <= Len(list) * u
<1> DEFINE m == Len(list)
           q == c - 1
<1>1. m \in Nat /\ q \in Nat /\ q < m /\ p = q * u + r
  BY DEF Place
<1> HIDE DEF m, q
<1>2. q * u + u <= m * u
  BY <1>1, Product
<1>3. q * u \in Nat /\ m * u \in Nat
  BY <1>1
<1>4. p + k <= m * u
  BY <1>1, <1>2, <1>3
<1> QED
  BY <1>4 DEF m

\* The bytes of the cluster from there on are those of the file that follow.
LEMMA PieceByte ==
  ASSUME NEW list \in Seq(Nat), NEW u \in Nat \ {0}, NEW c \in 1 .. Len(list), NEW r \in Nat,
         NEW p \in Nat, Place(u, c, r, p), NEW i \in Nat, p < i, r + (i - p - 1) < u
  PROVE  Byte(list, u, i) = (list[c] + r) + (i - p - 1)
<1> DEFINE q == c - 1
           s == r + (i - p - 1)
<1>1. q \in Nat /\ p = q * u + r /\ q + 1 = c /\ list[c] \in Nat
  BY DEF Place
<1>2. q * u \in Nat
  BY <1>1
<1>3. s \in 0 .. u - 1 /\ i - 1 = q * u + s
  <2> HIDE DEF q
  <2> QED
    BY <1>1, <1>2
<1>4. s = r + (i - p - 1)
  OBVIOUS
<1> HIDE DEF q, s
<1>5. (q * u + s) \div u = q /\ (q * u + s) % u = s
  BY <1>1, <1>3, DivMod
<1>6. (i - 1) \div u + 1 = c /\ (i - 1) % u = s
  BY <1>1, <1>3, <1>5
<1>7. Byte(list, u, i) = list[c] + s
  BY <1>6 DEF Byte
<1> QED
  BY <1>1, <1>4, <1>7

LEMMA PieceContinues ==
  ASSUME NEW l \in LayoutType, NEW c \in 1 .. Len(l.list), NEW r \in Nat, NEW k \in Nat \ {0},
         NEW p \in Nat, Place(l.unit, c, r, p), r + k <= l.unit, p + k <= l.size
  PROVE  /\ p + k <= Covered(l)
         /\ \A i \in p + 1 .. p + k : Bytes(l)[i] = (l.list[c] + r) + (i - p - 1)
<1>1. l.list \in Seq(Nat) /\ l.unit \in Nat \ {0} /\ l.size \in Nat
  BY DEF LayoutType
<1>2. p + k <= Len(l.list) * l.unit
  BY <1>1, PieceFits
<1>3. ASSUME NEW i \in p + 1 .. p + k
      PROVE  Byte(l.list, l.unit, i) = (l.list[c] + r) + (i - p - 1)
  <2>1. i \in Nat /\ p < i /\ r + (i - p - 1) < l.unit
    BY <1>1
  <2> DEFINE list == l.list
             u == l.unit
  <2>2. list \in Seq(Nat) /\ u \in Nat \ {0} /\ c \in 1 .. Len(list) /\ Place(u, c, r, p)
        /\ r + (i - p - 1) < u
    BY <1>1, <2>1
  <2> HIDE DEF list, u
  <2>3. Byte(list, u, i) = (list[c] + r) + (i - p - 1)
    BY <2>1, <2>2, PieceByte
  <2> QED
    BY <2>3 DEF list, u
<1>4. Covered(l) \in Nat /\ p + k <= Covered(l)
  <2>1. Len(l.list) * l.unit \in Nat
    BY <1>1
  <2> QED
    BY <1>1, <1>2, <2>1 DEF Covered, Least
<1>5. ASSUME NEW i \in p + 1 .. p + k
      PROVE  Bytes(l)[i] = Byte(l.list, l.unit, i)
  <2>1. i \in 1 .. Covered(l)
    BY <1>4
  <2> QED
    BY <2>1 DEF Bytes, Byte
<1> QED
  BY <1>3, <1>4, <1>5

-----------------------------------------------------------------------------
(* Types. *)

L == Layout(node, mode)

\* What is copied has no gap: a realloc that failed leaves one, in previews only.
Sound == mode = "restore" \/ ~starved

\* The file is copied by restore_orphan, or by read_file_bytes itself.
Own == Sound /\ ~Driven

CopierOK ==
  /\ batch \in Seq(Nodes) /\ queue \in Seq(Nodes)
  /\ node \in Nodes /\ mode \in Modes /\ state \in {"copying", "whole", "part"}
  /\ ci \in 0 .. Len(L.list)
  /\ from \in Nat /\ left \in Nat /\ used \in Nat /\ remaining \in Nat /\ room \in Nat
  /\ DOMAIN out = 1 .. used
  /\ left <= remaining
  /\ state = "copying" /\ Sound => used + remaining = L.size
  /\ starved \in BOOLEAN /\ full \in BOOLEAN

DestOK == \A q \in DOMAIN dest : dest[q].dir \in BOOLEAN

LEMMA LIsTyped == CopierOK => L \in LayoutType
  BY LayoutIsTyped, NodesAreTyped DEF CopierOK, L

LEMMA BatchIsTyped ==
  ASSUME NEW b \in Batches
  PROVE  b \in Seq(Nodes) /\ b[1] \in Nodes
<1>1. b \in Seq(NodeType) /\ b # <<>>
  BY BatchesAssumption
<1>2. \A k \in DOMAIN b : b[k] \in Nodes
  BY DEF Nodes
<1>3. 1 \in DOMAIN b
  BY <1>1
<1> QED
  BY <1>1, <1>2, <1>3

\* Begin, for a restore and for a preview.
LEMMA BeginType ==
  ASSUME NEW n \in Nodes, NEW m \in Modes, CopierOK, Begin(n, m), queue' \in Seq(Nodes)
  PROVE  CopierOK'
<1>1. Layout(n, m) \in LayoutType
  BY LayoutIsTyped, NodesAreTyped
<1>2. Layout(n, m).size \in Nat /\ Len(Layout(n, m).list) \in Nat
  BY <1>1 DEF LayoutType
<1>3. L' = Layout(n, m)
  BY DEF Begin, L
<1>4. room' \in Nat
  BY <1>2, SizesAssumption DEF Begin, Least
<1> QED
  BY <1>2, <1>3, <1>4 DEF CopierOK, Begin, Nothing

LEMMA CloseType ==
  ASSUME NEW result, NEW bytes, CopierOK, Close(result, bytes), full' \in BOOLEAN
  PROVE  CopierOK'
<1>1. L' = L
  BY DEF Close, copier, L
<1> QED
  BY <1>1 DEF CopierOK, Close, copier

LEMMA CopierInit == Init => CopierOK
<1> SUFFICES ASSUME Init PROVE CopierOK
  OBVIOUS
<1>1. batch \in Seq(Nodes) /\ node \in Nodes /\ mode \in Modes
  BY BatchIsTyped DEF Init, Modes
<1>2. L \in LayoutType
  BY <1>1, LayoutIsTyped, NodesAreTyped DEF L
<1>3. Len(L.list) \in Nat
  BY <1>2 DEF LayoutType
<1>4. queue \in Seq(Nodes)
  BY DEF Init
<1>5. DOMAIN out = 1 .. used
  <2>1. used = 0 /\ out = Nothing
    BY DEF Init
  <2> QED
    BY <2>1 DEF Nothing
<1>6. ci \in 0 .. Len(L.list)
  BY <1>3 DEF Init
<1>7. /\ state = "part" /\ from = 0 /\ left = 0 /\ used = 0 /\ remaining = 0 /\ room = 0
      /\ starved = FALSE /\ full = FALSE
  BY DEF Init
<1>8. starved \in BOOLEAN /\ full \in BOOLEAN
  BY <1>7, Zenon
<1>9. ~(state = "copying") /\ state \in {"copying", "whole", "part"}
  BY <1>7
<1>10. /\ from \in Nat /\ left \in Nat /\ used \in Nat /\ remaining \in Nat /\ room \in Nat
       /\ left <= remaining
  BY <1>7
<1> QED
  BY <1>1, <1>4, <1>5, <1>6, <1>8, <1>9, <1>10 DEF CopierOK

LEMMA CopierStep == CopierOK /\ [Next]_vars => CopierOK'
<1> SUFFICES ASSUME CopierOK, [Next]_vars PROVE CopierOK'
  OBVIOUS
<1>0. L \in LayoutType /\ L.list \in Seq(Nat) /\ L.unit \in Nat /\ L.size \in Nat
  BY LIsTyped DEF LayoutType
<1>1. CASE Restore
  BY <1>1 DEF Restore, Idle, copier, CopierOK, L, Sound
<1>2. CASE MakeDirectory
  <2>1. queue' \in Seq(Nodes)
    BY <1>2 DEF MakeDirectory, AtDirectory, CopierOK
  <2> QED
    BY <1>2, <2>1 DEF MakeDirectory, copier, CopierOK, L, Sound
<1>3. CASE RestoreFile
  <2>1. queue' \in Seq(Nodes) /\ Head(queue) \in Nodes
    BY <1>3 DEF RestoreFile, CopierOK
  <2>2. CASE Begin(Head(queue), "restore")
    BY <2>1, <2>2, BeginType DEF Modes
  <2>3. CASE UNCHANGED <<batch, state, starved, full>> /\ UNCHANGED copier
    BY <2>1, <2>3 DEF copier, CopierOK, L, Sound
  <2> QED
    BY <1>3, <2>2, <2>3 DEF RestoreFile
<1>4. CASE Preview
  <2>1. PICK k \in DOMAIN batch : Begin(batch[k], "preview")
    BY <1>4 DEF Preview
  <2>2. batch[k] \in Nodes /\ queue' \in Seq(Nodes)
    BY <1>4 DEF Preview, CopierOK
  <2> QED
    BY <2>1, <2>2, BeginType DEF Modes
<1>5. CASE NextCluster
  <2>1. L' = L
    BY <1>5 DEF NextCluster, L
  <2>2. ci' \in 0 .. Len(L.list) /\ from' \in Nat
    BY SMTT(30), <1>0, <1>5 DEF NextCluster, CopierOK, L
  <2>3. left' \in Nat /\ left' <= remaining
    BY <1>0, <1>5 DEF NextCluster, CopierOK, L, Least
  <2> QED
    BY <1>5, <2>1, <2>2, <2>3 DEF NextCluster, CopierOK, Sound
<1>6. CASE CopyPiece
  <2>1. L' = L
    BY <1>6 DEF CopyPiece, L
  <2>2. Chunk \in Nat /\ Chunk <= left /\ Chunk > 0
    BY <1>6, SizesAssumption DEF CopyPiece, CopierOK, Chunk, Least
  <2>3. LeftAfter \in Nat /\ LeftAfter <= left - Chunk
    BY <2>2 DEF LeftAfter, CopierOK
  <2> HIDE DEF Chunk, LeftAfter
  <2>4. from' \in Nat /\ used' \in Nat /\ remaining' \in Nat /\ left' \in Nat /\ left' <= remaining'
    BY <1>6, <2>2, <2>3 DEF CopyPiece, CopierOK
  <2>5. room' \in Nat
    BY <1>6, <2>2 DEF CopyPiece, CopierOK
  <2>6. DOMAIN out' = 1 .. used'
    BY <1>6 DEF CopyPiece
  <2>7. state' = "copying" /\ Sound' => used' + remaining' = L.size
    BY <1>0, <1>6, <2>2 DEF CopyPiece, CopierOK, Sound
  <2> QED
    BY <1>6, <2>1, <2>4, <2>5, <2>6, <2>7 DEF CopyPiece, CopierOK
<1>7. CASE ReallocFails
  BY <1>7 DEF ReallocFails, CopierOK, L, Sound
<1>8. CASE ReadFails
  BY <1>8, CloseType DEF ReadFails, CopierOK
<1>13. CASE DriverDeclines
  <2>1. queue' \in Seq(Nodes)
    BY <1>13 DEF DriverDeclines, CopierOK
  <2> QED
    BY <1>13, <2>1 DEF DriverDeclines, copier, CopierOK, L, Sound
<1>14. CASE DriverStops
  <2>1. PICK result, bytes : Close(result, bytes) /\ full' = full
    BY <1>14 DEF DriverStops
  <2> QED
    BY <2>1, CloseType DEF CopierOK
<1>15. CASE DriverStale
  <2>1. L' = L
    BY <1>15 DEF DriverStale, L
  <2>2. Chunk \in Nat /\ Chunk <= left /\ Chunk > 0
    BY <1>15, SizesAssumption DEF DriverStale, CopierOK, Chunk, Least
  <2>3. LeftAfter \in Nat /\ LeftAfter <= left - Chunk
    BY <2>2 DEF LeftAfter, CopierOK
  <2> HIDE DEF Chunk, LeftAfter
  <2>4. from' \in Nat /\ used' \in Nat /\ remaining' \in Nat /\ left' \in Nat /\ left' <= remaining'
    BY <1>15, <2>2, <2>3 DEF DriverStale, CopierOK
  <2>5. DOMAIN out' = 1 .. used'
    BY <1>15 DEF DriverStale
  <2>6. state' = "copying" /\ Sound' => used' + remaining' = L.size
    BY <1>0, <1>15, <2>2 DEF DriverStale, CopierOK, Sound
  <2> QED
    BY <1>15, <2>1, <2>4, <2>5, <2>6 DEF DriverStale, CopierOK
<1>9. CASE WriteFails
  BY <1>9, CloseType DEF WriteFails
<1>10. CASE Finish
  BY <1>10, CloseType DEF Finish, CopierOK
<1>11. CASE FlushFails
  BY <1>11, CloseType DEF FlushFails
<1>12. CASE UNCHANGED vars
  BY <1>12 DEF vars, CopierOK, L, Sound
<1> QED
  BY <1>1, <1>2, <1>3, <1>4, <1>5, <1>6, <1>7, <1>8, <1>9, <1>10, <1>11, <1>12, <1>13, <1>14, <1>15
     DEF Next, Copying

-----------------------------------------------------------------------------
(* The copy. *)

\* What is left of cluster ci is at place r of it, and goes to its end or that of the file.
Ahead(r) ==
  /\ Place(L.unit, ci, r, used)
  /\ from = L.list[ci] + r
  /\ r + left <= L.unit
  /\ r + left = L.unit \/ left = remaining

\* While a file is copied, what there is of it is a prefix of its bytes, and the piece that
\* comes next, in the middle of a cluster or at the start of one, has the bytes that follow.
CopyInv ==
  state = "copying" /\ Own =>
    /\ used <= Covered(L)
    /\ out = [i \in 1 .. used |-> Bytes(L)[i]]
    /\ left = 0 => remaining = 0 \/ used = ci * L.unit
    /\ left > 0 => ci \in 1 .. Len(L.list) /\ \E r \in Nat : Ahead(r)

LEMMA StaysStarved == starved /\ [Next]_vars => starved'
  BY DEF Next, vars, Restore, MakeDirectory, RestoreFile, Preview, Begin, Copying, NextCluster,
         CopyPiece, ReallocFails, ReadFails, WriteFails, Finish, FlushFails, Close,
         DriverDeclines, DriverStale, DriverStops

LEMMA NothingIsPrefix ==
  ASSUME NEW c
  PROVE  Nothing = [i \in 1 .. 0 |-> c[i]]
  BY DEF Nothing

LEMMA BeginInv ==
  ASSUME NEW n \in Nodes, NEW m \in Modes, Begin(n, m)
  PROVE  CopyInv'
<1>1. Layout(n, m) \in LayoutType /\ L' = Layout(n, m)
  BY LayoutIsTyped, NodesAreTyped DEF Begin, L
<1>2. /\ Layout(n, m).size \in Nat /\ Layout(n, m).unit \in Nat
      /\ Len(Layout(n, m).list) * Layout(n, m).unit \in Nat
  BY <1>1 DEF LayoutType
<1>3. 0 <= Covered(Layout(n, m))
  BY <1>2 DEF Covered, Least
<1>4. used' = 0 /\ left' = 0 /\ ci' = 0 /\ out' = Nothing
  BY DEF Begin
<1>5. used' = ci' * L'.unit
  BY <1>1, <1>2, <1>4
<1>6. out' = [i \in 1 .. used' |-> Bytes(L)'[i]]
  BY <1>4, NothingIsPrefix
<1> QED
  BY <1>1, <1>3, <1>4, <1>5, <1>6 DEF CopyInv

LEMMA CloseInv ==
  ASSUME NEW result, NEW bytes, Close(result, bytes)
  PROVE  CopyInv'
  BY DEF Close, CopyInv

\* The next cluster starts where the file has come to.
LEMMA ClusterInv == CopierOK /\ CopyInv /\ NextCluster => CopyInv'
<1> SUFFICES ASSUME CopierOK, CopyInv, NextCluster, Own PROVE CopyInv'
  BY DEF NextCluster, CopyInv, Own, Sound, Driven
<1>1. L' = L /\ used' = used /\ out' = out /\ remaining' = remaining /\ ci' = ci + 1
  BY DEF NextCluster, L
<1>2. L.unit \in Nat /\ ci \in Nat /\ ci + 1 \in 1 .. Len(L.list) /\ L.list[ci + 1] \in Nat
  <2>1. L.list \in Seq(Nat) /\ L.unit \in Nat
    BY LIsTyped DEF LayoutType
  <2> QED
    BY SMTT(30), <2>1 DEF CopierOK, NextCluster, L
<1>3. used = ci * L.unit /\ used \in Nat /\ remaining \in Nat /\ remaining > 0
  BY DEF NextCluster, CopyInv, CopierOK
<1>4. from' = L.list[ci + 1] /\ left' = Least(L.unit, remaining)
  BY DEF NextCluster, L
<1>5. Place(L.unit, ci + 1, 0, used)
  BY <1>2, <1>3 DEF Place
<1>6. left' <= L.unit /\ (left' = L.unit \/ left' = remaining)
  BY <1>2, <1>3, <1>4 DEF Least
<1>7. left' = 0 => used = (ci + 1) * L.unit
  <2> SUFFICES ASSUME left' = 0 PROVE used = (ci + 1) * L.unit
    OBVIOUS
  <2>1. L.unit = 0
    BY <1>3, <1>6
  <2> QED
    BY <1>2, <1>3, <2>1
<1>8. left' > 0 => Ahead(0)'
  BY <1>1, <1>2, <1>3, <1>4, <1>5, <1>6 DEF Ahead, Least
<1>9. Covered(L)' = Covered(L) /\ Bytes(L)' = Bytes(L) /\ used <= Covered(L)
      /\ out = [i \in 1 .. used |-> Bytes(L)[i]]
  BY <1>1 DEF CopyInv, NextCluster
<1> QED
  BY <1>1, <1>2, <1>7, <1>8, <1>9 DEF CopyInv

\* The piece that comes next has the bytes of the file that follow.
LEMMA PieceIs ==
  ASSUME CopierOK, CopyInv, Own, state = "copying", left > 0
  PROVE  /\ Chunk \in Nat \ {0} /\ Chunk <= left /\ used \in Nat /\ used + Chunk <= Covered(L)
         /\ \A i \in used + 1 .. used + Chunk : Bytes(L)[i] = from + (i - used - 1)
<1>1. /\ L \in LayoutType /\ ci \in 1 .. Len(L.list)
      /\ used \in Nat /\ left \in Nat /\ remaining \in Nat /\ left <= remaining
      /\ used + remaining = L.size
  BY LIsTyped DEF CopierOK, CopyInv, Own
<1>2. PICK r \in Nat : Ahead(r)
  BY DEF CopyInv
<1>3. /\ Place(L.unit, ci, r, used) /\ from = L.list[ci] + r /\ r + left <= L.unit
  BY <1>2 DEF Ahead
<1>4. Chunk \in Nat \ {0} /\ Chunk <= left
  BY <1>1, SizesAssumption DEF Chunk, Least
<1>5. L.unit \in Nat /\ L.size \in Nat
  BY <1>1 DEF LayoutType
<1> DEFINE k == Chunk
           l == L
<1>6. k \in Nat \ {0} /\ l \in LayoutType /\ ci \in 1 .. Len(l.list) /\ used \in Nat /\ Place(l.unit, ci, r, used)
  BY <1>1, <1>3, <1>4
<1>7. r + k <= l.unit /\ used + k <= l.size
  BY <1>1, <1>3, <1>4, <1>5
<1>8. from = l.list[ci] + r
  BY <1>3
<1>9. k <= left
  BY <1>4
<1> HIDE DEF k, l
<1>10. /\ used + k <= Covered(l)
       /\ \A i \in used + 1 .. used + k : Bytes(l)[i] = (l.list[ci] + r) + (i - used - 1)
  BY ZenonT(60), <1>6, <1>7, PieceContinues
<1> QED
  BY <1>6, <1>8, <1>9, <1>10 DEF k, l

\* One piece: the prefix grows by it.
LEMMA PieceGrows ==
  ASSUME SmallClusters, CopierOK, CopyInv, CopyPiece, Own
  PROVE  /\ CopyInv'
         /\ used' > used /\ used' <= Covered(L)
         /\ out' = [i \in 1 .. used' |-> Bytes(L)[i]]
<1>1. L' = L /\ L \in LayoutType /\ Covered(L)' = Covered(L) /\ Bytes(L)' = Bytes(L)
  <2>1. node' = node /\ mode' = mode
    BY DEF CopyPiece
  <2> QED
    BY <2>1, LIsTyped DEF L
<1>2. /\ L.unit \in Nat /\ L.size \in Nat /\ ci \in 1 .. Len(L.list)
      /\ used \in Nat /\ left \in Nat /\ remaining \in Nat /\ left > 0 /\ left <= remaining
      /\ used + remaining = L.size
  BY <1>1 DEF LayoutType, CopierOK, CopyInv, CopyPiece, Own
<1>3. PICK r \in Nat : Ahead(r)
  BY <1>2 DEF CopyInv, CopyPiece
<1>4. Place(L.unit, ci, r, used)
  BY <1>3 DEF Ahead
<1>5. from = L.list[ci] + r
  BY <1>3 DEF Ahead
<1>6. r + left <= L.unit /\ (r + left = L.unit \/ left = remaining)
  BY <1>3 DEF Ahead
<1>7. Chunk \in Nat \ {0} /\ Chunk <= left
  BY <1>2, SizesAssumption DEF Chunk, Least
<1>8. LeftAfter = left - Chunk
  <2>1. CASE mode = "restore" /\ Way(node, mode) = "clusters"
    <3>1. L.unit <= Buf
      BY <2>1, ShortPieces DEF L, CopierOK
    <3>2. left <= Buf
      BY <1>2, <1>6, <3>1, SizesAssumption
    <3>3. Chunk = left
      BY <1>2, <3>2, SizesAssumption DEF Chunk, Least
    <3> QED
      BY <1>2, <2>1, <3>3 DEF LeftAfter
  <2>2. CASE ~(mode = "restore" /\ Way(node, mode) = "clusters")
    BY <2>2 DEF LeftAfter
  <2> QED
    BY <2>1, <2>2
<1>9. /\ used' = used + Chunk /\ from' = from + Chunk /\ remaining' = remaining - Chunk
      /\ left' = left - Chunk /\ ci' = ci
      /\ out' = [i \in 1 .. used + Chunk |-> IF i <= used THEN out[i] ELSE from + (i - used - 1)]
  BY <1>8 DEF CopyPiece
<1>10. /\ used + Chunk <= Covered(L)
       /\ \A i \in used + 1 .. used + Chunk : Bytes(L)[i] = from + (i - used - 1)
  BY <1>2, PieceIs DEF CopyPiece
<1>11. out' = [i \in 1 .. used' |-> Bytes(L)[i]]
  <2>1. ASSUME NEW i \in 1 .. used + Chunk
        PROVE  (IF i <= used THEN out[i] ELSE from + (i - used - 1)) = Bytes(L)[i]
    <3>1. CASE i <= used
      <4>1. i \in 1 .. used /\ out = [j \in 1 .. used |-> Bytes(L)[j]]
        BY <1>2, <1>7, <3>1 DEF CopyInv, CopyPiece
      <4>2. out[i] = Bytes(L)[i]
        BY <4>1
      <4> QED
        BY <3>1, <4>2
    <3>2. CASE ~(i <= used)
      <4>1. i \in used + 1 .. used + Chunk
        BY <1>2, <1>7, <3>2
      <4>2. Bytes(L)[i] = from + (i - used - 1)
        BY <1>10, <4>1
      <4> QED
        BY <3>2, <4>2
    <3> QED
      BY <3>1, <3>2
  <2> QED
    BY <1>9, <2>1
<1>12. left' = 0 => remaining' = 0 \/ used' = ci' * L.unit
  <2> SUFFICES ASSUME left' = 0 PROVE remaining' = 0 \/ used' = ci' * L.unit
    OBVIOUS
  <2>1. Chunk = left
    BY <1>2, <1>7, <1>9
  <2>2. CASE r + left = L.unit
    <3> DEFINE q == ci - 1
               u == L.unit
    <3>1. q \in Nat /\ u \in Nat /\ used = q * u + r /\ ci = q + 1
      BY <1>2, <1>4 DEF Place
    <3>2. used' = used + left /\ r + left = u
      BY <1>9, <2>1, <2>2
    <3> HIDE DEF q, u
    <3>3. (q + 1) * u = q * u + u /\ q * u \in Nat
      BY <3>1
    <3>4. used' = (q + 1) * u
      BY <1>2, <3>1, <3>2, <3>3
    <3> QED
      BY <1>9, <3>1, <3>4 DEF u
  <2>3. CASE left = remaining
    BY <1>2, <1>9, <2>1, <2>3
  <2> QED
    BY <1>6, <2>2, <2>3
<1>13. PICK t \in Nat : t = r + Chunk
  BY <1>7
<1>14. Ahead(t)'
  <2>1. Place(L.unit, ci, r + Chunk, used')
    <3> DEFINE q == ci - 1
               u == L.unit
               k == Chunk
    <3>1. q \in Nat /\ u \in Nat /\ k \in Nat /\ used = q * u + r /\ used' = used + k
      BY <1>2, <1>4, <1>7, <1>9 DEF Place
    <3> HIDE DEF q, u, k
    <3>2. q * u \in Nat
      BY <3>1
    <3>3. used' = q * u + (r + k) /\ used' \in Nat /\ r + k \in Nat
      BY <3>1, <3>2
    <3> QED
      BY <3>1, <3>3 DEF Place, q, u, k
  <2>2. L.list[ci] \in Nat
    <3>1. L.list \in Seq(Nat)
      BY <1>1 DEF LayoutType
    <3> QED
      BY <1>2, <3>1
  <2>3. from' = L.list[ci] + (r + Chunk)
    BY <1>5, <1>7, <1>9, <2>2
  <2>4. (r + Chunk) + left' <= L.unit /\ ((r + Chunk) + left' = L.unit \/ left' = remaining')
    BY <1>2, <1>6, <1>7, <1>9
  <2> HIDE DEF L
  <2> QED
    BY <1>1, <1>9, <1>13, <2>1, <2>3, <2>4 DEF Ahead
<1>15. used' > used /\ used' <= Covered(L)
  BY <1>2, <1>7, <1>9, <1>10
<1>16. CopyInv'
  <2>1. left' > 0 => ci' \in 1 .. Len(L'.list) /\ \E q \in Nat : Ahead(q)'
    BY <1>1, <1>2, <1>9, <1>13, <1>14
  <2>2. out' = [i \in 1 .. used' |-> Bytes(L)'[i]] /\ used' <= Covered(L)'
    BY <1>1, <1>11, <1>15
  <2>3. left' = 0 => remaining' = 0 \/ used' = ci' * L'.unit
    BY <1>1, <1>12
  <2> QED
    BY <2>1, <2>2, <2>3 DEF CopyInv
<1> QED
  BY <1>11, <1>15, <1>16

LEMMA CopyInvInit == Init => CopyInv
  BY DEF Init, CopyInv

LEMMA CopyInvStep == SmallClusters /\ CopierOK /\ CopyInv /\ [Next]_vars => CopyInv'
<1> SUFFICES ASSUME SmallClusters, CopierOK, CopyInv, [Next]_vars, Own'
             PROVE  CopyInv'
  BY DEF CopyInv
<1>1. CASE UNCHANGED <<state, starved>> /\ UNCHANGED copier
  <2>0. Own
    BY <1>1 DEF copier, Own, Sound, Driven
  <2>1. L' = L /\ Covered(L)' = Covered(L) /\ Bytes(L)' = Bytes(L)
    BY <1>1 DEF copier, L
  <2>2. \A r \in Nat : Ahead(r)' <=> Ahead(r)
    BY <1>1, <2>1 DEF copier, Ahead
  <2> QED
    BY <1>1, <2>0, <2>1, <2>2 DEF copier, CopyInv
<1>2. CASE Restore \/ MakeDirectory \/ DriverDeclines \/ UNCHANGED vars
  BY <1>1, <1>2 DEF Restore, MakeDirectory, DriverDeclines, vars, copier
<1>3. CASE RestoreFile
  <2>1. Head(queue) \in Nodes
    BY <1>3 DEF RestoreFile, CopierOK
  <2>2. CASE Begin(Head(queue), "restore")
    BY <2>1, <2>2, BeginInv DEF Modes
  <2> QED
    BY <1>1, <1>3, <2>2 DEF RestoreFile
<1>4. CASE Preview
  <2>1. PICK k \in DOMAIN batch : Begin(batch[k], "preview")
    BY <1>4 DEF Preview
  <2>2. batch[k] \in Nodes
    BY DEF CopierOK
  <2> QED
    BY <2>1, <2>2, BeginInv DEF Modes
<1>5. CASE NextCluster
  BY <1>5, ClusterInv
<1>6. CASE CopyPiece
  <2>1. Own
    BY <1>6 DEF CopyPiece, Own, Sound, Driven
  <2> QED
    BY <1>6, <2>1, PieceGrows
<1>7. CASE ReallocFails
  BY <1>7 DEF ReallocFails, NoRoom, Own, Sound, Driven
<1>8. CASE ReadFails \/ WriteFails \/ Finish \/ FlushFails \/ DriverStops
  BY <1>8, CloseInv DEF ReadFails, WriteFails, Finish, FlushFails, DriverStops
<1>9. CASE DriverStale
  BY <1>9 DEF DriverStale, Own, Driven
<1> QED
  BY <1>2, <1>3, <1>4, <1>5, <1>6, <1>7, <1>8, <1>9 DEF Next, Copying

-----------------------------------------------------------------------------
(* The refinement. *)

LEMMA BeginImplements ==
  ASSUME NEW n \in Nodes, NEW m \in Modes, state # "copying", Begin(n, m)
  PROVE  Copy!Begin
<1>1. Content(node, mode)' = Content(n, m) /\ state' = "copying" /\ out' = Nothing
  BY DEF Begin, Content
<1>2. Content(n, m) \in {Content(x, y) : x \in Nodes, y \in {"restore", "preview"}}
  BY DEF Modes
<1>3. Nothing = [i \in 1 .. 0 |-> Content(n, m)[i]]
  BY NothingIsPrefix
<1> QED
  BY <1>1, <1>2, <1>3 DEF Copy!Begin, Copy!Prefix

LEMMA PieceImplements ==
  ASSUME SmallClusters, CopierOK, CopyInv, CopyPiece, Own
  PROVE  Copy!Grow
<1>1. used' > used /\ used' <= Covered(L) /\ out' = [i \in 1 .. used' |-> Bytes(L)[i]]
  BY PieceGrows
<1>2. used \in Nat /\ DOMAIN out = 1 .. used /\ used' \in Nat
  BY CopierStep DEF CopierOK, Next, Copying
<1>3. DOMAIN Bytes(L) = 1 .. Covered(L) /\ Covered(L) \in Nat
  <2>1. L \in LayoutType
    BY LIsTyped
  <2>2. L.size \in Nat /\ Len(L.list) * L.unit \in Nat
    BY <2>1 DEF LayoutType
  <2> QED
    BY <2>2 DEF Bytes, Covered, Least
<1>4. used' \in DOMAIN Bytes(L) /\ DOMAIN out \subseteq 1 .. used'
  BY <1>1, <1>2, <1>3
<1>5. PICK n : n = used'
  OBVIOUS
<1>6. n \in DOMAIN Bytes(L) /\ DOMAIN out \subseteq 1 .. n /\ out' = [i \in 1 .. n |-> Bytes(L)[i]]
  BY <1>1, <1>4, <1>5
<1>7. Content(node, mode) = Bytes(L) /\ Content(node, mode)' = Content(node, mode)
      /\ state = "copying" /\ state' = state
  BY DEF Content, L, CopyPiece
<1> QED
  BY <1>6, <1>7 DEF Copy!Grow, Copy!Prefix

\* At the end of the loops there is nothing left of what the list has of the file.
LEMMA NothingLeft ==
  ASSUME CopierOK, CopyInv, AtEnd, Own
  PROVE  out = Content(node, mode)
<1>1. L.size \in Nat /\ L.unit \in Nat /\ Len(L.list) \in Nat /\ ci \in 0 .. Len(L.list)
      /\ used \in Nat /\ remaining \in Nat /\ used + remaining = L.size
  BY LIsTyped DEF LayoutType, CopierOK, AtEnd, Own
<1>2. used <= Covered(L) /\ out = [i \in 1 .. used |-> Bytes(L)[i]]
  BY DEF CopyInv, AtEnd
<1>3. remaining = 0 \/ used = ci * L.unit
  BY DEF CopyInv, AtEnd
<1>4. remaining = 0 \/ ci = Len(L.list)
  BY <1>1 DEF AtEnd, L
<1>5. Len(L.list) * L.unit \in Nat
  BY <1>1
<1>6. used = L.size \/ used = Len(L.list) * L.unit
  BY <1>1, <1>3, <1>4
<1>7. used = Covered(L)
  BY <1>1, <1>2, <1>5, <1>6 DEF Covered, Least
<1>8. Bytes(L) = [i \in 1 .. Covered(L) |-> Bytes(L)[i]]
  BY DEF Bytes
<1> QED
  BY <1>2, <1>7, <1>8 DEF Content, L

LEMMA CloseImplements ==
  ASSUME NEW result, NEW bytes, state = "copying", Close(result, bytes),
         mode = "preview" \/ result = "failed" \/ out = Content(node, mode)
  PROVE  Copy!End
<1>1. Content(node, mode)' = Content(node, mode) /\ out' = out
  BY DEF Close, copier, Content
<1>2. state' = "part" \/ (state' = "whole" /\ mode = "restore" /\ result = "ok")
  BY DEF Close
<1> QED
  BY <1>1, <1>2 DEF Copy!End

LEMMA InitImplements == Init => Copy!Init
<1> SUFFICES ASSUME Init PROVE Copy!Init
  OBVIOUS
<1>1. node \in Nodes /\ mode \in Modes /\ state = "part" /\ out = Nothing
  BY BatchIsTyped DEF Init, Modes
<1>2. Content(node, mode) \in {Content(x, y) : x \in Nodes, y \in {"restore", "preview"}}
  BY <1>1 DEF Modes
<1> QED
  BY <1>1, <1>2, NothingIsPrefix DEF Copy!Init, Copy!Prefix

LEMMA StepImplements ==
  SmallClusters /\ CopierOK /\ CopyInv /\ [Next]_vars => [Copy!Next \/ starved' \/ Driven']_(Copy!copyVars)
<1> SUFFICES ASSUME SmallClusters, CopierOK, CopyInv, [Next]_vars, ~starved', ~Driven'
             PROVE  Copy!Next \/ UNCHANGED Copy!copyVars
  OBVIOUS
<1>0. ~starved
  BY StaysStarved
<1>1. CASE UNCHANGED state /\ UNCHANGED copier
  BY <1>1 DEF copier, Copy!copyVars, Content
<1>2. CASE Restore \/ MakeDirectory \/ DriverDeclines \/ NextCluster \/ UNCHANGED vars
  BY <1>2 DEF Restore, MakeDirectory, DriverDeclines, NextCluster, vars, copier, Copy!copyVars, Content
<1>3. CASE RestoreFile
  <2>1. Head(queue) \in Nodes /\ state # "copying"
    BY <1>3 DEF RestoreFile, CopierOK
  <2>2. CASE Begin(Head(queue), "restore")
    BY <2>1, <2>2, BeginImplements DEF Modes, Copy!Next
  <2> QED
    BY <1>1, <1>3, <2>2 DEF RestoreFile
<1>4. CASE Preview
  <2>1. PICK k \in DOMAIN batch : Begin(batch[k], "preview")
    BY <1>4 DEF Preview
  <2>2. batch[k] \in Nodes /\ state # "copying"
    BY <1>4 DEF CopierOK, Preview, Idle
  <2> QED
    BY <2>1, <2>2, BeginImplements DEF Modes, Copy!Next
<1>5. CASE CopyPiece
  <2>1. Own
    BY <1>0, <1>5 DEF CopyPiece, Own, Sound, Driven
  <2> QED
    BY <1>5, <2>1, PieceImplements DEF Copy!Next
<1>6. CASE ReallocFails
  BY <1>6 DEF ReallocFails
<1>7. CASE ReadFails
  <2>1. mode \in Modes /\ state = "copying"
    BY <1>7 DEF CopierOK, ReadFails
  <2>2. PICK bytes : Close("failed", bytes)
    BY <1>7 DEF ReadFails
  <2> QED
    BY <2>1, <2>2, CloseImplements DEF Copy!Next
<1>8. CASE WriteFails
  BY <1>8, CloseImplements DEF WriteFails, Copy!Next
<1>9. CASE Finish \/ FlushFails
  <2>1. AtEnd /\ state = "copying"
    BY <1>9 DEF Finish, FlushFails, AtEnd
  <2>2. PICK result, bytes : Close(result, bytes)
    BY <1>9 DEF Finish, FlushFails
  <2>3. Own
    BY <1>0, <2>2 DEF Close, copier, Own, Sound, Driven
  <2>4. out = Content(node, mode)
    BY <2>1, <2>3, NothingLeft
  <2> QED
    BY <2>1, <2>2, <2>4, CloseImplements DEF Copy!Next
<1>10. CASE DriverStale \/ DriverStops
  <2>1. Driven
    BY <1>10 DEF DriverStale, DriverStops
  <2>2. UNCHANGED <<node, mode>>
    BY <1>10 DEF DriverStale, DriverStops, Close, copier
  <2> QED
    BY <2>1, <2>2 DEF Driven
<1> QED
  BY <1>2, <1>3, <1>4, <1>5, <1>6, <1>7, <1>8, <1>9, <1>10 DEF Next, Copying

LEMMA CopyInvariant == ASSUME SmallClusters PROVE Spec => [](CopierOK /\ CopyInv)
<1>1. Init => CopierOK /\ CopyInv
  BY CopierInit, CopyInvInit
<1>2. CopierOK /\ CopyInv /\ [Next]_vars => (CopierOK /\ CopyInv)'
  BY CopierStep, CopyInvStep
<1> QED
  BY <1>1, <1>2, PTL DEF Spec

\* While no cluster is longer than a piece, restore_orphan and the loops of read_file_bytes
\* implement FileCopy, whatever fails, up to a realloc that does, and whatever the drivers
\* copy in between.
THEOREM CopyImplemented == ASSUME SmallClusters PROVE Spec => CopiesFaithfully
<1>1. Init => Copy!Init
  BY InitImplements
<1>2. CopierOK /\ CopyInv /\ [Next]_vars => [Copy!Next \/ starved' \/ Driven']_(Copy!copyVars)
  BY StepImplements
<1> QED
  BY <1>1, <1>2, CopyInvariant, PTL DEF Spec, CopiesFaithfully

-----------------------------------------------------------------------------
(* Type correctness. *)

LEMMA MakeDirsOK ==
  ASSUME DestOK, NEW path
  PROVE  \A q \in DOMAIN MakeDirs(dest, path) : MakeDirs(dest, path)[q].dir \in BOOLEAN
  BY DEF DestOK, MakeDirs, Directory

LEMMA WithOK ==
  ASSUME NEW d, \A q \in DOMAIN d : d[q].dir \in BOOLEAN, NEW path, NEW bytes
  PROVE  \A q \in DOMAIN With(d, path, File(bytes)) : With(d, path, File(bytes))[q].dir \in BOOLEAN
  BY DEF With, File

LEMMA DestStep == DestOK /\ [Next]_vars => DestOK'
<1> SUFFICES ASSUME DestOK, [Next]_vars PROVE DestOK'
  OBVIOUS
<1>1. CASE UNCHANGED dest
  BY <1>1 DEF DestOK
<1>2. CASE MakeDirectory
  <2>1. dest' = MakeDirs(dest, <<Last(Head(queue).path)>>)
    BY <1>2 DEF MakeDirectory
  <2> QED
    BY <2>1, MakeDirsOK DEF DestOK
<1>3. CASE RestoreFile
  <2> DEFINE made == MakeDirs(dest, Parent(Head(queue).path))
  <2>1. \A q \in DOMAIN made : made[q].dir \in BOOLEAN
    BY MakeDirsOK
  <2>2. dest' = made \/ dest' = With(made, Head(queue).path, File(Nothing))
    BY <1>3 DEF RestoreFile
  <2> HIDE DEF made
  <2> QED
    BY <2>1, <2>2, WithOK DEF DestOK
<1>4. ASSUME NEW result, NEW bytes, Close(result, bytes) PROVE DestOK'
  BY <1>4, WithOK DEF Close, DestOK
<1>5. CASE ReadFails \/ WriteFails \/ Finish \/ FlushFails \/ DriverStops
  BY <1>4, <1>5 DEF ReadFails, WriteFails, Finish, FlushFails, DriverStops
<1>6. CASE \/ Restore \/ Preview \/ NextCluster \/ CopyPiece \/ ReallocFails \/ UNCHANGED vars
           \/ DriverDeclines \/ DriverStale
  BY <1>1, <1>6 DEF Restore, Preview, NextCluster, CopyPiece, ReallocFails, vars, DriverDeclines, DriverStale
<1> QED
  BY <1>2, <1>3, <1>5, <1>6 DEF Next, Copying

\* The copier keeps within its cluster list and its file.
THEOREM RestoreTypeCorrect == Spec => []TypeOK
<1>1. Init => CopierOK /\ DestOK
  BY CopierInit DEF Init, DestOK
<1>2. CopierOK /\ DestOK /\ [Next]_vars => (CopierOK /\ DestOK)'
  BY CopierStep, DestStep
<1>3. CopierOK /\ DestOK => TypeOK
  <2> SUFFICES ASSUME CopierOK, DestOK PROVE TypeOK
    OBVIOUS
  <2>1. {from, left, used, remaining, room} \subseteq Nat
    BY DEF CopierOK
  <2>2. {starved, full} \subseteq BOOLEAN
    BY DEF CopierOK
  <2> QED
    BY <2>1, <2>2 DEF CopierOK, DestOK, TypeOK, L, Modes, Sound
<1> QED
  BY <1>1, <1>2, <1>3, PTL DEF Spec

-----------------------------------------------------------------------------
(* The destination. *)

LEMMA PathIs ==
  ASSUME NEW path \in Seq(STRING), NEW k \in 1 .. Len(path) - 1
  PROVE  /\ SubSeq(path, 1, k) \in Seq(STRING) /\ Len(SubSeq(path, 1, k)) = k /\ SubSeq(path, 1, k) # <<>>
         /\ \A i \in 1 .. k : SubSeq(path, 1, k)[i] = path[i]
         /\ \A j \in 1 .. k : SubSeq(SubSeq(path, 1, k), 1, j) = SubSeq(path, 1, j)
<1> DEFINE a == SubSeq(path, 1, k)
<1>1. a \in Seq(STRING) /\ Len(a) = k /\ \A i \in 1 .. k : a[i] = path[i]
  OBVIOUS
<1>2. a # <<>>
  BY <1>1
<1> HIDE DEF a
<1>3. ASSUME NEW j \in 1 .. k
      PROVE  SubSeq(a, 1, j) = SubSeq(path, 1, j)
  <2>1. /\ SubSeq(a, 1, j) \in Seq(STRING) /\ Len(SubSeq(a, 1, j)) = j
        /\ \A i \in 1 .. j : SubSeq(a, 1, j)[i] = a[i]
    BY <1>1
  <2>2. /\ SubSeq(path, 1, j) \in Seq(STRING) /\ Len(SubSeq(path, 1, j)) = j
        /\ \A i \in 1 .. j : SubSeq(path, 1, j)[i] = path[i]
    OBVIOUS
  <2> DEFINE x == SubSeq(a, 1, j)
  <2> DEFINE y == SubSeq(path, 1, j)
  <2>3. x \in Seq(STRING) /\ y \in Seq(STRING) /\ Len(x) = Len(y) /\ \A i \in 1 .. Len(x) : x[i] = y[i]
    BY <1>1, <2>1, <2>2
  <2> HIDE DEF x, y
  <2>4. x = y
    BY <2>3, SeqEqual
  <2> QED
    BY <2>4 DEF x, y
<1> QED
  BY <1>1, <1>2, <1>3 DEF a

\* The directories above a path are those made for its parent.
LEMMA AboveIs ==
  ASSUME NEW path \in Seq(STRING)
  PROVE  /\ (Above(Parent(path)) \cup {Parent(path)}) \ {<<>>} = Above(path)
         /\ \A a \in Above(path) : a # <<>> /\ Above(a) \subseteq Above(path)
<1>1. Len(path) \in Nat
  OBVIOUS
<1>2. ASSUME NEW k \in 1 .. Len(path) - 1
      PROVE  /\ SubSeq(path, 1, k) # <<>>
             /\ Above(SubSeq(path, 1, k)) = {SubSeq(path, 1, j) : j \in 1 .. k - 1}
  <2>1. Len(SubSeq(path, 1, k)) = k /\ SubSeq(path, 1, k) # <<>>
    BY PathIs
  <2>2. \A j \in 1 .. k - 1 : SubSeq(SubSeq(path, 1, k), 1, j) = SubSeq(path, 1, j)
    BY PathIs
  <2> QED
    BY <2>1, <2>2 DEF Above
<1>3. \A a \in Above(path) : a # <<>> /\ Above(a) \subseteq Above(path)
  <2> TAKE a \in Above(path)
  <2>1. PICK k \in 1 .. Len(path) - 1 : a = SubSeq(path, 1, k)
    BY DEF Above
  <2>2. a # <<>> /\ Above(a) = {SubSeq(path, 1, j) : j \in 1 .. k - 1}
    BY <1>2, <2>1
  <2>3. \A j \in 1 .. k - 1 : j \in 1 .. Len(path) - 1
    BY <1>1
  <2> QED
    BY <2>2, <2>3 DEF Above
<1>4. CASE Len(path) <= 1
  <2>1. Parent(path) = <<>>
    BY <1>1, <1>4, SubSeqEmpty DEF Parent
  <2>2. Above(<<>>) = {} /\ Above(path) = {}
    BY <1>1, <1>4 DEF Above
  <2> QED
    BY <1>3, <2>1, <2>2
<1>5. CASE Len(path) > 1
  <2> DEFINE k == Len(path) - 1
  <2>1. k \in 1 .. Len(path) - 1 /\ Parent(path) = SubSeq(path, 1, k)
    BY <1>1, <1>5 DEF Parent
  <2>2. Parent(path) # <<>> /\ Above(Parent(path)) = {SubSeq(path, 1, j) : j \in 1 .. k - 1}
    BY <1>2, <2>1
  <2>3. \A j \in 1 .. k - 1 : SubSeq(path, 1, j) # <<>>
    BY <1>1, <1>2
  <2>4. Above(path) = {SubSeq(path, 1, j) : j \in 1 .. k}
    BY DEF Above
  <2>5. \A j \in 1 .. k : j \in 1 .. k - 1 \/ j = k
    BY <1>1
  <2>6. 1 .. k - 1 \subseteq 1 .. k
    BY <1>1
  <2> HIDE DEF k
  <2>7. Above(path) = Above(Parent(path)) \cup {Parent(path)}
    BY <2>1, <2>2, <2>4, <2>5, <2>6
  <2> QED
    BY <1>3, <2>2, <2>3, <2>7
<1> QED
  BY <1>1, <1>4, <1>5

\* What is made is above the path or at its end, and nothing that was there changes.
LEMMA MakeDirsIs ==
  ASSUME NEW d, NEW path
  PROVE  /\ DOMAIN d \subseteq DOMAIN MakeDirs(d, path) /\ \A q \in DOMAIN d : MakeDirs(d, path)[q] = d[q]
         /\ \A q \in DOMAIN MakeDirs(d, path) \ DOMAIN d :
              MakeDirs(d, path)[q].dir /\ q \in (Above(path) \cup {path}) \ {<<>>}
         /\ \A q \in (Above(path) \cup {path}) \ {<<>>} :
              q \in DOMAIN MakeDirs(d, path) \/ Above(q) \cap Files(d) # {}
         /\ Files(MakeDirs(d, path)) = Files(d)
<1>1. /\ DOMAIN d \subseteq DOMAIN MakeDirs(d, path) /\ \A q \in DOMAIN d : MakeDirs(d, path)[q] = d[q]
      /\ \A q \in DOMAIN MakeDirs(d, path) \ DOMAIN d :
              MakeDirs(d, path)[q].dir /\ q \in (Above(path) \cup {path}) \ {<<>>}
      /\ \A q \in (Above(path) \cup {path}) \ {<<>>} :
              q \in DOMAIN MakeDirs(d, path) \/ Above(q) \cap Files(d) # {}
  BY DEF MakeDirs, Directory
<1> QED
  BY <1>1 DEF Files

\* What a restore that ends has done, when it was not a driver's.
Outcome(n, result, bytes) ==
  Way(n, "restore") # "driver" =>
  /\ result = "ok" => bytes = Content(n, "restore")
  /\ result = "failed" => \E i \in DOMAIN Content(n, "restore") : Content(n, "restore")[i] \in Unreadable

LEMMA CloseOutcome ==
  ASSUME SmallClusters, CopierOK, CopyInv, ReadFails \/ WriteFails \/ Finish \/ FlushFails \/ DriverStops
  PROVE  \E result, bytes :
           /\ state = "copying" /\ Close(result, bytes) /\ (full => full')
           /\ result \in {"ok", "failed"} /\ (mode = "restore" /\ ~full' => Outcome(node, result, bytes))
<1>1. CASE ReadFails
  <2>1. state = "copying" /\ left > 0 /\ ~Readable /\ ~Driven /\ full' = full /\ mode \in Modes
    BY <1>1 DEF ReadFails, CopierOK
  <2>2. CASE mode = "restore"
    <3>1. Close("failed", out)
      BY <1>1, <2>2 DEF ReadFails
    <3>2. PICK a \in from .. from + Chunk - 1 : a \in Unreadable
      BY <2>1 DEF Readable
    <3>3. /\ Chunk \in Nat \ {0} /\ used \in Nat /\ used + Chunk <= Covered(L) /\ from \in Nat
          /\ \A i \in used + 1 .. used + Chunk : Bytes(L)[i] = from + (i - used - 1)
      BY <2>1, <2>2, PieceIs DEF Own, Sound, CopierOK
    <3>4. Covered(L) \in Nat
      <4>1. L \in LayoutType
        BY LIsTyped
      <4>2. L.size \in Nat /\ Len(L.list) * L.unit \in Nat
        BY <4>1 DEF LayoutType
      <4> QED
        BY <4>2 DEF Covered, Least
    <3>5. a \in Int /\ from <= a /\ a < from + Chunk
      BY <3>2, <3>3
    <3>6. PICK i \in Nat : i = used + 1 + (a - from)
      BY <3>3, <3>5
    <3>7. i \in used + 1 .. used + Chunk /\ i \in 1 .. Covered(L) /\ from + (i - used - 1) = a
      BY <3>3, <3>4, <3>5, <3>6
    <3>8. i \in DOMAIN Bytes(L) /\ Bytes(L)[i] = a
      <4>1. DOMAIN Bytes(L) = 1 .. Covered(L)
        BY DEF Bytes
      <4> QED
        BY <3>3, <3>7, <4>1
    <3>9. Content(node, "restore") = Bytes(L)
      BY <2>2 DEF Content, L
    <3>10. Outcome(node, "failed", out)
      BY <3>2, <3>8, <3>9 DEF Outcome
    <3> QED
      BY <2>1, <3>1, <3>10
  <2>3. CASE mode = "preview"
    BY <1>1, <2>1, <2>3 DEF ReadFails
  <2> QED
    BY <2>1, <2>2, <2>3 DEF Modes
<1>2. CASE WriteFails
  BY <1>2 DEF WriteFails
<1>3. CASE Finish
  <2>1. AtEnd /\ state = "copying" /\ full' = full
    BY <1>3 DEF Finish, AtEnd
  <2>2. CASE mode = "restore"
    <3>1. Way(node, mode) # "astray"
      BY <2>2 DEF Way
    <3>2. Close("ok", out)
      BY <1>3, <3>1 DEF Finish
    <3>3. ~Driven => out = Content(node, "restore")
      BY <2>1, <2>2, NothingLeft DEF Own, Sound
    <3>4. Outcome(node, "ok", out)
      BY <2>2, <3>3 DEF Driven, Outcome
    <3> QED
      BY <2>1, <3>2, <3>4
  <2>3. CASE mode # "restore"
    <3>1. Close("failed", Nothing) \/ Close("ok", out)
      BY <1>3 DEF Finish
    <3> QED
      BY <2>1, <2>3, <3>1
  <2> QED
    BY <2>2, <2>3
<1>4. CASE FlushFails
  <2>1. PICK n : Close("ok", [i \in 1 .. n |-> out[i]])
    BY <1>4 DEF FlushFails
  <2> QED
    BY <1>4, <2>1 DEF FlushFails, AtEnd
<1>5. CASE DriverStops
  <2>1. state = "copying" /\ full' = full /\ Driven
    BY <1>5 DEF DriverStops
  <2>2. PICK result, bytes : Close(result, bytes) /\ result \in {"ok", "failed"}
    BY <1>5 DEF DriverStops
  <2>3. mode = "restore" => Outcome(node, result, bytes)
    BY <2>1 DEF Driven, Outcome
  <2> QED
    BY <2>1, <2>2, <2>3
<1> QED
  BY <1>1, <1>2, <1>3, <1>4, <1>5

LEMMA AppendIs ==
  ASSUME NEW S, NEW s \in Seq(S), NEW e
  PROVE  /\ Append(s, e) \in Seq(S \cup {e}) /\ DOMAIN s = 1 .. Len(s) /\ Len(s) \in Nat
         /\ DOMAIN Append(s, e) = 1 .. Len(s) + 1
         /\ Append(s, e)[Len(s) + 1] = e /\ \A i \in 1 .. Len(s) : Append(s, e)[i] = s[i]
<1>1. s \in Seq(S \cup {e}) /\ e \in S \cup {e}
  BY SeqMonotonic
<1> DEFINE T == S \cup {e}
<1> HIDE DEF T
<1>2. s \in Seq(T) /\ e \in T
  BY <1>1 DEF T
<1>3. Append(s, e) \in Seq(T) /\ DOMAIN s = 1 .. Len(s) /\ Len(s) \in Nat
      /\ DOMAIN Append(s, e) = 1 .. Len(s) + 1
      /\ Append(s, e)[Len(s) + 1] = e /\ \A i \in 1 .. Len(s) : Append(s, e)[i] = s[i]
  BY <1>2
<1> QED
  BY <1>3 DEF T

InBatch(n) == n \in {batch[k] : k \in DOMAIN batch}

\* What is restored is marked, and what is on the destination was put there for it.
FromBatch ==
  /\ \E S : done \in Seq(S)
  /\ \A i \in DOMAIN queue : InBatch(queue[i])
  /\ state = "copying" => InBatch(node) /\ ~node.dir
  /\ \A k \in DOMAIN done : InBatch(done[k].node)
  /\ \A q \in Files(dest) : \E n \in Nodes : InBatch(n) /\ ~n.dir /\ n.path = q
  /\ \A q \in DOMAIN dest \ Files(dest) :
       \E n \in Nodes : InBatch(n) /\ IF n.dir THEN q = <<Last(n.path)>> ELSE q \in Above(n.path)

\* The copies that ended are those that had ended, and maybe one more.
Added(n, m, result) ==
  \E bytes : done' = Append(done, [node |-> n, mode |-> m, result |-> result, bytes |-> bytes])

\* What a step may do to the copies and to the destination.
LEMMA Moves ==
  ASSUME CopierOK, SmallClusters, CopyInv, [Next]_vars
  PROVE  /\ batch' = batch /\ (full => full')
         /\ \/ /\ UNCHANGED <<dest, done, state, node, mode>> /\ queue' \in {queue, batch}
            \/ /\ UNCHANGED <<dest, done, queue>> /\ state # "copying" /\ mode' = "preview"
               /\ InBatch(node') /\ ~node'.dir
            \/ /\ UNCHANGED <<done, state, node, mode>> /\ state # "copying" /\ AtDirectory /\ queue' = Tail(queue)
               /\ dest' = MakeDirs(dest, <<Last(Head(queue).path)>>)
            \/ /\ state # "copying" /\ queue # <<>> /\ ~Head(queue).dir /\ queue' = Tail(queue)
               /\ LET path == Head(queue).path
                      made == MakeDirs(dest, Parent(path))
                  IN \/ /\ done' = done /\ node' = Head(queue) /\ mode' = "restore" /\ state' = "copying"
                        /\ dest' = With(made, path, File(Nothing))
                     \/ /\ Added(Head(queue), "restore", "failed") /\ UNCHANGED <<state, node, mode>>
                        /\ ~CanOpen(made, path) /\ dest' = made
                     \/ /\ \E result : Added(Head(queue), "restore", result)
                        /\ UNCHANGED <<state, node, mode, dest>> /\ Way(Head(queue), "restore") = "driver"
            \/ /\ state = "copying" /\ state' # "copying" /\ UNCHANGED <<node, mode, queue>>
               /\ \E result, bytes :
                    /\ done' = Append(done, [node |-> node, mode |-> mode, result |-> result, bytes |-> bytes])
                    /\ dest' = IF mode = "restore" THEN With(dest, node.path, File(bytes)) ELSE dest
                    /\ result \in {"ok", "failed"} /\ (mode = "restore" /\ ~full' => Outcome(node, result, bytes))
<1>1. CASE Restore \/ NextCluster \/ CopyPiece \/ ReallocFails \/ DriverStale \/ UNCHANGED vars
  BY <1>1 DEF Restore, NextCluster, CopyPiece, ReallocFails, DriverStale, vars, copier
<1>2. CASE MakeDirectory
  BY <1>2 DEF MakeDirectory, AtDirectory, copier
<1>3. CASE RestoreFile
  BY <1>3 DEF RestoreFile, Begin, Ended, Added, copier
<1>4. CASE Preview
  BY <1>4 DEF Preview, Begin, Idle, InBatch
<1>6. CASE DriverDeclines
  <2>1. \E result : Added(Head(queue), "restore", result)
    BY <1>6 DEF DriverDeclines, Ended, Added
  <2> QED
    BY <1>6, <2>1 DEF DriverDeclines, copier
<1>5. CASE ReadFails \/ WriteFails \/ Finish \/ FlushFails \/ DriverStops
  <2>1. PICK result, bytes :
           /\ state = "copying" /\ Close(result, bytes) /\ (full => full')
           /\ result \in {"ok", "failed"} /\ (mode = "restore" /\ ~full' => Outcome(node, result, bytes))
    BY <1>5, CloseOutcome
  <2>2. /\ batch' = batch /\ state' # "copying" /\ UNCHANGED <<node, mode, queue>>
        /\ done' = Append(done, [node |-> node, mode |-> mode, result |-> result, bytes |-> bytes])
        /\ dest' = IF mode = "restore" THEN With(dest, node.path, File(bytes)) ELSE dest
    BY <2>1 DEF Close, Ended, copier
  <2> QED
    BY <2>1, <2>2
<1> QED
  BY <1>1, <1>2, <1>3, <1>4, <1>5, <1>6 DEF Next, Copying


\* The same, of each alone.
LEMMA DoneMoves ==
  ASSUME CopierOK, SmallClusters, CopyInv, FromBatch, [Next]_vars
  PROVE  \/ done' = done
         \/ \E n, m, result, bytes :
              InBatch(n) /\ done' = Append(done, [node |-> n, mode |-> m, result |-> result, bytes |-> bytes])
<1>1. CASE queue # <<>> /\ \E result : Added(Head(queue), "restore", result)
  <2>1. queue \in Seq(Nodes)
    BY DEF CopierOK
  <2>2. 1 \in DOMAIN queue /\ Head(queue) = queue[1]
    BY <1>1, <2>1
  <2>3. InBatch(Head(queue))
    BY <2>2 DEF FromBatch
  <2> QED
    BY <1>1, <2>3 DEF Added
<1>2. CASE state = "copying" /\ \E result, bytes :
        done' = Append(done, [node |-> node, mode |-> mode, result |-> result, bytes |-> bytes])
  <2>1. InBatch(node)
    BY <1>2 DEF FromBatch
  <2> QED
    BY <1>2, <2>1
<1>3. CASE done' = done
  BY <1>3
<1> QED
  BY <1>1, <1>2, <1>3, Moves

LEMMA DestMoves ==
  ASSUME CopierOK, SmallClusters, CopyInv, FromBatch, [Next]_vars
  PROVE  \/ dest' = dest
         \/ AtDirectory /\ dest' = MakeDirs(dest, <<Last(Head(queue).path)>>)
         \/ \E n \in Nodes : /\ InBatch(n) /\ ~n.dir
                            /\ \/ dest' = MakeDirs(dest, Parent(n.path))
                               \/ dest' = With(MakeDirs(dest, Parent(n.path)), n.path, File(Nothing))
                               \/ \E bytes : dest' = With(dest, n.path, File(bytes))
<1>1. CASE state = "copying"
  <2>1. InBatch(node) /\ ~node.dir /\ node \in Nodes
    BY <1>1 DEF FromBatch, CopierOK
  <2>2. dest' = dest \/ \E bytes : dest' = With(dest, node.path, File(bytes))
    BY <1>1, Moves
  <2> QED
    BY <2>1, <2>2
<1>2. CASE queue # <<>> /\ ~Head(queue).dir /\ state # "copying"
  <2>1. queue \in Seq(Nodes)
    BY DEF CopierOK
  <2>2. 1 \in DOMAIN queue /\ Head(queue) = queue[1] /\ queue[1] \in Nodes
    BY <1>2, <2>1
  <2>3. InBatch(Head(queue)) /\ Head(queue) \in Nodes
    BY <2>2 DEF FromBatch
  <2>4. \/ dest' = dest
        \/ dest' = MakeDirs(dest, Parent(Head(queue).path))
        \/ dest' = With(MakeDirs(dest, Parent(Head(queue).path)), Head(queue).path, File(Nothing))
    BY <1>2, Moves DEF AtDirectory
  <2> QED
    BY <1>2, <2>3, <2>4
<1>3. CASE state # "copying" /\ ~ (queue # <<>> /\ ~Head(queue).dir)
  BY <1>3, Moves
<1> QED
  BY <1>1, <1>2, <1>3

LEMMA OpenClash ==
  ASSUME CopierOK, FromBatch, NEW n \in Nodes, InBatch(n), ~n.dir,
         ~CanOpen(MakeDirs(dest, Parent(n.path)), n.path)
  PROVE  Clash(n)
<1> DEFINE path == n.path
<1> DEFINE made == MakeDirs(dest, Parent(path))
<1>1. path \in Seq(STRING)
  BY NodesAreTyped DEF NodeType
<1>2. ASSUME NEW q \in Above(path), q \in Files(dest)
      PROVE  Clash(n)
  BY <1>2 DEF FromBatch, InBatch, Clash
<1>3. CASE ~ (Above(path) \subseteq DOMAIN made \ Files(made))
  <2>1. PICK a \in Above(path) : a \notin DOMAIN made \/ a \in Files(made)
    BY <1>3
  <2>2. CASE a \in Files(made)
    BY <1>2, <2>2, MakeDirsIs
  <2>3. CASE a \notin DOMAIN made
    <3>1. a \in (Above(Parent(path)) \cup {Parent(path)}) \ {<<>>}
      BY <1>1, AboveIs
    <3>2. PICK b \in Above(a) : b \in Files(dest)
      BY <2>3, <3>1, MakeDirsIs
    <3>3. b \in Above(path)
      BY <1>1, <3>2, AboveIs
    <3> QED
      BY <1>2, <3>2, <3>3
  <2> QED
    BY <2>1, <2>2, <2>3
<1>4. CASE path \in DOMAIN made /\ made[path].dir
  <2>1. CASE path \in DOMAIN dest
    <3>1. path \notin Files(dest)
      BY <1>4, <2>1, MakeDirsIs DEF Files
    <3>2. PICK m \in Nodes : InBatch(m) /\ IF m.dir THEN path = <<Last(m.path)>> ELSE path \in Above(m.path)
      BY <2>1, <3>1 DEF FromBatch
    <3> QED
      BY <3>2 DEF InBatch, Clash
  <2>2. CASE path \notin DOMAIN dest
    <3>1. path \in (Above(Parent(path)) \cup {Parent(path)}) \ {<<>>}
      BY <1>4, <2>2, MakeDirsIs
    <3>2. path \in Above(n.path)
      BY <1>1, <3>1, AboveIs
    <3> QED
      BY <3>2 DEF InBatch, Clash
  <2> QED
    BY <2>1, <2>2
<1> QED
  BY <1>3, <1>4 DEF CanOpen

\* A path that is marked as a directory, made under its last name.
LEMMA MarkedDirectory ==
  ASSUME FromBatch, NEW n \in Nodes, InBatch(n), n.dir, NEW q,
         q \in DOMAIN MakeDirs(dest, <<Last(n.path)>>) \ Files(MakeDirs(dest, <<Last(n.path)>>))
  PROVE  \E m \in Nodes : InBatch(m) /\ IF m.dir THEN q = <<Last(m.path)>> ELSE q \in Above(m.path)
<1> DEFINE path == <<Last(n.path)>>
<1>1. Above(path) = {}
  BY DEF Above
<1>2. CASE q \in DOMAIN dest
  <2>1. q \notin Files(dest)
    BY MakeDirsIs
  <2> QED
    BY <1>2, <2>1 DEF FromBatch
<1>3. CASE q \notin DOMAIN dest
  <2>1. q = path
    BY <1>1, <1>3, MakeDirsIs
  <2> QED
    BY <2>1
<1> QED
  BY <1>2, <1>3

\* The directories above a path that is marked as a file.
LEMMA MarkedFile ==
  ASSUME FromBatch, NEW n \in Nodes, InBatch(n), ~n.dir, NEW q,
         q \in DOMAIN MakeDirs(dest, Parent(n.path)) \ Files(MakeDirs(dest, Parent(n.path)))
  PROVE  \E m \in Nodes : InBatch(m) /\ IF m.dir THEN q = <<Last(m.path)>> ELSE q \in Above(m.path)
<1>1. n.path \in Seq(STRING)
  BY NodesAreTyped DEF NodeType
<1>2. CASE q \in DOMAIN dest
  <2>1. q \notin Files(dest)
    BY MakeDirsIs
  <2> QED
    BY <1>2, <2>1 DEF FromBatch
<1>3. CASE q \notin DOMAIN dest
  <2>1. q \in (Above(Parent(n.path)) \cup {Parent(n.path)}) \ {<<>>}
    BY <1>3, MakeDirsIs
  <2>2. q \in Above(n.path)
    BY <1>1, <2>1, AboveIs
  <2> QED
    BY <2>2
<1> QED
  BY <1>2, <1>3

LEMMA FromBatchStep ==
  ASSUME CopierOK, SmallClusters, CopyInv, FromBatch, [Next]_vars
  PROVE  FromBatch'
<1>0. batch' = batch /\ batch \in Seq(Nodes) /\ queue \in Seq(Nodes) /\ node \in Nodes
  BY Moves DEF CopierOK
<1>1. \A n : InBatch(n)' <=> InBatch(n)
  BY <1>0 DEF InBatch
<1>2. \A i \in DOMAIN queue' : InBatch(queue'[i])
  <2>1. CASE queue' \in {queue, batch}
    BY <2>1 DEF FromBatch, InBatch
  <2>2. CASE queue # <<>> /\ queue' = Tail(queue)
    <3>1. \A i \in 1 .. Len(queue) - 1 : Tail(queue)[i] = queue[i + 1] /\ i + 1 \in DOMAIN queue
      BY <1>0, <2>2
    <3>2. DOMAIN Tail(queue) = 1 .. Len(queue) - 1
      BY <1>0, <2>2
    <3> QED
      BY <2>2, <3>1, <3>2 DEF FromBatch
  <2> QED
    BY <2>1, <2>2, Moves DEF AtDirectory
<1>3. queue # <<>> => Head(queue) \in Nodes /\ InBatch(Head(queue))
  <2>1. queue # <<>> => 1 \in DOMAIN queue /\ Head(queue) = queue[1] /\ queue[1] \in Nodes
    BY <1>0
  <2> QED
    BY <2>1 DEF FromBatch
<1>4. state' = "copying" => InBatch(node') /\ ~node'.dir
  BY <1>3, Moves DEF FromBatch
<1>5. /\ \E S : done' \in Seq(S)
      /\ \A k \in DOMAIN done' : InBatch(done'[k].node)
  <2>1. CASE done' = done
    BY <2>1 DEF FromBatch
  <2>2. ASSUME NEW n, InBatch(n), NEW m, NEW result, NEW bytes,
               done' = Append(done, [node |-> n, mode |-> m, result |-> result, bytes |-> bytes])
        PROVE  /\ \E S : done' \in Seq(S)
               /\ \A k \in DOMAIN done' : InBatch(done'[k].node)
    <3> DEFINE e == [node |-> n, mode |-> m, result |-> result, bytes |-> bytes]
    <3>1. e.node = n /\ done' = Append(done, e)
      BY <2>2
    <3> HIDE DEF e
    <3>2. PICK S : done \in Seq(S)
      BY DEF FromBatch
    <3>3. /\ Append(done, e) \in Seq(S \cup {e}) /\ DOMAIN done = 1 .. Len(done) /\ Len(done) \in Nat
          /\ DOMAIN Append(done, e) = 1 .. Len(done) + 1
          /\ Append(done, e)[Len(done) + 1] = e /\ \A i \in 1 .. Len(done) : Append(done, e)[i] = done[i]
      BY <3>2, AppendIs
    <3>4. \A k \in 1 .. Len(done) + 1 : k \in 1 .. Len(done) \/ k = Len(done) + 1
      BY <3>3
    <3> QED
      BY <2>2, <3>1, <3>3, <3>4 DEF FromBatch
  <2> QED
    BY <2>1, <2>2, DoneMoves
<1>6. /\ \A q \in Files(dest') : \E n \in Nodes : InBatch(n) /\ ~n.dir /\ n.path = q
      /\ \A q \in DOMAIN dest' \ Files(dest') :
           \E n \in Nodes : InBatch(n) /\ IF n.dir THEN q = <<Last(n.path)>> ELSE q \in Above(n.path)
  <2> DEFINE Marked(q) == \E n \in Nodes : InBatch(n) /\ IF n.dir THEN q = <<Last(n.path)>> ELSE q \in Above(n.path)
             Listed(q) == \E n \in Nodes : InBatch(n) /\ ~n.dir /\ n.path = q
  <2>1. /\ \A q \in Files(dest) : Listed(q)
        /\ \A q \in DOMAIN dest \ Files(dest) : Marked(q)
    BY DEF FromBatch
  <2>2. CASE AtDirectory /\ dest' = MakeDirs(dest, <<Last(Head(queue).path)>>)
    <3>1. Files(dest') = Files(dest)
      BY <2>2, MakeDirsIs
    <3> QED
      BY <1>3, <2>1, <2>2, <3>1, MarkedDirectory DEF AtDirectory
  <2>3. ASSUME NEW n \in Nodes, InBatch(n), ~n.dir, dest' = MakeDirs(dest, Parent(n.path))
        PROVE  (\A q \in Files(dest') : Listed(q)) /\ (\A q \in DOMAIN dest' \ Files(dest') : Marked(q))
    <3>1. Files(dest') = Files(dest)
      BY <2>3, MakeDirsIs
    <3> QED
      BY <2>1, <2>3, <3>1, MarkedFile
  <2>4. ASSUME NEW n \in Nodes, InBatch(n), ~n.dir, NEW d, NEW bytes, dest' = With(d, n.path, File(bytes)),
               \A q \in Files(d) : Listed(q), \A q \in DOMAIN d \ Files(d) : Marked(q)
        PROVE  (\A q \in Files(dest') : Listed(q)) /\ (\A q \in DOMAIN dest' \ Files(dest') : Marked(q))
    <3> HIDE DEF Marked
    <3>0. PICK path : path = n.path
      OBVIOUS
    <3>1. Files(dest') = Files(d) \cup {path} /\ DOMAIN dest' \ Files(dest') \subseteq DOMAIN d \ Files(d)
      <4>1. dest' = With(d, path, File(bytes))
        BY <2>4, <3>0
      <4> QED
        BY <4>1 DEF With, File, Files
    <3>2. Listed(path)
      BY <2>4, <3>0
    <3> HIDE DEF Listed
    <3> QED
      BY <2>4, <3>1, <3>2
  <2>5. ASSUME NEW n \in Nodes, InBatch(n), ~n.dir
        PROVE  LET d == MakeDirs(dest, Parent(n.path))
               IN (\A q \in Files(d) : Listed(q)) /\ (\A q \in DOMAIN d \ Files(d) : Marked(q))
    BY <2>1, <2>5, MakeDirsIs, MarkedFile
  <2> HIDE DEF Marked, Listed
  <2>6. (\A q \in Files(dest') : Listed(q)) /\ (\A q \in DOMAIN dest' \ Files(dest') : Marked(q))
    <3>1. CASE dest' = dest
      BY <2>1, <3>1
    <3>2. ASSUME NEW n \in Nodes, InBatch(n), ~n.dir,
                 \/ dest' = MakeDirs(dest, Parent(n.path))
                 \/ dest' = With(MakeDirs(dest, Parent(n.path)), n.path, File(Nothing))
                 \/ \E bytes : dest' = With(dest, n.path, File(bytes))
          PROVE  (\A q \in Files(dest') : Listed(q)) /\ (\A q \in DOMAIN dest' \ Files(dest') : Marked(q))
      BY <2>1, <2>3, <2>4, <2>5, <3>2
    <3> QED
      BY <2>2, <3>1, <3>2, DestMoves DEF Marked, Listed
  <2> QED
    BY <2>6 DEF Marked, Listed
<1> QED
  BY <1>0, <1>1, <1>2, <1>4, <1>5, <1>6 DEF FromBatch

-----------------------------------------------------------------------------
(* What was restored stays, and what fails has a cause. *)

\* A copy of done' is one of done, or the one that was appended.
LEMMA OldOrNew ==
  ASSUME FromBatch, NEW e, done' = Append(done, e)
  PROVE  \E new \in Nat :
           /\ done'[new] = e /\ DOMAIN done' = DOMAIN done \cup {new}
           /\ \A k \in DOMAIN done : k \in Nat /\ k < new /\ done'[k] = done[k]
<1>1. PICK S : done \in Seq(S)
  BY DEF FromBatch
<1>2. /\ DOMAIN done = 1 .. Len(done) /\ Len(done) \in Nat /\ DOMAIN done' = 1 .. Len(done) + 1
      /\ done'[Len(done) + 1] = e /\ \A i \in 1 .. Len(done) : done'[i] = done[i]
  BY <1>1, AppendIs
<1>3. 1 .. Len(done) + 1 = (1 .. Len(done)) \cup {Len(done) + 1}
  BY <1>2
<1>4. \A k \in 1 .. Len(done) : k \in Nat /\ k < Len(done) + 1
  BY <1>2
<1> QED
  BY <1>2, <1>3, <1>4

\* Copy k of done is on the destination with all of its bytes.
OnDisk(k) ==
  LET n == done[k].node
  IN n.path \in Files(dest) /\ dest[n.path].bytes = Content(n, "restore")

LEMMA OnDiskStays ==
  ASSUME NEW k, OnDisk(k), done'[k] = done[k],
         done[k].node.path \in DOMAIN dest', dest'[done[k].node.path] = dest[done[k].node.path]
  PROVE  OnDisk(k)'
  BY DEF OnDisk, Files

\* Nothing but the restoring of a file under the same path takes a file away.
LEMMA LastingBack ==
  ASSUME CopierOK, SmallClusters, CopyInv, FromBatch, [Next]_vars,
         NEW k \in DOMAIN done, done[k].mode = "restore", Lasting(k)'
  PROVE  /\ Lasting(k) /\ k \in DOMAIN done' /\ done'[k] = done[k]
         /\ done[k].node.path \in DOMAIN dest =>
              done[k].node.path \in DOMAIN dest' /\ dest'[done[k].node.path] = dest[done[k].node.path]
<1> DEFINE path == done[k].node.path
           Stays == path \in DOMAIN dest => path \in DOMAIN dest' /\ dest'[path] = dest[path]
<1>1. ASSUME UNCHANGED <<dest, done>>, state # "copying" \/ UNCHANGED <<state, node, mode>>
      PROVE  Lasting(k) /\ k \in DOMAIN done' /\ done'[k] = done[k] /\ Stays
  BY <1>1 DEF Lasting, Restores
<1>2. ASSUME state # "copying", done' = done, NEW q, dest' = MakeDirs(dest, q)
      PROVE  Lasting(k) /\ k \in DOMAIN done' /\ done'[k] = done[k] /\ Stays
  <2>1. Lasting(k)
    BY <1>2 DEF Lasting, Restores
  <2>2. Stays
    BY <1>2, MakeDirsIs
  <2> QED
    BY <1>2, <2>1, <2>2
<1>3. ASSUME state # "copying", done' = done, state' = "copying", mode' = "restore",
             NEW q, dest' = With(MakeDirs(dest, q), node'.path, File(Nothing))
      PROVE  Lasting(k) /\ k \in DOMAIN done' /\ done'[k] = done[k] /\ Stays
  <2>1. Lasting(k) /\ node'.path # path
    BY <1>3 DEF Lasting, Restores
  <2>2. PICK other : other = node'.path
    OBVIOUS
  <2>3. PICK made : made = MakeDirs(dest, q)
    OBVIOUS
  <2>4. path \in DOMAIN dest => path \in DOMAIN made /\ made[path] = dest[path]
    BY <2>3, MakeDirsIs
  <2>5. dest' = With(made, other, File(Nothing)) /\ other # path
    BY <1>3, <2>1, <2>2, <2>3
  <2>6. DOMAIN dest' = DOMAIN made \cup {other} /\ \A p \in DOMAIN made : p # other => dest'[p] = made[p]
    BY <2>5 DEF With, File, Files
  <2>7. Stays
    BY <2>4, <2>5, <2>6
  <2> QED
    BY <1>3, <2>1, <2>7
<1>4. ASSUME state # "copying", NEW q, dest' = MakeDirs(dest, q), NEW e, done' = Append(done, e)
      PROVE  Lasting(k) /\ k \in DOMAIN done' /\ done'[k] = done[k] /\ Stays
  <2>1. k \in DOMAIN done' /\ \A j \in DOMAIN done : j \in DOMAIN done' /\ done'[j] = done[j]
    BY <1>4, OldOrNew
  <2>2. Lasting(k)
    BY <1>4, <2>1 DEF Lasting, Restores
  <2>3. Stays
    BY <1>4, MakeDirsIs
  <2> QED
    BY <2>1, <2>2, <2>3
<1>5. ASSUME state = "copying", NEW result, NEW bytes,
             done' = Append(done, [node |-> node, mode |-> mode, result |-> result, bytes |-> bytes]),
             dest' = IF mode = "restore" THEN With(dest, node.path, File(bytes)) ELSE dest
      PROVE  Lasting(k) /\ k \in DOMAIN done' /\ done'[k] = done[k] /\ Stays
  <2> DEFINE e == [node |-> node, mode |-> mode, result |-> result, bytes |-> bytes]
  <2>1. e.node = node /\ e.mode = mode /\ done' = Append(done, e)
    BY <1>5
  <2> HIDE DEF e
  <2>2. PICK new \in Nat :
           /\ done'[new] = e /\ DOMAIN done' = DOMAIN done \cup {new}
           /\ \A j \in DOMAIN done : j \in Nat /\ j < new /\ done'[j] = done[j]
    BY <2>1, OldOrNew
  <2>3. k \in DOMAIN done' /\ done'[k] = done[k] /\ new > k
    BY <2>2
  <2>4. \A j \in Restores' : j > k => done'[j].node.path # path
    BY <2>3 DEF Lasting
  <2>5. \A j \in Restores : j \in Restores' /\ done'[j] = done[j]
    BY <2>2 DEF Restores
  <2>6. mode = "restore" => node.path # path
    <3>1. mode = "restore" => new \in Restores'
      BY <2>1, <2>2 DEF Restores
    <3> QED
      BY <2>1, <2>2, <2>3, <2>4, <3>1
  <2>7. Lasting(k)
    BY <2>4, <2>5, <2>6 DEF Lasting
  <2>8. PICK other : other = node.path
    OBVIOUS
  <2>9. Stays
    <3>1. mode = "restore" => dest' = With(dest, other, File(bytes)) /\ other # path
      BY <1>5, <2>6, <2>8
    <3>2. mode = "restore" =>
            DOMAIN dest' = DOMAIN dest \cup {other} /\ \A p \in DOMAIN dest : p # other => dest'[p] = dest[p]
      BY <3>1 DEF With, File, Files
    <3> QED
      BY <1>5, <3>1, <3>2
  <2> QED
    BY <2>3, <2>7, <2>9
<1>8. ASSUME state # "copying", dest' = dest, UNCHANGED <<state, node, mode>>, NEW e, done' = Append(done, e)
      PROVE  Lasting(k) /\ k \in DOMAIN done' /\ done'[k] = done[k] /\ Stays
  <2>1. k \in DOMAIN done' /\ \A j \in DOMAIN done : j \in DOMAIN done' /\ done'[j] = done[j]
    BY <1>8, OldOrNew
  <2>2. Lasting(k)
    BY <1>8, <2>1 DEF Lasting, Restores
  <2> QED
    BY <1>8, <2>1, <2>2
<1> HIDE DEF Stays
<1>6. ASSUME state # "copying", queue # <<>>, ~Head(queue).dir, queue' = Tail(queue)
      PROVE  Lasting(k) /\ k \in DOMAIN done' /\ done'[k] = done[k] /\ Stays
  BY <1>1, <1>2, <1>3, <1>4, <1>6, <1>8, Moves DEF Added
<1>7. Lasting(k) /\ k \in DOMAIN done' /\ done'[k] = done[k] /\ Stays
  BY <1>1, <1>2, <1>5, <1>6, Moves
<1> QED
  BY <1>7 DEF Stays

\* A restore that ended in this step.
LEMMA NewRestore ==
  ASSUME CopierOK, SmallClusters, CopyInv, FromBatch, [Next]_vars,
         NEW k \in Restores', ~(k \in DOMAIN done /\ done'[k] = done[k])
  PROVE  LET n == done'[k].node
         IN /\ n \in Nodes
            /\ \/ Way(n, "restore") = "driver"
               \/ done'[k].result = "failed" /\ Clash(n)
               \/ /\ state = "copying" /\ dest' = With(dest, n.path, File(done'[k].bytes))
                  /\ done'[k].result \in {"ok", "failed"}
                  /\ (~full' => Outcome(n, done'[k].result, done'[k].bytes))
<1>1. ASSUME NEW e, done' = Append(done, e)
      PROVE  done'[k] = e
  BY <1>1, OldOrNew DEF Restores
<1>2. done' # done
  BY DEF Restores
<1>3. CASE queue # <<>> /\ ~Head(queue).dir
           /\ Added(Head(queue), "restore", "failed") /\ ~CanOpen(MakeDirs(dest, Parent(Head(queue).path)), Head(queue).path)
  <2>1. PICK bytes : done' = Append(done, [node |-> Head(queue), mode |-> "restore", result |-> "failed", bytes |-> bytes])
    BY <1>3 DEF Added
  <2>2. done'[k].node = Head(queue) /\ done'[k].result = "failed"
    <3>1. done'[k] = [node |-> Head(queue), mode |-> "restore", result |-> "failed", bytes |-> bytes]
      BY <1>1, <2>1
    <3> QED
      BY <3>1
  <2>3. queue \in Seq(Nodes)
    BY DEF CopierOK
  <2>4. 1 \in DOMAIN queue /\ Head(queue) = queue[1] /\ queue[1] \in Nodes
    BY <1>3, <2>3
  <2>5. InBatch(Head(queue)) /\ Head(queue) \in Nodes
    BY <2>4 DEF FromBatch
  <2> QED
    BY <1>3, <2>2, <2>5, OpenClash
<1>5. CASE /\ queue # <<>> /\ Way(Head(queue), "restore") = "driver"
           /\ \E result : Added(Head(queue), "restore", result)
  <2>1. PICK result, bytes : done' = Append(done, [node |-> Head(queue), mode |-> "restore", result |-> result, bytes |-> bytes])
    BY <1>5 DEF Added
  <2>2. done'[k].node = Head(queue)
    <3>1. done'[k] = [node |-> Head(queue), mode |-> "restore", result |-> result, bytes |-> bytes]
      BY <1>1, <2>1
    <3> QED
      BY <3>1
  <2>3. queue \in Seq(Nodes)
    BY DEF CopierOK
  <2>4. Head(queue) \in Nodes
    BY <1>5, <2>3
  <2> QED
    BY <1>5, <2>2, <2>4
<1>4. ASSUME state = "copying", NEW result, NEW bytes,
             done' = Append(done, [node |-> node, mode |-> mode, result |-> result, bytes |-> bytes]),
             dest' = IF mode = "restore" THEN With(dest, node.path, File(bytes)) ELSE dest,
             result \in {"ok", "failed"}, mode = "restore" /\ ~full' => Outcome(node, result, bytes)
      PROVE  LET n == done'[k].node
             IN /\ n \in Nodes
                /\ state = "copying" /\ dest' = With(dest, n.path, File(done'[k].bytes))
                /\ done'[k].result \in {"ok", "failed"}
                /\ (~full' => Outcome(n, done'[k].result, done'[k].bytes))
  <2>1. done'[k] = [node |-> node, mode |-> mode, result |-> result, bytes |-> bytes]
    BY <1>1, <1>4
  <2>2. done'[k].node = node /\ done'[k].mode = mode /\ done'[k].result = result /\ done'[k].bytes = bytes
    BY <2>1
  <2>3. mode = "restore"
    BY <2>2 DEF Restores
  <2>4. node \in Nodes
    BY DEF CopierOK
  <2> QED
    BY <1>4, <2>2, <2>3, <2>4
<1> QED
  BY <1>2, <1>3, <1>4, <1>5, Moves

LEMMA StaysStep ==
  ASSUME CopierOK, SmallClusters, CopyInv, FromBatch, RestoredStays, [Next]_vars
  PROVE  RestoredStays'
<1> SUFFICES ASSUME NEW k \in Restores', done'[k].result = "ok", Orphaned(k)', Lasting(k)', ~full'
             PROVE  OnDisk(k)'
  BY DEF RestoredStays, OnDisk
<1>0. Way(done'[k].node, "restore") # "driver"
  BY DEF Orphaned
<1>1. CASE k \in DOMAIN done /\ done'[k] = done[k]
  <2>1. k \in Restores /\ done[k].mode = "restore" /\ done[k].result = "ok" /\ Orphaned(k) /\ ~full
    <3>1. full => full'
      BY Moves
    <3> QED
      BY <1>0, <1>1, <3>1 DEF Restores, Orphaned
  <2>2. Lasting(k)
    BY <1>1, <2>1, LastingBack
  <2>3. OnDisk(k)
    BY <2>1, <2>2 DEF RestoredStays, OnDisk
  <2>4. done[k].node.path \in DOMAIN dest
    BY <2>3 DEF OnDisk, Files
  <2>5. done[k].node.path \in DOMAIN dest' /\ dest'[done[k].node.path] = dest[done[k].node.path]
    BY <1>1, <2>1, <2>4, LastingBack
  <2> QED
    BY <1>1, <2>3, <2>5, OnDiskStays
<1>2. CASE ~(k \in DOMAIN done /\ done'[k] = done[k])
  <2>1. PICK n : n = done'[k].node
    OBVIOUS
  <2>2. PICK bytes : bytes = done'[k].bytes
    OBVIOUS
  <2>3. PICK path : path = n.path
    OBVIOUS
  <2>4. dest' = With(dest, path, File(bytes)) /\ Outcome(n, "ok", bytes)
    BY <1>0, <1>2, <2>1, <2>2, <2>3, NewRestore
  <2>5. bytes = Content(n, "restore")
    BY <1>0, <2>1, <2>4 DEF Outcome
  <2>6. Files(dest') = Files(dest) \cup {path} /\ dest'[path].bytes = bytes
    BY <2>4 DEF With, File, Files
  <2> QED
    BY <2>1, <2>3, <2>5, <2>6 DEF OnDisk
<1> QED
  BY <1>1, <1>2

LEMMA ClashesStep ==
  ASSUME CopierOK, SmallClusters, CopyInv, FromBatch, OnlyClashesFail, [Next]_vars
  PROVE  OnlyClashesFail'
<1>1. batch' = batch /\ (full => full')
  BY Moves
<1>2. \A n : Clash(n)' <=> Clash(n)
  BY <1>1 DEF Clash
<1> DEFINE Unread(n) == \E i \in DOMAIN Content(n, "restore") : Content(n, "restore")[i] \in Unreadable
<1>3. ASSUME NEW k \in Restores', done'[k].result = "failed", Way(done'[k].node, "restore") # "driver", ~full'
      PROVE  Clash(done'[k].node) \/ Unread(done'[k].node)
  <2>1. CASE k \in DOMAIN done /\ done'[k] = done[k]
    BY <1>1, <1>3, <2>1 DEF OnlyClashesFail, Restores, Orphaned
  <2>2. CASE ~(k \in DOMAIN done /\ done'[k] = done[k])
    BY <1>3, <2>2, NewRestore DEF Outcome
  <2> QED
    BY <2>1, <2>2
<1> QED
  BY <1>2, <1>3 DEF OnlyClashesFail, Orphaned

LEMMA DestinationInv == ASSUME SmallClusters PROVE Spec => [](FromBatch /\ RestoredStays /\ OnlyClashesFail)
<1>1. Init => FromBatch /\ RestoredStays /\ OnlyClashesFail
  <2> SUFFICES ASSUME Init PROVE FromBatch /\ RestoredStays /\ OnlyClashesFail
    OBVIOUS
  <2>1. done = <<>> /\ queue = <<>> /\ state # "copying" /\ DOMAIN dest = {} /\ Files(dest) = {}
    BY DEF Init, Files
  <2>2. DOMAIN done = {} /\ DOMAIN queue = {} /\ done \in Seq({}) /\ Restores = {}
    BY <2>1 DEF Restores
  <2> QED
    BY <2>1, <2>2 DEF FromBatch, RestoredStays, OnlyClashesFail
<1>2. CopierOK /\ CopyInv /\ FromBatch /\ RestoredStays /\ OnlyClashesFail /\ [Next]_vars
        => (FromBatch /\ RestoredStays /\ OnlyClashesFail)'
  BY FromBatchStep, StaysStep, ClashesStep
<1> QED
  BY <1>1, <1>2, CopyInvariant, PTL DEF Spec

\* What restore_orphan reported good stays on the destination with its contents, however many
\* files, directories and restores come after it, a driver's among them, as long as none has the
\* same path and the destination does not fill up (restore_node_recursive, mkdir_recursive).
THEOREM RestoredFilesStay == ASSUME SmallClusters PROVE Spec => []RestoredStays
  BY DestinationInv, PTL

\* restore_orphan never fails for want of a path of its own: only a byte that cannot be read, a
\* full destination or two marked nodes that want one place can make it (mkdir_recursive).
THEOREM FailuresHaveACause == ASSUME SmallClusters PROVE Spec => []OnlyClashesFail
  BY DestinationInv, PTL
=============================================================================
