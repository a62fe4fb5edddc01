-------------------------- MODULE Selection_proofs --------------------------
(***************************************************************************)
(* Proofs about Selection: what the table of partitions shows, what the    *)
(* search for deleted partitions finds and misses, and what a restore or a *)
(* preview reads from.                                                     *)
(***************************************************************************)
EXTENDS Selection, SequenceTheorems, WellFoundedInduction, TLAPS

-----------------------------------------------------------------------------
(* The inductive invariant. *)

Row == [part : PartType, ghost : BOOLEAN]

FinderType ==
  [phase : {"idle", "scan", "emitted"}, disk : DOMAIN Media \cup {"none"}, known : Seq(PartType), stale : BOOLEAN,
   stride : Nat \ {0}, sector : Nat, found : Seq(PartType)]

Types ==
  /\ page \in {"disks", "parts", "browser"} /\ disk \in DOMAIN Media \cup {"none"}
  /\ listed \in Seq(Row) /\ row \in {NoRow, WholeRow} \cup DOMAIN listed
  /\ idx \in Int /\ dialog \in {"none", "open", "unheard", "finished"}
  /\ alive \in BOOLEAN /\ known \in BOOLEAN /\ dismissed \in BOOLEAN
  /\ finder \in FinderType
  /\ results \in [state : {"none", "held", "freed"}, list : Seq(PartType)]

\* The pages behind the first have a disk, and a dialog is shown over the second.
Shown ==
  /\ parts = IF disk = "none" THEN <<>> ELSE Media[disk].parts
  /\ page # "disks" => disk # "none"
  /\ dialog # "none" => page = "parts"

\* The rows of the table are those of the disk and behind them the deleted ones.
Table ==
  /\ Len(listed) >= Len(parts)
  /\ \A i \in DOMAIN listed : listed[i].ghost <=> i > Len(parts)
  /\ \A i \in DOMAIN parts : listed[i].part = parts[i]

OnItsWay(f) ==
  /\ f.sector % f.stride = 0
  /\ f.phase # "idle" => f.disk # "none" /\ f.known = Media[f.disk].parts

\* A partition that a search of d may list.
Deleted(d, part) == part \in SignaturesOf(d) /\ \A p \in PartsOf(d) : Diff(part.at, p.at) > Near

Genuine(f) == \A i \in DOMAIN f.found : Deleted(f.disk, f.found[i])

\* A list of found partitions that is in order and keeps its distances.
Apart(list) ==
  \A i, j \in DOMAIN list : i < j =>
    /\ list[i].at <= list[j].at
    /\ list[i].type = list[j].type => Diff(list[i].at, list[j].at) > Near \/ list[i].at < Near

\* A signature is near a partition that is known or near one of its type that was found.
Accounted(f, s) ==
  LET part == Media[f.disk].sigs[s]
  IN \/ \E p \in ToSet(f.known) : Diff(part.at, p.at) <= Near
     \/ \E p \in ToSet(f.found) : p.type = part.type /\ Diff(part.at, p.at) <= Near

\* Those that were passed are accounted for.
Passed(f) ==
  /\ f.phase # "idle" =>
       \A s \in DOMAIN Media[f.disk].sigs :
         s % f.stride = 0 /\ s < f.sector /\ Readable(Media[f.disk], s) => Accounted(f, s)
  /\ f.phase = "emitted" => f.sector >= Media[f.disk].size

\* What a search keeps, whatever the window does.
Search(f) == OnItsWay(f) /\ Genuine(f) /\ Apart(f.found) /\ Passed(f)

\* As long as the window waits for each search, what is found and listed is of its disk.
Attended ==
  ~dismissed =>
    /\ finder.phase = "scan" => dialog = "open" /\ finder.disk = disk /\ results.state = "none"
    /\ results.state = "held" => dialog = "finished" /\ \A i \in DOMAIN results.list : Deleted(disk, results.list[i])
    /\ \A i \in DOMAIN listed : listed[i].ghost => Deleted(disk, listed[i].part)

Shows ==
  page = "browser" /\ known =>
    /\ idx = WholeRow \/ idx \in DOMAIN listed
    /\ tree = [disk |-> disk, part |-> IF idx = WholeRow THEN Whole(disk) ELSE listed[idx].part]

SelectionInv == Types /\ Shown /\ Table /\ Search(finder) /\ Attended /\ Shows

-----------------------------------------------------------------------------
(* The operators. *)

LEMMA LeastNat ==
  ASSUME NEW T \in SUBSET Nat, T # {}
  PROVE  \E m \in T : \A k \in T : m <= k
<1> DEFINE R == OpToRel(<, Nat)
<1>1. IsWellFoundedOn(R, Nat)
  BY NatLessThanWellFounded
<1>2. PICK m \in T : \A k \in T : ~ (<<k, m>> \in R)
  <2> HIDE DEF R
  <2> QED
    BY <1>1, WFMin
<1>3. \A a, b \in Nat : a < b => <<a, b>> \in R
  BY DEF OpToRel
<1> HIDE DEF R
<1>4. m \in Nat /\ \A k \in T : k \in Nat /\ ~ (k < m)
  BY <1>2, <1>3
<1>5. \A k \in T : m <= k
  BY <1>4
<1> QED
  BY <1>5

LEMMA MinIs ==
  ASSUME NEW T \in SUBSET Nat, T # {}
  PROVE  Min(T) \in T /\ \A k \in T : Min(T) <= k
BY LeastNat DEF Min

\* An insertion keeps the elements and puts the new one before the first that is larger.
LEMMA InsertIs ==
  ASSUME NEW list \in Seq(PartType), NEW part \in PartType
  PROVE  \E k \in 1..Len(list) + 1 :
           /\ Insert(list, part) = [i \in 1..Len(list) + 1 |->
                IF i < k THEN list[i] ELSE IF i = k THEN part ELSE list[i - 1]]
           /\ \A i \in 1..Len(list) : i < k => ~Larger(list[i], part)
           /\ k <= Len(list) => Larger(list[k], part)
<1> DEFINE T == {i \in 1..Len(list) + 1 : i <= Len(list) => Larger(list[i], part)}
<1> DEFINE k == Min(T)
<1>1. Len(list) \in Nat
  OBVIOUS
<1>2. Len(list) + 1 \in T /\ T \in SUBSET Nat
  BY <1>1
<1>3. k \in T /\ \A i \in T : k <= i
  BY <1>2, MinIs
<1>4. k \in 1..Len(list) + 1 /\ (k <= Len(list) => Larger(list[k], part))
  BY <1>3
<1>5. ASSUME NEW i \in 1..Len(list), i < k
      PROVE  ~Larger(list[i], part)
  BY <1>1, <1>3, <1>4, <1>5
<1>6. Insert(list, part) = SubSeq(list, 1, k - 1) \o <<part>> \o SubSeq(list, k, Len(list))
  BY DEF Insert, InsertAt
<1> HIDE DEF k
<1>7. SubSeq(list, 1, k - 1) \o <<part>> \o SubSeq(list, k, Len(list))
        = [i \in 1..Len(list) + 1 |-> IF i < k THEN list[i] ELSE IF i = k THEN part ELSE list[i - 1]]
  <2> DEFINE a == SubSeq(list, 1, k - 1)
  <2> DEFINE b == SubSeq(list, k, Len(list))
  <2>1. list \in Seq(PartType) /\ k \in Nat /\ 1 <= k /\ k <= Len(list) + 1
    BY <1>1, <1>4
  <2>2. a \in Seq(PartType) /\ Len(a) = k - 1 /\ \A i \in 1..k - 1 : a[i] = list[i]
    BY <1>1, <2>1
  <2>3. b \in Seq(PartType) /\ Len(b) = Len(list) + 1 - k /\ \A i \in 1..Len(list) + 1 - k : b[i] = list[k + i - 1]
    BY <1>1, <2>1
  <2> HIDE DEF a, b
  <2> DEFINE c == a \o <<part>>
  <2>4. c \in Seq(PartType) /\ Len(c) = k /\ (\A i \in 1..k - 1 : c[i] = list[i]) /\ c[k] = part
    BY <2>1, <2>2
  <2> HIDE DEF c
  <2> DEFINE d == c \o b
  <2>5. /\ d \in Seq(PartType) /\ Len(d) = Len(c) + Len(b)
        /\ \A i \in 1..Len(c) + Len(b) : d[i] = IF i <= Len(c) THEN c[i] ELSE b[i - Len(c)]
    BY <2>3, <2>4, ConcatProperties
  <2> HIDE DEF d
  <2>6. ASSUME NEW i \in 1..Len(list) + 1
        PROVE  d[i] = IF i < k THEN list[i] ELSE IF i = k THEN part ELSE list[i - 1]
    <3>1. CASE i <= k
      BY <1>1, <2>1, <2>3, <2>4, <2>5, <3>1
    <3>2. CASE i > k
      <4>1. d[i] = b[i - k] /\ i - k \in 1..Len(list) + 1 - k
        BY <1>1, <2>1, <2>3, <2>4, <2>5, <3>2
      <4>2. k + (i - k) - 1 = i - 1
        BY <2>1
      <4> QED
        BY <2>1, <2>3, <3>2, <4>1, <4>2
    <3> QED
      BY <2>1, <3>1, <3>2
  <2>7. d = [i \in 1..Len(list) + 1 |-> IF i < k THEN list[i] ELSE IF i = k THEN part ELSE list[i - 1]]
    BY <1>1, <2>1, <2>3, <2>4, <2>5, <2>6
  <2> QED
    BY <2>7 DEF a, b, c, d
<1> QED
  BY <1>4, <1>5, <1>6, <1>7 DEF k

LEMMA InsertHolds ==
  ASSUME NEW list \in Seq(PartType), NEW part \in PartType
  PROVE  /\ Insert(list, part) \in Seq(PartType)
         /\ ToSet(Insert(list, part)) = ToSet(list) \cup {part}
<1>1. PICK k \in 1..Len(list) + 1 :
        Insert(list, part) = [i \in 1..Len(list) + 1 |-> IF i < k THEN list[i] ELSE IF i = k THEN part ELSE list[i - 1]]
  BY InsertIs
<1> DEFINE new == Insert(list, part)
<1>2. Len(list) \in Nat /\ \A i \in 1..Len(list) : list[i] \in PartType
  OBVIOUS
<1>3. new \in Seq(PartType) /\ DOMAIN new = 1..Len(list) + 1
  BY <1>1, <1>2
<1>4. ASSUME NEW i \in 1..Len(list) + 1
      PROVE  new[i] \in ToSet(list) \cup {part}
  BY <1>1, <1>2 DEF ToSet
<1>5. new[k] = part
  BY <1>1
<1>6. ASSUME NEW i \in 1..Len(list)
      PROVE  \E j \in 1..Len(list) + 1 : new[j] = list[i]
  <2>1. CASE i < k
    BY <1>1, <1>2, <2>1
  <2>2. CASE i >= k
    <3>1. new[i + 1] = list[i]
      BY <1>1, <1>2, <2>2
    <3> QED
      BY <3>1, <1>2
  <2> QED
    BY <2>1, <2>2
<1> HIDE DEF new
<1>7. ToSet(new) \subseteq ToSet(list) \cup {part}
  BY <1>3, <1>4 DEF ToSet
<1>8. part \in ToSet(new)
  BY <1>3, <1>5 DEF ToSet
<1>9. ASSUME NEW p \in ToSet(list)
      PROVE  p \in ToSet(new)
  <2>1. PICK i \in 1..Len(list) : p = list[i]
    BY DEF ToSet
  <2>2. PICK j \in 1..Len(list) + 1 : new[j] = list[i]
    BY <1>6
  <2> QED
    BY <1>3, <2>1, <2>2 DEF ToSet
<1> QED
  BY <1>3, <1>7, <1>8, <1>9 DEF new

\* What the deleted partitions are behind is what is left without them.
LEMMA WithoutGhostsIs ==
  ASSUME NEW list \in Seq(Row), NEW n \in 0..Len(list), \A i \in 1..Len(list) : list[i].ghost <=> i > n
  PROVE  WithoutGhosts(list) = SubSeq(list, 1, n)
<1> DEFINE Is(f) == f = [i \in 0..Len(list) |->
      IF i = 0 THEN <<>> ELSE IF list[i].ghost THEN f[i - 1] ELSE Append(f[i - 1], list[i])]
<1> DEFINE kept == CHOOSE f : Is(f)
<1> DEFINE g == [i \in 0..Len(list) |-> SubSeq(list, 1, IF i <= n THEN i ELSE n)]
<1>1. WithoutGhosts(list) = kept[Len(list)]
  BY DEF WithoutGhosts
<1>2. Len(list) \in Nat /\ n \in Nat /\ n <= Len(list)
  OBVIOUS
<1>3. ASSUME NEW i \in 0..Len(list)
      PROVE  g[i] = IF i = 0 THEN <<>> ELSE IF list[i].ghost THEN g[i - 1] ELSE Append(g[i - 1], list[i])
  <2>1. CASE i = 0
    <3>1. g[i] = SubSeq(list, 1, 0)
      BY <1>2, <2>1
    <3> QED
      BY <2>1, <3>1, SubSeqEmpty
  <2>2. CASE i > n
    <3>1. i # 0 /\ list[i].ghost /\ i - 1 \in 0..Len(list) /\ (IF i - 1 <= n THEN i - 1 ELSE n) = n
      BY <1>2, <2>2
    <3>2. g[i] = SubSeq(list, 1, n) /\ g[i - 1] = SubSeq(list, 1, n)
      BY <2>2, <3>1
    <3> QED
      BY <3>1, <3>2
  <2>3. CASE i # 0 /\ i <= n
    <3>1. ~list[i].ghost /\ i \in 1..Len(list) /\ i - 1 \in 0..Len(list) /\ i - 1 <= n
      BY <1>2, <2>3
    <3>2. g[i] = SubSeq(list, 1, i) /\ g[i - 1] = SubSeq(list, 1, i - 1)
      BY <2>3, <3>1
    <3>3. SubSeq(list, 1, i) = SubSeq(list, 1, i - 1) \o <<list[i]>>
      BY <1>2, <3>1, SubSeqRecursiveSecond
    <3>4. SubSeq(list, 1, i - 1) \in Seq(Row) /\ list[i] \in Row
      BY <1>2, <3>1
    <3>5. SubSeq(list, 1, i - 1) \o <<list[i]>> = Append(SubSeq(list, 1, i - 1), list[i])
      BY <3>4
    <3> QED
      BY <2>3, <3>1, <3>2, <3>3, <3>5
  <2>4. i = 0 \/ i > n \/ (i # 0 /\ i <= n)
    BY <1>2
  <2> QED
    BY <2>1, <2>2, <2>3, <2>4
<1>4. Is(g)
  BY <1>3, Zenon
<1>5. Is(kept)
  BY <1>4, Zenon
<1> DEFINE differ == {i \in 0..Len(list) : kept[i] # g[i]}
<1>6. ASSUME differ # {}
      PROVE  FALSE
  <2> HIDE DEF kept, g
  <2>1. PICK m \in differ : \A k \in differ : m <= k
    <3>1. differ \subseteq Nat
      OBVIOUS
    <3> HIDE DEF differ
    <3> QED
      BY <1>6, <3>1, LeastNat
  <2>2. m \in 0..Len(list) /\ kept[m] # g[m]
    OBVIOUS
  <2>3. kept[m] = IF m = 0 THEN <<>> ELSE IF list[m].ghost THEN kept[m - 1] ELSE Append(kept[m - 1], list[m])
    BY <1>5, <2>2, Zenon
  <2>4. m # 0
    BY <1>3, <2>2, <2>3
  <2>5. m - 1 \in 0..Len(list) /\ m - 1 < m
    BY <1>2, <2>2, <2>4
  <2>6. kept[m - 1] = g[m - 1]
    BY <2>1, <2>5
  <2> QED
    BY <1>3, <2>2, <2>3, <2>6
<1>7. kept[Len(list)] = g[Len(list)]
  <2>1. Len(list) \in 0..Len(list)
    BY <1>2
  <2> HIDE DEF kept, g
  <2> QED
    BY <1>6, <2>1
<1>8. g[Len(list)] = SubSeq(list, 1, n)
  BY <1>2
<1> QED
  BY <1>1, <1>7, <1>8

LEMMA PartFields ==
  ASSUME NEW part \in PartType
  PROVE  part.at \in Nat /\ part.at < Width /\ part.size \in Nat /\ part.type \in STRING
BY DEF PartType

\* The bounds of is_duplicate wrap around at the begin of the disk only, and then nothing is
\* within them.
LEMMA DuplicateIsNear ==
  ASSUME NEW p \in PartType, NEW part \in PartType
  PROVE  part.at >= (p.at - Near) % Width /\ part.at <= p.at + Near
           <=> Near <= p.at /\ Diff(part.at, p.at) <= Near
<1>1. /\ p.at \in Nat /\ p.at < Width /\ part.at \in Nat /\ part.at < Width
      /\ Near \in Nat \ {0} /\ Width \in Nat \ {0} /\ 2 * Near < Width
  BY PartFields, SelectionAssumption
<1>2. CASE Near <= p.at
  <2>1. (p.at - Near) % Width = p.at - Near
    BY <1>1, <1>2
  <2> QED
    BY <1>1, <1>2, <2>1 DEF Diff
<1>3. CASE p.at < Near
  <2>1. (p.at - Near) % Width = p.at - Near + Width
    BY <1>1, <1>3
  <2> QED
    BY <1>1, <1>3, <2>1 DEF Diff
<1> QED
  BY <1>1, <1>2, <1>3

LEMMA InsertApart ==
  ASSUME NEW list \in Seq(PartType), NEW part \in PartType, Apart(list), ~IsDuplicate(list, part)
  PROVE  Apart(Insert(list, part))
<1>1. PICK k \in 1..Len(list) + 1 :
           /\ Insert(list, part) = [i \in 1..Len(list) + 1 |->
                IF i < k THEN list[i] ELSE IF i = k THEN part ELSE list[i - 1]]
           /\ \A i \in 1..Len(list) : i < k => ~Larger(list[i], part)
           /\ k <= Len(list) => Larger(list[k], part)
  BY InsertIs
<1> DEFINE new == Insert(list, part)
<1>2. /\ Len(list) \in Nat /\ DOMAIN list = 1..Len(list) /\ k \in Nat /\ 1 <= k
      /\ part.at \in Nat /\ part.size \in Nat /\ Near \in Nat
  BY PartFields, SelectionAssumption
<1>3. ASSUME NEW i \in 1..Len(list)
      PROVE  list[i] \in PartType /\ list[i].at \in Nat /\ list[i].size \in Nat
  BY PartFields
<1>4. ASSUME NEW i \in 1..Len(list)
      PROVE  list[i].type = part.type => Diff(list[i].at, part.at) > Near \/ list[i].at < Near
  <2>1. list[i] \in ToSet(list)
    BY <1>2 DEF ToSet
  <2>2. list[i].type = part.type => ~(Near <= list[i].at /\ Diff(part.at, list[i].at) <= Near)
    BY <1>3, <2>1, DuplicateIsNear DEF IsDuplicate
  <2>3. Diff(list[i].at, part.at) = Diff(part.at, list[i].at) /\ Diff(part.at, list[i].at) \in Nat
    BY <1>2, <1>3 DEF Diff
  <2> QED
    BY <1>2, <1>3, <2>2, <2>3
<1>5. ASSUME NEW i \in 1..Len(list), i < k
      PROVE  list[i].at <= part.at
  BY <1>1, <1>2, <1>3, <1>5 DEF Larger
<1>6. ASSUME NEW i \in 1..Len(list), k <= i
      PROVE  part.at <= list[i].at
  <2>1. k \in 1..Len(list) /\ part.at <= list[k].at
    BY <1>1, <1>2, <1>3, <1>6 DEF Larger
  <2>2. k < i => list[k].at <= list[i].at
    BY <1>2, <2>1 DEF Apart
  <2> QED
    BY <1>2, <1>3, <1>6, <2>1, <2>2
<1>7. DOMAIN new = 1..Len(list) + 1
  BY <1>1
<1>8. \A i \in 1..Len(list) + 1 : new[i] = IF i < k THEN list[i] ELSE IF i = k THEN part ELSE list[i - 1]
  BY <1>1
<1> HIDE DEF new
<1>9. ASSUME NEW i \in 1..Len(list) + 1, NEW j \in 1..Len(list) + 1, i < j
      PROVE  /\ new[i].at <= new[j].at
             /\ new[i].type = new[j].type => Diff(new[i].at, new[j].at) > Near \/ new[i].at < Near
  <2>1. CASE i = k
    <3>1. new[i] = part /\ new[j] = list[j - 1] /\ j - 1 \in 1..Len(list) /\ k <= j - 1
      BY <1>2, <1>8, <1>9, <2>1
    <3>2. part.at <= list[j - 1].at
      BY <1>6, <3>1
    <3>3. list[j - 1].type = part.type => Diff(list[j - 1].at, part.at) > Near \/ list[j - 1].at < Near
      BY <1>4, <3>1
    <3>4. list[j - 1].at \in Nat
      BY <1>3, <3>1
    <3> QED
      BY <1>2, <3>1, <3>2, <3>3, <3>4 DEF Diff
  <2>2. CASE j = k
    <3>1. new[j] = part /\ new[i] = list[i] /\ i \in 1..Len(list)
      BY <1>2, <1>8, <1>9, <2>2
    <3>2. list[i].at <= part.at
      BY <1>5, <1>9, <2>2, <3>1
    <3> QED
      BY <1>4, <3>1, <3>2
  <2>3. CASE i # k /\ j # k
    <3> DEFINE a == IF i < k THEN i ELSE i - 1
    <3> DEFINE b == IF j < k THEN j ELSE j - 1
    <3>1. new[i] = list[a] /\ new[j] = list[b]
      BY <1>8, <2>3
    <3>2. a \in DOMAIN list /\ b \in DOMAIN list /\ a < b
      BY <1>2, <1>9, <2>3
    <3> HIDE DEF a, b
    <3> QED
      BY <3>1, <3>2 DEF Apart
  <2> QED
    BY <2>1, <2>2, <2>3
<1> QED
  BY <1>7, <1>9 DEF Apart, new

\* What one sector adds.
LEMMA ExaminedIs ==
  ASSUME NEW medium, NEW list, NEW skip, NEW sector
  PROVE  \/ /\ Examined(medium, list, skip, sector) = list
            /\ \/ ~Readable(medium, sector)
               \/ sector \notin DOMAIN medium.sigs
               \/ IsDuplicate(list, medium.sigs[sector])
               \/ MatchesKnown(skip, medium.sigs[sector])
         \/ /\ sector \in DOMAIN medium.sigs
            /\ Examined(medium, list, skip, sector) = Insert(list, medium.sigs[sector])
            /\ ~IsDuplicate(list, medium.sigs[sector])
            /\ ~MatchesKnown(skip, medium.sigs[sector])
BY DEF Examined

-----------------------------------------------------------------------------
(* Types. *)

LEMMA MediaIs ==
  ASSUME NEW d \in DOMAIN Media
  PROVE  /\ d # "none" /\ Media[d].parts \in Seq(PartType) /\ Media[d].size \in Nat
         /\ \A s \in DOMAIN Media[d].sigs : s \in Nat /\ Media[d].sigs[s] \in PartType
BY SelectionAssumption, MediaAssumption

LEMMA PlainIs ==
  ASSUME NEW list \in Seq(PartType)
  PROVE  /\ Plain(list) \in Seq(Row) /\ Len(Plain(list)) = Len(list)
         /\ \A i \in 1..Len(list) : Plain(list)[i] = [part |-> list[i], ghost |-> FALSE]
<1>1. Len(list) \in Nat /\ DOMAIN list = 1..Len(list) /\ \A i \in 1..Len(list) : list[i] \in PartType
  OBVIOUS
<1>2. Plain(list) = [i \in 1..Len(list) |-> [part |-> list[i], ghost |-> FALSE]]
  BY <1>1 DEF Plain
<1>3. \A i \in 1..Len(list) : [part |-> list[i], ghost |-> FALSE] \in Row
  BY <1>1 DEF Row
<1> QED
  BY <1>1, <1>2, <1>3

LEMMA TypesInit ==
  ASSUME Init
  PROVE  Types /\ Shown
<1> USE DEF Init
<1>1. <<>> \in Seq(PartType) /\ <<>> \in Seq(Row)
  BY EmptySeq
<1>2. Idle \in FinderType
  BY <1>1 DEF Idle, FinderType
<1>3. NoResults \in [state : {"none", "held", "freed"}, list : Seq(PartType)]
  BY <1>1 DEF NoResults
<1>4. Types
  <2>1. alive \in BOOLEAN /\ known \in BOOLEAN /\ dismissed \in BOOLEAN
    OBVIOUS
  <2>2. row \in {NoRow, WholeRow} /\ idx \in Int
    BY DEF NoRow
  <2>3. listed \in Seq(Row) /\ finder \in FinderType /\ results \in [state : {"none", "held", "freed"}, list : Seq(PartType)]
    BY <1>1, <1>2, <1>3
  <2> QED
    BY <2>1, <2>2, <2>3 DEF Types
<1>5. Shown
  BY DEF Shown
<1> QED
  BY <1>4, <1>5

\* A disk that is detected is shown.
LEMMA DetectTypes ==
  ASSUME Types, NEW d \in DOMAIN Media, Detect(d)
  PROVE  /\ disk' = d /\ d # "none" /\ parts' = Media[d].parts /\ listed' \in Seq(Row) /\ row' = NoRow
         /\ finder' \in FinderType
<1>1. finder' \in FinderType
  <2>1. finder \in FinderType /\ [finder EXCEPT !.stale = TRUE] \in FinderType
    BY DEF Types, FinderType
  <2> QED
    BY <2>1 DEF Detect, Closed
<1> QED
  BY <1>1, MediaIs, PlainIs DEF Detect

LEMMA TakeTypes ==
  ASSUME Types, Take
  PROVE  listed' \in Seq(Row) /\ row' \in {NoRow, WholeRow} \cup DOMAIN listed' /\ alive' \in BOOLEAN
         /\ results' \in [state : {"none", "held", "freed"}, list : Seq(PartType)]
<1> DEFINE new == [i \in DOMAIN results.list |-> [part |-> results.list[i], ghost |-> TRUE]]
<1>1. new \in Seq(Row)
  <2>1. results.list \in Seq(PartType)
    BY DEF Types
  <2>2. Len(results.list) \in Nat /\ DOMAIN results.list = 1..Len(results.list)
        /\ \A i \in 1..Len(results.list) : results.list[i] \in PartType
    BY <2>1
  <2>3. \A i \in 1..Len(results.list) : [part |-> results.list[i], ghost |-> TRUE] \in Row
    BY <2>2 DEF Row
  <2> QED
    BY <2>2, <2>3
<1>2. listed \o new \in Seq(Row)
  BY <1>1, ConcatProperties DEF Types
<1>3. CASE results.state = "none"
  BY <1>3 DEF Types, Take
<1>4. CASE results.state = "held"
  <2>1. [results EXCEPT !.state = "freed", !.list = <<>>] \in [state : {"none", "held", "freed"}, list : Seq(PartType)]
    <3>1. <<>> \in Seq(PartType)
      BY EmptySeq
    <3> QED
      BY <3>1 DEF Types
  <2>2. listed' = listed \o new /\ row' = NoRow /\ UNCHANGED alive
        /\ results' = [results EXCEPT !.state = "freed", !.list = <<>>]
    BY <1>4 DEF Take
  <2> QED
    BY <1>2, <2>1, <2>2 DEF Types
<1>5. CASE results.state = "freed"
  BY <1>5 DEF Types, Take
<1> QED
  BY <1>3, <1>4, <1>5 DEF Types

LEMMA WithoutGhostsTypes ==
  ASSUME Types, Shown, Table
  PROVE  /\ WithoutGhosts(listed) = SubSeq(listed, 1, Len(parts)) /\ WithoutGhosts(listed) \in Seq(Row)
         /\ Len(WithoutGhosts(listed)) = Len(parts)
         /\ \A i \in DOMAIN parts : i \in DOMAIN listed /\ WithoutGhosts(listed)[i] = listed[i]
<1>1. Len(parts) \in Nat /\ DOMAIN parts = 1..Len(parts)
  BY MediaIs DEF Types, Shown
<1>2. listed \in Seq(Row) /\ DOMAIN listed = 1..Len(listed) /\ Len(listed) \in Nat /\ Len(parts) <= Len(listed)
  BY DEF Types, Table
<1>3. \A i \in 1..Len(listed) : listed[i] \in Row
  BY <1>2
<1>4. WithoutGhosts(listed) = SubSeq(listed, 1, Len(parts))
  <2>1. Len(parts) \in 0..Len(listed) /\ \A i \in 1..Len(listed) : listed[i].ghost <=> i > Len(parts)
    BY <1>1, <1>2 DEF Table
  <2> QED
    BY <1>2, <2>1, WithoutGhostsIs
<1> QED
  BY <1>1, <1>2, <1>3, <1>4

LEMMA TypesStep ==
  ASSUME Types, Shown, Table, Search(finder), [Next]_vars
  PROVE  Types' /\ Shown'
<1> USE DEF NoRow, WholeRow
<1>1. ASSUME NEW d \in Disks, OnDiskSelected(d)
      PROVE  Types' /\ Shown'
  <2>1. d \in DOMAIN Media
    BY SelectionAssumption
  <2> QED
    BY <1>1, <2>1, DetectTypes DEF OnDiskSelected, Free, Types, Shown
<1>2. CASE Select
  BY <1>2 DEF Select, Free, Types, Shown
<1>3. CASE ToDisks
  BY <1>3 DEF ToDisks, Free, Types, Shown
<1>4. CASE Operate
  <2>1. idx' \in Int
    BY <1>4 DEF Operate, Types
  <2> QED
    BY <1>4, <2>1 DEF Operate, Free, Types, Shown
<1>5. CASE OperateOnly
  BY <1>5 DEF OperateOnly, Free, Types, Shown
<1>6. CASE Decrypt
  <2>1. Media[disk].inner \in DOMAIN Media /\ Detect(Media[disk].inner) /\ idx' \in Int
    BY <1>6 DEF Decrypt, Types
  <2>2. known' \in BOOLEAN /\ page' \in {"parts", "browser"} /\ dialog' = dialog /\ dialog = "none"
        /\ UNCHANGED <<results, alive, dismissed>>
    BY <1>6 DEF Decrypt, Free, Types
  <2> QED
    BY <2>1, <2>2, DetectTypes DEF Types, Shown
<1>7. CASE Continue
  <2>1. session.disk \in DOMAIN Media /\ Detect(session.disk)
    BY <1>7, SelectionAssumption DEF Continue
  <2>2. known' \in BOOLEAN /\ page' \in {"disks", "browser"} /\ dialog' = dialog /\ dialog = "none"
        /\ UNCHANGED <<idx, results, alive, dismissed>>
    BY <1>7 DEF Continue, Free, Types
  <2> QED
    BY <2>1, <2>2, DetectTypes DEF Types, Shown
<1>8. ASSUME NEW stride \in Strides, Find(stride)
      PROVE  Types' /\ Shown'
  <2>1. listed' \in Seq(Row) /\ row' \in {NoRow, WholeRow} \cup DOMAIN listed'
    BY <1>8, WithoutGhostsTypes DEF Find, Types
  <2>2. finder' \in FinderType
    <3>1. CASE finder' = [Idle EXCEPT !.phase = "scan", !.disk = disk, !.known = parts, !.stride = stride]
      <4>1. stride \in Nat \ {0} /\ <<>> \in Seq(PartType)
        BY SelectionAssumption
      <4>2. parts \in Seq(PartType)
        BY <4>1, MediaIs DEF Types, Shown
      <4> QED
        BY <3>1, <4>1, <4>2 DEF Types, FinderType, Idle
    <3> QED
      BY <1>8, <3>1 DEF Find, Types
  <2>3. results' \in [state : {"none", "held", "freed"}, list : Seq(PartType)]
    <3>1. NoResults \in [state : {"none", "held", "freed"}, list : Seq(PartType)]
      BY DEF NoResults
    <3> QED
      BY <1>8, <3>1 DEF Find, Types
  <2>4. dialog' \in {"open", "unheard"} /\ alive' \in BOOLEAN /\ page = "parts"
        /\ UNCHANGED <<page, disk, parts, idx, known, dismissed>>
    BY <1>8 DEF Find, Free, Types
  <2> QED
    BY <2>1, <2>2, <2>3, <2>4 DEF Types, Shown
<1>9. ASSUME Take, dismissed' \in BOOLEAN
      PROVE  Types' /\ Shown'
  <2>1. dialog' = "none" /\ UNCHANGED <<page, disk, parts, idx, finder, known>>
    BY <1>9 DEF Take
  <2> QED
    BY <1>9, <2>1, TakeTypes DEF Types, Shown
<1>10. CASE Accept
  BY <1>9, <1>10 DEF Accept, Types
<1>11. CASE Dismiss
  BY <1>9, <1>11 DEF Dismiss
<1>12. CASE Look
  <2>1. finder' \in FinderType
    <3> DEFINE found == Examined(Media[finder.disk], finder.found, finder.known, finder.sector)
    <3>1. finder \in FinderType /\ finder.sector \in Nat /\ finder.stride \in Nat /\ finder.found \in Seq(PartType)
      BY DEF Types, FinderType
    <3>2. found \in Seq(PartType)
      <4>1. finder.disk \in DOMAIN Media
        BY <1>12 DEF Look, Search, OnItsWay, Types, FinderType
      <4> QED
        BY <3>1, <4>1, MediaIs, InsertHolds, ExaminedIs
    <3>3. finder' = [finder EXCEPT !.found = found, !.sector = finder.sector + finder.stride]
      BY <1>12 DEF Look
    <3> HIDE DEF found
    <3>4. finder.sector + finder.stride \in Nat
      BY <3>1
    <3> QED
      BY <3>1, <3>2, <3>3, <3>4 DEF FinderType
  <2>2. alive' \in BOOLEAN /\ UNCHANGED <<pages, listed, results, dialog, dismissed>>
    BY <1>12 DEF Look, Types
  <2> QED
    BY <2>1, <2>2 DEF Types, Shown, pages
<1>13. CASE Emit
  <2>1. finder' \in FinderType
    BY <1>13 DEF Emit, Types, FinderType
  <2>2. results' \in [state : {"none", "held", "freed"}, list : Seq(PartType)]
    BY <1>13 DEF Emit, Types, FinderType, NoResults
  <2>3. alive' \in BOOLEAN /\ dialog' \in {"none", "open", "unheard", "finished"} /\ (dialog' # "none" => dialog # "none")
        /\ UNCHANGED <<pages, listed, dismissed>>
    BY <1>13 DEF Emit, Reported, Types
  <2> QED
    BY <2>1, <2>2, <2>3 DEF Types, Shown, pages
<1>14. CASE ClearRunning
  <2>1. Idle \in FinderType
    BY DEF Idle, FinderType
  <2> QED
    BY <1>14, <2>1 DEF ClearRunning, Types, Shown, pages
<1>15. CASE UNCHANGED vars
  BY <1>15 DEF vars, Types, Shown
<1> QED
  BY <1>1, <1>2, <1>3, <1>4, <1>5, <1>6, <1>7, <1>8, <1>10, <1>11, <1>12, <1>13, <1>14, <1>15 DEF Next, Worker

-----------------------------------------------------------------------------
(* The table. *)

LEMMA DetectTable ==
  ASSUME Types, NEW d \in DOMAIN Media, Detect(d)
  PROVE  Table' /\ \A i \in DOMAIN listed' : ~listed'[i].ghost
<1>1. /\ parts' \in Seq(PartType) /\ listed' \in Seq(Row) /\ Len(listed') = Len(parts')
      /\ \A i \in 1..Len(parts') : listed'[i] = [part |-> parts'[i], ghost |-> FALSE]
  BY MediaIs, PlainIs DEF Detect
<1>2. Len(parts') \in Nat /\ DOMAIN parts' = 1..Len(parts') /\ DOMAIN listed' = 1..Len(parts')
  BY <1>1
<1> QED
  BY <1>1, <1>2 DEF Table

\* What is taken over is put behind what is shown.
LEMMA TakeTable ==
  ASSUME Types, Shown, Table, Take
  PROVE  /\ Table'
         /\ DOMAIN listed \subseteq DOMAIN listed' /\ \A i \in DOMAIN listed : listed'[i] = listed[i]
         /\ \A i \in DOMAIN listed' \ DOMAIN listed :
              /\ listed'[i].ghost /\ results.state = "held"
              /\ \E j \in DOMAIN results.list : listed'[i].part = results.list[j]
<1>1. CASE results.state # "held"
  <2>1. UNCHANGED <<listed, parts>>
    BY <1>1 DEF Take, Types
  <2> QED
    BY <2>1 DEF Table
<1>2. CASE results.state = "held"
  <2> DEFINE new == [i \in DOMAIN results.list |-> [part |-> results.list[i], ghost |-> TRUE]]
  <2>1. listed' = listed \o new /\ parts' = parts
    BY <1>2 DEF Take
  <2>2. Len(results.list) \in Nat /\ DOMAIN results.list = 1..Len(results.list)
        /\ \A i \in 1..Len(results.list) : results.list[i] \in PartType
    <3>1. results.list \in Seq(PartType)
      BY DEF Types
    <3> QED
      BY <3>1
  <2>3. new \in Seq(Row) /\ Len(new) = Len(results.list)
        /\ \A i \in 1..Len(results.list) : new[i] = [part |-> results.list[i], ghost |-> TRUE]
    <3>1. \A i \in 1..Len(results.list) : [part |-> results.list[i], ghost |-> TRUE] \in Row
      BY <2>2 DEF Row
    <3> QED
      BY <2>2, <3>1
  <2> HIDE DEF new
  <2>4. listed \in Seq(Row) /\ Len(listed) \in Nat /\ DOMAIN listed = 1..Len(listed)
    BY DEF Types
  <2>5. /\ Len(listed') = Len(listed) + Len(new) /\ DOMAIN listed' = 1..Len(listed) + Len(new)
        /\ \A i \in 1..Len(listed) + Len(new) : listed'[i] = IF i <= Len(listed) THEN listed[i] ELSE new[i - Len(listed)]
    <3> DEFINE cat == listed \o new
    <3>1. /\ cat \in Seq(Row) /\ Len(cat) = Len(listed) + Len(new)
          /\ \A i \in 1..Len(listed) + Len(new) : cat[i] = IF i <= Len(listed) THEN listed[i] ELSE new[i - Len(listed)]
      <4>1. listed \in Seq(Row) /\ new \in Seq(Row)
        BY <2>3, <2>4
      <4> HIDE DEF cat
      <4> QED
        BY <4>1, ConcatProperties, SMTT(30) DEF cat
    <3> HIDE DEF cat
    <3>2. DOMAIN cat = 1..Len(listed) + Len(new)
      BY <3>1
    <3>3. listed' = cat
      BY <2>1 DEF cat
    <3> QED
      BY <3>1, <3>2, <3>3
  <2>6. ASSUME NEW i \in 1..Len(listed)
        PROVE  i \in DOMAIN listed' /\ listed'[i] = listed[i]
    BY <2>2, <2>3, <2>4, <2>5
  <2>7. ASSUME NEW i \in DOMAIN listed', i \notin DOMAIN listed
        PROVE  /\ i > Len(listed) /\ listed'[i].ghost
               /\ \E j \in DOMAIN results.list : listed'[i].part = results.list[j]
    <3>1. PICK m \in 1..Len(results.list) : i > Len(listed) /\ listed'[i] = new[m]
      BY <2>2, <2>3, <2>4, <2>5, <2>7
    <3>2. listed'[i] = [part |-> results.list[m], ghost |-> TRUE] /\ m \in DOMAIN results.list
      BY <2>2, <2>3, <3>1
    <3>3. listed'[i].ghost /\ listed'[i].part = results.list[m]
      BY <3>2
    <3> QED
      BY <3>1, <3>2, <3>3
  <2>8. Len(parts) \in Nat /\ DOMAIN parts = 1..Len(parts)
    BY MediaIs DEF Types, Shown
  <2>9. Table'
    <3>1. Len(listed') >= Len(parts')
      BY <2>1, <2>2, <2>3, <2>4, <2>5, <2>8 DEF Table
    <3>2. ASSUME NEW i \in DOMAIN listed'
          PROVE  listed'[i].ghost <=> i > Len(parts')
      <4>1. CASE i \in DOMAIN listed
        BY <2>1, <2>4, <2>6, <4>1 DEF Table
      <4>2. CASE i \notin DOMAIN listed
        <5>1. Len(parts) <= Len(listed) /\ i \in Nat
          BY <2>2, <2>3, <2>4, <2>5 DEF Table
        <5> QED
          BY <2>1, <2>4, <2>7, <2>8, <4>2, <5>1
      <4> QED
        BY <4>1, <4>2
    <3>3. ASSUME NEW i \in DOMAIN parts'
          PROVE  listed'[i].part = parts'[i]
      BY <2>1, <2>4, <2>6, <2>8 DEF Table
    <3> QED
      BY <3>1, <3>2, <3>3 DEF Table
  <2> QED
    BY <1>2, <2>4, <2>6, <2>7, <2>9
<1> QED
  BY <1>1, <1>2

LEMMA FindTable ==
  ASSUME Types, Shown, Table, NEW stride \in Strides, Find(stride)
  PROVE  Table' /\ \A i \in DOMAIN listed' : ~listed'[i].ghost
<1>1. listed' = WithoutGhosts(listed) /\ parts' = parts
  BY DEF Find
<1>2. Len(parts) \in Nat /\ DOMAIN parts = 1..Len(parts)
  BY MediaIs DEF Types, Shown
<1>3. DOMAIN listed' = 1..Len(parts) /\ Len(listed') = Len(parts)
  BY <1>1, <1>2, WithoutGhostsTypes
<1>4. \A i \in 1..Len(parts) : i \in DOMAIN listed /\ listed'[i] = listed[i]
  BY <1>1, <1>2, WithoutGhostsTypes
<1> QED
  BY <1>1, <1>2, <1>3, <1>4 DEF Table

\* What a step may do to the table.
LEMMA TableMoves ==
  ASSUME [Next]_vars
  PROVE  \/ UNCHANGED <<listed, parts, disk>>
         \/ \E d \in DOMAIN Media : Free /\ Detect(d)
         \/ \E stride \in Strides : Find(stride)
         \/ Take /\ dialog # "none"
<1>1. ASSUME NEW d \in Disks, OnDiskSelected(d)
      PROVE  \E e \in DOMAIN Media : Free /\ Detect(e)
  BY <1>1, SelectionAssumption DEF OnDiskSelected
<1>2. CASE Decrypt
  BY <1>2 DEF Decrypt
<1>3. CASE Continue
  BY <1>3, SelectionAssumption DEF Continue
<1>4. CASE Accept \/ Dismiss
  BY <1>4 DEF Accept, Dismiss
<1>5. CASE Select \/ ToDisks \/ Operate \/ OperateOnly
  BY <1>5 DEF Select, ToDisks, Operate, OperateOnly
<1>6. CASE Worker
  BY <1>6 DEF Worker, Look, Emit, ClearRunning, pages
<1>7. CASE UNCHANGED vars
  BY <1>7 DEF vars
<1> QED
  BY <1>1, <1>2, <1>3, <1>4, <1>5, <1>6, <1>7 DEF Next

LEMMA TableStep ==
  ASSUME Types, Shown, Table, [Next]_vars
  PROVE  Table'
<1>1. CASE UNCHANGED <<listed, parts, disk>>
  BY <1>1 DEF Table
<1> QED
  BY <1>1, TableMoves, DetectTable, FindTable, TakeTable

-----------------------------------------------------------------------------
(* The search. *)

Start(stride) == [Idle EXCEPT !.phase = "scan", !.disk = disk, !.known = parts, !.stride = stride]

\* What a step may do to the search.
LEMMA FinderMoves ==
  ASSUME Types, Shown, [Next]_vars
  PROVE  \/ finder' = finder
         \/ finder' = [finder EXCEPT !.stale = TRUE]
         \/ \E stride \in Strides : disk # "none" /\ finder' = Start(stride)
         \/ Look
         \/ finder.phase = "scan" /\ Ended /\ finder' = [finder EXCEPT !.phase = "emitted"]
         \/ finder' = Idle
<1>1. ASSUME NEW d \in DOMAIN Media, Detect(d)
      PROVE  finder' = finder \/ finder' = [finder EXCEPT !.stale = TRUE]
  BY <1>1 DEF Detect, Closed
<1>2. ASSUME NEW d \in Disks, OnDiskSelected(d)
      PROVE  finder' = finder \/ finder' = [finder EXCEPT !.stale = TRUE]
  BY <1>1, <1>2, SelectionAssumption DEF OnDiskSelected
<1>3. CASE Decrypt
  BY <1>1, <1>3 DEF Decrypt
<1>4. CASE Continue
  BY <1>1, <1>4, SelectionAssumption DEF Continue
<1>5. ASSUME NEW stride \in Strides, Find(stride)
      PROVE  finder' = finder \/ (disk # "none" /\ finder' = Start(stride))
  BY <1>5 DEF Find, Start, Shown
<1>6. CASE Accept \/ Dismiss
  BY <1>6 DEF Accept, Dismiss, Take
<1>7. CASE Select \/ ToDisks \/ Operate \/ OperateOnly
  BY <1>7 DEF Select, ToDisks, Operate, OperateOnly
<1>8. CASE Emit
  BY <1>8 DEF Emit
<1>9. CASE ClearRunning
  BY <1>9 DEF ClearRunning
<1>10. CASE UNCHANGED vars
  BY <1>10 DEF vars
<1> QED
  BY <1>2, <1>3, <1>4, <1>5, <1>6, <1>7, <1>8, <1>9, <1>10 DEF Next, Worker

LEMMA DivMod ==
  ASSUME NEW a \in Nat, NEW k \in Nat \ {0}
  PROVE  a = (k * (a \div k)) + (a % k) /\ a \div k \in Nat /\ a % k \in 0..k - 1
OBVIOUS

LEMMA MultipleIs ==
  ASSUME NEW a \in Nat, NEW k \in Nat \ {0}, NEW q \in Nat, a = k * q
  PROVE  a % k = 0
OBVIOUS

\* The next sector on the way is the next multiple of the stride.
LEMMA NextMultiple ==
  ASSUME NEW b \in Nat, NEW k \in Nat \ {0}, b % k = 0
  PROVE  /\ (b + k) % k = 0
         /\ \A a \in Nat : a % k = 0 /\ a < b + k => a <= b
<1> DEFINE q == b \div k
<1>1. b = k * q /\ q \in Nat
  BY DivMod
<1> HIDE DEF q
<1>2. b + k = k * (q + 1) /\ q + 1 \in Nat /\ b + k \in Nat
  BY <1>1
<1>3. ASSUME NEW a \in Nat, a % k = 0, a < b + k
      PROVE  a <= b
  <2> DEFINE p == a \div k
  <2>1. a = k * p /\ p \in Nat
    BY <1>3, DivMod
  <2> HIDE DEF p
  <2>2. ~ (q + 1 <= p)
    <3> SUFFICES ASSUME q + 1 <= p
                 PROVE  FALSE
      OBVIOUS
    <3>1. k * (q + 1) <= k * p
      BY <1>1, <2>1
    <3> QED
      BY <1>2, <1>3, <2>1, <3>1
  <2>3. p <= q
    BY <1>1, <2>1, <2>2
  <2> QED
    BY <1>1, <2>1, <2>3
<1> QED
  BY <1>2, <1>3, MultipleIs

LEMMA SearchInit == Search(Idle)
BY DEF Idle, Search, OnItsWay, Genuine, Apart, Passed

\* One sector keeps what the search keeps.
LEMMA LookSearch ==
  ASSUME NEW f \in FinderType, Search(f), f.phase = "scan", NEW found,
         found = Examined(Media[f.disk], f.found, f.known, f.sector)
  PROVE  Search([f EXCEPT !.found = found, !.sector = f.sector + f.stride])
<1> DEFINE medium == Media[f.disk]
<1> DEFINE g == [f EXCEPT !.found = found, !.sector = f.sector + f.stride]
<1>1. /\ f.disk \in DOMAIN Media /\ f.known = medium.parts /\ f.found \in Seq(PartType)
      /\ f.sector \in Nat /\ f.stride \in Nat \ {0} /\ f.sector % f.stride = 0
  BY DEF Search, OnItsWay, FinderType
<1>2. /\ g.phase = "scan" /\ g.disk = f.disk /\ g.known = f.known /\ g.stride = f.stride
      /\ g.sector = f.sector + f.stride /\ g.found = found
  BY DEF FinderType
<1>3. medium.parts \in Seq(PartType) /\ \A s \in DOMAIN medium.sigs : s \in Nat /\ medium.sigs[s] \in PartType
  BY <1>1, MediaIs
<1> HIDE DEF g
<1>4. Genuine(f) /\ Apart(f.found) /\ Passed(f)
  BY DEF Search
<1>5. OnItsWay(g)
  <2>1. (f.sector + f.stride) % f.stride = 0
    BY <1>1, NextMultiple
  <2>2. g.phase # "idle" => g.disk # "none" /\ g.known = Media[g.disk].parts
    BY <1>2 DEF Search, OnItsWay
  <2> QED
    BY <1>2, <2>1, <2>2 DEF OnItsWay
<1>6. SUFFICES /\ Genuine(g) /\ Apart(found)
               /\ \A s \in DOMAIN medium.sigs : Accounted(f, s) => Accounted(g, s)
               /\ \A s \in DOMAIN medium.sigs : s = f.sector /\ Readable(medium, s) => Accounted(g, s)
  <2>1. ASSUME NEW s \in DOMAIN medium.sigs, s % f.stride = 0, s < f.sector + f.stride
        PROVE  s < f.sector \/ s = f.sector
    BY <1>1, <1>3, <2>1, NextMultiple
  <2>2. Passed(g)
    BY <1>2, <1>4, <2>1, <1>6 DEF Passed
  <2> QED
    BY <1>2, <1>5, <1>6, <2>2 DEF Search, g
<1>7. CASE /\ found = f.found
           /\ \/ ~Readable(medium, f.sector)
              \/ f.sector \notin DOMAIN medium.sigs
              \/ IsDuplicate(f.found, medium.sigs[f.sector])
              \/ MatchesKnown(f.known, medium.sigs[f.sector])
  <2>0. g.found = f.found /\ g.disk = f.disk /\ g.known = f.known /\ found = f.found
    BY <1>2, <1>7
  <2>1. Genuine(g) /\ Apart(found)
    BY <1>4, <2>0 DEF Genuine
  <2>2. ASSUME NEW s \in DOMAIN medium.sigs, Accounted(f, s)
        PROVE  Accounted(g, s)
    BY <2>0, <2>2 DEF Accounted
  <2>3. ASSUME NEW s \in DOMAIN medium.sigs, s = f.sector, Readable(medium, s)
        PROVE  Accounted(f, s)
    <3>1. medium.sigs[s] \in PartType
      BY <1>3
    <3>2. CASE MatchesKnown(f.known, medium.sigs[s])
      BY <3>2 DEF MatchesKnown, Accounted
    <3>3. CASE IsDuplicate(f.found, medium.sigs[s])
      <4>1. PICK p \in ToSet(f.found) : /\ p.type = medium.sigs[s].type
                                       /\ medium.sigs[s].at >= (p.at - Near) % Width
                                       /\ medium.sigs[s].at <= p.at + Near
        BY <3>3 DEF IsDuplicate
      <4>2. p \in PartType
        BY <1>1 DEF ToSet
      <4>3. Diff(medium.sigs[s].at, p.at) <= Near
        BY <3>1, <4>1, <4>2, DuplicateIsNear
      <4> QED
        BY <4>1, <4>3 DEF Accounted
    <3> QED
      BY <1>7, <2>3, <3>2, <3>3
  <2> QED
    BY <2>1, <2>2, <2>3
<1>8. CASE /\ f.sector \in DOMAIN medium.sigs
           /\ found = Insert(f.found, medium.sigs[f.sector])
           /\ ~IsDuplicate(f.found, medium.sigs[f.sector])
           /\ ~MatchesKnown(f.known, medium.sigs[f.sector])
  <2> DEFINE part == medium.sigs[f.sector]
  <2>1. part \in PartType /\ part \in SignaturesOf(f.disk)
    BY <1>3, <1>8 DEF SignaturesOf
  <2>2. found \in Seq(PartType) /\ ToSet(found) = ToSet(f.found) \cup {part}
    BY <1>1, <1>8, <2>1, InsertHolds
  <2>3. ASSUME NEW p \in PartsOf(f.disk)
        PROVE  Diff(part.at, p.at) > Near
    <3>1. p \in ToSet(f.known) /\ p \in PartType
      BY <1>1, <1>3 DEF PartsOf, ToSet
    <3>2. ~ (Diff(part.at, p.at) <= Near)
      BY <1>8, <3>1 DEF MatchesKnown
    <3>3. Diff(part.at, p.at) \in Int
      BY <2>1, <3>1, PartFields DEF Diff
    <3> QED
      BY <3>2, <3>3, SelectionAssumption
  <2>4. ASSUME NEW i \in DOMAIN found
        PROVE  Deleted(f.disk, found[i])
    <3>1. found[i] \in ToSet(f.found) \/ found[i] = part
      BY <2>2 DEF ToSet
    <3>2. CASE found[i] \in ToSet(f.found)
      BY <1>4, <3>2 DEF ToSet, Genuine
    <3> QED
      BY <2>1, <2>3, <3>1, <3>2 DEF Deleted
  <2>5. Apart(found)
    BY <1>1, <1>4, <1>8, <2>1, InsertApart
  <2>6. Accounted(g, f.sector)
    <3>1. part \in ToSet(found) /\ Diff(part.at, part.at) <= Near
      BY <2>1, <2>2, PartFields, SelectionAssumption DEF Diff
    <3> QED
      BY <1>2, <3>1 DEF Accounted
  <2>7. ASSUME NEW s \in DOMAIN medium.sigs, Accounted(f, s)
        PROVE  Accounted(g, s)
    BY <1>2, <2>2, <2>7 DEF Accounted
  <2> QED
    BY <1>2, <2>4, <2>5, <2>6, <2>7 DEF Genuine
<1> QED
  BY <1>7, <1>8, ExaminedIs

LEMMA SearchStep ==
  ASSUME Types, Shown, Search(finder), [Next]_vars
  PROVE  Search(finder)'
<1>0. finder \in FinderType
  BY DEF Types
<1>1. CASE finder' = finder
  BY <1>1
<1>2. ASSUME NEW f \in FinderType, Search(f)
      PROVE  Search([f EXCEPT !.stale = TRUE])
  BY <1>2 DEF FinderType, Search, OnItsWay, Genuine, Passed, Accounted
<1>3. ASSUME NEW stride \in Strides, disk # "none", finder' = Start(stride)
      PROVE  Search(finder')
  <2>1. /\ finder'.phase = "scan" /\ finder'.disk = disk /\ finder'.known = parts /\ finder'.stride = stride
        /\ finder'.sector = 0 /\ finder'.found = <<>>
    BY <1>3 DEF Start, Idle
  <2>2. stride \in Nat \ {0}
    BY SelectionAssumption
  <2>3. OnItsWay(finder')
    BY <1>3, <2>1, <2>2 DEF OnItsWay, Shown
  <2>4. Genuine(finder') /\ Apart(finder'.found)
    BY <2>1 DEF Genuine, Apart
  <2>5. \A s \in DOMAIN Media[disk].sigs : ~ (s < 0)
    BY <1>3, MediaIs DEF Types
  <2>6. Passed(finder')
    BY <2>1, <2>5 DEF Passed
  <2> QED
    BY <2>3, <2>4, <2>6 DEF Search
<1>4. ASSUME NEW f \in FinderType, Search(f), f.phase = "scan", f.sector >= Media[f.disk].size
      PROVE  Search([f EXCEPT !.phase = "emitted"])
  BY <1>4 DEF FinderType, Search, OnItsWay, Genuine, Passed, Accounted
<1>5. CASE Look
  BY <1>0, <1>5, LookSearch DEF Look
<1> QED
  BY <1>0, <1>1, <1>2, <1>3, <1>4, <1>5, SearchInit, FinderMoves DEF Ended

-----------------------------------------------------------------------------
(* The search and the window. *)

LEMMA AttendedStep ==
  ASSUME Types, Shown, Table, Search(finder), Attended, [Next]_vars
  PROVE  Attended'
<1> SUFFICES ASSUME ~dismissed'
             PROVE  Attended'
  BY DEF Attended
<1>1. ASSUME ~dismissed, Free, NEW d \in DOMAIN Media, Detect(d), UNCHANGED <<dialog, results>>
      PROVE  Attended'
  <2>1. finder.phase # "scan" /\ results.state # "held"
    BY <1>1 DEF Attended, Free
  <2>2. finder' = finder
    BY <1>1, <2>1 DEF Detect, Closed
  <2> QED
    BY <1>1, <2>1, <2>2, DetectTable DEF Attended
<1>2. ASSUME NEW d \in Disks, OnDiskSelected(d)
      PROVE  Attended'
  BY <1>1, <1>2, SelectionAssumption DEF OnDiskSelected
<1>3. CASE Decrypt
  BY <1>1, <1>3 DEF Decrypt
<1>4. CASE Continue
  BY <1>1, <1>4, SelectionAssumption DEF Continue
<1>5. ASSUME NEW stride \in Strides, Find(stride)
      PROVE  Attended'
  <2>1. finder.phase # "scan" /\ results.state # "held"
    BY <1>5 DEF Attended, Free, Find
  <2>2. \A i \in DOMAIN listed' : ~listed'[i].ghost
    BY <1>5, FindTable
  <2>3. CASE finder.phase = "idle"
    <3>1. /\ finder'.disk = disk /\ disk' = disk /\ results' = NoResults /\ dialog' = "open"
      BY <1>5, <2>3 DEF Find, Idle
    <3> QED
      BY <2>2, <3>1 DEF Attended, NoResults
  <2>4. CASE finder.phase # "idle"
    <3>1. UNCHANGED <<finder, results>>
      BY <1>5, <2>4 DEF Find
    <3> QED
      BY <2>1, <2>2, <3>1 DEF Attended
  <2> QED
    BY <2>3, <2>4
<1>6. CASE Accept
  <2>1. Take /\ dialog = "finished" /\ ~dismissed /\ UNCHANGED <<disk, finder>>
    BY <1>6 DEF Accept, Take
  <2>2. results'.state # "held"
    BY <2>1 DEF Take, Types
  <2>3. ASSUME NEW i \in DOMAIN listed', listed'[i].ghost
        PROVE  Deleted(disk, listed'[i].part)
    <3>1. CASE i \in DOMAIN listed
      BY <2>1, <2>3, <3>1, TakeTable DEF Attended
    <3>2. CASE i \notin DOMAIN listed
      BY <2>1, <3>2, TakeTable DEF Attended
    <3> QED
      BY <3>1, <3>2
  <2> QED
    BY <2>1, <2>2, <2>3 DEF Attended
<1>7. CASE Dismiss
  BY <1>7 DEF Dismiss
<1>8. CASE Look
  <2>1. finder'.phase = "scan" /\ finder'.disk = finder.disk /\ finder.phase = "scan"
        /\ UNCHANGED <<disk, listed, results, dialog, dismissed>>
    BY <1>8 DEF Look, Types, FinderType, pages
  <2> QED
    BY <2>1 DEF Attended
<1>9. CASE Emit
  <2>1. /\ finder.phase = "scan" /\ finder'.phase = "emitted" /\ UNCHANGED <<disk, listed, dismissed>>
        /\ results' = IF finder.found = <<>> THEN NoResults ELSE [state |-> "held", list |-> finder.found]
        /\ dialog' = Reported(dialog)
    BY <1>9 DEF Emit, Types, FinderType, pages
  <2>2. dialog' = "finished" /\ finder.disk = disk
    BY <2>1 DEF Attended, Reported
  <2>3. \A i \in DOMAIN finder.found : Deleted(disk, finder.found[i])
    BY <2>2 DEF Search, Genuine
  <2>4. results'.state = "held" => results'.list = finder.found
    BY <2>1 DEF NoResults
  <2> QED
    BY <2>1, <2>2, <2>3, <2>4 DEF Attended
<1>10. CASE ClearRunning
  <2>1. finder'.phase = "idle" /\ UNCHANGED <<disk, listed, results, dialog, dismissed>>
    BY <1>10 DEF ClearRunning, Idle, pages
  <2> QED
    BY <2>1 DEF Attended
<1>11. ASSUME UNCHANGED <<finder, results, dialog, listed, disk, dismissed>>
       PROVE  Attended'
  BY <1>11 DEF Attended
<1>12. CASE Select \/ ToDisks \/ Operate \/ OperateOnly
  BY <1>11, <1>12 DEF Select, ToDisks, Operate, OperateOnly
<1>13. CASE UNCHANGED vars
  BY <1>11, <1>13 DEF vars
<1> QED
  BY <1>2, <1>3, <1>4, <1>5, <1>6, <1>7, <1>8, <1>9, <1>10, <1>12, <1>13 DEF Next, Worker

-----------------------------------------------------------------------------
(* The page of the files. *)

LEMMA PickedIs ==
  ASSUME Types, Shown, Table, page = "parts", row # NoRow
  PROVE  /\ row = WholeRow \/ row \in DOMAIN listed
         /\ Picked = [disk |-> disk, part |-> IF row = WholeRow THEN Whole(disk) ELSE listed[row].part]
<1>1. row = WholeRow \/ row \in DOMAIN listed
  BY DEF Types
<1>2. CASE row # WholeRow /\ ~listed[row].ghost
  <2>1. Len(parts) \in Nat /\ DOMAIN parts = 1..Len(parts)
    BY MediaIs DEF Types, Shown
  <2>2. row \in Nat /\ 1 <= row
    BY <1>1, <1>2 DEF Types
  <2>3. row \in DOMAIN parts
    BY <1>1, <1>2, <2>1, <2>2 DEF Table
  <2> QED
    BY <1>1, <1>2, <2>3 DEF Picked, RawAt, Table
<1> QED
  BY <1>1, <1>2 DEF Picked

LEMMA ShowsStep ==
  ASSUME Types, Shown, Table, Shows, [Next]_vars
  PROVE  Shows'
<1>1. CASE \E d \in Disks : OnDiskSelected(d)
  BY <1>1 DEF OnDiskSelected, Shows
<1>2. CASE Select
  BY <1>2 DEF Select, Shows
<1>3. CASE ToDisks
  BY <1>3 DEF ToDisks, Shows
<1>4. CASE Operate
  BY <1>4, PickedIs DEF Operate, Shows, Whole
<1>5. CASE OperateOnly
  BY <1>5 DEF OperateOnly, Shows
<1>6. CASE Decrypt
  BY <1>6 DEF Decrypt, Shows
<1>7. CASE Continue
  BY <1>7 DEF Continue, Shows
<1>8. CASE \E stride \in Strides : Find(stride)
  BY <1>8 DEF Find, Shows
<1>9. CASE Accept \/ Dismiss
  BY <1>9 DEF Accept, Dismiss, Take, Shown, Shows
<1>10. ASSUME UNCHANGED <<page, known, disk, listed, idx, tree>>
       PROVE  Shows'
  BY <1>10 DEF Shows, Whole
<1>11. CASE Worker
  BY <1>10, <1>11 DEF Worker, Look, Emit, ClearRunning, pages
<1>12. CASE UNCHANGED vars
  BY <1>10, <1>12 DEF vars
<1> QED
  BY <1>1, <1>2, <1>3, <1>4, <1>5, <1>6, <1>7, <1>8, <1>9, <1>11, <1>12 DEF Next

-----------------------------------------------------------------------------
(* Theorems. *)

LEMMA SelectionInvariant == Spec => []SelectionInv
<1>1. Init => SelectionInv
  <2> SUFFICES ASSUME Init
               PROVE  SelectionInv
    OBVIOUS
  <2>1. Types /\ Shown
    BY TypesInit
  <2>2. Table
    BY DEF Init, Table
  <2>3. Search(finder)
    BY SearchInit DEF Init
  <2>4. Attended /\ Shows
    BY DEF Init, Idle, NoResults, Attended, Shows
  <2> QED
    BY <2>1, <2>2, <2>3, <2>4 DEF SelectionInv
<1>2. SelectionInv /\ [Next]_vars => SelectionInv'
  BY TypesStep, TableStep, SearchStep, AttendedStep, ShowsStep DEF SelectionInv
<1> QED
  BY <1>1, <1>2, PTL DEF Spec

\* The fields of the window and of the search have their types, the selected row is one of
\* the table, and a search under way knows the partitions of its own disk
\* (PartitionSelectionWidget::setPartitions, GhostFinder::start).
THEOREM SelectionTypeCorrect == Spec => []TypeOK
<1>1. SelectionInv => TypeOK
  BY DEF SelectionInv, Types, FinderType, Search, OnItsWay, TypeOK
<1> QED
  BY <1>1, SelectionInvariant, PTL

\* The index of a row in the table is that of its partition in m_partList, and the deleted
\* ones behind them are of the disk that is shown, as long as no search was left alone
\* (PartitionList::rawAt, onFindPartitionsRequested).
THEOREM TableIsTrue == Spec => []ListedTrue
<1>1. SelectionInv => ListedTrue
  BY DEF SelectionInv, Table, Attended, Deleted, ListedTrue
<1> QED
  BY <1>1, SelectionInvariant, PTL

\* What a search finds is in order and keeps its distances, for any disk, stride and number
\* of signatures (insert_new_partition, is_duplicate).
THEOREM FoundStaysApart == Spec => []GhostsApart
<1>1. SelectionInv => GhostsApart
  BY DEF SelectionInv, Search, Apart, GhostsApart
<1> QED
  BY <1>1, SelectionInvariant, PTL

\* A search that has ended accounts for every signature on its way that it could read
\* (scan_for_ghost_partitions).
THEOREM SearchMissesNothing == Spec => []GhostsComplete
<1>1. SelectionInv => GhostsComplete
  <2> SUFFICES ASSUME SelectionInv, finder.phase = "emitted", NEW s \in DOMAIN Media[finder.disk].sigs,
                      s % finder.stride = 0, Readable(Media[finder.disk], s)
               PROVE  Accounted(finder, s)
    BY DEF GhostsComplete, Accounted
  <2>1. finder.disk \in DOMAIN Media /\ finder.sector \in Nat /\ finder.sector >= Media[finder.disk].size
    BY DEF SelectionInv, Types, FinderType, Search, OnItsWay, Passed
  <2>2. s \in Nat /\ s + Window <= Media[finder.disk].size /\ Media[finder.disk].size \in Nat
    BY <2>1, MediaIs DEF Readable
  <2>3. s < finder.sector
    BY <2>1, <2>2, SelectionAssumption
  <2> QED
    BY <2>3 DEF SelectionInv, Search, Passed
<1> QED
  BY <1>1, SelectionInvariant, PTL

\* While the files of a partition are shown that the user picked, a restore or a preview
\* reads that partition or is refused (onRestoreFromBrowser, onPreviewRequested).
THEOREM RestoreReadsWhatIsShown == Spec => []RightPartition
<1>1. SelectionInv => RightPartition
  <2> SUFFICES ASSUME SelectionInv, page = "browser", known
               PROVE  Given = IF idx # WholeRow /\ listed[idx].ghost THEN None ELSE tree
    BY DEF SelectionInv, Shows, RightPartition
  <2>1. Len(parts) \in Nat /\ DOMAIN parts = 1..Len(parts)
    BY MediaIs DEF SelectionInv, Types, Shown
  <2>2. DOMAIN listed = 1..Len(listed) /\ Len(listed) \in Nat /\ WholeRow \notin DOMAIN listed
    BY DEF SelectionInv, Types, WholeRow
  <2>3. CASE idx = WholeRow
    BY <2>2, <2>3 DEF SelectionInv, Shows, Given
  <2>4. CASE idx # WholeRow
    <3>1. idx \in DOMAIN listed /\ tree = [disk |-> disk, part |-> listed[idx].part]
          /\ (listed[idx].ghost <=> idx > Len(parts)) /\ Given = RawAt(idx)
      BY <2>4 DEF SelectionInv, Shows, Table, Given
    <3>2. listed[idx].ghost <=> idx \notin DOMAIN parts
      BY <2>1, <2>2, <3>1
    <3>3. idx \in DOMAIN parts => listed[idx].part = parts[idx]
      BY DEF SelectionInv, Table
    <3> QED
      BY <2>4, <3>1, <3>2, <3>3 DEF RawAt
  <2> QED
    BY <2>3, <2>4
<1> QED
  BY <1>1, SelectionInvariant, PTL
=============================================================================
