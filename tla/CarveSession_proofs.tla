------------------------ MODULE CarveSession_proofs ------------------------
(***************************************************************************)
(* Theorems of CarveSession, for every disk, every geometry, every set of  *)
(* file types and every number of runs: types; no chunk is skipped and no  *)
(* progress is lost; what is saved stays saved; and in a carve done in one *)
(* run no two files share a sector, and none that starts one is missed.    *)
(***************************************************************************)
EXTENDS CarveSession, SequenceTheorems, NaturalsInduction, WellFoundedInduction, TLAPS

SeenBelow(p) == \A q \in ChunkStarts : q < p => Examined(q) \subseteq seen

\* Chunks: positions and the saved progress are starts of chunks.
ChunkInv ==
  /\ pos \in Nat /\ pos % Chunk = 0
  /\ pc = "cancelled" => pos < Size
  /\ file.progress \in Nat /\ file.progress % Chunk = 0 /\ file.progress < Size

\* Everything before the position of a run, and before the progress of a session that is
\* not completed, has been examined; at the end of a run that was not cut, everything.
SeenInv ==
  /\ pc \in {"scan", "cancelled"} => SeenBelow(pos)
  /\ pc \in {"flush", "end"} /\ ~cut => SeenBelow(Size)
  /\ ~file.completed => SeenBelow(file.progress)
  /\ file.completed /\ ~damaged /\ ~cut => SeenBelow(Size)

CarveInv == ChunkInv /\ SeenInv

LEMMA DownToChunk ==
  ASSUME NEW p \in Nat, p % Chunk = 0
  PROVE  /\ (p \div Chunk) * Chunk = p
         /\ p \div Chunk \in Nat
  BY GeometryAssumption

LEMMA Product ==
  ASSUME NEW a \in Nat, NEW b \in Nat, a < b
  PROVE  a * Chunk + Chunk <= b * Chunk
<1> DEFINE d == b - a - 1
<1>1. d \in Nat /\ b = a + 1 + d
  OBVIOUS
<1>2. d * Chunk >= 0
  BY <1>1, GeometryAssumption
<1>3. b * Chunk = a * Chunk + Chunk + d * Chunk
  BY <1>1, GeometryAssumption
<1> QED
  BY <1>2, <1>3, GeometryAssumption

LEMMA MultipleOfChunk ==
  ASSUME NEW k \in Nat
  PROVE  (k * Chunk) % Chunk = 0
<1> DEFINE a == k * Chunk
           q == a \div Chunk
           r == a % Chunk
<1>1. a \in Nat
  BY GeometryAssumption
<1>2. q \in Nat /\ r \in Nat /\ r < Chunk /\ a = q * Chunk + r
  BY <1>1, GeometryAssumption
<1>3. ~(q < k)
  <2> SUFFICES ASSUME q < k PROVE FALSE
    OBVIOUS
  <2>1. q * Chunk + Chunk <= k * Chunk
    BY <1>2, Product
  <2> HIDE DEF q, r
  <2> QED
    BY <1>2, <2>1, GeometryAssumption
<1>4. ~(k < q)
  <2> SUFFICES ASSUME k < q PROVE FALSE
    OBVIOUS
  <2>1. k * Chunk + Chunk <= q * Chunk
    BY <1>2, Product
  <2> HIDE DEF q, r
  <2> QED
    BY <1>2, <2>1, GeometryAssumption
<1>5. q = k
  BY <1>2, <1>3, <1>4
<1>6. a = q * Chunk
  BY <1>5
<1>7. r = 0
  <2> HIDE DEF q, r, a
  <2> QED
    BY <1>1, <1>2, <1>6, GeometryAssumption
<1> QED
  BY <1>7

LEMMA NextChunk ==
  ASSUME NEW p \in Nat, p % Chunk = 0
  PROVE  (p + Chunk) % Chunk = 0
<1> DEFINE k == p \div Chunk
<1>1. k * Chunk = p /\ k \in Nat
  BY DownToChunk
<1> HIDE DEF k
<1>2. (k + 1) * Chunk = p + Chunk
  BY <1>1, GeometryAssumption
<1> QED
  BY <1>1, <1>2, MultipleOfChunk

LEMMA ChunksApart ==
  ASSUME NEW p \in Nat, p % Chunk = 0, NEW q \in Nat, q % Chunk = 0, q < p + Chunk
  PROVE  q <= p
<1> DEFINE j == p \div Chunk
           k == q \div Chunk
<1>1. j * Chunk = p /\ j \in Nat /\ k * Chunk = q /\ k \in Nat
  BY DownToChunk
<1>2. ~(j < k)
  BY <1>1, Product, GeometryAssumption
<1>3. k = j \/ k < j
  BY <1>1, <1>2
<1>4. k < j => k * Chunk + Chunk <= j * Chunk
  BY <1>1, Product
<1> QED
  BY <1>1, <1>3, <1>4, GeometryAssumption

-----------------------------------------------------------------------------
LEMMA BelowNext ==
  ASSUME NEW p \in Nat, p % Chunk = 0, NEW S,
         \A q \in ChunkStarts : q < p => Examined(q) \subseteq S,
         p < Size => Examined(p) \subseteq S
  PROVE  \A q \in ChunkStarts : q < p + Chunk => Examined(q) \subseteq S
<1> SUFFICES ASSUME NEW q \in ChunkStarts, q < p + Chunk
             PROVE  Examined(q) \subseteq S
  OBVIOUS
<1>1. q \in Nat /\ q % Chunk = 0 /\ q < Size
  BY GeometryAssumption DEF ChunkStarts, Sectors
<1>2. q <= p
  BY <1>1, ChunksApart
<1>3. q < p \/ q = p
  BY <1>1, <1>2
<1> QED
  BY <1>1, <1>3

\* A resume starts exactly where the session's progress is.
LEMMA ResumesAtProgress ==
  ASSUME NEW p \in Nat, p % Chunk = 0, p < Size
  PROVE  ResumeFrom(p) = p
<1>1. (p \div Chunk) * Chunk = p
  BY DownToChunk
<1>2. ~(p >= Size)
  BY GeometryAssumption
<1> QED
  BY <1>1, <1>2 DEF ResumeFrom

\* What a save leaves in the file: the image, what was there before, or something with
\* the progress and the flag of the image or of no session at all.
LEMMA SaveOutcome ==
  ASSUME NEW progress, NEW t, NEW done, Save(Image(progress, t, done))
  PROVE  /\ \/ file' = file
            \/ file'.progress = 0 /\ ~file'.completed
            \/ file'.progress = progress /\ file'.completed = done
         /\ damaged => damaged'
         /\ ~damaged' => file' = Image(progress, t, done)
<1> DEFINE image == Image(progress, t, done)
<1>1. CASE file' = image /\ UNCHANGED damaged
  BY <1>1 DEF Image
<1>2. CASE ~damaged /\ damaged' = TRUE /\ file' \in {file, NoSession} \cup Torn(image)
  <2>1. CASE file' = file
    BY <1>2, <2>1
  <2>2. CASE file' = NoSession
    BY <1>2, <2>2 DEF NoSession
  <2>3. CASE file' \in Torn(image)
    BY <1>2, <2>3 DEF Torn, Unreadable, NoSession, Image
  <2> QED
    BY <1>2, <2>1, <2>2, <2>3
<1> QED
  BY <1>1, <1>2 DEF Save

LEMMA CarveInvInit == Init => CarveInv
<1> SUFFICES ASSUME Init PROVE CarveInv
  OBVIOUS
<1>1. pos = 0 /\ file.progress = 0 /\ ~file.completed /\ pc = "idle"
  BY DEF Init, NoSession
<1>2. 0 % Chunk = 0 /\ 0 < Size
  BY GeometryAssumption
<1>3. SeenBelow(0)
  BY GeometryAssumption DEF SeenBelow, ChunkStarts, Sectors
<1> QED
  BY <1>1, <1>2, <1>3 DEF CarveInv, ChunkInv, SeenInv

LEMMA ZeroIsChunk == 0 \in Nat /\ 0 % Chunk = 0 /\ 0 < Size /\ SeenBelow(0) /\ SeenBelow(0)'
<1>1. 0 \in Nat /\ 0 % Chunk = 0 /\ 0 < Size
  BY GeometryAssumption
<1>2. SeenBelow(0) /\ SeenBelow(0)'
  BY GeometryAssumption DEF SeenBelow, ChunkStarts, Sectors
<1> QED
  BY <1>1, <1>2

LEMMA CarveInvNext ==
  ASSUME CarveInv, [Next]_vars
  PROVE  CarveInv'
<1> USE DEF CarveInv
<1>1. CASE Start
  <2>1. pc' = "scan" /\ pos' = 0 /\ file' = file /\ seen' = seen /\ damaged' = damaged /\ cut' = cut
    BY <1>1 DEF Start, Run
  <2>2. ChunkInv'
    BY <2>1, ZeroIsChunk DEF ChunkInv
  <2>3. SeenInv'
    BY <2>1, ZeroIsChunk DEF SeenInv, SeenBelow
  <2> QED
    BY <2>2, <2>3
<1>2. CASE Resume
  <2>1. /\ pc' = "scan" /\ pos' = file.progress
        /\ file' = file /\ seen' = seen /\ damaged' = damaged /\ cut' = cut
        /\ ~file.completed
    BY <1>2, ResumesAtProgress DEF Resume, Run, ChunkInv
  <2>2. ChunkInv'
    BY <2>1 DEF ChunkInv
  <2>3. SeenInv'
    BY <2>1 DEF SeenInv, SeenBelow
  <2> QED
    BY <2>2, <2>3
<1>3. CASE CarveChunk
  <2>1. /\ pc = "scan" /\ pos < Size /\ seen' = seen \cup Examined(pos) /\ cut' = cut
        /\ \/ pc' = "cancelled" /\ pos' = pos
           \/ pc' = "scan" /\ pos' = pos + Chunk
    BY <1>3 DEF CarveChunk
  <2>2. /\ \/ file' = file
           \/ file'.progress = 0 /\ ~file'.completed
           \/ file'.progress = pos /\ ~file'.completed
        /\ damaged => damaged'
    <3>1. CASE UNCHANGED <<file, damaged>>
      BY <3>1
    <3>2. CASE Save(Image(pos, tree', FALSE))
      BY <3>2, SaveOutcome
    <3> QED
      BY <1>3, <3>1, <3>2 DEF CarveChunk, Checkpoint
  <2>3. SeenBelow(pos) /\ seen \subseteq seen'
    BY <2>1 DEF SeenInv
  <2>4. pos + Chunk \in Nat /\ (pos + Chunk) % Chunk = 0
    <3>1. pos \in Nat /\ pos % Chunk = 0
      BY DEF ChunkInv
    <3>2. pos + Chunk \in Nat
      <4> HIDE DEF CarveInv
      <4> QED
        BY <3>1, GeometryAssumption
    <3>3. (pos + Chunk) % Chunk = 0
      BY <3>1, NextChunk, Zenon
    <3> QED
      BY <3>2, <3>3
  <2>5. ChunkInv'
    BY <2>1, <2>2, <2>4, ZeroIsChunk DEF ChunkInv
  <2>6. \A q \in ChunkStarts : q < pos => Examined(q) \subseteq seen'
    BY <2>3 DEF SeenBelow
  <2>7. \A q \in ChunkStarts : q < pos + Chunk => Examined(q) \subseteq seen'
    BY <2>1, <2>6, BelowNext DEF ChunkInv
  <2>8. pc' \in {"scan", "cancelled"} => SeenBelow(pos)'
    BY <2>1, <2>6, <2>7 DEF SeenBelow
  <2>9. ~file'.completed => SeenBelow(file.progress)'
    <3>1. CASE file' = file
      BY <2>3, <3>1 DEF SeenInv, SeenBelow
    <3>2. CASE file'.progress = 0
      BY <3>2, ZeroIsChunk DEF SeenBelow
    <3>3. CASE file'.progress = pos
      BY <2>6, <3>3 DEF SeenBelow
    <3> QED
      BY <2>2, <3>1, <3>2, <3>3
  <2>10. file'.completed /\ ~damaged' /\ ~cut' => SeenBelow(Size)'
    BY <2>1, <2>2, <2>3 DEF SeenInv, SeenBelow
  <2> QED
    BY <2>1, <2>5, <2>8, <2>9, <2>10 DEF SeenInv
<1>4. CASE ReadError
  <2>1. /\ pc' = "flush" /\ cut'
        /\ UNCHANGED <<pos, file, seen, damaged>>
    BY <1>4 DEF ReadError
  <2> QED
    BY <2>1 DEF ChunkInv, SeenInv, SeenBelow
<1>5. CASE EndOfPartition
  <2>1. /\ pc = "scan" /\ pc' = "flush" /\ pos >= Size
        /\ UNCHANGED <<pos, file, seen, damaged, cut>>
    BY <1>5 DEF EndOfPartition
  <2>2. ChunkInv'
    BY <2>1 DEF ChunkInv
  <2>3. SeenBelow(Size)
    <3>1. SeenBelow(pos) /\ pos \in Nat
      BY <2>1 DEF SeenInv, ChunkInv
    <3>2. \A q \in ChunkStarts : q \in Nat /\ q < Size
      BY GeometryAssumption DEF ChunkStarts, Sectors
    <3>3. \A q \in ChunkStarts : q < pos
      BY <2>1, <3>1, <3>2, GeometryAssumption
    <3> QED
      BY <3>1, <3>3 DEF SeenBelow
  <2> QED
    BY <2>1, <2>2, <2>3 DEF SeenInv, SeenBelow
<1>6. CASE FlushLast
  <2>1. /\ pc = "flush" /\ pc' = "end"
        /\ UNCHANGED <<pos, file, seen, damaged, cut>>
    BY <1>6 DEF FlushLast
  <2> QED
    BY <2>1 DEF ChunkInv, SeenInv, SeenBelow
<1>7. CASE SaveCancelled
  <2>1. /\ pc = "cancelled" /\ pc' = "end" /\ cut'
        /\ UNCHANGED <<pos, seen>>
    BY <1>7 DEF SaveCancelled
  <2>2. /\ \/ file' = file
           \/ file'.progress = 0 /\ ~file'.completed
           \/ file'.progress = pos /\ ~file'.completed
        /\ damaged => damaged'
    BY <1>7, SaveOutcome DEF SaveCancelled
  <2>3. ChunkInv'
    BY <2>1, <2>2, ZeroIsChunk DEF ChunkInv
  <2>4. ~file'.completed => SeenBelow(file.progress)'
    BY <2>1, <2>2, ZeroIsChunk DEF SeenInv, SeenBelow
  <2> QED
    BY <2>1, <2>3, <2>4 DEF SeenInv
<1>8. CASE EndSession
  <2>1. /\ pc = "end" /\ pc' = "idle"
        /\ UNCHANGED <<pos, seen, cut>>
    BY <1>8 DEF EndSession
  <2>2. /\ \/ file' = file
           \/ file'.progress = 0
        /\ damaged => damaged'
        /\ ~damaged' => file'.completed
    <3>1. Save(Image(0, tree, TRUE))
      BY <1>8 DEF EndSession
    <3> QED
      BY <3>1, SaveOutcome DEF Image
  <2>3. ChunkInv'
    BY <2>1, <2>2, ZeroIsChunk DEF ChunkInv
  <2>4. ~file'.completed => SeenBelow(file.progress)'
    BY <2>1, <2>2, ZeroIsChunk DEF SeenInv, SeenBelow
  <2>5. file'.completed /\ ~damaged' /\ ~cut' => SeenBelow(Size)'
    BY <2>1, <2>2 DEF SeenInv, SeenBelow
  <2> QED
    BY <2>1, <2>3, <2>4, <2>5 DEF SeenInv
<1>9. CASE PressCancel
  <2>1. UNCHANGED <<pc, pos, file, seen, damaged, cut>>
    BY <1>9 DEF PressCancel
  <2> QED
    BY <2>1 DEF ChunkInv, SeenInv, SeenBelow
<1>10. CASE Kill
  <2>1. /\ pc' = "idle" /\ pos' = 0
        /\ UNCHANGED <<file, seen, damaged, cut>>
    BY <1>10 DEF Kill
  <2> QED
    BY <2>1, ZeroIsChunk DEF ChunkInv, SeenInv, SeenBelow
<1>11. CASE UNCHANGED vars
  BY <1>11 DEF vars, ChunkInv, SeenInv, SeenBelow
<1> QED
  BY <1>1, <1>2, <1>3, <1>4, <1>5, <1>6, <1>7, <1>8, <1>9, <1>10, <1>11 DEF Next

LEMMA CarveInvariance == Spec => []CarveInv
<1>1. Init => CarveInv
  BY CarveInvInit
<1>2. CarveInv /\ [Next]_vars => CarveInv'
  BY CarveInvNext
<1> QED
  BY <1>1, <1>2, PTL DEF Spec

-----------------------------------------------------------------------------
\* For every disk, chunk size, overlap and number of runs: a session that is completed,
\* undamaged and never cut has examined all that an uninterrupted carve examines (the
\* chunk loop of carver.c and its resume offset).
THEOREM ResumesSkipNothing == Spec => []NoChunkSkipped
<1>1. CarveInv => NoChunkSkipped
  <2> SUFFICES ASSUME CarveInv, Whole, NEW p \in ChunkStarts
               PROVE  Examined(p) \subseteq seen
    BY DEF NoChunkSkipped
  <2>1. SeenBelow(Size)
    BY DEF CarveInv, SeenInv, Whole
  <2>2. p < Size
    BY GeometryAssumption DEF ChunkStarts, Sectors
  <2> QED
    BY <2>1, <2>2 DEF SeenBelow
<1> QED
  BY <1>1, CarveInvariance, PTL

-----------------------------------------------------------------------------
\* A run is never behind the session it was resumed from.
ProgressInv ==
  /\ runs \in Nat
  /\ runs = 0 => pc = "idle" /\ file = NoSession
  /\ pc \in {"scan", "cancelled"} /\ ~damaged => file.progress <= pos
  /\ file.completed /\ ~damaged => file.progress = 0

Forward == file.kind = "session" /\ ~damaged' /\ ~file'.completed => file.progress <= file'.progress

LEMMA ProgressInvNext ==
  ASSUME CarveInv, ProgressInv, [Next]_vars
  PROVE  ProgressInv' /\ Forward
<1>0. pos \in Nat /\ file.progress \in Nat /\ file.progress <= file.progress
  BY DEF CarveInv, ChunkInv
<1>1. CASE Start
  <2>1. /\ file = NoSession /\ file' = file /\ damaged' = damaged
        /\ pos' = 0 /\ runs' = 1 /\ pc' = "scan"
    BY <1>1 DEF Start, Run, ProgressInv
  <2> QED
    BY <2>1 DEF ProgressInv, Forward, NoSession
<1>2. CASE Resume
  <2>1. /\ file' = file /\ damaged' = damaged /\ ~file.completed
        /\ pos' = file.progress /\ runs' \in Nat /\ runs' # 0
    BY <1>2, ResumesAtProgress DEF Resume, Run, CarveInv, ChunkInv, ProgressInv
  <2> QED
    BY <1>0, <2>1 DEF ProgressInv, Forward
<1>3. CASE CarveChunk
  <2>1. /\ pc = "scan" /\ runs' = runs
        /\ pos' = pos \/ pos' = pos + Chunk
    BY <1>3 DEF CarveChunk
  <2>2. pos <= pos'
    BY <1>0, <2>1, GeometryAssumption
  <2>3. damaged => damaged'
    BY <1>3, SaveOutcome DEF CarveChunk, Checkpoint
  <2>4. ~damaged' => file' = file \/ file' = Image(pos, tree', FALSE)
    BY <1>3, SaveOutcome DEF CarveChunk, Checkpoint
  <2>5. runs # 0
    BY <2>1 DEF ProgressInv
  <2>6. CASE damaged'
    BY <2>1, <2>5, <2>6 DEF ProgressInv, Forward
  <2>7. CASE ~damaged' /\ file' = file
    BY <1>0, <2>1, <2>2, <2>3, <2>5, <2>7, GeometryAssumption DEF ProgressInv, Forward
  <2>8. CASE ~damaged' /\ file' = Image(pos, tree', FALSE)
    <3>1. file'.progress = pos /\ ~file'.completed
      BY <2>8 DEF Image
    <3>2. file.progress <= pos
      BY <2>1, <2>3, <2>8 DEF ProgressInv
    <3> QED
      BY <2>1, <2>2, <2>5, <3>1, <3>2 DEF ProgressInv, Forward
  <2> QED
    BY <2>4, <2>6, <2>7, <2>8
<1>4. CASE SaveCancelled
  <2>1. pc = "cancelled" /\ pc' = "end" /\ runs' = runs
    BY <1>4 DEF SaveCancelled
  <2>2. /\ damaged => damaged'
        /\ ~damaged' => file' = Image(pos, tree, FALSE)
    BY <1>4, SaveOutcome DEF SaveCancelled
  <2>3. runs # 0
    BY <2>1 DEF ProgressInv
  <2>4. ~damaged' => file.progress <= file'.progress /\ ~file'.completed
    BY <2>1, <2>2 DEF ProgressInv, Image
  <2> QED
    BY <2>1, <2>3, <2>4 DEF ProgressInv, Forward
<1>5. CASE EndSession
  <2>1. pc = "end" /\ pc' = "idle" /\ runs' = runs
    BY <1>5 DEF EndSession
  <2>2. ~damaged' => file' = Image(0, tree, TRUE)
    BY <1>5, SaveOutcome DEF EndSession
  <2>3. runs # 0
    BY <2>1 DEF ProgressInv
  <2>4. ~damaged' => file'.completed /\ file'.progress = 0
    BY <2>2 DEF Image
  <2> QED
    BY <2>1, <2>3, <2>4 DEF ProgressInv, Forward
<1>6. CASE PressCancel
  <2>1. UNCHANGED <<pc, pos, file, runs, damaged>>
    BY <1>6 DEF PressCancel
  <2> QED
    BY <1>0, <2>1 DEF ProgressInv, Forward
<1>7. CASE ReadError \/ EndOfPartition \/ FlushLast \/ Kill
  <2>1. /\ UNCHANGED <<file, runs, damaged>>
        /\ pc' \in {"flush", "end", "idle"} /\ pc # "idle"
    BY <1>7 DEF ReadError, EndOfPartition, FlushLast, Kill
  <2> QED
    BY <1>0, <2>1 DEF ProgressInv, Forward
<1>8. CASE UNCHANGED vars
  BY <1>0, <1>8 DEF vars, ProgressInv, Forward
<1> QED
  BY <1>1, <1>2, <1>3, <1>4, <1>5, <1>6, <1>7, <1>8 DEF Next

\* However a carve is checkpointed, cancelled, killed and resumed, the progress its
\* session file records never goes back until the session is completed.
THEOREM ProgressNeverBack == Spec => ProgressStays
<1>1. Init => CarveInv /\ ProgressInv
  BY CarveInvInit DEF Init, ProgressInv, NoSession
<1>2. CarveInv /\ ProgressInv /\ [Next]_vars => (CarveInv /\ ProgressInv)'
  BY CarveInvNext, ProgressInvNext
<1>3. CarveInv /\ ProgressInv /\ [Next]_vars => [Forward]_vars
  BY ProgressInvNext
<1>4. Spec => [][Forward]_vars
  BY <1>1, <1>2, <1>3, PTL DEF Spec
<1> QED
  BY <1>4 DEF ProgressStays, Forward

-----------------------------------------------------------------------------
(* Numbers and sequences. *)

LEMMA LeastNat ==
  ASSUME NEW T \in SUBSET Nat, T # {}
  PROVE  \E m \in T : \A k \in T : m <= k
<1> DEFINE R == OpToRel(<, Nat)
<1>1. PICK m \in T : \A k \in T : ~ (<<k, m>> \in R)
  <2>1. IsWellFoundedOn(R, Nat)
    BY NatLessThanWellFounded
  <2> HIDE DEF R
  <2> QED
    BY <2>1, WFMin
<1>2. \A a, b \in Nat : a < b => <<a, b>> \in R
  BY DEF OpToRel
<1> HIDE DEF R
<1>3. m \in Nat /\ \A k \in T : k \in Nat /\ ~ (k < m)
  BY <1>1, <1>2
<1> QED
  BY <1>3

LEMMA MinIs ==
  ASSUME NEW T \in SUBSET Nat, T # {}
  PROVE  Min(T) \in T /\ \A k \in T : Min(T) <= k
  BY LeastNat DEF Min

LEMMA MinOfTwo ==
  ASSUME NEW a \in Int, NEW b \in Int
  PROVE  Min({a, b}) = IF a <= b THEN a ELSE b
<1> DEFINE m == IF a <= b THEN a ELSE b
<1>1. m \in {a, b} /\ \A y \in {a, b} : m <= y
  OBVIOUS
<1>2. \A x \in {a, b} : (\A y \in {a, b} : x <= y) => x = m
  OBVIOUS
<1> HIDE DEF m
<1>3. Min({a, b}) = m
  BY <1>1, <1>2 DEF Min
<1> QED
  BY <1>3 DEF m

LEMMA MaxIs ==
  ASSUME NEW n \in Nat, NEW T \in SUBSET (0 .. n), T # {}
  PROVE  Max(T) \in T /\ \A k \in T : k <= Max(T)
<1> DEFINE U == {k \in 0 .. n : n - k \in T}
<1>1. U \in SUBSET Nat /\ U # {}
  <2>1. PICK k \in T : k \in 0 .. n
    OBVIOUS
  <2>2. PICK u \in 0 .. n : u = n - k
    BY <2>1
  <2>3. u \in U
    BY <2>1, <2>2
  <2>4. U \subseteq Nat
    OBVIOUS
  <2> QED
    BY <2>3, <2>4
<1>2. PICK u \in U : \A k \in U : u <= k
  <2> HIDE DEF U
  <2> QED
    BY <1>1, LeastNat
<1>3. PICK m \in T : m = n - u
  OBVIOUS
<1>4. \A k \in T : m >= k
  <2> TAKE k \in T
  <2>1. k \in 0 .. n /\ n - k \in 0 .. n /\ n - (n - k) = k
    OBVIOUS
  <2>2. n - k \in U
    BY <2>1
  <2>3. u <= n - k
    BY <1>2, <2>2
  <2> QED
    BY <1>3, <2>1, <2>3
<1>5. Max(T) \in T /\ \A k \in T : Max(T) >= k
  BY <1>4 DEF Max
<1> QED
  BY <1>5

-----------------------------------------------------------------------------
(* The scan of a chunk. *)

Limit(p) == IF p < Size THEN p ELSE Size
Edge(f, b) == IF f.hint = NoHint THEN b ELSE f.start
EntryType == [start : Sectors, size : 1 .. Size, hint : Hints]

\* A file that is carved starts before b, and ends at a footer behind its start.
FileOK(f, b) ==
  f = NoFile \/ /\ f.hint \in Hints /\ f.start \in Sectors /\ f.start < b
                /\ f.footer \in 0 .. Size /\ (f.footer > 0 => f.footer > f.start)

\* Carved files between lo and hi, one after another.
InOrder(list, lo, hi) ==
  /\ \A k \in DOMAIN list : lo <= list[k].start /\ list[k].start + list[k].size <= hi
  /\ \A j, k \in DOMAIN list : j < k => list[j].start + list[j].size <= list[k].start

\* A file begins at an examined header, and at a footer there only if it is of its type.
Begun(f) ==
  f.hint # NoHint =>
    /\ f.start \in ExaminedHeaders /\ disk[f.start].hint = f.hint
    /\ f.footer = f.start + 1 => disk[f.start].footer = f.hint

\* ... and the last header examined before b is of its type.
LastHint(f, b) ==
  f.hint # NoHint =>
    /\ Begun(f)
    /\ \E r \in ExaminedHeaders : /\ r < b /\ disk[r].hint = f.hint
                                  /\ \A q \in ExaminedHeaders : q < b => q <= r

\* A header that starts a file, which no footer cuts down to less than an entry.
Starts(s) == OwnFile(s) /\ LongEnough(s)

Lists(list, s, h) == \E k \in DOMAIN list : list[k].start = s /\ list[k].hint = h
Holds(f, s, h) == f.hint = h /\ f.start = s

\* Every header before b that starts a file has one.
OwnListed(list, f, b) ==
  \A s \in ExaminedHeaders : s < b /\ Starts(s) => Holds(f, s, disk[s].hint) \/ Lists(list, s, disk[s].hint)

LEMMA BufferIs ==
  ASSUME NEW p \in Nat, p % Chunk = 0, p < Size
  PROVE  /\ BufferEnd(p) \in 0 .. Size /\ BufferEnd(p) <= p + Chunk
         /\ Examined(p) \subseteq Sectors
         /\ p = 0 => BufferEnd(p) > 0
<1>1. ChunkSize(p) = IF Chunk <= Size - p THEN Chunk ELSE Size - p
  BY GeometryAssumption, MinOfTwo DEF ChunkSize
<1>2. p = 0 \/ p >= Chunk
  <2>1. p < Chunk => p % Chunk = p
    BY GeometryAssumption
  <2> QED
    BY <2>1, GeometryAssumption
<1>3. BufferEnd(p) \in 0 .. Size /\ BufferEnd(p) <= p + Chunk /\ (p = 0 => BufferEnd(p) > 0)
  BY <1>1, <1>2, GeometryAssumption DEF BufferEnd, ReadFrom
<1>4. Examined(p) \subseteq Sectors
  BY <1>3, GeometryAssumption DEF Examined, Sectors
<1> QED
  BY <1>3, <1>4

\* A footer is found in the buffer, behind the header or in its sector.
LEMMA FooterIs ==
  ASSUME NEW d, NEW i \in Nat, NEW e \in 0 .. Size, NEW h \in Hints
  PROVE  /\ FooterAt(d, i, e, h) \in 0 .. Size /\ (FooterAt(d, i, e, h) > 0 => FooterAt(d, i, e, h) > i)
         /\ FooterAt(d, i, e, h) = i + 1 => d[i].footer = h
<1> DEFINE marks == {f \in i .. e - 1 : d[f].footer = h}
           again == \E r, s \in i .. e - 1 : r # s /\ d[r].hint = h /\ d[s].hint = h
<1>1. Size \in Nat /\ marks \subseteq Nat /\ marks \subseteq 0 .. Size /\ \A f \in marks : i <= f /\ f < e
  BY GeometryAssumption
<1>2. Trailer[h] \in {"none", "first", "last", "single"}
  BY TypesAssumption
<1>3. FooterAt(d, i, e, h) =
        CASE marks = {} \/ Trailer[h] = "none"  -> 0
          [] marks # {} /\ Trailer[h] = "first" -> Min(marks) + 1
          [] marks # {} /\ Trailer[h] = "last"  -> Max(marks) + 1
          [] marks # {} /\ Trailer[h] = "single" -> IF again THEN 0 ELSE Max(marks) + 1
  BY DEF FooterAt
<1> HIDE DEF marks, again
<1>4. marks # {} => Min(marks) \in marks /\ Max(marks) \in marks
  BY <1>1, MinIs, MaxIs
<1>5. FooterAt(d, i, e, h) \in {0, Min(marks) + 1, Max(marks) + 1}
       /\ (FooterAt(d, i, e, h) = 0 \/ marks # {})
  <2>1. CASE marks = {} \/ Trailer[h] = "none"
    BY <1>3, <2>1
  <2>2. CASE marks # {} /\ Trailer[h] = "first"
    BY <1>3, <2>2
  <2>3. CASE marks # {} /\ Trailer[h] = "last"
    BY <1>3, <2>3
  <2>4. CASE marks # {} /\ Trailer[h] = "single"
    BY <1>3, <2>4
  <2> QED
    BY <1>2, <2>1, <2>2, <2>3, <2>4
<1>6. \A f \in marks : f + 1 \in 0 .. Size /\ f + 1 > i
  <2>1. i \in Nat /\ e \in Nat /\ e <= Size
    BY <1>1
  <2> QED
    BY <1>1, <2>1
<1>7. CASE marks = {}
  BY <1>1, <1>5, <1>7
<1>9. \A f \in marks : f + 1 = i + 1 => d[i].footer = h
  <2> TAKE f \in marks
  <2>1. f \in Nat /\ d[f].footer = h
    BY <1>1 DEF marks
  <2> QED
    BY <2>1
<1>8. CASE marks # {}
  <2>1. \A f \in {Min(marks), Max(marks)} : f + 1 \in 0 .. Size /\ f + 1 > i
    BY <1>4, <1>6, <1>8
  <2>2. 0 \in 0 .. Size /\ ~(0 > 0) /\ 0 # i + 1
    BY <1>1
  <2>3. \A f \in {Min(marks), Max(marks)} : f + 1 = i + 1 => d[i].footer = h
    BY <1>4, <1>8, <1>9
  <2> QED
    BY <1>5, <2>1, <2>2, <2>3
<1> QED
  BY <1>7, <1>8

\* File f ends before limit: it becomes an entry of its list, or a footer in its header's
\* sector, or in that of a later one, leaves too little of it.
Ends(new, list, f, limit) ==
  \/ new = list /\ ~LongEnough(f.start)
  \/ \E z \in 1 .. Size : /\ f.start + z <= limit
                         /\ new = Append(list, [start |-> f.start, size |-> z, hint |-> f.hint])

\* Carve ends it.
LEMMA CarveEnds ==
  ASSUME NEW st, NEW z \in 1 .. Size, NEW limit, st.file.start + z <= limit,
         NEW tiny, tiny => ~LongEnough(st.file.start)
  PROVE  Ends(Carve(st, z, tiny), st.found, st.file, limit)
<1>1. CASE tiny
  BY <1>1 DEF Ends, Carve
<1>2. CASE ~tiny
  BY <1>2 DEF Ends, Carve
<1> QED
  BY <1>1, <1>2

LEMMA FooterTooEarly ==
  ASSUME NEW f, f.hint # NoHint, Begun(f), NEW r \in ExaminedHeaders, f.start <= r,
         disk[r].footer = f.hint, disk[r].short
  PROVE  ~LongEnough(f.start)
  BY DEF Begun, LongEnough

\* What the scan of sector i does: nothing; it ends the open file; or a header begins one.
LEMMA ScanSectorIs ==
  ASSUME disk \in [Sectors -> SectorType], NEW i \in Sectors, IsHeader(i) => i \in ExaminedHeaders,
         NEW e \in 0 .. Size, NEW st, FileOK(st.file, i), Begun(st.file)
  PROVE  LET new == ScanSector(disk, st, i, e)
             h == disk[i].hint
         IN \/ new = st /\ (IsHeader(i) => st.file.hint = h)
            \/ /\ ~IsHeader(i) /\ st.file.hint # NoHint /\ new.file = NoFile
               /\ Ends(new.found, st.found, st.file, i + 1)
            \/ /\ IsHeader(i) /\ h \in Hints
               /\ new.file.start = i /\ new.file.hint = h /\ FileOK(new.file, i + 1) /\ Begun(new.file)
               /\ IF st.file.hint = NoHint THEN new.found = st.found
                  ELSE Ends(new.found, st.found, st.file, i)
<1> DEFINE new == ScanSector(disk, st, i, e)
           f == st.file
           h == disk[i].hint
<1>1. i \in Nat /\ i + 1 \in Nat /\ i < Size /\ Size \in Nat
  BY GeometryAssumption DEF Sectors
<1>2. disk[i] \in SectorType
  OBVIOUS
<1>3. f.hint # NoHint => /\ f.hint \in Hints /\ f.start \in Nat /\ f.start < i /\ f.footer \in 0 .. Size
                         /\ (f.footer > 0 => f.footer > f.start)
  BY <1>1 DEF FileOK, NoFile, Sectors
<1>4. f.hint # NoHint => Gap(f.hint) \in Nat \ {0}
  BY <1>3, TypesAssumption, GeometryAssumption DEF Gap
<1>10. f.hint # NoHint /\ EndsAtOnce(disk, f) => ~LongEnough(f.start)
  <2> SUFFICES ASSUME f.hint # NoHint, EndsAtOnce(disk, f) PROVE ~LongEnough(f.start)
    OBVIOUS
  <2>1. /\ f.start \in ExaminedHeaders /\ f.start <= f.start
        /\ disk[f.start].footer = f.hint /\ disk[f.start].short
    BY <1>3 DEF EndsAtOnce, Begun
  <2> HIDE DEF f
  <2> QED
    BY <2>1, FooterTooEarly DEF f
<1>5. ASSUME NEW reach \in {i, i + 1}, new = AtPlain(disk, st, reach), ~IsHeader(i)
      PROVE  new = st \/ (f.hint # NoHint /\ new.file = NoFile /\ Ends(new.found, st.found, f, i + 1))
  <2>1. CASE f.hint = NoHint
    BY <1>5, <2>1 DEF AtPlain
  <2>2. CASE f.hint # NoHint /\ f.footer > 0 /\ reach >= f.footer
    <3>1. new = [file |-> NoFile, found |-> Carve(st, f.footer - f.start, EndsAtOnce(disk, f))]
      BY <1>5, <2>2 DEF AtPlain
    <3>2. PICK z \in 1 .. Size : z = f.footer - f.start
      BY <1>1, <1>3, <2>2
    <3>3. f.start + z <= i + 1
      BY <1>1, <1>3, <2>2, <3>2
    <3>4. Ends(Carve(st, z, EndsAtOnce(disk, f)), st.found, f, i + 1)
      BY <1>10, <2>2, <3>3, CarveEnds
    <3> QED
      BY <2>2, <3>1, <3>2, <3>4
  <2>3. CASE f.hint # NoHint /\ ~(f.footer > 0 /\ reach >= f.footer)
    <3>1. new = IF reach - f.start > Gap(f.hint)
                THEN [file |-> NoFile, found |-> Carve(st, Gap(f.hint), FALSE)] ELSE st
      BY <1>5, <2>3 DEF AtPlain
    <3>2. CASE reach - f.start > Gap(f.hint)
      <4>1. PICK z \in 1 .. Size : z = Gap(f.hint)
        BY <1>1, <1>3, <1>4, <2>3, <3>2
      <4>2. f.start + z <= i + 1
        BY <1>1, <1>3, <1>4, <2>3, <3>2, <4>1
      <4>3. Ends(Carve(st, z, FALSE), st.found, f, i + 1)
        BY <4>2, CarveEnds
      <4>4. PICK list : list = Carve(st, z, FALSE)
        OBVIOUS
      <4>5. new.file = NoFile /\ new.found = list
        BY <3>1, <3>2, <4>1, <4>4
      <4> HIDE DEF new
      <4> QED
        BY <2>3, <4>3, <4>4, <4>5
    <3> QED
      BY <3>1, <3>2
  <2> QED
    BY <2>1, <2>2, <2>3
<1>6. CASE disk[i].kind = "empty"
  <2>1. new = AtPlain(disk, st, i + 1) /\ ~IsHeader(i)
    BY <1>6 DEF ScanSector, IsHeader
  <2> QED
    BY <1>5, <2>1
<1>7. CASE disk[i].kind = "data"
  <2>1. new = AtPlain(disk, st, i) /\ ~IsHeader(i)
    BY <1>7 DEF ScanSector, IsHeader
  <2> QED
    BY <1>5, <2>1
<1>8. CASE disk[i].kind = "header"
  <2>1. new = AtHeader(disk, st, i, e, h) /\ IsHeader(i)
    BY <1>8 DEF ScanSector, IsHeader
  <2>2. h \in Hints
    BY <1>2, <1>8 DEF SectorType
  <2>3. CASE Embedded(f, i, h)
    BY <2>1, <2>3 DEF AtHeader, Embedded
  <2>4. CASE ~Embedded(f, i, h)
    <3>1. new = [file |-> [start |-> i, hint |-> h, footer |-> FooterAt(disk, i, e, h)],
                 found |-> IF f.hint = NoHint THEN st.found ELSE Carve(st, SizeBefore(disk, f, i, e), TinyBefore(disk, f, i, e))]
      BY <2>1, <2>4 DEF AtHeader
    <3>5. PICK foot : foot = FooterAt(disk, i, e, h)
      OBVIOUS
    <3>6. foot \in 0 .. Size /\ (foot > 0 => foot > i) /\ (foot = i + 1 => disk[i].footer = h)
      BY <1>1, <2>2, <3>5, FooterIs
    <3>7. new.file = [start |-> i, hint |-> h, footer |-> foot]
      BY <3>1, <3>5
    <3>2. FileOK(new.file, i + 1)
      <4> HIDE DEF new
      <4> QED
        BY <1>1, <2>2, <3>6, <3>7 DEF FileOK
    <3>4. Begun(new.file)
      <4> HIDE DEF new
      <4> QED
        BY <1>1, <2>1, <2>2, <3>6, <3>7 DEF Begun
    <3>3. CASE f.hint # NoHint
      <4>1. SizeBefore(disk, f, i, e) \in 1 .. Size /\ f.start + SizeBefore(disk, f, i, e) <= i
        <5> DEFINE span == Min({i - f.start, Gap(f.hint)})
                   at == FooterAt(disk, i, e, f.hint)
        <5>1. span \in 1 .. i - f.start
          <6>1. i - f.start \in Nat \ {0} /\ Gap(f.hint) \in Nat \ {0}
            BY <1>1, <1>3, <1>4, <3>3
          <6> QED
            BY <6>1, MinOfTwo
        <5>2. at \in 0 .. Size /\ (at > 0 => at > i)
          BY <1>1, <1>3, <3>3, FooterIs
        <5>3. SizeBefore(disk, f, i, e) =
                CASE f.footer > 0 -> Min({f.footer - f.start, span})
                  [] f.footer = 0 /\ at > 0 -> Min({at - i, span})
                  [] f.footer = 0 /\ at = 0 -> span
          BY DEF SizeBefore
        <5> HIDE DEF span, at
        <5>4. i - f.start \in Nat /\ i - f.start <= Size /\ f.start + (i - f.start) = i
          BY <1>1, <1>3, <3>3
        <5>5. CASE f.footer > 0
          <6>1. f.footer - f.start \in Nat \ {0}
            BY <1>3, <3>3, <5>5
          <6>2. Min({f.footer - f.start, span}) \in 1 .. i - f.start
            <7>1. PICK a \in Nat \ {0} : a = f.footer - f.start
              BY <6>1
            <7>2. Min({a, span}) \in 1 .. i - f.start
              BY <5>1, <5>4, MinOfTwo
            <7> QED
              BY <7>1, <7>2
          <6>3. SizeBefore(disk, f, i, e) \in 1 .. i - f.start
            BY <5>3, <5>5, <6>2
          <6> QED
            BY <1>1, <1>3, <3>3, <5>4, <6>3
        <5>6. CASE f.footer = 0 /\ at > 0
          <6>1. at - i \in Nat \ {0}
            BY <1>1, <5>2, <5>6
          <6>2. Min({at - i, span}) \in 1 .. i - f.start
            BY <1>1, <5>1, <5>4, <6>1, MinOfTwo
          <6>3. SizeBefore(disk, f, i, e) \in 1 .. i - f.start
            BY <5>3, <5>6, <6>2
          <6> QED
            BY <1>1, <1>3, <3>3, <5>4, <6>3
        <5>7. CASE f.footer = 0 /\ at = 0
          BY <1>1, <1>3, <3>3, <5>1, <5>3, <5>4, <5>7
        <5> QED
          BY <1>3, <3>3, <5>2, <5>5, <5>6, <5>7
      <4>3. TinyBefore(disk, f, i, e) => ~LongEnough(f.start)
        <5>1. CASE f.footer > 0
          BY <1>10, <3>3, <5>1 DEF TinyBefore
        <5>2. CASE ~(f.footer > 0) /\ FooterAt(disk, i, e, f.hint) = i + 1 /\ disk[i].short
          <6>1. disk[i].footer = f.hint /\ i \in ExaminedHeaders /\ f.start <= i
            BY <1>1, <1>3, <2>1, <3>3, <5>2, FooterIs
          <6> QED
            BY <3>3, <5>2, <6>1, FooterTooEarly
        <5> QED
          BY <5>1, <5>2 DEF TinyBefore
      <4>2. Ends(new.found, st.found, f, i)
        <5>1. PICK z \in 1 .. Size : z = SizeBefore(disk, f, i, e) /\ f.start + z <= i
          BY <4>1
        <5>2. PICK tiny : tiny = TinyBefore(disk, f, i, e)
          OBVIOUS
        <5>3. Ends(Carve(st, z, tiny), st.found, f, i)
          BY <4>3, <5>1, <5>2, CarveEnds
        <5> QED
          BY <3>1, <3>3, <5>1, <5>2, <5>3
      <4> QED
        BY <2>1, <2>2, <3>1, <3>2, <3>3, <3>4, <4>2
    <3> QED
      BY <2>1, <2>2, <3>1, <3>2, <3>3, <3>4
  <2> QED
    BY <2>3, <2>4
<1>9. disk[i].kind \in {"empty", "data", "header"}
  BY <1>2 DEF SectorType
<1> QED
  BY <1>6, <1>7, <1>8, <1>9

LEMMA NodeNumbers ==
  ASSUME NEW t, t \in Seq(Node) \/ t \in Seq(EntryType), NEW k \in DOMAIN t
  PROVE  t[k].start \in Nat /\ t[k].size \in Nat
<1>1. t[k] \in Node \/ t[k] \in EntryType
  OBVIOUS
<1> QED
  BY <1>1, GeometryAssumption DEF Node, EntryType, Sectors

LEMMA InOrderUpTo ==
  ASSUME NEW t, t \in Seq(Node) \/ t \in Seq(EntryType), NEW lo, NEW mid \in Nat, NEW hi \in Nat,
         InOrder(t, lo, mid), mid <= hi
  PROVE  InOrder(t, lo, hi)
<1>1. ASSUME NEW k \in DOMAIN t
      PROVE  lo <= t[k].start /\ t[k].start + t[k].size <= hi
  <2>1. t[k].start \in Nat /\ t[k].size \in Nat
    BY NodeNumbers
  <2>2. lo <= t[k].start /\ t[k].start + t[k].size <= mid
    BY DEF InOrder
  <2> QED
    BY <2>1, <2>2
<1> QED
  BY <1>1 DEF InOrder

LEMMA AppendIs ==
  ASSUME NEW S, NEW s \in Seq(S), NEW e \in S
  PROVE  /\ Append(s, e) \in Seq(S) /\ Len(s) \in Nat /\ Len(Append(s, e)) = Len(s) + 1
         /\ DOMAIN s = 1 .. Len(s) /\ DOMAIN Append(s, e) = 1 .. Len(s) + 1
         /\ Append(s, e)[Len(s) + 1] = e /\ \A k \in 1 .. Len(s) : s[k] \in S /\ Append(s, e)[k] = s[k]
  OBVIOUS

\* The file that ends, z sectors long and before limit, joins a list that starts at lo.
Joins(new, list, f, z, lo, limit) ==
  /\ f.start + z <= limit /\ Len(list) + lo <= f.start /\ InOrder(list, lo, f.start)
  /\ new = Append(list, [start |-> f.start, size |-> z, hint |-> f.hint])

\* It is the last in the list, and it keeps the order.
LEMMA CarveKeepsOrder ==
  ASSUME NEW list \in Seq(EntryType), NEW lo \in Nat, NEW f, NEW limit \in Nat, NEW z \in 1 .. Size,
         f.hint \in Hints, f.start \in Sectors, NEW new, Joins(new, list, f, z, lo, limit)
  PROVE  /\ new \in Seq(EntryType) /\ Len(new) + lo <= limit /\ InOrder(new, lo, limit)
         /\ Lists(new, f.start, f.hint)
         /\ \A s, h : Lists(list, s, h) => Lists(new, s, h)
<1> DEFINE e == [start |-> f.start, size |-> z, hint |-> f.hint]
<1> /\ f.start + z <= limit /\ Len(list) + lo <= f.start /\ InOrder(list, lo, f.start)
    /\ new = Append(list, [start |-> f.start, size |-> z, hint |-> f.hint])
  BY DEF Joins
<1>1. e \in EntryType /\ e.start = f.start /\ e.size = z /\ e.hint = f.hint /\ new = Append(list, e)
  BY DEF EntryType
<1> HIDE DEF e
<1>2. /\ new \in Seq(EntryType) /\ Len(list) \in Nat /\ Len(new) = Len(list) + 1
      /\ DOMAIN list = 1 .. Len(list) /\ DOMAIN new = 1 .. Len(list) + 1
      /\ new[Len(list) + 1] = e /\ \A k \in 1 .. Len(list) : list[k] \in EntryType /\ new[k] = list[k]
  BY <1>1, AppendIs
<1>3. f.start \in Nat /\ z \in Nat /\ z >= 1 /\ \A k \in 1 .. Len(list) : list[k].start \in Nat /\ list[k].size \in Nat
  BY <1>2, GeometryAssumption DEF Sectors, EntryType
<1>4. \A k \in 1 .. Len(list) + 1 : k \in 1 .. Len(list) \/ k = Len(list) + 1
  BY <1>2
<1>5. Len(new) + lo <= limit
  BY <1>2, <1>3
<1>6. InOrder(new, lo, limit)
  <2>1. ASSUME NEW k \in 1 .. Len(list) + 1
        PROVE  lo <= new[k].start /\ new[k].start + new[k].size <= limit
    <3>1. CASE k = Len(list) + 1
      BY <1>1, <1>2, <1>3, <3>1
    <3>2. CASE k \in 1 .. Len(list)
      BY <1>2, <1>3, <3>2 DEF InOrder
    <3> QED
      BY <1>4, <3>1, <3>2
  <2>2. ASSUME NEW j \in 1 .. Len(list) + 1, NEW k \in 1 .. Len(list) + 1, j < k
        PROVE  new[j].start + new[j].size <= new[k].start
    <3>1. j \in 1 .. Len(list)
      BY <1>2, <2>2
    <3>2. CASE k = Len(list) + 1
      BY <1>1, <1>2, <1>3, <3>1, <3>2 DEF InOrder
    <3>3. CASE k \in 1 .. Len(list)
      BY <1>2, <2>2, <3>1, <3>3 DEF InOrder
    <3> QED
      BY <1>4, <3>2, <3>3
  <2> QED
    BY <1>2, <2>1, <2>2 DEF InOrder
<1>7. Lists(new, f.start, f.hint)
  <2>1. Len(list) + 1 \in DOMAIN new
    BY <1>2
  <2> QED
    BY <1>1, <1>2, <2>1 DEF Lists
<1>8. \A s, h : Lists(list, s, h) => Lists(new, s, h)
  <2>1. \A k \in DOMAIN list : k \in DOMAIN new /\ new[k] = list[k]
    BY <1>2
  <2> QED
    BY <2>1 DEF Lists
<1> QED
  BY <1>2, <1>5, <1>6, <1>7, <1>8

LEMMA HeadersAreSectors == \A s \in ExaminedHeaders : s \in Sectors /\ s \in Nat
<1> SUFFICES ASSUME NEW s \in ExaminedHeaders PROVE s \in Sectors /\ s \in Nat
  OBVIOUS
<1>1. PICK p \in ChunkStarts : s \in Examined(p)
  BY DEF ExaminedHeaders
<1>2. p \in Nat /\ p % Chunk = 0 /\ p < Size
  BY GeometryAssumption DEF ChunkStarts, Sectors
<1>3. s \in Sectors
  BY <1>1, <1>2, BufferIs
<1> QED
  BY <1>3, GeometryAssumption DEF Sectors

\* A header that is taken for an embedded one does not start a file.
LEMMA OwnIsNotEmbedded ==
  ASSUME NEW f, NEW i \in ExaminedHeaders, LastHint(f, i), f.hint # NoHint, f.hint = disk[i].hint
  PROVE  ~OwnFile(i)
<1> DEFINE before == {r \in ExaminedHeaders : r < i}
<1>1. PICK r \in ExaminedHeaders : r < i /\ disk[r].hint = f.hint /\ \A q \in ExaminedHeaders : q < i => q <= r
  BY DEF LastHint
<1>2. i \in Nat /\ \A q \in ExaminedHeaders : q \in Nat
  BY HeadersAreSectors
<1>3. before \in SUBSET (0 .. i) /\ r \in before
  BY <1>1, <1>2
<1> HIDE DEF before
<1>4. Max(before) \in before /\ r <= Max(before)
  BY <1>2, <1>3, MaxIs
<1>5. Max(before) = r
  <2>1. PICK m : m = Max(before)
    OBVIOUS
  <2>2. m \in ExaminedHeaders /\ m < i /\ r <= m
    BY <1>4, <2>1 DEF before
  <2>3. m <= r
    BY <1>1, <2>2
  <2> QED
    BY <1>2, <2>1, <2>2, <2>3
<1> QED
  BY <1>1, <1>3, <1>5 DEF OwnFile, before

\* What the machine has when it comes to sector i of the chunk at p, with f0 open at its start.
Machine(st, f0, p, i) ==
  /\ FileOK(st.file, i) /\ LastHint(st.file, i)
  /\ st.found \in Seq(EntryType) /\ Len(st.found) + Edge(f0, p) <= Edge(st.file, i)
  /\ InOrder(st.found, Edge(f0, p), Edge(st.file, i))
  /\ f0.hint # NoHint /\ LongEnough(f0.start) => Holds(st.file, f0.start, f0.hint) \/ Lists(st.found, f0.start, f0.hint)
  /\ \A s \in ExaminedHeaders : p <= s /\ s < i /\ Starts(s) =>
       Holds(st.file, s, disk[s].hint) \/ Lists(st.found, s, disk[s].hint)

LEMMA MachineStep ==
  ASSUME disk \in [Sectors -> SectorType], NEW p \in ChunkStarts, NEW i \in Examined(p), NEW f0, FileOK(f0, p),
         NEW st, Machine(st, f0, p, i)
  PROVE  Machine(ScanSector(disk, st, i, BufferEnd(p)), f0, p, i + 1)
<1> DEFINE e == BufferEnd(p)
<1>1. p \in Nat /\ p % Chunk = 0 /\ p < Size
  BY GeometryAssumption DEF ChunkStarts, Sectors
<1>2. /\ e \in 0 .. Size /\ i \in Sectors /\ i \in Nat /\ p <= i /\ i + 1 \in Nat
  BY <1>1, BufferIs, GeometryAssumption DEF Examined, Sectors
<1> HIDE DEF e
<1> DEFINE h == disk[i].hint
           f == st.file
<1>3. FileOK(f, i) /\ Begun(f)
  BY DEF Machine, LastHint, Begun
<1>4. f.hint # NoHint => f.hint \in Hints /\ f.start \in Sectors /\ f.start \in Nat /\ f.start < i
  BY <1>3, GeometryAssumption DEF FileOK, NoFile, Sectors
<1>5. Edge(f0, p) \in Nat /\ Edge(f, i) \in Nat
  BY <1>1, <1>2, <1>4, GeometryAssumption DEF FileOK, NoFile, Edge, Sectors
<1>6. IsHeader(i) <=> i \in ExaminedHeaders
  BY DEF ExaminedHeaders
<1>7. \A s \in ExaminedHeaders : s < i + 1 => s < i \/ s = i
  BY <1>2, HeadersAreSectors
<1>8. PICK new : new = ScanSector(disk, st, i, e)
  OBVIOUS
<1>9. CASE new = st /\ (IsHeader(i) => f.hint = h)
  <2>1. FileOK(f, i + 1)
    <3>1. CASE f = NoFile
      BY <3>1 DEF FileOK
    <3>2. CASE f # NoFile
      <4>1. /\ f.hint \in Hints /\ f.start \in Sectors /\ f.start < i
            /\ f.footer \in 0 .. Size /\ (f.footer > 0 => f.footer > f.start)
        BY <1>3, <3>2 DEF FileOK
      <4>2. f.start < i + 1
        BY <1>2, <4>1, GeometryAssumption DEF Sectors
      <4> QED
        BY <4>1, <4>2 DEF FileOK
    <3> QED
      BY <3>1, <3>2
  <2>2. LastHint(f, i + 1)
    <3>1. CASE IsHeader(i)
      BY <1>2, <1>3, <1>6, <1>7, <1>9, <3>1, HeadersAreSectors DEF LastHint
    <3>2. CASE ~IsHeader(i)
      BY <1>2, <1>6, <1>7, <3>2, HeadersAreSectors DEF LastHint, Machine
    <3> QED
      BY <3>1, <3>2
  <2>3. Edge(f, i) <= Edge(f, i + 1) /\ Edge(f, i + 1) \in Nat
    BY <1>2, <1>4 DEF Edge
  <2>4. Len(st.found) + Edge(f0, p) <= Edge(f, i + 1)
    <3>1. Len(st.found) \in Nat /\ Len(st.found) + Edge(f0, p) <= Edge(f, i)
      BY DEF Machine
    <3> QED
      BY <1>5, <2>3, <3>1
  <2>5. InOrder(st.found, Edge(f0, p), Edge(f, i + 1))
    <3>1. \A k \in DOMAIN st.found : st.found[k].start \in Nat /\ st.found[k].size \in Nat
      <4>1. st.found \in Seq(EntryType)
        BY DEF Machine
      <4>2. \A k \in DOMAIN st.found : st.found[k] \in EntryType
        BY <4>1
      <4> QED
        BY <4>2, GeometryAssumption DEF EntryType, Sectors
    <3>2. InOrder(st.found, Edge(f0, p), Edge(f, i))
      BY DEF Machine
    <3>3. PICK hi \in Nat : hi = Edge(f, i) /\ hi <= Edge(f, i + 1)
      BY <1>5, <2>3
    <3>4. PICK higher \in Nat : higher = Edge(f, i + 1)
      BY <2>3
    <3>5. \A k \in DOMAIN st.found : st.found[k].start + st.found[k].size <= higher
      BY <3>1, <3>2, <3>3, <3>4 DEF InOrder
    <3> QED
      BY <3>2, <3>4, <3>5 DEF InOrder
  <2>6. ASSUME NEW s \in ExaminedHeaders, p <= s, s < i + 1, Starts(s)
        PROVE  Holds(f, s, disk[s].hint) \/ Lists(st.found, s, disk[s].hint)
    <3>1. CASE s < i
      BY <2>6, <3>1 DEF Machine
    <3>2. CASE s = i
      <4>1. f.hint = h /\ h \in Hints
        BY <1>2, <1>6, <1>9, <3>2 DEF SectorType, IsHeader
      <4>2. f.hint # NoHint
        BY <4>1, TypesAssumption DEF NoHint
      <4> QED
        BY <2>6, <3>2, <4>1, <4>2, OwnIsNotEmbedded DEF Machine, Starts
    <3> QED
      BY <1>7, <2>6, <3>1, <3>2
  <2> QED
    BY <1>8, <1>9, <2>1, <2>2, <2>4, <2>5, <2>6 DEF Machine, e
<1>10. ASSUME f.hint # NoHint, NEW limit \in Nat, f.start <= limit, Ends(new.found, st.found, f, limit)
       PROVE  /\ new.found \in Seq(EntryType) /\ Len(new.found) + Edge(f0, p) <= limit
              /\ InOrder(new.found, Edge(f0, p), limit)
              /\ f0.hint # NoHint /\ LongEnough(f0.start) => Lists(new.found, f0.start, f0.hint)
              /\ \A s \in ExaminedHeaders : p <= s /\ s < i /\ Starts(s) => Lists(new.found, s, disk[s].hint)
  <2>1. st.found \in Seq(EntryType) /\ Len(st.found) + Edge(f0, p) <= f.start /\ InOrder(st.found, Edge(f0, p), f.start)
    BY <1>10 DEF Machine, Edge
  <2>2. CASE new.found = st.found /\ ~LongEnough(f.start)
    <3>1. PICK lo \in Nat, at \in Nat : lo = Edge(f0, p) /\ at = f.start
      BY <1>4, <1>5, <1>10
    <3>2. PICK n \in Nat : n = Len(st.found)
      BY <2>1
    <3>3. Len(new.found) + lo <= limit
      BY <1>10, <2>1, <2>2, <3>1, <3>2
    <3>4. InOrder(new.found, lo, limit)
      BY <1>10, <2>1, <2>2, <3>1, InOrderUpTo
    <3>5. \A s, t : LongEnough(s) => ~Holds(f, s, t)
      BY <2>2 DEF Holds
    <3>6. f0.hint # NoHint /\ LongEnough(f0.start) => Lists(new.found, f0.start, f0.hint)
      BY <2>2, <3>5 DEF Machine
    <3>7. \A s \in ExaminedHeaders : p <= s /\ s < i /\ Starts(s) => Lists(new.found, s, disk[s].hint)
      BY <2>2, <3>5 DEF Machine, Starts
    <3> QED
      BY <2>1, <2>2, <3>1, <3>3, <3>4, <3>6, <3>7
  <2>3. ASSUME NEW z \in 1 .. Size, f.start + z <= limit,
               new.found = Append(st.found, [start |-> f.start, size |-> z, hint |-> f.hint])
        PROVE  /\ new.found \in Seq(EntryType) /\ Len(new.found) + Edge(f0, p) <= limit
               /\ InOrder(new.found, Edge(f0, p), limit)
               /\ Lists(new.found, f.start, f.hint)
               /\ \A s, t : Lists(st.found, s, t) => Lists(new.found, s, t)
    <3> HIDE DEF f
    <3>1. Joins(new.found, st.found, f, z, Edge(f0, p), limit)
      BY <2>1, <2>3 DEF Joins
    <3> QED
      BY <1>4, <1>5, <1>10, <2>1, <3>1, CarveKeepsOrder
  <2>4. CASE ~(new.found = st.found /\ ~LongEnough(f.start))
    <3>1. PICK z \in 1 .. Size : /\ f.start + z <= limit
                                 /\ new.found = Append(st.found, [start |-> f.start, size |-> z, hint |-> f.hint])
      BY <1>10, <2>4 DEF Ends
    <3>2. /\ new.found \in Seq(EntryType) /\ Len(new.found) + Edge(f0, p) <= limit
          /\ InOrder(new.found, Edge(f0, p), limit)
          /\ Lists(new.found, f.start, f.hint)
          /\ \A s, t : Lists(st.found, s, t) => Lists(new.found, s, t)
      BY <2>3, <3>1
    <3>3. \A s, t : Holds(f, s, t) \/ Lists(st.found, s, t) => Lists(new.found, s, t)
      BY <3>2 DEF Holds
    <3> QED
      BY <3>2, <3>3 DEF Machine
  <2> QED
    BY <2>2, <2>4
<1>11. CASE /\ ~IsHeader(i) /\ f.hint # NoHint /\ new.file = NoFile
            /\ Ends(new.found, st.found, f, i + 1)
  <2>1. FileOK(new.file, i + 1) /\ LastHint(new.file, i + 1) /\ Edge(new.file, i + 1) = i + 1
    BY <1>11 DEF FileOK, LastHint, Edge, NoFile
  <2>3. f.start <= i + 1
    BY <1>2, <1>4, <1>11
  <2>2. \A s \in ExaminedHeaders : s < i + 1 => s < i
    BY <1>6, <1>7, <1>11
  <2> QED
    BY <1>2, <1>8, <1>10, <1>11, <2>1, <2>2, <2>3 DEF Machine, e
<1>12. CASE /\ IsHeader(i) /\ h \in Hints
            /\ new.file.start = i /\ new.file.hint = h /\ FileOK(new.file, i + 1) /\ Begun(new.file)
            /\ IF f.hint = NoHint THEN new.found = st.found ELSE Ends(new.found, st.found, f, i)
  <2>1. h # NoHint
    BY <1>12, TypesAssumption DEF NoHint
  <2>2. LastHint(new.file, i + 1) /\ Edge(new.file, i + 1) = i
    BY <1>2, <1>6, <1>7, <1>12, <2>1, HeadersAreSectors DEF LastHint, Edge
  <2>3. Holds(new.file, i, h)
    BY <1>12 DEF Holds
  <2>4. CASE f.hint = NoHint /\ new.found = st.found
    <3>1. Edge(f, i) = i
      BY <2>4 DEF Edge
    <3>2. \A s, t : Holds(f, s, t) => t = NoHint
      BY <2>4 DEF Holds
    <3>3. \A s \in ExaminedHeaders : disk[s].hint # NoHint
      BY HeadersAreSectors, TypesAssumption DEF ExaminedHeaders, IsHeader, SectorType, NoHint
    <3>4. ASSUME NEW s \in ExaminedHeaders, p <= s, s < i + 1, Starts(s)
          PROVE  Holds(new.file, s, disk[s].hint) \/ Lists(new.found, s, disk[s].hint)
      BY <1>7, <2>3, <2>4, <3>2, <3>3, <3>4 DEF Machine
    <3>5. f0.hint # NoHint /\ LongEnough(f0.start) => Lists(new.found, f0.start, f0.hint)
      BY <2>4, <3>2 DEF Machine
    <3>6. /\ new.found \in Seq(EntryType) /\ Len(new.found) + Edge(f0, p) <= i
          /\ InOrder(new.found, Edge(f0, p), i)
      BY <2>4, <3>1 DEF Machine
    <3> QED
      BY <1>8, <1>12, <2>2, <3>4, <3>5, <3>6 DEF Machine, e
  <2>5. CASE f.hint # NoHint /\ Ends(new.found, st.found, f, i)
    <3>1. /\ new.found \in Seq(EntryType) /\ Len(new.found) + Edge(f0, p) <= i
          /\ InOrder(new.found, Edge(f0, p), i)
          /\ f0.hint # NoHint /\ LongEnough(f0.start) => Lists(new.found, f0.start, f0.hint)
          /\ \A s \in ExaminedHeaders : p <= s /\ s < i /\ Starts(s) => Lists(new.found, s, disk[s].hint)
      BY <1>2, <1>4, <1>10, <2>5
    <3>2. ASSUME NEW s \in ExaminedHeaders, p <= s, s < i + 1, Starts(s)
          PROVE  Holds(new.file, s, disk[s].hint) \/ Lists(new.found, s, disk[s].hint)
      BY <1>7, <2>3, <3>1, <3>2
    <3> QED
      BY <1>8, <1>12, <2>2, <3>1, <3>2 DEF Machine, e
  <2> QED
    BY <1>12, <2>4, <2>5
<1> QED
  <2>1. \/ new = st /\ (IsHeader(i) => f.hint = h)
        \/ /\ ~IsHeader(i) /\ f.hint # NoHint /\ new.file = NoFile
           /\ Ends(new.found, st.found, f, i + 1)
        \/ /\ IsHeader(i) /\ h \in Hints
           /\ new.file.start = i /\ new.file.hint = h /\ FileOK(new.file, i + 1) /\ Begun(new.file)
           /\ IF f.hint = NoHint THEN new.found = st.found ELSE Ends(new.found, st.found, f, i)
    BY <1>2, <1>3, <1>6, <1>8, ScanSectorIs
  <2> QED
    BY <1>9, <1>11, <1>12, <2>1

\* The states of the machine, sector by sector.
StatesOf(st, d, f0, p) ==
  /\ ScanChunk(d, f0, p) = st[BufferEnd(p)]
  /\ \A i \in 0 .. Size : st[i] = IF i <= p THEN [file |-> f0, found |-> <<>>]
                                ELSE ScanSector(d, st[i - 1], i - 1, BufferEnd(p))

LEMMA ChunkStates ==
  ASSUME NEW d, NEW f0, NEW p \in Nat, BufferEnd(p) \in 0 .. Size
  PROVE  \E st : StatesOf(st, d, f0, p)
<1> DEFINE e == BufferEnd(p)
           Is(f, n) == f = [i \in 0 .. n |-> IF i <= p THEN [file |-> f0, found |-> <<>>]
                                             ELSE ScanSector(d, f[i - 1], i - 1, e)]
           missing == {n \in Nat : ~\E f : Is(f, n)}
<1>0. Size \in Nat
  BY GeometryAssumption
<1>1. missing = {}
  <2> SUFFICES ASSUME missing # {} PROVE FALSE
    OBVIOUS
  <2>1. PICK m \in missing : \A k \in missing : m <= k
    <3>1. missing \in SUBSET Nat
      OBVIOUS
    <3> HIDE DEF missing
    <3> QED
      BY <3>1, LeastNat
  <2>2. m \in Nat /\ ~\E f : Is(f, m)
    OBVIOUS
  <2>3. CASE m = 0
    <3> DEFINE g == [i \in 0 .. 0 |-> [file |-> f0, found |-> <<>>]]
    <3>1. \A i \in 0 .. 0 : i <= p
      OBVIOUS
    <3>2. \A i \in 0 .. 0 : g[i] = IF i <= p THEN [file |-> f0, found |-> <<>>]
                                   ELSE ScanSector(d, g[i - 1], i - 1, e)
      BY <3>1
    <3>3. Is(g, 0)
      BY <3>2, Zenon
    <3> QED
      BY <2>2, <2>3, <3>3, Zenon
  <2>4. CASE m # 0
    <3>1. m - 1 \in Nat /\ ~(m <= m - 1)
      BY <2>2, <2>4
    <3>2. PICK f : Is(f, m - 1)
      BY <2>1, <3>1
    <3> DEFINE last == IF m <= p THEN [file |-> f0, found |-> <<>>] ELSE ScanSector(d, f[m - 1], m - 1, e)
               g == [i \in 0 .. m |-> IF i = m THEN last ELSE f[i]]
    <3>3. ASSUME NEW i \in 0 .. m
          PROVE  g[i] = IF i <= p THEN [file |-> f0, found |-> <<>>] ELSE ScanSector(d, g[i - 1], i - 1, e)
      <4>1. CASE i = m
        <5>1. g[m] = last
          BY <2>2
        <5>2. m - 1 \in 0 .. m /\ m - 1 # m
          BY <2>2, <2>4
        <5>3. g[m - 1] = f[m - 1]
          BY <5>2
        <5> HIDE DEF g
        <5> QED
          BY <4>1, <5>1, <5>3
      <4>2. CASE i # m
        <5>1. i \in 0 .. m - 1 /\ g[i] = f[i]
          BY <2>2, <4>2
        <5>2. f[i] = IF i <= p THEN [file |-> f0, found |-> <<>>] ELSE ScanSector(d, f[i - 1], i - 1, e)
          BY <3>2, <5>1, Zenon
        <5>3. i > p => i - 1 \in 0 .. m /\ i - 1 # m
          BY <2>2, <4>2
        <5>4. i > p => g[i - 1] = f[i - 1]
          BY <5>3
        <5>5. i <= p \/ i > p
          BY <2>2
        <5> HIDE DEF g
        <5> QED
          BY <5>1, <5>2, <5>4, <5>5
      <4> QED
        BY <4>1, <4>2
    <3>4. Is(g, m)
      BY <3>3, Zenon
    <3> QED
      BY <2>2, <3>4, Zenon
  <2> QED
    BY <2>3, <2>4
<1> DEFINE st == CHOOSE f : Is(f, Size)
<1>2. \E f : Is(f, Size)
  <2>1. Size \notin missing
    BY <1>1
  <2> QED
    BY <1>0, <2>1
<1>3. Is(st, Size)
  BY <1>2, Zenon
<1>4. ScanChunk(d, f0, p) = st[e]
  BY DEF ScanChunk
<1>5. \A i \in 0 .. Size : st[i] = IF i <= p THEN [file |-> f0, found |-> <<>>]
                                   ELSE ScanSector(d, st[i - 1], i - 1, e)
  BY <1>3, Zenon
<1> HIDE DEF st
<1> QED
  BY <1>4, <1>5 DEF StatesOf

LEMMA ChunkMachine ==
  ASSUME disk \in [Sectors -> SectorType], NEW p \in ChunkStarts, NEW f0, FileOK(f0, p), LastHint(f0, p)
  PROVE  Machine(ScanChunk(disk, f0, p), f0, p, IF p < BufferEnd(p) THEN BufferEnd(p) ELSE p)
<1> DEFINE e == BufferEnd(p)
<1>1. p \in Nat /\ p % Chunk = 0 /\ p < Size /\ Size \in Nat
  BY GeometryAssumption DEF ChunkStarts, Sectors
<1>2. e \in 0 .. Size
  BY <1>1, BufferIs
<1>3. PICK st : /\ ScanChunk(disk, f0, p) = st[e]
                /\ \A i \in 0 .. Size : st[i] = IF i <= p THEN [file |-> f0, found |-> <<>>]
                                                ELSE ScanSector(disk, st[i - 1], i - 1, e)
  <2>1. BufferEnd(p) \in 0 .. Size /\ p \in Nat
    BY <1>1, <1>2
  <2>2. PICK st : StatesOf(st, disk, f0, p)
    BY <2>1, ChunkStates
  <2> QED
    BY <2>2 DEF StatesOf
<1> HIDE DEF e
<1>4. Machine([file |-> f0, found |-> <<>>], f0, p, p)
  <2> DEFINE s0 == [file |-> f0, found |-> <<>>]
  <2>1. s0.file = f0 /\ s0.found = <<>>
    OBVIOUS
  <2> HIDE DEF s0
  <2>2. s0.found \in Seq(EntryType) /\ Len(s0.found) = 0 /\ DOMAIN s0.found = {}
    BY <2>1
  <2>3. Edge(f0, p) \in Nat
    BY <1>1, GeometryAssumption DEF FileOK, NoFile, Edge, Sectors
  <2>4. Len(s0.found) + Edge(f0, p) <= Edge(s0.file, p)
    BY <2>1, <2>2, <2>3
  <2>5. InOrder(s0.found, Edge(f0, p), Edge(s0.file, p))
    BY <2>2 DEF InOrder
  <2>6. Holds(s0.file, f0.start, f0.hint)
    BY <2>1 DEF Holds
  <2>7. \A s \in ExaminedHeaders : ~(p <= s /\ s < p)
    BY <1>1, HeadersAreSectors
  <2>8. Machine(s0, f0, p, p)
    BY <2>1, <2>2, <2>4, <2>5, <2>6, <2>7 DEF Machine
  <2> QED
    BY <2>8 DEF s0
<1> DEFINE bad == {i \in p .. e : ~Machine(st[i], f0, p, i)}
<1>5. bad = {}
  <2> SUFFICES ASSUME bad # {} PROVE FALSE
    OBVIOUS
  <2>1. PICK m \in bad : \A k \in bad : m <= k
    <3>1. bad \in SUBSET Nat
      BY <1>1, <1>2
    <3> HIDE DEF bad
    <3> QED
      BY <3>1, LeastNat
  <2>2. m \in p .. e /\ ~Machine(st[m], f0, p, m) /\ m \in 0 .. Size
    BY <1>1, <1>2
  <2>3. CASE m = p
    <3>1. st[m] = [file |-> f0, found |-> <<>>]
      BY <1>1, <1>3, <2>2, <2>3
    <3> QED
      BY <1>4, <2>2, <2>3, <3>1
  <2>4. CASE m # p
    <3>1. m - 1 \in p .. e /\ m - 1 < m /\ m > p /\ (m - 1) + 1 = m /\ m - 1 \in Examined(p)
      BY <1>1, <1>2, <2>2, <2>4 DEF Examined, e
    <3>2. Machine(st[m - 1], f0, p, m - 1)
      BY <1>1, <2>1, <2>2, <3>1
    <3>3. st[m] = ScanSector(disk, st[m - 1], m - 1, e)
      BY <1>1, <1>3, <2>2, <3>1
    <3>4. Machine(st[m], f0, p, m)
      <4>1. PICK i \in Examined(p) : i = m - 1
        BY <3>1
      <4>2. Machine(ScanSector(disk, st[i], i, e), f0, p, i + 1)
        BY <3>2, <4>1, MachineStep DEF e
      <4> QED
        BY <3>1, <3>3, <4>1, <4>2
    <3> QED
      BY <2>2, <3>4
  <2> QED
    BY <2>3, <2>4
<1>6. CASE p < e
  <2>1. e \in p .. e
    BY <1>1, <1>2, <1>6
  <2>2. Machine(st[e], f0, p, e)
    BY <1>5, <2>1
  <2> QED
    BY <1>3, <1>6, <2>2 DEF e
<1>7. CASE ~(p < e)
  <2>1. st[e] = [file |-> f0, found |-> <<>>]
    BY <1>1, <1>2, <1>3, <1>7
  <2> QED
    BY <1>3, <1>4, <1>7, <2>1 DEF e
<1> QED
  BY <1>6, <1>7
\* No header that is examined lies between the end of a chunk's buffer and the next chunk.
LEMMA ExaminedBelow ==
  ASSUME NEW p \in ChunkStarts, NEW s \in ExaminedHeaders, s < p + Chunk
  PROVE  s < BufferEnd(p) \/ s < p
<1>1. PICK q \in ChunkStarts : s \in Examined(q)
  BY DEF ExaminedHeaders
<1>2. p \in Nat /\ p % Chunk = 0 /\ p < Size /\ q \in Nat /\ q % Chunk = 0 /\ q < Size
  BY GeometryAssumption DEF ChunkStarts, Sectors
<1>3. s \in Nat /\ q <= s /\ s < BufferEnd(q) /\ BufferEnd(q) \in Nat /\ BufferEnd(q) <= q + Chunk
  BY <1>1, <1>2, BufferIs, HeadersAreSectors, GeometryAssumption DEF Examined
<1>4. q < p + Chunk
  BY <1>2, <1>3, GeometryAssumption
<1>5. q <= p
  BY <1>2, <1>4, ChunksApart
<1>6. CASE q = p
  BY <1>3, <1>6
<1>7. CASE q < p
  <2>1. ~(p < q + Chunk)
    BY <1>2, <1>7, ChunksApart
  <2> QED
    BY <1>2, <1>3, <2>1, GeometryAssumption
<1> QED
  BY <1>2, <1>5, <1>6, <1>7

\* What a turn of the chunk loop gives.
Turn(r, f0, p) ==
  LET next == p + Chunk
      hi == Edge(r.file, Limit(next))
  IN /\ FileOK(r.file, Limit(next)) /\ LastHint(r.file, next)
     /\ r.found \in Seq(EntryType) /\ Len(r.found) + Edge(f0, p) <= hi
     /\ InOrder(r.found, Edge(f0, p), hi)
     /\ f0.hint # NoHint /\ LongEnough(f0.start) => Holds(r.file, f0.start, f0.hint) \/ Lists(r.found, f0.start, f0.hint)
     /\ \A s \in ExaminedHeaders : p <= s /\ s < next /\ Starts(s) =>
          Holds(r.file, s, disk[s].hint) \/ Lists(r.found, s, disk[s].hint)

LEMMA ChunkIs ==
  ASSUME disk \in [Sectors -> SectorType], NEW p \in ChunkStarts, NEW f0, FileOK(f0, p), LastHint(f0, p)
  PROVE  Turn(ScanChunk(disk, f0, p), f0, p)
<1>1. p \in Nat /\ p % Chunk = 0 /\ p < Size /\ Size \in Nat /\ Chunk \in Nat /\ Chunk > 0
  BY GeometryAssumption DEF ChunkStarts, Sectors
<1>2. BufferEnd(p) \in 0 .. Size /\ BufferEnd(p) <= p + Chunk
  BY <1>1, BufferIs
<1>3. PICK b \in 0 .. Size : /\ b = IF p < BufferEnd(p) THEN BufferEnd(p) ELSE p
                             /\ p <= b /\ BufferEnd(p) <= b /\ b <= p + Chunk
  BY <1>1, <1>2
<1>4. PICK r : r = ScanChunk(disk, f0, p)
  OBVIOUS
<1>5. Machine(r, f0, p, b)
  BY <1>3, <1>4, ChunkMachine
<1>6. PICK next \in Nat : next = p + Chunk
  BY <1>1
<1>7. PICK limit \in 0 .. Size : limit = Limit(next) /\ b <= limit /\ limit <= next
  BY <1>1, <1>3, <1>6 DEF Limit
<1>8. \A s \in ExaminedHeaders : s \in Nat /\ (s < next => s < b)
  BY <1>1, <1>2, <1>3, <1>6, ExaminedBelow, HeadersAreSectors
<1> DEFINE f == r.file
           lo == Edge(f0, p)
<1>9. FileOK(f, b)
  BY <1>5 DEF Machine
<1>10. FileOK(f, limit)
  BY <1>3, <1>7, <1>9, GeometryAssumption DEF FileOK, Sectors
<1>11. LastHint(f, next)
  BY <1>3, <1>5, <1>6, <1>8 DEF Machine, LastHint
<1>12. lo \in Nat /\ Edge(f, b) \in Nat /\ Edge(f, limit) \in Nat /\ Edge(f, b) <= Edge(f, limit)
  <2>1. f0.hint # NoHint => f0.start \in Nat
    BY GeometryAssumption DEF FileOK, NoFile, Sectors
  <2>2. f.hint # NoHint => f.start \in Nat
    BY <1>9, GeometryAssumption DEF FileOK, NoFile, Sectors
  <2> QED
    BY <1>1, <1>3, <1>7, <2>1, <2>2 DEF Edge
<1>13. r.found \in Seq(EntryType) /\ Len(r.found) + lo <= Edge(f, limit)
  <2>1. r.found \in Seq(EntryType) /\ Len(r.found) \in Nat /\ Len(r.found) + lo <= Edge(f, b)
    BY <1>5 DEF Machine
  <2> HIDE DEF lo, f
  <2> QED
    BY <1>12, <2>1
<1>14. InOrder(r.found, lo, Edge(f, limit))
  <2>1. InOrder(r.found, lo, Edge(f, b))
    BY <1>5 DEF Machine
  <2>2. \A k \in DOMAIN r.found : r.found[k] \in EntryType
    BY <1>13
  <2>3. \A k \in DOMAIN r.found : r.found[k].start \in Nat /\ r.found[k].size \in Nat
    BY <2>2, GeometryAssumption DEF EntryType, Sectors
  <2>4. PICK hi \in Nat, higher \in Nat : hi = Edge(f, b) /\ higher = Edge(f, limit) /\ hi <= higher
    BY <1>12
  <2>5. \A k \in DOMAIN r.found : r.found[k].start + r.found[k].size <= higher
    BY <2>1, <2>3, <2>4 DEF InOrder
  <2> QED
    BY <2>1, <2>4, <2>5 DEF InOrder
<1>15. /\ f0.hint # NoHint /\ LongEnough(f0.start) => Holds(f, f0.start, f0.hint) \/ Lists(r.found, f0.start, f0.hint)
       /\ \A s \in ExaminedHeaders : p <= s /\ s < next /\ Starts(s) =>
            Holds(f, s, disk[s].hint) \/ Lists(r.found, s, disk[s].hint)
  BY <1>5, <1>8 DEF Machine
<1> QED
  BY <1>4, <1>6, <1>7, <1>10, <1>11, <1>13, <1>14, <1>15 DEF Turn

-----------------------------------------------------------------------------
(* The tree. *)

LEMMA InRange ==
  ASSUME NEW s, NEW m
  PROVE  m \in Range(s) <=> \E k \in DOMAIN s : s[k] = m
  BY DEF Range

NodeAt(n, found, k) ==
  [hint |-> found[k].hint, n |-> n + k - 1, start |-> found[k].start, size |-> found[k].size]

\* The trees that carver_add_entry goes through.
TreesOf(f, t, n, found) ==
  /\ AddEntries(t, n, found) = f[Len(found)]
  /\ \A k \in 0 .. Len(found) : f[k] = IF k = 0 THEN t ELSE TreeAddPath(f[k - 1], NodeAt(n, found, k))

LEMMA AddEntriesTrees ==
  ASSUME NEW t, NEW n, NEW found, Len(found) \in Nat
  PROVE  \E f : TreesOf(f, t, n, found)
<1> DEFINE Is(f, m) == f = [k \in 0 .. m |-> IF k = 0 THEN t
                                             ELSE TreeAddPath(f[k - 1], NodeAt(n, found, k))]
           missing == {m \in Nat : ~\E f : Is(f, m)}
<1>1. missing = {}
  <2> SUFFICES ASSUME missing # {} PROVE FALSE
    OBVIOUS
  <2>1. PICK m \in missing : \A k \in missing : m <= k
    <3>1. missing \in SUBSET Nat
      OBVIOUS
    <3> HIDE DEF missing
    <3> QED
      BY <3>1, LeastNat
  <2>2. m \in Nat /\ ~\E f : Is(f, m)
    OBVIOUS
  <2>3. CASE m = 0
    <3> DEFINE g == [k \in 0 .. 0 |-> t]
    <3>1. \A k \in 0 .. 0 : k = 0
      OBVIOUS
    <3>2. \A k \in 0 .. 0 : g[k] = IF k = 0 THEN t ELSE TreeAddPath(g[k - 1], NodeAt(n, found, k))
      BY <3>1
    <3>3. Is(g, 0)
      BY <3>2, Zenon
    <3> QED
      BY <2>2, <2>3, <3>3, Zenon
  <2>4. CASE m # 0
    <3>1. m - 1 \in Nat /\ ~(m <= m - 1)
      BY <2>2, <2>4
    <3>2. PICK f : Is(f, m - 1)
      BY <2>1, <3>1
    <3> DEFINE last == TreeAddPath(f[m - 1], NodeAt(n, found, m))
               g == [k \in 0 .. m |-> IF k = m THEN last ELSE f[k]]
    <3>3. ASSUME NEW k \in 0 .. m
          PROVE  g[k] = IF k = 0 THEN t ELSE TreeAddPath(g[k - 1], NodeAt(n, found, k))
      <4>1. CASE k = m
        <5>1. g[m] = last
          BY <2>2
        <5>2. m - 1 \in 0 .. m /\ m - 1 # m
          BY <2>2, <2>4
        <5>3. g[m - 1] = f[m - 1]
          BY <5>2
        <5> HIDE DEF g
        <5> QED
          BY <2>4, <4>1, <5>1, <5>3
      <4>2. CASE k # m
        <5>1. k \in 0 .. m - 1 /\ g[k] = f[k]
          BY <2>2, <4>2
        <5>2. f[k] = IF k = 0 THEN t ELSE TreeAddPath(f[k - 1], NodeAt(n, found, k))
          BY <3>2, <5>1, Zenon
        <5>3. k # 0 => k - 1 \in 0 .. m /\ k - 1 # m
          BY <2>2, <4>2
        <5>4. k # 0 => g[k - 1] = f[k - 1]
          BY <5>3
        <5> HIDE DEF g
        <5> QED
          BY <5>1, <5>2, <5>4
      <4> QED
        BY <4>1, <4>2
    <3>4. Is(g, m)
      BY <3>3, Zenon
    <3> QED
      BY <2>2, <3>4, Zenon
  <2> QED
    BY <2>3, <2>4
<1> DEFINE f == CHOOSE g : Is(g, Len(found))
<1>2. \E g : Is(g, Len(found))
  BY <1>1
<1>3. Is(f, Len(found))
  BY <1>2, Zenon
<1>4. AddEntries(t, n, found) = f[Len(found)]
  BY DEF AddEntries, NodeAt
<1>5. \A k \in 0 .. Len(found) : f[k] = IF k = 0 THEN t ELSE TreeAddPath(f[k - 1], NodeAt(n, found, k))
  BY <1>3, Zenon
<1> HIDE DEF f
<1> QED
  BY <1>4, <1>5 DEF TreesOf

LEMMA NodeAtIs ==
  ASSUME NEW found \in Seq(EntryType), NEW n \in Nat, NEW k \in 1 .. Len(found)
  PROVE  NodeAt(n, found, k) \in Node
<1>1. found[k] \in EntryType
  OBVIOUS
<1>2. PICK m \in Nat : m = n + k - 1
  OBVIOUS
<1>3. found[k].size \in 1 .. Size + MaxGap
  BY <1>1, GeometryAssumption DEF EntryType
<1> QED
  BY <1>1, <1>2, <1>3 DEF EntryType, Node, NodeAt

\* A path that is there already is left alone, and a new one goes to the end.
LEMMA TreeAddPathIs ==
  ASSUME NEW t \in Seq(Node), NEW node \in Node
  PROVE  /\ TreeAddPath(t, node) \in Seq(Node) /\ Range(t) \subseteq Range(TreeAddPath(t, node))
         /\ (\A k \in DOMAIN t : t[k].n # node.n) => TreeAddPath(t, node) = Append(t, node)
<1>1. TreeAddPath(t, node) = IF \E m \in Range(t) : Path(m) = Path(node) THEN t ELSE Append(t, node)
  BY DEF TreeAddPath
<1>2. Append(t, node) \in Seq(Node) /\ \A k \in DOMAIN t : k \in DOMAIN Append(t, node) /\ Append(t, node)[k] = t[k]
  BY AppendIs
<1>3. Range(t) \subseteq Range(Append(t, node))
  <2>1. PICK u : u = Append(t, node)
    OBVIOUS
  <2>2. ASSUME NEW m \in Range(t) PROVE m \in Range(u)
    <3>1. PICK k \in DOMAIN t : t[k] = m
      BY InRange
    <3>2. k \in DOMAIN u /\ u[k] = m
      BY <1>2, <2>1, <3>1
    <3> QED
      BY <3>2, InRange
  <2> QED
    BY <2>1, <2>2
<1>4. ASSUME \A k \in DOMAIN t : t[k].n # node.n
      PROVE  ~\E m \in Range(t) : Path(m) = Path(node)
  <2> SUFFICES ASSUME NEW m \in Range(t), Path(m) = Path(node) PROVE FALSE
    OBVIOUS
  <2>1. PICK k \in DOMAIN t : t[k] = m
    BY InRange
  <2>2. m.n = node.n
    BY DEF Path
  <2> QED
    BY <1>4, <2>1, <2>2
<1> QED
  BY <1>1, <1>2, <1>3, <1>4

LEMMA AddEntriesKeeps ==
  ASSUME NEW t \in Seq(Node), NEW n \in Nat, NEW found \in Seq(EntryType)
  PROVE  AddEntries(t, n, found) \in Seq(Node) /\ Range(t) \subseteq Range(AddEntries(t, n, found))
<1>0. Len(found) \in Nat
  OBVIOUS
<1>1. PICK f : TreesOf(f, t, n, found)
  BY <1>0, AddEntriesTrees
<1> DEFINE Good(u) == u \in Seq(Node) /\ Range(t) \subseteq Range(u)
           bad == {k \in 0 .. Len(found) : ~Good(f[k])}
<1>2. bad = {}
  <2> SUFFICES ASSUME bad # {} PROVE FALSE
    OBVIOUS
  <2>1. PICK m \in bad : \A k \in bad : m <= k
    <3>1. bad \in SUBSET Nat
      OBVIOUS
    <3> HIDE DEF bad
    <3> QED
      BY <3>1, LeastNat
  <2>2. m \in 0 .. Len(found) /\ ~Good(f[m])
    OBVIOUS
  <2>3. m # 0
    <3>1. 0 \in 0 .. Len(found)
      BY <1>0
    <3>2. f[0] = t
      BY <1>1, <3>1 DEF TreesOf
    <3> QED
      BY <2>2, <3>2
  <2>4. m \in 1 .. Len(found) /\ m - 1 \in 0 .. Len(found) /\ ~(m <= m - 1)
    BY <1>0, <2>2, <2>3
  <2>5. Good(f[m - 1])
    BY <2>1, <2>4
  <2>6. f[m] = TreeAddPath(f[m - 1], NodeAt(n, found, m))
    BY <1>1, <2>2, <2>3 DEF TreesOf
  <2>7. Good(f[m])
    BY <2>4, <2>5, <2>6, NodeAtIs, TreeAddPathIs
  <2> QED
    BY <2>2, <2>7
<1>3. Good(f[Len(found)])
  <2>1. Len(found) \in 0 .. Len(found)
    BY <1>0
  <2> QED
    BY <1>2, <2>1
<1> QED
  BY <1>1, <1>3 DEF TreesOf

\* The nodes have the numbers 0, 1, 2... of a run that started with an empty tree.
InTurn(t) == \A k \in DOMAIN t : t[k].n = k - 1

\* The tree u is t with a node more for every file carved.
Appended(u, t, found) ==
  /\ Len(u) = Len(t) + Len(found)
  /\ \A k \in 1 .. Len(t) : u[k] = t[k]
  /\ \A k \in 1 .. Len(found) : u[Len(t) + k] = NodeAt(Len(t), found, k)

\* As long as they do, every file carved gets a node of its own.
LEMMA AddEntriesNumbers ==
  ASSUME NEW t \in Seq(Node), InTurn(t), NEW found \in Seq(EntryType),
         NEW u, u = AddEntries(t, Len(t), found)
  PROVE  u \in Seq(Node) /\ InTurn(u) /\ Appended(u, t, found)
<1> DEFINE n == Len(t)
<1>0. Len(found) \in Nat /\ n \in Nat /\ DOMAIN t = 1 .. n
  OBVIOUS
<1>1. PICK f : TreesOf(f, t, n, found)
  BY <1>0, AddEntriesTrees
<1> DEFINE Good(k, v) == /\ v \in Seq(Node) /\ Len(v) = n + k
                         /\ \A i \in 1 .. n : v[i] = t[i]
                         /\ \A i \in 1 .. k : v[n + i] = NodeAt(n, found, i)
           bad == {k \in 0 .. Len(found) : ~Good(k, f[k])}
<1> HIDE DEF n
<1>2. ASSUME NEW k \in 0 .. Len(found), NEW v, Good(k, v)
      PROVE  \A i \in 1 .. n + k : v[i].n = i - 1
  <2> TAKE i \in 1 .. n + k
  <2>1. CASE i <= n
    <3>1. i \in 1 .. n
      BY <1>0, <2>1
    <3> QED
      BY <1>0, <1>2, <3>1 DEF InTurn
  <2>2. CASE i > n
    <3>1. PICK j \in 1 .. k : i = n + j
      <4>1. i - n \in 1 .. k /\ i = n + (i - n)
        BY <1>0, <2>2
      <4> QED
        BY <4>1
    <3>2. v[i] = NodeAt(n, found, j)
      BY <1>2, <3>1
    <3>3. NodeAt(n, found, j).n = n + j - 1
      BY DEF NodeAt
    <3> QED
      BY <1>0, <3>1, <3>2, <3>3
  <2> QED
    BY <1>0, <2>1, <2>2
<1>3. bad = {}
  <2> SUFFICES ASSUME bad # {} PROVE FALSE
    OBVIOUS
  <2>1. PICK m \in bad : \A k \in bad : m <= k
    <3>1. bad \in SUBSET Nat
      OBVIOUS
    <3> HIDE DEF bad
    <3> QED
      BY <3>1, LeastNat
  <2>2. m \in 0 .. Len(found) /\ ~Good(m, f[m])
    OBVIOUS
  <2>3. m # 0
    <3>1. 0 \in 0 .. Len(found)
      BY <1>0
    <3>2. f[0] = t
      BY <1>1, <3>1 DEF TreesOf
    <3>3. Good(0, t)
      BY <1>0 DEF n
    <3> QED
      BY <2>2, <3>2, <3>3
  <2>4. m \in 1 .. Len(found) /\ m - 1 \in 0 .. Len(found) /\ ~(m <= m - 1) /\ m \in Nat /\ m >= 1
    BY <1>0, <2>2, <2>3
  <2>5. PICK v : v = f[m - 1] /\ Good(m - 1, v)
    BY <2>1, <2>4
  <2>6. PICK node \in Node : node = NodeAt(n, found, m)
    BY <1>0, <2>4, NodeAtIs
  <2>7. f[m] = TreeAddPath(v, node)
    BY <1>1, <2>2, <2>3, <2>5, <2>6 DEF TreesOf
  <2>8. \A i \in DOMAIN v : v[i].n # node.n
    <3>1. node.n = n + m - 1
      BY <2>6 DEF NodeAt
    <3>2. \A i \in 1 .. n + (m - 1) : v[i].n = i - 1
      BY <1>2, <2>4, <2>5
    <3>3. DOMAIN v = 1 .. n + (m - 1)
      BY <2>5
    <3> QED
      BY <1>0, <2>4, <3>1, <3>2, <3>3
  <2>9. f[m] = Append(v, node) /\ v \in Seq(Node) /\ Len(v) = n + (m - 1)
    BY <2>5, <2>7, <2>8, TreeAddPathIs
  <2>10. PICK w : w = f[m]
    OBVIOUS
  <2>11. /\ w \in Seq(Node) /\ Len(w) = n + m /\ w[n + m] = node
         /\ \A i \in 1 .. n + (m - 1) : w[i] = v[i]
    <3>1. /\ Append(v, node) \in Seq(Node) /\ Len(Append(v, node)) = Len(v) + 1
          /\ Append(v, node)[Len(v) + 1] = node /\ \A k \in 1 .. Len(v) : Append(v, node)[k] = v[k]
      BY <2>9, AppendIs
    <3>2. Len(v) + 1 = n + m
      BY <1>0, <2>4, <2>9
    <3> QED
      BY <2>9, <2>10, <3>1, <3>2
  <2>12. \A i \in 1 .. n : w[i] = t[i]
    <3>1. \A i \in 1 .. n : i \in 1 .. n + (m - 1)
      BY <1>0, <2>4
    <3>2. \A i \in 1 .. n : v[i] = t[i]
      BY <2>5
    <3> QED
      BY <2>11, <3>1, <3>2
  <2>13. \A i \in 1 .. m : w[n + i] = NodeAt(n, found, i)
    <3> TAKE i \in 1 .. m
    <3>1. CASE i = m
      BY <2>6, <2>11, <3>1
    <3>2. CASE i # m
      <4>1. i \in 1 .. m - 1 /\ n + i \in 1 .. n + (m - 1)
        BY <1>0, <2>4, <3>2
      <4> QED
        BY <2>5, <2>11, <4>1
    <3> QED
      BY <3>1, <3>2
  <2>14. Good(m, w)
    BY <2>11, <2>12, <2>13
  <2> QED
    BY <2>2, <2>10, <2>14
<1>4. Good(Len(found), f[Len(found)])
  <2>1. Len(found) \in 0 .. Len(found)
    BY <1>0
  <2> QED
    BY <1>3, <2>1
<1>5. u = f[Len(found)]
  BY <1>1 DEF TreesOf, n
<1>6. Good(Len(found), u)
  BY <1>4, <1>5
<1>7. InTurn(u)
  <2>1. Len(found) \in 0 .. Len(found)
    BY <1>0
  <2>2. \A i \in 1 .. n + Len(found) : u[i].n = i - 1
    BY <1>2, <1>6, <2>1
  <2> QED
    BY <1>6, <2>2 DEF InTurn
<1> QED
  BY <1>6, <1>7 DEF n, Appended

-----------------------------------------------------------------------------
(* The session file. *)

LEMMA InsertAtIs ==
  ASSUME NEW s \in Seq(Node), NEW i \in 1 .. Len(s) + 1, NEW e \in Node
  PROVE  /\ InsertAt(s, i, e) \in Seq(Node) /\ Len(InsertAt(s, i, e)) = Len(s) + 1
         /\ Range(s) \subseteq Range(InsertAt(s, i, e)) /\ e \in Range(InsertAt(s, i, e))
         /\ \A m \in Range(InsertAt(s, i, e)) : m \in Range(s) \/ m = e
<1>0. Len(s) \in Nat /\ DOMAIN s = 1 .. Len(s) /\ i \in Nat /\ i >= 1 /\ i <= Len(s) + 1
  OBVIOUS
<1>1. PICK a : a = SubSeq(s, 1, i - 1)
  OBVIOUS
<1>2. PICK b : b = SubSeq(s, i, Len(s))
  OBVIOUS
<1>3. a \in Seq(Node) /\ Len(a) = i - 1 /\ \A k \in 1 .. i - 1 : a[k] = s[k]
  BY <1>0, <1>1
<1>4. b \in Seq(Node) /\ Len(b) = Len(s) - i + 1 /\ \A k \in 1 .. Len(s) - i + 1 : b[k] = s[i + k - 1]
  BY <1>0, <1>2
<1>5. PICK c : c = a \o <<e>>
  OBVIOUS
<1>6. c \in Seq(Node) /\ Len(c) = i /\ c[i] = e /\ \A k \in 1 .. i - 1 : c[k] = s[k]
  BY <1>0, <1>3, <1>5
<1>7. PICK r : r = c \o b
  OBVIOUS
<1>8. r \in Seq(Node) /\ Len(r) = Len(s) + 1 /\ DOMAIN r = 1 .. Len(s) + 1
  <2>1. r \in Seq(Node) /\ Len(r) = Len(c) + Len(b)
    BY <1>4, <1>6, <1>7, ConcatProperties
  <2>2. Len(r) = Len(s) + 1
    BY <1>0, <1>4, <1>6, <2>1
  <2> QED
    BY <2>1, <2>2
<1>9. r[i] = e
  BY <1>0, <1>4, <1>6, <1>7
<1>10. \A k \in 1 .. i - 1 : r[k] = s[k]
  BY <1>0, <1>4, <1>6, <1>7
<1>11. \A k \in i .. Len(s) : r[k + 1] = s[k]
  <2> TAKE k \in i .. Len(s)
  <2>1. PICK j \in 1 .. Len(s) - i + 1 : j = k - i + 1
    BY <1>0
  <2>2. k + 1 = i + j /\ k = i + j - 1 /\ k + 1 \in Nat
    BY <1>0, <2>1
  <2>3. r[i + j] = b[j]
    BY <1>0, <1>4, <1>6, <1>7, <2>1
  <2> QED
    BY <1>4, <2>1, <2>2, <2>3
<1>12. InsertAt(s, i, e) = r
  BY <1>1, <1>2, <1>5, <1>7 DEF InsertAt
<1>13. ASSUME NEW m \in Range(s) PROVE m \in Range(r)
  <2>1. PICK k \in DOMAIN s : s[k] = m
    BY InRange
  <2>2. CASE k < i
    <3>1. k \in DOMAIN r /\ r[k] = m
      BY <1>0, <1>8, <1>10, <2>1, <2>2
    <3> QED
      BY <3>1, InRange
  <2>3. CASE ~(k < i)
    <3>1. k + 1 \in DOMAIN r /\ r[k + 1] = m
      BY <1>0, <1>8, <1>11, <2>1, <2>3
    <3> QED
      BY <3>1, InRange
  <2> QED
    BY <2>2, <2>3
<1>14. e \in Range(r)
  <2>1. i \in DOMAIN r
    BY <1>0, <1>8
  <2> QED
    BY <1>9, <2>1, InRange
<1>15. ASSUME NEW m \in Range(r) PROVE m \in Range(s) \/ m = e
  <2>1. PICK k \in 1 .. Len(s) + 1 : r[k] = m
    BY <1>8, InRange
  <2>2. CASE k < i
    <3>1. k \in DOMAIN s /\ s[k] = m
      BY <1>0, <1>10, <2>1, <2>2
    <3> QED
      BY <3>1, InRange
  <2>3. CASE k > i
    <3>1. PICK j \in i .. Len(s) : k = j + 1
      <4>1. k - 1 \in i .. Len(s) /\ k = (k - 1) + 1
        BY <1>0, <2>3
      <4> QED
        BY <4>1
    <3>2. j \in DOMAIN s /\ s[j] = m
      BY <1>0, <1>11, <2>1, <3>1
    <3> QED
      BY <3>2, InRange
  <2>4. CASE k = i
    BY <1>9, <2>1, <2>4
  <2> QED
    BY <1>0, <2>2, <2>3, <2>4
<1> QED
  BY <1>8, <1>12, <1>13, <1>14, <1>15

LEMMA PutInFolderIs ==
  ASSUME NEW s \in Seq(Node), NEW node \in Node
  PROVE  /\ PutInFolder(s, node) \in Seq(Node) /\ Len(PutInFolder(s, node)) = Len(s) + 1
         /\ Range(s) \subseteq Range(PutInFolder(s, node)) /\ node \in Range(PutInFolder(s, node))
         /\ \A m \in Range(PutInFolder(s, node)) : m \in Range(s) \/ m = node
<1> DEFINE folder == {k \in DOMAIN s : s[k].hint = node.hint}
<1>0. Len(s) \in Nat /\ DOMAIN s = 1 .. Len(s)
  OBVIOUS
<1>1. PutInFolder(s, node) = IF folder = {} THEN Append(s, node) ELSE InsertAt(s, Max(folder) + 1, node)
  BY DEF PutInFolder
<1>2. CASE folder = {}
  <2>1. PICK u : u = Append(s, node)
    OBVIOUS
  <2>2. /\ u \in Seq(Node) /\ Len(u) = Len(s) + 1 /\ Len(s) + 1 \in DOMAIN u /\ u[Len(s) + 1] = node
        /\ \A k \in DOMAIN s : k \in DOMAIN u /\ u[k] = s[k]
    BY <2>1, AppendIs
  <2>3. node \in Range(u)
    BY <2>2, InRange
  <2>4. ASSUME NEW m \in Range(s) PROVE m \in Range(u)
    <3>1. PICK k \in DOMAIN s : s[k] = m
      BY InRange
    <3>2. k \in DOMAIN u /\ u[k] = m
      BY <2>2, <3>1
    <3> QED
      BY <3>2, InRange
  <2>5. ASSUME NEW m \in Range(u) PROVE m \in Range(s) \/ m = node
    <3>1. PICK k \in DOMAIN u : u[k] = m
      BY InRange
    <3>2. k \in DOMAIN s \/ k = Len(s) + 1
      BY <1>0, <2>1, <3>1
    <3>3. k \in DOMAIN s => s[k] = m
      BY <2>2, <3>1
    <3> QED
      BY <2>2, <3>1, <3>2, <3>3, InRange
  <2> QED
    BY <1>1, <1>2, <2>1, <2>2, <2>3, <2>4, <2>5
<1>3. CASE folder # {}
  <2>1. folder \in SUBSET (0 .. Len(s))
    BY <1>0
  <2>2. Max(folder) \in DOMAIN s
    <3>1. Max(folder) \in folder
      <4> HIDE DEF folder
      <4> QED
        BY <1>0, <1>3, <2>1, MaxIs
    <3> QED
      BY <3>1
  <2>3. PICK i \in 1 .. Len(s) + 1 : i = Max(folder) + 1
    <3> HIDE DEF folder
    <3>1. PICK m \in 1 .. Len(s) : m = Max(folder)
      BY <1>0, <2>2
    <3>2. m + 1 \in 1 .. Len(s) + 1
      BY <1>0
    <3> QED
      BY <3>1, <3>2
  <2>4. PICK r : r = InsertAt(s, i, node)
    OBVIOUS
  <2>5. /\ r \in Seq(Node) /\ Len(r) = Len(s) + 1 /\ Range(s) \subseteq Range(r) /\ node \in Range(r)
        /\ \A m \in Range(r) : m \in Range(s) \/ m = node
    BY <2>4, InsertAtIs
  <2>6. PutInFolder(s, node) = r
    BY <1>1, <1>3, <2>3, <2>4
  <2> QED
    BY <2>5, <2>6
<1> QED
  BY <1>2, <1>3

\* The lists that session_write_tree goes through.
WrittenOf(f, t) ==
  /\ Serialize(t) = f[Len(t)]
  /\ \A k \in 0 .. Len(t) : f[k] = IF k = 0 THEN <<>> ELSE PutInFolder(f[k - 1], t[k])

LEMMA SerializeWrites ==
  ASSUME NEW t, Len(t) \in Nat
  PROVE  \E f : WrittenOf(f, t)
<1> DEFINE Is(f, m) == f = [i \in 0 .. m |-> IF i = 0 THEN <<>> ELSE PutInFolder(f[i - 1], t[i])]
           missing == {m \in Nat : ~\E f : Is(f, m)}
<1>1. missing = {}
  <2> SUFFICES ASSUME missing # {} PROVE FALSE
    OBVIOUS
  <2>1. PICK m \in missing : \A k \in missing : m <= k
    <3>1. missing \in SUBSET Nat
      OBVIOUS
    <3> HIDE DEF missing
    <3> QED
      BY <3>1, LeastNat
  <2>2. m \in Nat /\ ~\E f : Is(f, m)
    OBVIOUS
  <2>3. CASE m = 0
    <3> DEFINE g == [k \in 0 .. 0 |-> <<>>]
    <3>1. \A k \in 0 .. 0 : k = 0
      OBVIOUS
    <3>2. \A k \in 0 .. 0 : g[k] = IF k = 0 THEN <<>> ELSE PutInFolder(g[k - 1], t[k])
      BY <3>1
    <3>3. Is(g, 0)
      BY <3>2, Zenon
    <3> QED
      BY <2>2, <2>3, <3>3, Zenon
  <2>4. CASE m # 0
    <3>1. m - 1 \in Nat /\ ~(m <= m - 1)
      BY <2>2, <2>4
    <3>2. PICK f : Is(f, m - 1)
      BY <2>1, <3>1
    <3> DEFINE last == PutInFolder(f[m - 1], t[m])
               g == [k \in 0 .. m |-> IF k = m THEN last ELSE f[k]]
    <3>3. ASSUME NEW k \in 0 .. m
          PROVE  g[k] = IF k = 0 THEN <<>> ELSE PutInFolder(g[k - 1], t[k])
      <4>1. CASE k = m
        <5>1. g[m] = last
          BY <2>2
        <5>2. m - 1 \in 0 .. m /\ m - 1 # m
          BY <2>2, <2>4
        <5>3. g[m - 1] = f[m - 1]
          BY <5>2
        <5> HIDE DEF g
        <5> QED
          BY <2>4, <4>1, <5>1, <5>3
      <4>2. CASE k # m
        <5>1. k \in 0 .. m - 1 /\ g[k] = f[k]
          BY <2>2, <4>2
        <5>2. f[k] = IF k = 0 THEN <<>> ELSE PutInFolder(f[k - 1], t[k])
          BY <3>2, <5>1, Zenon
        <5>3. k # 0 => k - 1 \in 0 .. m /\ k - 1 # m
          BY <2>2, <4>2
        <5>4. k # 0 => g[k - 1] = f[k - 1]
          BY <5>3
        <5> HIDE DEF g
        <5> QED
          BY <5>1, <5>2, <5>4
      <4> QED
        BY <4>1, <4>2
    <3>4. Is(g, m)
      BY <3>3, Zenon
    <3> QED
      BY <2>2, <3>4, Zenon
  <2> QED
    BY <2>3, <2>4
<1> DEFINE f == CHOOSE g : Is(g, Len(t))
<1>2. \E g : Is(g, Len(t))
  BY <1>1
<1>3. Is(f, Len(t))
  BY <1>2, Zenon
<1>4. Serialize(t) = f[Len(t)]
  BY DEF Serialize
<1>5. \A k \in 0 .. Len(t) : f[k] = IF k = 0 THEN <<>> ELSE PutInFolder(f[k - 1], t[k])
  BY <1>3, Zenon
<1> HIDE DEF f
<1> QED
  BY <1>4, <1>5 DEF WrittenOf

\* Every node is written, and nothing else.
LEMMA SerializeIs ==
  ASSUME NEW t \in Seq(Node)
  PROVE  Serialize(t) \in Seq(Node) /\ Len(Serialize(t)) = Len(t) /\ Range(Serialize(t)) = Range(t)
<1>0. Len(t) \in Nat /\ DOMAIN t = 1 .. Len(t)
  OBVIOUS
<1>1. PICK f : WrittenOf(f, t)
  BY <1>0, SerializeWrites
<1> DEFINE Good(k, v) == /\ v \in Seq(Node) /\ Len(v) = k /\ \A i \in 1 .. k : t[i] \in Range(v)
                         /\ \A m \in Range(v) : m \in Range(t)
           bad == {k \in 0 .. Len(t) : ~Good(k, f[k])}
<1>2. bad = {}
  <2> SUFFICES ASSUME bad # {} PROVE FALSE
    OBVIOUS
  <2>1. PICK m \in bad : \A k \in bad : m <= k
    <3>1. bad \in SUBSET Nat
      OBVIOUS
    <3> HIDE DEF bad
    <3> QED
      BY <3>1, LeastNat
  <2>2. m \in 0 .. Len(t) /\ ~Good(m, f[m])
    OBVIOUS
  <2>3. m # 0
    <3>1. 0 \in 0 .. Len(t)
      BY <1>0
    <3>2. f[0] = <<>>
      BY <1>1, <3>1 DEF WrittenOf
    <3>3. Good(0, <<>>)
      <4>1. PICK v : v = <<>>
        OBVIOUS
      <4>2. v \in Seq(Node) /\ Len(v) = 0 /\ DOMAIN v = {}
        BY <4>1
      <4>3. \A m0 : m0 \notin Range(v)
        BY <4>2, InRange
      <4>4. Good(0, v)
        BY <4>2, <4>3
      <4> QED
        BY <4>1, <4>4
    <3> QED
      BY <2>2, <3>2, <3>3
  <2>4. m \in 1 .. Len(t) /\ m - 1 \in 0 .. Len(t) /\ ~(m <= m - 1)
    BY <1>0, <2>2, <2>3
  <2>5. PICK v : v = f[m - 1] /\ Good(m - 1, v)
    BY <2>1, <2>4
  <2>7. PICK node \in Node : node = t[m]
    BY <2>4
  <2>6. PICK w : w = PutInFolder(v, node) /\ w = f[m]
    BY <1>1, <2>2, <2>3, <2>5, <2>7 DEF WrittenOf
  <2>8. /\ w \in Seq(Node) /\ Len(w) = Len(v) + 1 /\ Range(v) \subseteq Range(w) /\ t[m] \in Range(w)
        /\ \A x \in Range(w) : x \in Range(v) \/ x = t[m]
    <3>1. v \in Seq(Node)
      BY <2>5
    <3>2. /\ w \in Seq(Node) /\ Len(w) = Len(v) + 1 /\ Range(v) \subseteq Range(w) /\ node \in Range(w)
          /\ \A x \in Range(w) : x \in Range(v) \/ x = node
      <4>1. /\ PutInFolder(v, node) \in Seq(Node) /\ Len(PutInFolder(v, node)) = Len(v) + 1
            /\ Range(v) \subseteq Range(PutInFolder(v, node)) /\ node \in Range(PutInFolder(v, node))
            /\ \A x \in Range(PutInFolder(v, node)) : x \in Range(v) \/ x = node
        BY <3>1, PutInFolderIs, Zenon
      <4> QED
        BY <2>6, <4>1
    <3> QED
      BY <2>7, <3>2
  <2>11. t[m] \in Range(t)
    BY <1>0, <2>4, InRange
  <2>9. \A i \in 1 .. m : i = m \/ i \in 1 .. m - 1
    BY <2>4
  <2>12. Len(w) = m
    BY <2>4, <2>5, <2>8
  <2>10. Good(m, w)
    BY <2>5, <2>8, <2>9, <2>11, <2>12
  <2> QED
    BY <2>2, <2>6, <2>10
<1>3. Good(Len(t), f[Len(t)])
  <2>1. Len(t) \in 0 .. Len(t)
    BY <1>0
  <2> QED
    BY <1>2, <2>1
<1>4. PICK w : w = f[Len(t)] /\ w = Serialize(t)
  BY <1>1 DEF WrittenOf
<1>5. ASSUME NEW m \in Range(t) PROVE m \in Range(w)
  <2>1. PICK k \in DOMAIN t : t[k] = m
    BY InRange
  <2> QED
    BY <1>0, <1>3, <1>4, <2>1
<1> QED
  BY <1>3, <1>4, <1>5

\* What a session file can hold.
FileType(f) ==
  /\ f.kind \in {"none", "unreadable", "session"} /\ f.nodes \in Seq(Node)
  /\ f.progress \in ChunkStarts /\ f.completed \in BOOLEAN

LEMMA NoSessionType == FileType(NoSession) /\ FileType(Unreadable)
<1>1. 0 \in ChunkStarts
  BY ZeroIsChunk, GeometryAssumption DEF ChunkStarts, Sectors
<1>2. <<>> \in Seq(Node)
  OBVIOUS
<1> QED
  BY <1>1, <1>2 DEF FileType, NoSession, Unreadable

LEMMA SaveTypes ==
  ASSUME NEW progress \in ChunkStarts, NEW t \in Seq(Node), NEW done \in BOOLEAN,
         Save(Image(progress, t, done)), FileType(file), damaged \in BOOLEAN
  PROVE  FileType(file') /\ damaged' \in BOOLEAN
<1> DEFINE image == Image(progress, t, done)
<1>1. Serialize(t) \in Seq(Node)
  BY SerializeIs
<1>2. FileType(image)
  BY <1>1 DEF FileType, Image
<1>3. CASE file' = image /\ UNCHANGED damaged
  BY <1>2, <1>3
<1>4. CASE ~damaged /\ damaged' = TRUE /\ file' \in {file, NoSession} \cup Torn(image)
  <2>1. ASSUME NEW x \in Torn(image) PROVE FileType(x)
    <3>1. CASE x = Unreadable
      BY <3>1, NoSessionType
    <3>2. CASE x # Unreadable
      <4>1. PICK k \in 0 .. Len(image.nodes) - 1 : x = [image EXCEPT !.nodes = SubSeq(@, 1, k)]
        BY <2>1, <3>2 DEF Torn
      <4>2. PICK nodes \in Seq(Node) : nodes = image.nodes
        BY <1>2 DEF FileType
      <4>3. SubSeq(nodes, 1, k) \in Seq(Node)
        BY <4>1, <4>2
      <4>4. PICK part \in Seq(Node) : part = SubSeq(nodes, 1, k)
        BY <4>3
      <4>5. x = [image EXCEPT !.nodes = part]
        BY <4>1, <4>2, <4>4
      <4>6. image = [kind |-> "session", progress |-> progress, nodes |-> nodes, completed |-> done]
        BY <4>2 DEF Image
      <4> HIDE DEF image
      <4>7. x = [kind |-> "session", progress |-> progress, nodes |-> part, completed |-> done]
        BY <4>5, <4>6
      <4> QED
        BY <4>7 DEF FileType
    <3> QED
      BY <3>1, <3>2
  <2> HIDE DEF image
  <2> QED
    BY <1>4, <2>1, NoSessionType
<1> QED
  BY <1>3, <1>4 DEF Save

\* The file that is open at the end runs to the end of the partition at most.
LEMMA FlushIs ==
  ASSUME NEW f, FileOK(f, Size), Begun(f)
  PROVE  /\ Flush(disk, f) \in Seq(EntryType) /\ Len(Flush(disk, f)) + Edge(f, Size) <= Size
         /\ InOrder(Flush(disk, f), Edge(f, Size), Size)
         /\ f.hint # NoHint /\ LongEnough(f.start) => Lists(Flush(disk, f), f.start, f.hint)
<1> DEFINE toEnd == Size - f.start
           upTo == IF f.footer > 0 THEN Min({f.footer - f.start, toEnd}) ELSE toEnd
           size == IF MaxFileSize[f.hint] > 0 THEN Min({upTo, MaxFileSize[f.hint]}) ELSE upTo
<1>1. Flush(disk, f) = IF f.hint = NoHint THEN <<>>
                       ELSE Carve([file |-> f, found |-> <<>>], size, EndsAtOnce(disk, f))
  BY DEF Flush
<1>2. Size \in Nat
  BY GeometryAssumption
<1>3. CASE f.hint = NoHint
  <2>1. PICK list : list = Flush(disk, f) /\ list = <<>>
    BY <1>1, <1>3
  <2>2. list \in Seq(EntryType) /\ Len(list) = 0 /\ DOMAIN list = {}
    BY <2>1
  <2>3. Edge(f, Size) = Size
    BY <1>3 DEF Edge
  <2> QED
    BY <1>2, <1>3, <2>1, <2>2, <2>3 DEF InOrder
<1>4. CASE f.hint # NoHint
  <2>1. f.hint \in Hints /\ f.start \in Sectors /\ f.start \in Nat /\ f.start < Size
        /\ f.footer \in 0 .. Size /\ (f.footer > 0 => f.footer > f.start)
    BY <1>4, GeometryAssumption DEF FileOK, NoFile, Sectors
  <2>2. toEnd \in Nat \ {0} /\ f.start + toEnd = Size
    BY <1>2, <2>1
  <2>3. upTo \in 1 .. toEnd
    <3>1. CASE f.footer > 0
      <4>1. f.footer - f.start \in Nat \ {0}
        BY <2>1, <3>1
      <4> HIDE DEF toEnd
      <4>2. PICK a \in Nat \ {0} : a = f.footer - f.start
        BY <4>1
      <4>3. Min({a, toEnd}) \in 1 .. toEnd
        BY <2>2, MinOfTwo
      <4> QED
        BY <3>1, <4>2, <4>3
    <3>2. CASE ~(f.footer > 0)
      BY <2>2, <3>2
    <3> QED
      BY <3>1, <3>2
  <2>4. size \in 1 .. toEnd
    <3> HIDE DEF upTo, toEnd
    <3>1. MaxFileSize[f.hint] \in Nat
      BY <2>1, TypesAssumption
    <3>2. PICK a \in Nat : a = MaxFileSize[f.hint]
      BY <3>1
    <3>3. a > 0 => Min({upTo, a}) \in 1 .. toEnd
      BY <2>2, <2>3, MinOfTwo
    <3> QED
      BY <2>3, <3>2, <3>3
  <2>5. PICK z \in 1 .. Size : z = size /\ f.start + z <= Size
    <3> HIDE DEF size
    <3> QED
      BY <1>2, <2>1, <2>2, <2>4
  <2>6. PICK none : none = <<>>
    OBVIOUS
  <2>12. none \in Seq(EntryType) /\ Len(none) = 0 /\ DOMAIN none = {}
    BY <2>6
  <2>11. PICK lo \in Nat : lo = f.start
    BY <2>1
  <2>7. PICK list : list = Flush(disk, f)
    OBVIOUS
  <2>8. CASE EndsAtOnce(disk, f)
    <3>1. list = none
      BY <1>1, <1>4, <2>6, <2>7, <2>8 DEF Carve
    <3>2. Edge(f, Size) = lo /\ lo <= Size
      BY <1>2, <1>4, <2>1, <2>11 DEF Edge
    <3>3. Len(list) + lo <= Size /\ InOrder(list, lo, Size)
      BY <2>12, <3>1, <3>2 DEF InOrder
    <3>4. /\ f.start \in ExaminedHeaders /\ f.start <= f.start
          /\ disk[f.start].footer = f.hint /\ disk[f.start].short
      BY <1>4, <2>1, <2>8 DEF EndsAtOnce, Begun
    <3>5. ~LongEnough(f.start)
      BY <1>4, <3>4, FooterTooEarly
    <3> QED
      BY <2>7, <2>12, <3>1, <3>2, <3>3, <3>5
  <2>9. CASE ~EndsAtOnce(disk, f)
    <3>1. list = Append(none, [start |-> f.start, size |-> z, hint |-> f.hint])
      BY <1>1, <1>4, <2>5, <2>6, <2>7, <2>9 DEF Carve
    <3>2. Len(none) + lo <= f.start /\ InOrder(none, lo, f.start)
      BY <2>1, <2>11, <2>12 DEF InOrder
    <3>3. list \in Seq(EntryType) /\ Len(list) + lo <= Size /\ InOrder(list, lo, Size)
           /\ Lists(list, f.start, f.hint)
      <4>1. f.hint \in Hints /\ f.start \in Sectors /\ f.start + z <= Size /\ Size \in Nat
        BY <1>2, <2>1, <2>5
      <4>2. Joins(list, none, f, z, lo, Size)
        BY <3>1, <3>2, <4>1 DEF Joins
      <4> QED
        BY <2>11, <2>12, <4>1, <4>2, CarveKeepsOrder
    <3> QED
      BY <1>4, <2>7, <2>11, <3>3 DEF Edge
  <2> QED
    BY <2>8, <2>9
<1> QED
  BY <1>3, <1>4

-----------------------------------------------------------------------------
(* Types. *)

\* The open file lies before the position, at a header of the type of the last one
\* examined, and the files carved so far fit before it.
OpenInv ==
  /\ FileOK(open, Size)
  /\ pc = "scan" => FileOK(open, Limit(pos)) /\ LastHint(open, pos) /\ count <= Edge(open, Limit(pos))
  /\ pc = "flush" => Begun(open) /\ count <= Edge(open, Size)

Typed == disk \in Disks /\ TypeOK /\ CarveInv /\ OpenInv

LEMMA SameDisk ==
  ASSUME disk' = disk
  PROVE  /\ ExaminedHeaders' = ExaminedHeaders
         /\ \A s : Starts(s)' <=> Starts(s)
<1>1. ExaminedHeaders' = ExaminedHeaders
  BY DEF ExaminedHeaders, IsHeader
<1>2. \A s : Starts(s)' <=> Starts(s)
  BY <1>1 DEF Starts, OwnFile, LongEnough
<1> QED
  BY <1>1, <1>2

LEMMA EdgeIs ==
  ASSUME NEW f, NEW b \in 0 .. Size, FileOK(f, b)
  PROVE  Edge(f, b) \in 0 .. Size /\ Edge(f, b) <= b
  BY GeometryAssumption DEF FileOK, NoFile, Edge, Sectors

LEMMA FileOKUpTo ==
  ASSUME NEW f, NEW b \in 0 .. Size, FileOK(f, b)
  PROVE  FileOK(f, Size) /\ Edge(f, b) <= Edge(f, Size)
  BY GeometryAssumption DEF FileOK, NoFile, Edge, Sectors

LEMMA TypedFacts ==
  ASSUME Typed
  PROVE  /\ disk \in [Sectors -> SectorType] /\ FileType(file) /\ damaged \in BOOLEAN
         /\ tree \in Seq(Node) /\ count \in Nat /\ pos \in Nat /\ Limit(pos) \in 0 .. Size
         /\ pos < Size => pos \in ChunkStarts /\ Limit(pos) = pos
         /\ pos >= Size => Limit(pos) = Size
  BY DisksAssumption, GeometryAssumption DEF Typed, TypeOK, FileType, Limit, ChunkStarts, Sectors

\* The files kept are the first of those found, all of them while there is room.
LEMMA KeptIs ==
  ASSUME NEW n \in Nat, n <= MaxFiles, NEW found \in Seq(EntryType), NEW lo, NEW hi, InOrder(found, lo, hi)
  PROVE  /\ Kept(n, found) \in Seq(EntryType) /\ Len(Kept(n, found)) <= Len(found)
         /\ InOrder(Kept(n, found), lo, hi)
         /\ n + Len(Kept(n, found)) <= MaxFiles
         /\ n + Len(Kept(n, found)) < MaxFiles => Kept(n, found) = found
<1>1. MaxFiles \in Nat
  BY RunsAssumption
<1>2. PICK l \in Nat, m \in Nat : l = Len(found) /\ m = MaxFiles - n
  BY <1>1
<1>3. PICK k \in Nat : k = Min({l, m}) /\ k <= l /\ k <= m /\ (k = l \/ k = m)
  BY <1>2, MinOfTwo
<1>4. PICK kept : kept = Kept(n, found)
  OBVIOUS
<1>5. kept = SubSeq(found, 1, k)
  BY <1>2, <1>3, <1>4 DEF Kept
<1>6. /\ kept \in Seq(EntryType) /\ Len(kept) = k /\ DOMAIN kept = 1 .. k /\ DOMAIN found = 1 .. l
      /\ \A i \in 1 .. k : kept[i] = found[i]
  <2>1. \A i \in 1 .. k : i \in 1 .. Len(found) /\ 1 + i - 1 = i
    BY <1>2, <1>3
  <2>2. Len(SubSeq(found, 1, k)) = IF 1 <= k THEN k - 1 + 1 ELSE 0
    BY <2>1, SubSeqProperties
  <2>3. Len(kept) = k
    BY <1>3, <1>5, <2>2
  <2>4. SubSeq(found, 1, k) \in Seq(EntryType)
    BY <2>1, SubSeqProperties
  <2>5. \A i \in 1 .. k - 1 + 1 : SubSeq(found, 1, k)[i] = found[1 + i - 1]
    BY <2>1, SubSeqProperties
  <2>6. \A i \in 1 .. k : kept[i] = found[i]
    BY <1>3, <1>5, <2>1, <2>5
  <2> QED
    BY <1>2, <1>5, <2>3, <2>4, <2>6
<1>7. \A i \in 1 .. k : kept[i] = found[i] /\ i \in DOMAIN found
  <2> TAKE i \in 1 .. k
  <2>1. i \in 1 .. l
    BY <1>3
  <2> QED
    BY <1>6, <2>1
<1>8. InOrder(kept, lo, hi)
  BY <1>6, <1>7 DEF InOrder
<1>9. k = l => kept = found
  BY <1>2, <1>5
<1> QED
  BY <1>1, <1>2, <1>3, <1>4, <1>6, <1>8, <1>9

\* What a turn of the chunk loop does to the state.
LEMMA CarveChunkIs ==
  ASSUME Typed, CarveChunk
  PROVE  \E r, kept : /\ Turn(r, open, pos) /\ kept = Kept(count, r.found)
                      /\ open' = r.file /\ tree' = AddEntries(tree, count, kept) /\ count' = count + Len(kept)
<1>1. /\ pc = "scan" /\ pos < Size /\ FileOK(open, Limit(pos)) /\ LastHint(open, pos)
  BY DEF CarveChunk, Typed, OpenInv
<1>2. pos \in ChunkStarts /\ FileOK(open, pos) /\ disk \in [Sectors -> SectorType]
  BY <1>1, TypedFacts
<1>3. PICK r : r = ScanChunk(disk, open, pos)
  OBVIOUS
<1>4. Turn(r, open, pos)
  BY <1>1, <1>2, <1>3, ChunkIs
<1>5. PICK kept : kept = Kept(count, r.found)
  OBVIOUS
<1> QED
  BY <1>3, <1>4, <1>5 DEF CarveChunk

\* The numbers of the files carved stay below the sectors they start in.
LEMMA CountFits ==
  ASSUME NEW c \in Nat, NEW f, NEW b \in 0 .. Size, FileOK(f, b), c <= Edge(f, b),
         NEW list \in Seq(EntryType), NEW hi \in 0 .. Size, Len(list) + Edge(f, b) <= hi
  PROVE  c + Len(list) \in 0 .. Size /\ c + Len(list) <= hi
<1>1. PICK e \in Nat : e = Edge(f, b)
  BY EdgeIs
<1>2. PICK n \in Nat : n = Len(list)
  OBVIOUS
<1>3. c <= e /\ n + e <= hi
  BY <1>1, <1>2
<1>4. c + n \in 0 .. Size /\ c + n <= hi
  BY <1>3, GeometryAssumption
<1> QED
  BY <1>2, <1>4

LEMMA ScanTypes ==
  ASSUME Typed, CarveChunk
  PROVE  Typed'
<1>1. PICK r, kept : /\ Turn(r, open, pos) /\ kept = Kept(count, r.found)
                     /\ open' = r.file /\ tree' = AddEntries(tree, count, kept) /\ count' = count + Len(kept)
  BY CarveChunkIs
<1>2. /\ pc = "scan" /\ pos < Size /\ FileOK(open, Limit(pos)) /\ count <= Edge(open, Limit(pos))
      /\ seen' = seen \cup Examined(pos) /\ Checkpoint(pos, tree')
      /\ \/ pc' = "cancelled" /\ pos' = pos
         \/ pc' = "scan" /\ pos' = pos + Chunk
      /\ UNCHANGED <<disk, cancel, runs, cut>>
  BY DEF CarveChunk, Typed, OpenInv
<1>3. pos \in ChunkStarts /\ pos \in Nat /\ Limit(pos) = pos /\ pos \in 0 .. Size /\ count \in Nat
  BY <1>2, TypedFacts, GeometryAssumption
<1> PICK next \in Nat : next = pos + Chunk
  BY <1>3, GeometryAssumption
<1>4. next = pos + Chunk /\ Limit(next) \in 0 .. Size
  BY GeometryAssumption DEF Limit
<1>5. /\ FileOK(r.file, Limit(next)) /\ LastHint(r.file, next)
      /\ r.found \in Seq(EntryType) /\ Len(r.found) + Edge(open, pos) <= Edge(r.file, Limit(next))
  BY <1>1, <1>4 DEF Turn
<1>6. Edge(r.file, Limit(next)) \in 0 .. Size /\ FileOK(r.file, Size)
  BY <1>4, <1>5, EdgeIs, FileOKUpTo
<1>16. count <= MaxFiles /\ InOrder(r.found, Edge(open, pos), Edge(r.file, Limit(next)))
  BY <1>1, <1>4 DEF Turn, Typed, TypeOK
<1>17. kept \in Seq(EntryType) /\ Len(kept) <= Len(r.found) /\ count + Len(kept) <= MaxFiles
  BY <1>1, <1>3, <1>5, <1>16, KeptIs
<1>7. count' \in 0 .. Size /\ count' <= Edge(r.file, Limit(next)) /\ count' <= MaxFiles
  <2>1. PICK hi \in 0 .. Size : hi = Edge(r.file, Limit(next))
    BY <1>6
  <2>2. PICK lo \in Nat : lo = Edge(open, pos)
    BY <1>2, <1>3, EdgeIs
  <2>3. PICK n \in Nat, k \in Nat : n = Len(r.found) /\ k = Len(kept)
    BY <1>5, <1>17
  <2>4. Len(kept) + Edge(open, pos) <= hi
    BY <1>5, <1>17, <2>1, <2>2, <2>3
  <2> QED
    BY <1>1, <1>2, <1>3, <1>17, <2>1, <2>4, CountFits
<1>8. tree' \in Seq(Node)
  BY <1>1, <1>3, <1>17, TypedFacts, AddEntriesKeeps
<1>9. FileType(file') /\ damaged' \in BOOLEAN
  <2>1. CASE UNCHANGED <<file, damaged>>
    BY <2>1, TypedFacts
  <2>2. CASE Save(Image(pos, tree', FALSE))
    BY <1>3, <1>8, <2>2, TypedFacts, SaveTypes
  <2> QED
    BY <1>2, <2>1, <2>2 DEF Checkpoint
<1>10. CarveInv'
  BY CarveInvNext DEF Typed, Next
<1>11. LastHint(open, pos)' \/ pc' # "scan"
  <2>1. ExaminedHeaders' = ExaminedHeaders
    BY <1>2, SameDisk
  <2> QED
    BY <1>1, <1>2, <1>4, <1>5, <2>1 DEF LastHint, Begun
<1>12. OpenInv'
  BY <1>1, <1>2, <1>4, <1>5, <1>6, <1>7, <1>11 DEF OpenInv, FileOK, Limit, Edge
<1>13. open' = NoFile \/ (open'.hint \in Hints /\ open'.start \in Sectors /\ open'.footer \in 0 .. Size)
  BY <1>1, <1>6 DEF FileOK
<1>14. seen' \subseteq Sectors
  BY <1>2, <1>3, BufferIs DEF Typed, TypeOK, ChunkStarts
<1>15. TypeOK'
  BY <1>2, <1>7, <1>8, <1>9, <1>10, <1>13, <1>14 DEF TypeOK, Typed, FileType, CarveInv, ChunkInv
<1> QED
  BY <1>2, <1>10, <1>12, <1>15 DEF Typed

LEMMA FlushTypes ==
  ASSUME Typed, FlushLast
  PROVE  Typed'
<1>1. PICK all, found : all = Flush(disk, open) /\ found = Kept(count, all)
  OBVIOUS
<1>2. /\ pc = "flush" /\ pc' = "end" /\ tree' = AddEntries(tree, count, found) /\ count' = count + Len(found)
      /\ UNCHANGED <<disk, pos, open, file, cancel, runs, seen, damaged, cut>>
      /\ FileOK(open, Size) /\ Begun(open) /\ count <= Edge(open, Size) /\ count <= MaxFiles
  BY <1>1 DEF FlushLast, Typed, OpenInv, TypeOK
<1>3. all \in Seq(EntryType) /\ Len(all) + Edge(open, Size) <= Size /\ InOrder(all, Edge(open, Size), Size)
  BY <1>1, <1>2, FlushIs
<1>4. count \in Nat /\ tree \in Seq(Node) /\ Size \in 0 .. Size
  BY TypedFacts, GeometryAssumption
<1>10. found \in Seq(EntryType) /\ Len(found) <= Len(all) /\ count + Len(found) <= MaxFiles
  BY <1>1, <1>2, <1>3, <1>4, KeptIs
<1>5. count' \in 0 .. Size /\ count' <= MaxFiles
  <2>1. PICK lo \in Nat : lo = Edge(open, Size)
    BY <1>2, <1>4, EdgeIs
  <2>2. PICK n \in Nat, k \in Nat : n = Len(all) /\ k = Len(found)
    BY <1>3, <1>10
  <2>3. Len(found) + Edge(open, Size) <= Size
    BY <1>3, <1>10, <2>1, <2>2, GeometryAssumption
  <2> QED
    BY <1>2, <1>4, <1>10, <2>3, CountFits
<1>6. tree' \in Seq(Node)
  BY <1>2, <1>4, <1>10, AddEntriesKeeps
<1>7. CarveInv'
  BY CarveInvNext DEF Typed, Next
<1>8. TypeOK'
  BY <1>2, <1>5, <1>6 DEF TypeOK, Typed
<1>9. OpenInv'
  BY <1>2 DEF OpenInv, FileOK
<1> QED
  BY <1>2, <1>7, <1>8, <1>9 DEF Typed

LEMMA RunTypes ==
  ASSUME Typed, Start \/ Resume
  PROVE  Typed'
<1>1. /\ pc' = "scan" /\ open' = NoFile /\ count' = 0 /\ cancel' = FALSE
      /\ UNCHANGED <<disk, file, seen, damaged, cut>>
  BY DEF Start, Resume, Run
<1>2. runs \in 0 .. MaxRuns - 1 /\ runs' = runs + 1
  <2>1. CASE Start
    BY <2>1, RunsAssumption DEF Start, Run
  <2>2. CASE Resume
    BY <2>2, RunsAssumption DEF Resume, Run
  <2> QED
    BY <2>1, <2>2
<1>3. tree' \in Seq(Node)
  <2>1. file.nodes \in Seq(Node) /\ <<>> \in Seq(Node)
    BY DEF Typed, TypeOK
  <2> QED
    BY <2>1 DEF Start, Resume, Run
<1>4. CarveInv'
  BY CarveInvNext DEF Typed, Next
<1>5. runs' \in 0 .. MaxRuns
  BY <1>2, RunsAssumption
<1>6. TypeOK'
  <2>1. 0 \in 0 .. Size
    BY GeometryAssumption
  <2>2. pos' \in Nat /\ pos' % Chunk = 0
    BY <1>4 DEF CarveInv, ChunkInv
  <2>3. 0 <= MaxFiles
    BY RunsAssumption
  <2> QED
    BY <1>1, <1>3, <1>5, <2>1, <2>2, <2>3 DEF TypeOK, Typed
<1>7. OpenInv'
  <2>1. pos' \in Nat
    BY <1>4 DEF CarveInv, ChunkInv
  <2> QED
    BY <1>1, <2>1, GeometryAssumption DEF OpenInv, FileOK, LastHint, Edge, Limit, NoFile
<1> QED
  BY <1>1, <1>4, <1>6, <1>7 DEF Typed

LEMMA SaveStepTypes ==
  ASSUME Typed, SaveCancelled \/ EndSession
  PROVE  Typed'
<1>1. /\ pc' \in {"end", "idle"} /\ cut' \in BOOLEAN
      /\ UNCHANGED <<disk, pos, open, count, tree, cancel, runs, seen>>
  BY DEF SaveCancelled, EndSession, Typed, TypeOK
<1>2. FileType(file') /\ damaged' \in BOOLEAN
  <2>1. tree \in Seq(Node) /\ FileType(file) /\ damaged \in BOOLEAN
    BY TypedFacts
  <2>2. CASE SaveCancelled
    <3>1. pos < Size
      BY <2>2 DEF SaveCancelled, Typed, CarveInv, ChunkInv
    <3>2. pos \in ChunkStarts
      BY <3>1, TypedFacts
    <3> QED
      BY <2>1, <2>2, <3>2, SaveTypes DEF SaveCancelled
  <2>3. CASE EndSession
    <3>1. 0 \in ChunkStarts
      BY ZeroIsChunk, GeometryAssumption DEF ChunkStarts, Sectors
    <3> QED
      BY <2>1, <2>3, <3>1, SaveTypes DEF EndSession
  <2> QED
    BY <2>2, <2>3
<1>3. CarveInv'
  BY CarveInvNext DEF Typed, Next
<1>4. TypeOK'
  BY <1>1, <1>2 DEF TypeOK, Typed, FileType
<1>5. OpenInv'
  BY <1>1 DEF OpenInv, FileOK, Typed
<1> QED
  BY <1>1, <1>3, <1>4, <1>5 DEF Typed

LEMMA OtherTypes ==
  ASSUME Typed, ReadError \/ EndOfPartition \/ PressCancel \/ Kill \/ UNCHANGED vars
  PROVE  Typed'
<1>1. CarveInv'
  BY CarveInvNext DEF Typed, Next
<1>2. CASE ReadError \/ EndOfPartition
  <2>1. /\ pc = "scan" /\ pc' = "flush" /\ cut' \in BOOLEAN
        /\ UNCHANGED <<disk, pos, open, count, tree, file, cancel, runs, seen, damaged>>
    BY <1>2 DEF ReadError, EndOfPartition, Typed, TypeOK
  <2>2. FileOK(open, Limit(pos)) /\ Begun(open) /\ count <= Edge(open, Limit(pos))
    BY <2>1 DEF Typed, OpenInv, LastHint, Begun
  <2>3. count <= Edge(open, Size)
    <3>1. Limit(pos) \in 0 .. Size /\ Size \in 0 .. Size /\ count \in Nat
      BY TypedFacts, GeometryAssumption
    <3>2. Edge(open, Limit(pos)) <= Edge(open, Size) /\ FileOK(open, Size)
      BY <2>2, <3>1, FileOKUpTo
    <3>3. Edge(open, Limit(pos)) \in 0 .. Size /\ Edge(open, Size) \in 0 .. Size
      BY <2>2, <3>1, <3>2, EdgeIs
    <3>4. PICK a \in 0 .. Size, b \in 0 .. Size : a = Edge(open, Limit(pos)) /\ b = Edge(open, Size)
      BY <3>3
    <3> QED
      BY <2>2, <3>1, <3>2, <3>4
  <2>4. TypeOK'
    BY <2>1 DEF TypeOK, Typed
  <2>6. ExaminedHeaders' = ExaminedHeaders
    BY <2>1, SameDisk
  <2>5. OpenInv'
    BY <2>1, <2>2, <2>3, <2>6 DEF OpenInv, FileOK, Edge, Begun, Typed
  <2> QED
    BY <1>1, <2>1, <2>4, <2>5 DEF Typed
<1>3. CASE PressCancel \/ UNCHANGED vars
  <2>1. UNCHANGED <<disk, pc, pos, open, count, tree, file, runs, seen, damaged, cut>> /\ cancel' \in BOOLEAN
    BY <1>3 DEF PressCancel, vars, Typed, TypeOK
  <2>2. TypeOK'
    BY <2>1 DEF TypeOK, Typed
  <2>3. ExaminedHeaders' = ExaminedHeaders
    BY <2>1, SameDisk
  <2>4. OpenInv'
    BY <2>1, <2>3 DEF OpenInv, FileOK, Edge, Limit, LastHint, Begun, Typed
  <2> QED
    BY <1>1, <2>1, <2>2, <2>4 DEF Typed
<1>4. CASE Kill
  <2>1. /\ pc' = "idle" /\ pos' = 0 /\ open' = NoFile /\ count' = 0 /\ tree' = <<>> /\ cancel' = FALSE
        /\ UNCHANGED <<disk, file, runs, seen, damaged, cut>>
    BY <1>4 DEF Kill
  <2>2. TypeOK'
    <3>1. <<>> \in Seq(Node)
      OBVIOUS
    <3>2. 0 \in 0 .. Size /\ 0 \in Nat /\ 0 % Chunk = 0 /\ 0 <= MaxFiles
      BY ZeroIsChunk, GeometryAssumption, RunsAssumption
    <3> QED
      BY <2>1, <3>1, <3>2 DEF TypeOK, Typed
  <2>3. OpenInv'
    BY <2>1 DEF OpenInv, FileOK
  <2> QED
    BY <1>1, <2>1, <2>2, <2>3 DEF Typed
<1> QED
  BY <1>2, <1>3, <1>4

LEMMA TypedInit == ASSUME Init PROVE Typed
<1>1. CarveInv
  BY CarveInvInit
<1>2. TypeOK
  <2>1. <<>> \in Seq(Node)
    OBVIOUS
  <2>2. 0 \in ChunkStarts
    BY ZeroIsChunk, GeometryAssumption DEF ChunkStarts, Sectors
  <2>3. 0 \in 0 .. Size /\ 0 \in Nat /\ 0 % Chunk = 0 /\ 0 \in 0 .. MaxRuns /\ 0 <= MaxFiles
    BY ZeroIsChunk, GeometryAssumption, RunsAssumption
  <2> QED
    BY <2>1, <2>2, <2>3 DEF Init, TypeOK, NoSession
<1>3. OpenInv
  BY DEF Init, OpenInv, FileOK
<1> QED
  BY <1>1, <1>2, <1>3 DEF Init, Typed

LEMMA TypedNext ==
  ASSUME Typed, [Next]_vars
  PROVE  Typed'
  BY ScanTypes, FlushTypes, RunTypes, SaveStepTypes, OtherTypes DEF Next

\* For every disk, geometry and set of file types, and however often the carve is started,
\* cancelled, killed and resumed: the variables keep their types.  Among them: a file that
\* is open or carved starts in a sector of the partition and no carved one is empty, and
\* g_carved_count stays below the number of sectors (carver_add_entry, carver_scan).
THEOREM CarveTypeCorrect == Spec => []TypeOK
<1>1. Init => Typed
  BY TypedInit
<1>2. Typed /\ [Next]_vars => Typed'
  BY TypedNext
<1>3. Typed => TypeOK
  BY DEF Typed
<1> QED
  BY <1>1, <1>2, <1>3, PTL DEF Spec

-----------------------------------------------------------------------------
\* While a carve runs, its tree holds every file of the session it will save over.
HoldsSession == file.kind = "session" /\ pc # "idle" /\ ~damaged => Range(file.nodes) \subseteq Range(tree)

StaysSaved == file.kind = "session" /\ ~damaged' => Range(file.nodes) \subseteq Range(file'.nodes)

LEMMA ProgressInvInit == ASSUME Init PROVE ProgressInv
  BY DEF Init, ProgressInv, NoSession

LEMMA HoldsSessionInit == ASSUME Init PROVE HoldsSession
  BY DEF Init, HoldsSession, NoSession

\* A save that succeeds leaves every node of the tree in the file.
LEMMA SaveKeeps ==
  ASSUME NEW progress, NEW t \in Seq(Node), NEW done, Save(Image(progress, t, done)), ~damaged'
  PROVE  ~damaged /\ file'.nodes \in Seq(Node) /\ Range(t) \subseteq Range(file'.nodes)
<1>1. ~damaged /\ file' = Image(progress, t, done)
  BY SaveOutcome
<1>2. file'.nodes = Serialize(t)
  BY <1>1 DEF Image
<1> QED
  BY <1>1, <1>2, SerializeIs

LEMMA HoldsSessionNext ==
  ASSUME Typed, ProgressInv, HoldsSession, [Next]_vars
  PROVE  HoldsSession' /\ StaysSaved
<1>0. tree \in Seq(Node) /\ count \in Nat /\ tree' \in Seq(Node)
  BY TypedFacts, TypedNext DEF Typed, TypeOK
<1>1. CASE Start
  <2>1. file = NoSession /\ file' = file
    BY <1>1 DEF Start, ProgressInv
  <2> QED
    BY <2>1 DEF HoldsSession, StaysSaved, NoSession
<1>2. CASE Resume
  <2>1. file' = file /\ tree' = file.nodes
    BY <1>2 DEF Resume, Run
  <2> QED
    BY <2>1 DEF HoldsSession, StaysSaved
<1>3. CASE CarveChunk
  <2>1. PICK r, kept : /\ Turn(r, open, pos) /\ kept = Kept(count, r.found)
                       /\ open' = r.file /\ tree' = AddEntries(tree, count, kept) /\ count' = count + Len(kept)
    BY <1>3, CarveChunkIs
  <2>7. count <= MaxFiles
    BY DEF Typed, TypeOK
  <2>2. kept \in Seq(EntryType)
    BY <1>0, <2>1, <2>7, KeptIs DEF Turn
  <2>3. Range(tree) \subseteq Range(tree')
    BY <1>0, <2>1, <2>2, AddEntriesKeeps
  <2>4. pc = "scan"
    BY <1>3 DEF CarveChunk
  <2>5. CASE UNCHANGED <<file, damaged>>
    BY <2>3, <2>4, <2>5 DEF HoldsSession, StaysSaved
  <2>6. CASE Save(Image(pos, tree', FALSE))
    <3>1. ASSUME ~damaged' PROVE ~damaged /\ file'.nodes = Serialize(tree')
      BY <2>6, <3>1, SaveOutcome DEF Image
    <3>2. ASSUME ~damaged' PROVE Range(tree') \subseteq Range(file'.nodes)
      BY <1>0, <2>6, <3>2, SaveKeeps
    <3> QED
      BY <2>3, <2>4, <3>1, <3>2, <1>0, SerializeIs DEF HoldsSession, StaysSaved
  <2> QED
    BY <1>3, <2>5, <2>6 DEF CarveChunk, Checkpoint
<1>4. CASE FlushLast
  <2>1. PICK all, found : all = Flush(disk, open) /\ found = Kept(count, all)
    OBVIOUS
  <2>2. /\ pc = "flush" /\ tree' = AddEntries(tree, count, found) /\ UNCHANGED <<file, damaged>>
        /\ FileOK(open, Size) /\ Begun(open) /\ count <= MaxFiles
    BY <1>4, <2>1 DEF FlushLast, Typed, OpenInv, TypeOK
  <2>5. all \in Seq(EntryType) /\ InOrder(all, Edge(open, Size), Size)
    BY <2>1, <2>2, FlushIs
  <2>3. found \in Seq(EntryType)
    BY <1>0, <2>1, <2>2, <2>5, KeptIs
  <2>4. Range(tree) \subseteq Range(tree')
    BY <1>0, <2>2, <2>3, AddEntriesKeeps
  <2> QED
    BY <2>2, <2>4 DEF HoldsSession, StaysSaved
<1>5. CASE SaveCancelled
  <2>1. pc = "cancelled" /\ tree' = tree /\ Save(Image(pos, tree, FALSE))
    BY <1>5 DEF SaveCancelled
  <2>2. ASSUME ~damaged' PROVE ~damaged /\ file'.nodes = Serialize(tree) /\ Range(tree) \subseteq Range(file'.nodes)
    BY <1>0, <2>1, <2>2, SaveOutcome, SaveKeeps DEF Image
  <2> QED
    BY <1>0, <2>1, <2>2, SerializeIs DEF HoldsSession, StaysSaved
<1>6. CASE EndSession
  <2>1. pc = "end" /\ pc' = "idle" /\ Save(Image(0, tree, TRUE))
    BY <1>6 DEF EndSession
  <2>2. ASSUME ~damaged' PROVE ~damaged /\ Range(tree) \subseteq Range(file'.nodes)
    BY <1>0, <2>1, <2>2, SaveKeeps
  <2> QED
    BY <2>1, <2>2 DEF HoldsSession, StaysSaved
<1>7. CASE ReadError \/ EndOfPartition \/ PressCancel \/ UNCHANGED vars
  <2>1. UNCHANGED <<tree, file, damaged>> /\ (pc = "idle" <=> pc' = "idle")
    BY <1>7 DEF ReadError, EndOfPartition, PressCancel, vars
  <2> QED
    BY <2>1 DEF HoldsSession, StaysSaved
<1>8. CASE Kill
  <2>1. file' = file /\ pc' = "idle"
    BY <1>8 DEF Kill
  <2> QED
    BY <2>1 DEF HoldsSession, StaysSaved
<1> QED
  BY <1>1, <1>2, <1>3, <1>4, <1>5, <1>6, <1>7, <1>8 DEF Next

\* However often a carve is checkpointed, cancelled, killed and resumed, as long as no save
\* failed the session file never loses a file it held: the tree of a resumed carve starts
\* from the session, tree_add_path leaves the nodes of taken paths alone, and
\* session_write_tree writes every node.
THEOREM SessionForgetsNothing == Spec => SavedFilesStay
<1>1. Init => Typed /\ ProgressInv /\ HoldsSession
  BY TypedInit, ProgressInvInit, HoldsSessionInit
<1>2. Typed /\ ProgressInv /\ HoldsSession /\ [Next]_vars => (Typed /\ ProgressInv /\ HoldsSession)'
  BY TypedNext, ProgressInvNext, HoldsSessionNext DEF Typed
<1>3. Typed /\ ProgressInv /\ HoldsSession /\ [Next]_vars => [StaysSaved]_vars
  BY HoldsSessionNext
<1>4. Spec => [][StaysSaved]_vars
  BY <1>1, <1>2, <1>3, PTL DEF Spec
<1> QED
  BY <1>4 DEF SavedFilesStay, StaysSaved

-----------------------------------------------------------------------------
(* One run. *)

LEMMA AppendedNode ==
  ASSUME NEW t \in Seq(Node), NEW found \in Seq(EntryType), NEW u \in Seq(Node), Appended(u, t, found),
         NEW k \in DOMAIN found
  PROVE  /\ u[Len(t) + k].start = found[k].start /\ u[Len(t) + k].size = found[k].size
         /\ u[Len(t) + k].hint = found[k].hint
<1>1. k \in 1 .. Len(found)
  OBVIOUS
<1>2. PICK node : node = NodeAt(Len(t), found, k)
  OBVIOUS
<1>3. u[Len(t) + k] = node
  BY <1>1, <1>2 DEF Appended
<1>4. node.start = found[k].start /\ node.size = found[k].size /\ node.hint = found[k].hint
  BY <1>2 DEF NodeAt
<1> QED
  BY <1>3, <1>4

LEMMA AppendedInOrder ==
  ASSUME NEW t \in Seq(Node), NEW found \in Seq(EntryType), NEW u \in Seq(Node), Appended(u, t, found),
         NEW mid \in Nat, NEW hi \in Nat, mid <= hi, InOrder(t, 0, mid), InOrder(found, mid, hi)
  PROVE  InOrder(u, 0, hi)
<1>1. PICK n \in Nat : n = Len(t) /\ DOMAIN t = 1 .. n
  OBVIOUS
<1>2. PICK m \in Nat : m = Len(found) /\ DOMAIN found = 1 .. m
  OBVIOUS
<1>3. DOMAIN u = 1 .. n + m
  BY <1>1, <1>2 DEF Appended
<1>4. \A k \in 1 .. n : u[k] = t[k]
  BY <1>1 DEF Appended
<1>5. ASSUME NEW k \in 1 .. m PROVE u[n + k].start = found[k].start /\ u[n + k].size = found[k].size
  <2>1. k \in DOMAIN found /\ n = Len(t)
    BY <1>1, <1>2
  <2> QED
    BY <2>1, AppendedNode
<1>6. ASSUME NEW k \in 1 .. n + m, k > n
      PROVE  \E i \in 1 .. m : k = n + i
  <2>1. k - n \in 1 .. m /\ k = n + (k - n)
    BY <1>6
  <2> QED
    BY <2>1
<1>7. ASSUME NEW k \in 1 .. n + m
      PROVE  0 <= u[k].start /\ u[k].start + u[k].size <= hi /\ (k > n => mid <= u[k].start)
  <2>1. u[k].start \in Nat /\ u[k].size \in Nat
    BY <1>3, NodeNumbers
  <2>2. CASE k <= n
    <3>1. k \in 1 .. n
      BY <2>2
    <3>2. u[k].start + u[k].size <= mid
      BY <1>1, <1>4, <3>1 DEF InOrder
    <3> QED
      BY <2>1, <2>2, <3>2
  <2>3. CASE k > n
    <3>1. PICK i \in 1 .. m : k = n + i
      BY <1>6, <2>3
    <3>2. mid <= found[i].start /\ found[i].start + found[i].size <= hi
      BY <1>2 DEF InOrder
    <3>3. mid <= u[k].start /\ u[k].start + u[k].size <= hi
      BY <1>5, <3>1, <3>2
    <3> QED
      BY <2>1, <3>3
  <2> QED
    BY <2>2, <2>3
<1>8. ASSUME NEW j \in 1 .. n + m, NEW k \in 1 .. n + m, j < k
      PROVE  u[j].start + u[j].size <= u[k].start
  <2>1. u[j].start \in Nat /\ u[j].size \in Nat /\ u[k].start \in Nat
    BY <1>3, NodeNumbers
  <2>2. CASE k <= n
    <3>1. j \in 1 .. n /\ k \in 1 .. n
      BY <1>8, <2>2
    <3> QED
      BY <1>1, <1>4, <1>8, <3>1 DEF InOrder
  <2>3. CASE j <= n /\ k > n
    <3>1. j \in 1 .. n
      BY <2>3
    <3>2. u[j].start + u[j].size <= mid
      BY <1>1, <1>4, <3>1 DEF InOrder
    <3>3. mid <= u[k].start
      BY <1>7, <2>3
    <3> QED
      BY <2>1, <3>2, <3>3
  <2>4. CASE j > n
    <3>1. PICK i \in 1 .. m : j = n + i
      BY <1>6, <2>4
    <3>2. PICK l \in 1 .. m : k = n + l
      BY <1>6, <1>8, <2>4
    <3>3. i < l
      BY <1>8, <3>1, <3>2
    <3>4. found[i].start + found[i].size <= found[l].start
      BY <1>2, <3>3 DEF InOrder
    <3> QED
      BY <1>5, <3>1, <3>2, <3>4
  <2> QED
    BY <1>8, <2>2, <2>3, <2>4
<1> QED
  BY <1>3, <1>7, <1>8 DEF InOrder

LEMMA AppendedLists ==
  ASSUME NEW t \in Seq(Node), NEW found \in Seq(EntryType), NEW u \in Seq(Node), Appended(u, t, found)
  PROVE  \A s, h : Lists(t, s, h) \/ Lists(found, s, h) => Lists(u, s, h)
<1>1. PICK n \in Nat : n = Len(t) /\ DOMAIN t = 1 .. n
  OBVIOUS
<1>2. PICK m \in Nat : m = Len(found) /\ DOMAIN found = 1 .. m
  OBVIOUS
<1>3. DOMAIN u = 1 .. n + m
  BY <1>1, <1>2 DEF Appended
<1>4. \A k \in 1 .. n : u[k] = t[k] /\ k \in DOMAIN u
  BY <1>1, <1>3 DEF Appended
<1>5. ASSUME NEW k \in 1 .. m PROVE u[n + k].start = found[k].start /\ u[n + k].hint = found[k].hint
  <2>1. k \in DOMAIN found /\ n = Len(t)
    BY <1>1, <1>2
  <2> QED
    BY <2>1, AppendedNode
<1>6. \A k \in 1 .. m : n + k \in DOMAIN u
  BY <1>3
<1>7. ASSUME NEW s, NEW h, Lists(t, s, h) PROVE Lists(u, s, h)
  <2>1. PICK k \in 1 .. n : t[k].start = s /\ t[k].hint = h
    BY <1>1, <1>7 DEF Lists
  <2>2. k \in DOMAIN u /\ u[k].start = s /\ u[k].hint = h
    BY <1>4, <2>1
  <2> QED
    BY <2>2 DEF Lists
<1>8. ASSUME NEW s, NEW h, Lists(found, s, h) PROVE Lists(u, s, h)
  <2>1. PICK k \in 1 .. m : found[k].start = s /\ found[k].hint = h
    BY <1>2, <1>8 DEF Lists
  <2>2. PICK j \in DOMAIN u : j = n + k
    BY <1>6, <2>1
  <2>3. u[j].start = s /\ u[j].hint = h
    BY <1>5, <2>1, <2>2
  <2> QED
    BY <2>3 DEF Lists
<1> QED
  BY <1>7, <1>8

\* The tree of the first run has the files carved so far, numbered in the order they were
\* carved, which is the order of their places on the disk; the open file comes after them.
OrderInv ==
  runs = 1 =>
    /\ pc # "idle" => Len(tree) = count
    /\ InTurn(tree)
    /\ InOrder(tree, 0, IF pc \in {"scan", "flush"} THEN Edge(open, Limit(pos)) ELSE Size)

\* And while it has room it misses none of the headers examined that start a file.
FoundInv ==
  runs = 1 =>
    /\ pc = "scan" /\ count < MaxFiles => OwnListed(tree, open, pos)
    /\ pc = "flush" /\ ~cut /\ count < MaxFiles => OwnListed(tree, open, Size)
    /\ pc = "end" /\ ~cut /\ count < MaxFiles => OwnListed(tree, NoFile, Size)
    /\ file.completed /\ ~damaged /\ ~cut /\ Len(file.nodes) < MaxFiles =>
         OwnListed(file.nodes, NoFile, Size)

OneRunInv == OrderInv /\ FoundInv

LEMMA HeaderHint ==
  ASSUME disk \in [Sectors -> SectorType], NEW s \in ExaminedHeaders
  PROVE  disk[s].hint \in Hints /\ disk[s].hint # NoHint
<1>1. disk[s] \in SectorType /\ IsHeader(s)
  BY HeadersAreSectors DEF ExaminedHeaders
<1>2. disk[s].hint \in Hints
  BY <1>1 DEF IsHeader, SectorType
<1> QED
  BY <1>2, TypesAssumption DEF NoHint

LEMMA ScanOneRun ==
  ASSUME Typed, OneRunInv, CarveChunk, runs = 1
  PROVE  OneRunInv'
<1>1. PICK r, kept : /\ Turn(r, open, pos) /\ kept = Kept(count, r.found)
                     /\ open' = r.file /\ tree' = AddEntries(tree, count, kept) /\ count' = count + Len(kept)
  BY CarveChunkIs
<1>2. /\ pc = "scan" /\ pos < Size /\ Checkpoint(pos, tree') /\ UNCHANGED <<disk, runs, cut>>
      /\ \/ pc' = "cancelled" /\ pos' = pos
         \/ pc' = "scan" /\ pos' = pos + Chunk
  BY DEF CarveChunk
<1>3. /\ pos \in Nat /\ Limit(pos) = pos /\ pos \in 0 .. Size /\ tree \in Seq(Node)
      /\ disk \in [Sectors -> SectorType] /\ FileOK(open, pos)
  BY <1>2, TypedFacts, GeometryAssumption DEF Typed, OpenInv
<1> PICK next \in Nat : next = pos + Chunk
  BY <1>3, GeometryAssumption
<1>4. next = pos + Chunk /\ Limit(next) \in 0 .. Size
  BY GeometryAssumption DEF Limit
<1>5. PICK mid \in 0 .. Size : mid = Edge(open, pos)
  BY <1>3, EdgeIs
<1>6. FileOK(r.file, Limit(next)) /\ r.found \in Seq(EntryType)
  BY <1>1, <1>4 DEF Turn
<1>7. PICK hi \in 0 .. Size : hi = Edge(r.file, Limit(next))
  BY <1>4, <1>6, EdgeIs
<1>22. Len(r.found) + mid <= hi /\ InOrder(r.found, mid, hi) /\ count \in Nat /\ count <= MaxFiles
  BY <1>1, <1>4, <1>5, <1>7, TypedFacts DEF Turn, Typed, TypeOK
<1>8. PICK found \in Seq(EntryType) : found = kept
  BY <1>1, <1>6, <1>22, KeptIs
<1>9. Len(found) + mid <= hi /\ InOrder(found, mid, hi) /\ (count' < MaxFiles => found = r.found)
  <2>1. /\ Len(kept) <= Len(r.found) /\ InOrder(kept, mid, hi)
        /\ count + Len(kept) < MaxFiles => kept = r.found
    BY <1>1, <1>6, <1>22, KeptIs
  <2>2. PICK m \in Nat, n \in Nat : m = Len(found) /\ n = Len(r.found)
    BY <1>6
  <2>3. m <= n /\ n + mid <= hi
    BY <1>8, <1>22, <2>1, <2>2
  <2>4. m + mid <= hi
    BY <2>3
  <2> QED
    BY <1>1, <1>8, <2>1, <2>2, <2>4
<1>10. Size \in Nat /\ mid \in Nat /\ hi \in Nat /\ mid <= hi /\ hi <= Size
  <2>1. PICK m \in Nat : m = Len(found)
    OBVIOUS
  <2>2. m + mid <= hi
    BY <1>9, <2>1
  <2> QED
    BY <2>2, GeometryAssumption
<1>11. Len(tree) = count /\ InTurn(tree) /\ InOrder(tree, 0, mid)
  BY <1>2, <1>3, <1>5 DEF OneRunInv, OrderInv
<1>12. PICK u : u = tree'
  OBVIOUS
<1>13. u = AddEntries(tree, Len(tree), found)
  BY <1>1, <1>8, <1>11, <1>12
<1>14. u \in Seq(Node) /\ InTurn(u) /\ Appended(u, tree, found)
  BY <1>3, <1>11, <1>13, AddEntriesNumbers
<1>15. InOrder(u, 0, hi)
  BY <1>3, <1>9, <1>10, <1>11, <1>14, AppendedInOrder
<1>16. InOrder(u, 0, Size)
  BY <1>10, <1>14, <1>15, InOrderUpTo
<1>17. Len(tree') = count'
  BY <1>1, <1>8, <1>11, <1>12, <1>14 DEF Appended
<1>18. OrderInv'
  <2>1. InTurn(tree)'
    BY <1>12, <1>14 DEF InTurn
  <2>2. Edge(r.file, Limit(next)) = hi
    BY <1>7
  <2>3. CASE pc' = "scan"
    <3>1. InOrder(tree', 0, Edge(open', Limit(pos')))
      BY <1>1, <1>2, <1>4, <1>12, <1>15, <2>2, <2>3
    <3> QED
      BY <1>17, <2>1, <2>3, <3>1 DEF OrderInv, InOrder, Edge, Limit
  <2>4. CASE pc' = "cancelled"
    BY <1>12, <1>16, <1>17, <2>1, <2>4 DEF OrderInv, InOrder
  <2> QED
    BY <1>2, <2>3, <2>4
<1>19. \A s, h : Lists(tree, s, h) \/ Lists(found, s, h) => Lists(u, s, h)
  BY <1>3, <1>14, AppendedLists
<1>23. ASSUME count' < MaxFiles PROVE count < MaxFiles
  <2>1. PICK m \in Nat : m = Len(found)
    OBVIOUS
  <2> QED
    BY <1>1, <1>8, <1>22, <1>23, <2>1, RunsAssumption
<1>20. ASSUME count' < MaxFiles, NEW s \in ExaminedHeaders, s < next, Starts(s)
       PROVE  Holds(r.file, s, disk[s].hint) \/ Lists(u, s, disk[s].hint)
  <2>1. s \in Nat
    BY HeadersAreSectors
  <2>2. CASE pos <= s
    BY <1>1, <1>4, <1>9, <1>19, <1>20, <2>2 DEF Turn
  <2>3. CASE s < pos
    <3>1. Holds(open, s, disk[s].hint) \/ Lists(tree, s, disk[s].hint)
      BY <1>2, <1>20, <1>23, <2>3 DEF OneRunInv, FoundInv, OwnListed
    <3>2. CASE Lists(tree, s, disk[s].hint)
      BY <1>19, <3>2
    <3>3. CASE Holds(open, s, disk[s].hint)
      <4>1. open.hint = disk[s].hint /\ open.start = s /\ open.hint # NoHint
        BY <1>3, <3>3, HeaderHint DEF Holds
      <4>3. LongEnough(open.start)
        BY <1>20, <4>1 DEF Starts
      <4>2. Holds(r.file, open.start, open.hint) \/ Lists(found, open.start, open.hint)
        BY <1>1, <1>9, <1>20, <4>1, <4>3 DEF Turn
      <4> QED
        BY <1>19, <4>1, <4>2
    <3> QED
      BY <3>1, <3>2, <3>3
  <2> QED
    BY <1>3, <2>1, <2>2, <2>3
<1>21. FoundInv'
  <2>1. ExaminedHeaders' = ExaminedHeaders /\ \A s : Starts(s)' <=> Starts(s)
    BY <1>2, SameDisk
  <2>2. pc' = "scan" /\ count' < MaxFiles => OwnListed(tree, open, pos)'
    BY <1>1, <1>2, <1>4, <1>12, <1>20, <2>1 DEF OwnListed, Holds, Lists
  <2>3. file'.completed /\ ~damaged' /\ ~cut' /\ Len(file'.nodes) < MaxFiles => OwnListed(file.nodes, NoFile, Size)'
    <3>1. ASSUME file'.completed, ~damaged', ~cut' PROVE file' = file /\ ~damaged
      <4>1. CASE UNCHANGED <<file, damaged>>
        BY <3>1, <4>1
      <4>2. CASE Save(Image(pos, tree', FALSE))
        <5>1. file' = Image(pos, tree', FALSE)
          BY <3>1, <4>2, SaveOutcome
        <5> QED
          BY <3>1, <5>1 DEF Image
      <4> QED
        BY <1>2, <4>1, <4>2 DEF Checkpoint
    <3>2. ASSUME file'.completed, ~damaged', ~cut', Len(file'.nodes) < MaxFiles PROVE OwnListed(file.nodes, NoFile, Size)
      BY <1>2, <3>1, <3>2 DEF OneRunInv, FoundInv
    <3> QED
      BY <1>2, <2>1, <3>1, <3>2 DEF OwnListed, Holds, Lists
  <2> QED
    BY <1>2, <2>2, <2>3 DEF FoundInv
<1> QED
  BY <1>18, <1>21 DEF OneRunInv

LEMMA FlushOneRun ==
  ASSUME Typed, OneRunInv, FlushLast, runs = 1
  PROVE  OneRunInv'
<1>1. PICK all, found : all = Flush(disk, open) /\ found = Kept(count, all)
  OBVIOUS
<1>2. /\ pc = "flush" /\ pc' = "end" /\ tree' = AddEntries(tree, count, found) /\ count' = count + Len(found)
      /\ UNCHANGED <<disk, pos, open, file, cancel, runs, seen, damaged, cut>>
      /\ FileOK(open, Size) /\ Begun(open) /\ count <= MaxFiles
  BY <1>1 DEF FlushLast, Typed, OpenInv, TypeOK
<1>17. all \in Seq(EntryType) /\ Len(all) + Edge(open, Size) <= Size /\ InOrder(all, Edge(open, Size), Size)
      /\ (open.hint # NoHint /\ LongEnough(open.start) => Lists(all, open.start, open.hint))
  BY <1>1, <1>2, FlushIs
<1>18. count \in Nat
  BY TypedFacts
<1>3. found \in Seq(EntryType) /\ InOrder(found, Edge(open, Size), Size)
      /\ (count' < MaxFiles => found = all)
  BY <1>1, <1>2, <1>17, <1>18, KeptIs
<1>4. tree \in Seq(Node) /\ Size \in 0 .. Size /\ Size \in Nat /\ Limit(pos) \in 0 .. Size
      /\ disk \in [Sectors -> SectorType]
  BY TypedFacts, GeometryAssumption
<1>5. PICK mid \in Nat : mid = Edge(open, Size) /\ mid <= Size
  BY <1>2, <1>4, EdgeIs
<1>6. Len(tree) = count /\ InTurn(tree) /\ InOrder(tree, 0, Edge(open, Limit(pos)))
  BY <1>2 DEF OneRunInv, OrderInv
<1>7. InOrder(tree, 0, mid)
  <2>1. PICK low \in Nat : low = Edge(open, Limit(pos)) /\ low <= mid
    BY <1>2, <1>4, <1>5 DEF FileOK, NoFile, Edge, Sectors
  <2> QED
    BY <1>4, <1>6, <2>1, InOrderUpTo
<1>8. PICK u : u = tree'
  OBVIOUS
<1>9. u = AddEntries(tree, Len(tree), found)
  BY <1>2, <1>6, <1>8
<1>10. u \in Seq(Node) /\ InTurn(u) /\ Appended(u, tree, found)
  BY <1>3, <1>4, <1>6, <1>9, AddEntriesNumbers
<1>11. InOrder(u, 0, Size)
  <2>1. InOrder(found, mid, Size)
    BY <1>3, <1>5
  <2> QED
    BY <1>3, <1>4, <1>5, <1>7, <1>10, <2>1, AppendedInOrder
<1>12. Len(tree') = count'
  BY <1>2, <1>6, <1>8, <1>10 DEF Appended
<1>13. OrderInv'
  BY <1>2, <1>8, <1>10, <1>11, <1>12 DEF OrderInv, InOrder, InTurn
<1>14. \A s, h : Lists(tree, s, h) \/ Lists(found, s, h) => Lists(u, s, h)
  BY <1>3, <1>4, <1>10, AppendedLists
<1>19. ASSUME count' < MaxFiles PROVE count < MaxFiles
  <2>1. PICK m \in Nat : m = Len(found)
    BY <1>3
  <2> QED
    BY <1>2, <1>18, <1>19, <2>1, RunsAssumption
<1>15. ~cut /\ count' < MaxFiles => OwnListed(u, NoFile, Size)
  <2> SUFFICES ASSUME ~cut, count' < MaxFiles, NEW s \in ExaminedHeaders, s < Size, Starts(s)
               PROVE  Lists(u, s, disk[s].hint)
    BY DEF OwnListed
  <2>1. Holds(open, s, disk[s].hint) \/ Lists(tree, s, disk[s].hint)
    BY <1>2, <1>19 DEF OneRunInv, FoundInv, OwnListed
  <2>2. CASE Lists(tree, s, disk[s].hint)
    BY <1>14, <2>2
  <2>3. CASE Holds(open, s, disk[s].hint)
    <3>1. open.hint = disk[s].hint /\ open.start = s /\ open.hint # NoHint
      BY <1>4, <2>3, HeaderHint DEF Holds
    <3>2. LongEnough(open.start)
      BY <3>1 DEF Starts
    <3> QED
      BY <1>3, <1>14, <1>17, <3>1, <3>2
  <2> QED
    BY <2>1, <2>2, <2>3
<1>16. FoundInv'
  <2>1. ExaminedHeaders' = ExaminedHeaders /\ \A s : Starts(s)' <=> Starts(s)
    BY <1>2, SameDisk
  <2>2. ~cut' /\ count' < MaxFiles => OwnListed(tree, NoFile, Size)'
    BY <1>2, <1>8, <1>15, <2>1 DEF OwnListed, Holds, Lists
  <2>3. file'.completed /\ ~damaged' /\ ~cut' /\ Len(file'.nodes) < MaxFiles => OwnListed(file.nodes, NoFile, Size)'
    BY <1>2, <2>1 DEF OneRunInv, FoundInv, OwnListed, Holds, Lists
  <2> QED
    BY <1>2, <2>2, <2>3 DEF FoundInv
<1> QED
  BY <1>13, <1>16 DEF OneRunInv

LEMMA StartOneRun ==
  ASSUME ProgressInv, Start
  PROVE  OneRunInv'
<1>1. /\ pc' = "scan" /\ pos' = 0 /\ open' = NoFile /\ count' = 0 /\ tree' = <<>>
      /\ UNCHANGED <<disk, file>> /\ file = NoSession
  BY DEF Start, Run, ProgressInv
<1>2. PICK u : u = tree'
  OBVIOUS
<1>3. Len(u) = 0 /\ DOMAIN u = {}
  BY <1>1, <1>2
<1>4. OrderInv'
  BY <1>1, <1>2, <1>3 DEF OrderInv, InTurn, InOrder
<1>5. OwnListed(tree, open, pos)'
  <2>1. ExaminedHeaders' = ExaminedHeaders
    BY <1>1, SameDisk
  <2>2. \A s \in ExaminedHeaders : ~(s < 0)
    BY HeadersAreSectors
  <2> QED
    BY <1>1, <2>1, <2>2 DEF OwnListed
<1>6. FoundInv'
  BY <1>1, <1>5 DEF FoundInv, NoSession
<1> QED
  BY <1>4, <1>6 DEF OneRunInv

\* The file of a session that ended has what the tree had.
LEMMA EndOneRun ==
  ASSUME Typed, OneRunInv, EndSession, runs = 1
  PROVE  OneRunInv'
<1>1. /\ pc = "end" /\ pc' = "idle" /\ Save(Image(0, tree, TRUE))
      /\ UNCHANGED <<disk, pos, open, count, tree, cancel, runs, seen, cut>>
  BY DEF EndSession
<1>2. OrderInv'
  BY <1>1 DEF OneRunInv, OrderInv, InTurn, InOrder
<1>3. tree \in Seq(Node)
  BY TypedFacts
<1>4. ASSUME ~damaged', ~cut', Len(file'.nodes) < MaxFiles PROVE OwnListed(file.nodes, NoFile, Size)'
  <2>5. file'.nodes = Serialize(tree)
    BY <1>1, <1>4, SaveOutcome DEF Image
  <2>6. count < MaxFiles
    BY <1>1, <1>3, <1>4, <2>5, SerializeIs DEF OneRunInv, OrderInv
  <2>1. OwnListed(tree, NoFile, Size)
    BY <1>1, <1>4, <2>6 DEF OneRunInv, FoundInv
  <2>2. PICK nodes \in Seq(Node) : nodes = file'.nodes /\ Range(tree) \subseteq Range(nodes)
    BY <1>1, <1>3, <1>4, SaveKeeps
  <2>3. \A s, h : Lists(tree, s, h) => Lists(nodes, s, h)
    <3> SUFFICES ASSUME NEW s, NEW h, Lists(tree, s, h) PROVE Lists(nodes, s, h)
      OBVIOUS
    <3>1. PICK k \in DOMAIN tree : tree[k].start = s /\ tree[k].hint = h
      BY DEF Lists
    <3>2. tree[k] \in Range(nodes)
      BY <2>2, <3>1, InRange
    <3>3. PICK j \in DOMAIN nodes : nodes[j] = tree[k]
      BY <3>2, InRange
    <3> QED
      BY <3>1, <3>3 DEF Lists
  <2>4. ExaminedHeaders' = ExaminedHeaders /\ \A s : Starts(s)' <=> Starts(s)
    BY <1>1, SameDisk
  <2>7. OwnListed(nodes, NoFile, Size)
    BY <2>1, <2>3 DEF OwnListed
  <2> QED
    BY <1>1, <2>2, <2>4, <2>7 DEF OwnListed, Holds, Lists
<1>5. FoundInv'
  BY <1>1, <1>4 DEF FoundInv
<1> QED
  BY <1>2, <1>5 DEF OneRunInv

LEMMA OtherOneRun ==
  ASSUME Typed, OneRunInv, runs = 1,
         SaveCancelled \/ ReadError \/ EndOfPartition \/ PressCancel \/ Kill \/ UNCHANGED vars
  PROVE  OneRunInv'
<1>1. disk' = disk /\ runs' = runs
  BY DEF SaveCancelled, ReadError, EndOfPartition, PressCancel, Kill, vars
<1>2. ExaminedHeaders' = ExaminedHeaders /\ \A s : Starts(s)' <=> Starts(s)
  BY <1>1, SameDisk
<1>3. CASE SaveCancelled
  <2>1. pc = "cancelled" /\ pc' = "end" /\ cut' /\ UNCHANGED <<tree, count>>
    BY <1>3 DEF SaveCancelled
  <2> QED
    BY <2>1 DEF OneRunInv, OrderInv, FoundInv, InTurn, InOrder
<1>4. CASE ReadError
  <2>1. pc = "scan" /\ pc' = "flush" /\ cut' /\ UNCHANGED <<tree, count, open, pos>>
    BY <1>4 DEF ReadError
  <2> QED
    BY <2>1 DEF OneRunInv, OrderInv, FoundInv, InTurn, InOrder, Edge, Limit
<1>5. CASE EndOfPartition
  <2>1. pc = "scan" /\ pc' = "flush" /\ pos >= Size /\ UNCHANGED <<tree, count, open, pos, file, damaged, cut>>
    BY <1>5 DEF EndOfPartition
  <2>2. OrderInv'
    BY <2>1 DEF OneRunInv, OrderInv, InTurn, InOrder, Edge, Limit
  <2>3. \A s \in ExaminedHeaders : s < Size => s < pos
    BY <2>1, HeadersAreSectors, TypedFacts, GeometryAssumption
  <2>4. count < MaxFiles => OwnListed(tree, open, pos)
    BY <2>1 DEF OneRunInv, FoundInv
  <2>5. count' < MaxFiles => OwnListed(tree, open, Size)'
    BY <1>1, <1>2, <2>1, <2>3, <2>4 DEF OwnListed, Holds, Lists
  <2>6. file'.completed /\ ~damaged' /\ ~cut' /\ Len(file'.nodes) < MaxFiles => OwnListed(file.nodes, NoFile, Size)'
    BY <1>1, <1>2, <2>1 DEF OneRunInv, FoundInv, OwnListed, Holds, Lists
  <2> QED
    BY <2>1, <2>2, <2>5, <2>6 DEF OneRunInv, FoundInv
<1>6. CASE PressCancel \/ UNCHANGED vars
  <2>1. UNCHANGED <<disk, pc, pos, open, count, tree, file, damaged, cut>>
    BY <1>6 DEF PressCancel, vars
  <2>2. OrderInv'
    BY <1>1, <2>1 DEF OneRunInv, OrderInv, InTurn, InOrder, Edge, Limit
  <2>3. /\ OwnListed(tree, open, pos)' <=> OwnListed(tree, open, pos)
        /\ OwnListed(tree, open, Size)' <=> OwnListed(tree, open, Size)
        /\ OwnListed(tree, NoFile, Size)' <=> OwnListed(tree, NoFile, Size)
        /\ OwnListed(file.nodes, NoFile, Size)' <=> OwnListed(file.nodes, NoFile, Size)
    BY <1>1, <1>2, <2>1 DEF OwnListed, Holds, Lists
  <2>4. FoundInv'
    BY <1>1, <2>1, <2>3 DEF OneRunInv, FoundInv
  <2> QED
    BY <2>2, <2>4 DEF OneRunInv
<1>7. CASE Kill
  <2>1. pc' = "idle" /\ tree' = <<>> /\ UNCHANGED <<file, damaged, cut>>
    BY <1>7 DEF Kill
  <2>2. DOMAIN tree' = {}
    BY <2>1
  <2>3. OrderInv'
    BY <2>1, <2>2 DEF OrderInv, InTurn, InOrder
  <2>4. file'.completed /\ ~damaged' /\ ~cut' /\ Len(file'.nodes) < MaxFiles => OwnListed(file.nodes, NoFile, Size)'
    BY <1>1, <1>2, <2>1 DEF OneRunInv, FoundInv, OwnListed, Holds, Lists
  <2> QED
    BY <2>1, <2>3, <2>4 DEF OneRunInv, FoundInv
<1> QED
  BY <1>3, <1>4, <1>5, <1>6, <1>7

LEMMA OneRunInit == ASSUME Init PROVE OneRunInv
  BY DEF Init, OneRunInv, OrderInv, FoundInv

LEMMA OneRunNext ==
  ASSUME Typed, ProgressInv, OneRunInv, [Next]_vars
  PROVE  OneRunInv'
<1>1. CASE Start
  BY <1>1, StartOneRun
<1>2. CASE Resume
  <2>1. runs' # 1
    BY <1>2, RunsAssumption DEF Resume, Run
  <2> QED
    BY <2>1 DEF OneRunInv, OrderInv, FoundInv
<1>3. CASE ~(Start \/ Resume)
  <2>1. runs' = runs
    BY <1>3 DEF Next, CarveChunk, ReadError, EndOfPartition, FlushLast, SaveCancelled, EndSession,
                PressCancel, Kill, vars
  <2>2. CASE runs = 1
    BY <1>3, <2>2, ScanOneRun, FlushOneRun, EndOneRun, OtherOneRun DEF Next
  <2>3. CASE runs # 1
    BY <2>1, <2>3 DEF OneRunInv, OrderInv, FoundInv
  <2> QED
    BY <2>2, <2>3
<1> QED
  BY <1>1, <1>2, <1>3

LEMMA OneRunInvariance == Spec => [](Typed /\ ProgressInv /\ OneRunInv)
<1>1. Init => Typed /\ ProgressInv /\ OneRunInv
  BY TypedInit, ProgressInvInit, OneRunInit
<1>2. Typed /\ ProgressInv /\ OneRunInv /\ [Next]_vars => (Typed /\ ProgressInv /\ OneRunInv)'
  BY TypedNext, ProgressInvNext, OneRunNext DEF Typed
<1> QED
  BY <1>1, <1>2, PTL DEF Spec

\* Whatever lies on the disk - headers closer than a footer, footers beyond the next header,
\* files longer than their gap - the files carved in one run follow each other: carver_scan
\* cuts every file where the next begins, and the file that is open at the end of a chunk
\* goes on in the next.
THEOREM OneRunCarvesApart == Spec => []CarvedApart
<1>1. Typed /\ OneRunInv => CarvedApart
  <2> SUFFICES ASSUME Typed, OneRunInv, runs = 1, NEW i \in DOMAIN tree, NEW j \in DOMAIN tree,
                      tree[i].n < tree[j].n
               PROVE  tree[i].start + tree[i].size <= tree[j].start
    BY DEF CarvedApart
  <2>1. tree[i].n = i - 1 /\ tree[j].n = j - 1 /\ i \in Nat /\ j \in Nat
    BY TypedFacts DEF OneRunInv, OrderInv, InTurn
  <2>2. i < j
    BY <2>1
  <2> QED
    BY <2>2 DEF OneRunInv, OrderInv, InOrder
<1> QED
  BY <1>1, OneRunInvariance, PTL

\* A carve that was done in one run, was not cut, whose saves succeeded and that did not
\* come to MAX_ORPHAN_FILES has in its session a file at every header it examined that is
\* not of the type of the header before it and that no footer leaves less than
\* CARVER_MIN_SIZE bytes: no chunk boundary, footer, gap or flush loses one (carver_scan,
\* carver_add_entry, session_save).
THEOREM OneRunMissesNothing == Spec => []OneRunFindsAll
<1>1. Typed /\ OneRunInv => OneRunFindsAll
  <2> SUFFICES ASSUME Typed, OneRunInv, Whole, runs = 1, Len(file.nodes) < MaxFiles,
                      NEW s \in ExaminedHeaders, OwnFile(s), LongEnough(s)
               PROVE  \E m \in Range(file.nodes) : m.start = s /\ m.hint = disk[s].hint
    BY DEF OneRunFindsAll, AllCarved
  <2>1. s < Size
    BY HeadersAreSectors, GeometryAssumption DEF Sectors
  <2>2. Holds(NoFile, s, disk[s].hint) \/ Lists(file.nodes, s, disk[s].hint)
    BY <2>1 DEF OneRunInv, FoundInv, OwnListed, Starts, Whole
  <2>3. disk[s].hint # NoHint
    BY TypedFacts, HeaderHint
  <2>4. Lists(file.nodes, s, disk[s].hint)
    BY <2>2, <2>3 DEF Holds, NoFile
  <2>5. PICK k \in DOMAIN file.nodes : file.nodes[k].start = s /\ file.nodes[k].hint = disk[s].hint
    BY <2>4 DEF Lists
  <2>6. file.nodes[k] \in Range(file.nodes)
    BY <2>5, InRange
  <2> QED
    BY <2>5, <2>6
<1> QED
  BY <1>1, OneRunInvariance, PTL

=============================================================================
