---------------------------- MODULE Backup_proofs ----------------------------
(***************************************************************************)
(* Proofs about Backup: what was written to the index is what is read,     *)
(* what was written is everything the walk could reach, and what a         *)
(* comparison shows is what has gone or changed since, with the clusters   *)
(* the index has for it.                                                   *)
(***************************************************************************)
EXTENDS Backup, ScanTree_proofs, FiniteSetTheorems

(* Loops. *)

\* A loop of L turns over a set it does not leave.
Loops(g, L, x, S, step) ==
  g \in [0 .. L -> S] /\ g[0] = x /\ \A n \in 1 .. L : g[n] = step[<<n, g[n - 1]>>]

LEMMA LoopBuilt ==
  ASSUME NEW L \in Nat, NEW S, NEW x \in S, NEW step \in [(1 .. L) \X S -> S]
  PROVE  \E g : Loops(g, L, x, S, step)
<1> DEFINE back == [n \in 1 .. L |-> n - 1]
<1>1. back \in [1 .. L -> Nat] /\ \A n \in 1 .. L : back[n] < n /\ back[n] = n - 1
  OBVIOUS
<1> HIDE DEF back
<1>2. PICK g : Built(g, L, x, S, back, step)
  BY <1>1, Builds
<1>3. g \in [0 .. L -> S] /\ g[0] = x /\ \A n \in 1 .. L : g[n] = step[<<n, g[back[n]]>>]
  BY <1>2 DEF Built
<1>4. \A n \in 1 .. L : g[n] = step[<<n, g[n - 1]>>]
  BY <1>1, <1>3
<1> QED
  BY <1>3, <1>4 DEF Loops

\* A function that makes the same turns.
Turns(f, L, x, S, step) ==
  /\ DOMAIN f = 0 .. L /\ f = [n \in DOMAIN f |-> f[n]] /\ f[0] = x
  /\ \A n \in 1 .. L : \A s \in S : f[n - 1] = s => f[n] = step[<<n, s>>]

LEMMA LoopIs ==
  ASSUME NEW L \in Nat, NEW S, NEW x, NEW step, NEW g, Loops(g, L, x, S, step), NEW f, Turns(f, L, x, S, step)
  PROVE  f = g
<1> DEFINE back == [n \in 1 .. L |-> n - 1]
<1>1. \A n \in 1 .. L : back[n] \in 0 .. n - 1 /\ back[n] = n - 1
  OBVIOUS
<1> HIDE DEF back
<1>2. Built(g, L, x, S, back, step)
  BY <1>1 DEF Built, Loops
<1>3. Follows(f, L, x, S, back, step)
  BY <1>1 DEF Follows, Turns
<1> QED
  BY <1>2, <1>3, SameAsBuilt

------------------------------------------------------------------------------
(* The loops of the module, as functions that are built turn by turn. *)

FollowTurn(v, s) ==
  IF s.cluster \in 2 .. v.last + 1
  THEN [cluster |-> NextCluster(v, s.cluster), list |-> Append(s.list, s.cluster)] ELSE s

MappedTurn(s, c) == IF c < 0 \/ Len(s) = MaxClusters THEN s ELSE Append(s, c)

NonZeroTurn(s, b) == IF b = 0 THEN s ELSE Append(s, b)

ReadTurn(s) == IF s.words = <<>> THEN s ELSE ReadEntry(s)

FollowStays(v, first, L, S) == \A n \in 1 .. L : \A s \in S : FollowTurn(v, s) \in S

FollowMakes(g, v, first, L, S) ==
  /\ g \in [0 .. L -> S] /\ g[0] = [cluster |-> first, list |-> <<>>] /\ \A n \in 1 .. L : g[n] = FollowTurn(v, g[n - 1])
  /\ L = MaxClusters => Follow(v, first) = g[L].list

LEMMA FollowLoop ==
  ASSUME NEW v, NEW first, NEW L \in Nat, NEW S, NEW x \in S, x = [cluster |-> first, list |-> <<>>], FollowStays(v, first, L, S)
  PROVE  \E g : FollowMakes(g, v, first, L, S)
<1> DEFINE step == [p \in (1 .. L) \X S |-> FollowTurn(v, p[2])]
           Is(f) == f = [n \in 0 .. L |->
                      IF n = 0 THEN x ELSE CHOOSE r \in {FollowTurn(v, w) : w \in {f[n - 1]}} : TRUE]
<1>1. \A n \in 1 .. L, s \in S : step[<<n, s>>] = FollowTurn(v, s)
  OBVIOUS
<1>2. step \in [(1 .. L) \X S -> S]
  <2>1. \A p \in (1 .. L) \X S : FollowTurn(v, p[2]) \in S
    BY DEF FollowStays
  <2> QED
    BY <2>1
<1> HIDE DEF step
<1>0. PICK g : Loops(g, L, x, S, step)
  BY <1>2, LoopBuilt
<1>3. g \in [0 .. L -> S] /\ g[0] = x /\ \A n \in 1 .. L : g[n] = step[<<n, g[n - 1]>>]
  BY <1>0 DEF Loops
<1>4. \A n \in 1 .. L : g[n - 1] \in S /\ n \in 0 .. L /\ n # 0
  BY <1>3
<1>5. \A n \in 1 .. L : g[n] = FollowTurn(v, g[n - 1])
  BY <1>1, <1>3, <1>4
<1>6. Is(g)
  <2>1. ASSUME NEW n \in 0 .. L
        PROVE  g[n] = IF n = 0 THEN x ELSE CHOOSE r \in {FollowTurn(v, w) : w \in {g[n - 1]}} : TRUE
    <3>1. CASE n = 0
      BY <1>3, <3>1
    <3>2. CASE n # 0
      <4>1. {FollowTurn(v, w) : w \in {g[n - 1]}} = {FollowTurn(v, g[n - 1])} /\ n \in 1 .. L
        BY <3>2
      <4> QED
        BY <1>5, <3>2, <4>1, Choice
    <3> QED
      BY <3>1, <3>2
  <2>2. g = [n \in 0 .. L |-> g[n]]
    BY <1>3
  <2> QED
    BY <2>1, <2>2, Zenon
<1> DEFINE f == CHOOSE f : Is(f)
<1>7. Is(f)
  BY <1>6
<1>8. L = MaxClusters => Follow(v, first) = f[L].list
  BY DEF Follow, FollowTurn, With
<1> HIDE DEF f
<1>9. DOMAIN f = 0 .. L /\ f = [n \in DOMAIN f |-> f[n]] /\ f[0] = x
  BY <1>7
<1>10. ASSUME NEW n \in 1 .. L, NEW s \in S, f[n - 1] = s PROVE f[n] = step[<<n, s>>]
  <2>1. f[n] = CHOOSE r \in {FollowTurn(v, w) : w \in {f[n - 1]}} : TRUE
    BY <1>4, <1>7
  <2>2. {FollowTurn(v, w) : w \in {f[n - 1]}} = {FollowTurn(v, s)}
    BY <1>10
  <2> QED
    BY <1>1, <2>1, <2>2, Choice
<1>11. Turns(f, L, x, S, step)
  BY <1>9, <1>10 DEF Turns
<1>12. f = g
  BY <1>0, <1>11, LoopIs
<1> QED
  BY <1>5, <1>3, <1>8, <1>12 DEF FollowMakes

MappedStays(list, L, S) == \A n \in 1 .. L : \A s \in S : MappedTurn(s, list[n]) \in S

MappedMakes(g, list, L, S) ==
  /\ g \in [0 .. L -> S] /\ g[0] = <<>> /\ \A n \in 1 .. L : g[n] = MappedTurn(g[n - 1], list[n])
  /\ L = Len(list) => Mapped(list) = g[L]

LEMMA MappedLoop ==
  ASSUME NEW list, NEW L \in Nat, NEW S, NEW x \in S, x = <<>>, MappedStays(list, L, S)
  PROVE  \E g : MappedMakes(g, list, L, S)
<1> DEFINE step == [p \in (1 .. L) \X S |-> MappedTurn(p[2], list[p[1]])]
           Is(f) == f = [n \in 0 .. L |->
                      IF n = 0 THEN x ELSE CHOOSE r \in {MappedTurn(w, list[n]) : w \in {f[n - 1]}} : TRUE]
<1>1. \A n \in 1 .. L, s \in S : step[<<n, s>>] = MappedTurn(s, list[n])
  OBVIOUS
<1>2. step \in [(1 .. L) \X S -> S]
  <2>1. \A p \in (1 .. L) \X S : MappedTurn(p[2], list[p[1]]) \in S
    BY DEF MappedStays
  <2> QED
    BY <2>1
<1> HIDE DEF step
<1>0. PICK g : Loops(g, L, x, S, step)
  BY <1>2, LoopBuilt
<1>3. g \in [0 .. L -> S] /\ g[0] = x /\ \A n \in 1 .. L : g[n] = step[<<n, g[n - 1]>>]
  BY <1>0 DEF Loops
<1>4. \A n \in 1 .. L : g[n - 1] \in S /\ n \in 0 .. L /\ n # 0
  BY <1>3
<1>5. \A n \in 1 .. L : g[n] = MappedTurn(g[n - 1], list[n])
  BY <1>1, <1>3, <1>4
<1>6. Is(g)
  <2>1. ASSUME NEW n \in 0 .. L
        PROVE  g[n] = IF n = 0 THEN x ELSE CHOOSE r \in {MappedTurn(w, list[n]) : w \in {g[n - 1]}} : TRUE
    <3>1. CASE n = 0
      BY <1>3, <3>1
    <3>2. CASE n # 0
      <4>1. {MappedTurn(w, list[n]) : w \in {g[n - 1]}} = {MappedTurn(g[n - 1], list[n])} /\ n \in 1 .. L
        BY <3>2
      <4> QED
        BY <1>5, <3>2, <4>1, Choice
    <3> QED
      BY <3>1, <3>2
  <2>2. g = [n \in 0 .. L |-> g[n]]
    BY <1>3
  <2> QED
    BY <2>1, <2>2, Zenon
<1> DEFINE f == CHOOSE f : Is(f)
<1>7. Is(f)
  BY <1>6
<1>8. L = Len(list) => Mapped(list) = f[L]
  BY DEF Mapped, MappedTurn, With
<1> HIDE DEF f
<1>9. DOMAIN f = 0 .. L /\ f = [n \in DOMAIN f |-> f[n]] /\ f[0] = x
  BY <1>7
<1>10. ASSUME NEW n \in 1 .. L, NEW s \in S, f[n - 1] = s PROVE f[n] = step[<<n, s>>]
  <2>1. f[n] = CHOOSE r \in {MappedTurn(w, list[n]) : w \in {f[n - 1]}} : TRUE
    BY <1>4, <1>7
  <2>2. {MappedTurn(w, list[n]) : w \in {f[n - 1]}} = {MappedTurn(s, list[n])}
    BY <1>10
  <2> QED
    BY <1>1, <2>1, <2>2, Choice
<1>11. Turns(f, L, x, S, step)
  BY <1>9, <1>10 DEF Turns
<1>12. f = g
  BY <1>0, <1>11, LoopIs
<1> QED
  BY <1>5, <1>3, <1>8, <1>12 DEF MappedMakes

NonZeroStays(list, L, S) == \A n \in 1 .. L : \A s \in S : NonZeroTurn(s, list[n]) \in S

NonZeroMakes(g, list, L, S) ==
  /\ g \in [0 .. L -> S] /\ g[0] = <<>> /\ \A n \in 1 .. L : g[n] = NonZeroTurn(g[n - 1], list[n])
  /\ L = Len(list) => NonZero(list) = g[L]

LEMMA NonZeroLoop ==
  ASSUME NEW list, NEW L \in Nat, NEW S, NEW x \in S, x = <<>>, NonZeroStays(list, L, S)
  PROVE  \E g : NonZeroMakes(g, list, L, S)
<1> DEFINE step == [p \in (1 .. L) \X S |-> NonZeroTurn(p[2], list[p[1]])]
           Is(f) == f = [n \in 0 .. L |->
                      IF n = 0 THEN x ELSE CHOOSE r \in {NonZeroTurn(w, list[n]) : w \in {f[n - 1]}} : TRUE]
<1>1. \A n \in 1 .. L, s \in S : step[<<n, s>>] = NonZeroTurn(s, list[n])
  OBVIOUS
<1>2. step \in [(1 .. L) \X S -> S]
  <2>1. \A p \in (1 .. L) \X S : NonZeroTurn(p[2], list[p[1]]) \in S
    BY DEF NonZeroStays
  <2> QED
    BY <2>1
<1> HIDE DEF step
<1>0. PICK g : Loops(g, L, x, S, step)
  BY <1>2, LoopBuilt
<1>3. g \in [0 .. L -> S] /\ g[0] = x /\ \A n \in 1 .. L : g[n] = step[<<n, g[n - 1]>>]
  BY <1>0 DEF Loops
<1>4. \A n \in 1 .. L : g[n - 1] \in S /\ n \in 0 .. L /\ n # 0
  BY <1>3
<1>5. \A n \in 1 .. L : g[n] = NonZeroTurn(g[n - 1], list[n])
  BY <1>1, <1>3, <1>4
<1>6. Is(g)
  <2>1. ASSUME NEW n \in 0 .. L
        PROVE  g[n] = IF n = 0 THEN x ELSE CHOOSE r \in {NonZeroTurn(w, list[n]) : w \in {g[n - 1]}} : TRUE
    <3>1. CASE n = 0
      BY <1>3, <3>1
    <3>2. CASE n # 0
      <4>1. {NonZeroTurn(w, list[n]) : w \in {g[n - 1]}} = {NonZeroTurn(g[n - 1], list[n])} /\ n \in 1 .. L
        BY <3>2
      <4> QED
        BY <1>5, <3>2, <4>1, Choice
    <3> QED
      BY <3>1, <3>2
  <2>2. g = [n \in 0 .. L |-> g[n]]
    BY <1>3
  <2> QED
    BY <2>1, <2>2, Zenon
<1> DEFINE f == CHOOSE f : Is(f)
<1>7. Is(f)
  BY <1>6
<1>8. L = Len(list) => NonZero(list) = f[L]
  BY DEF NonZero, NonZeroTurn, With
<1> HIDE DEF f
<1>9. DOMAIN f = 0 .. L /\ f = [n \in DOMAIN f |-> f[n]] /\ f[0] = x
  BY <1>7
<1>10. ASSUME NEW n \in 1 .. L, NEW s \in S, f[n - 1] = s PROVE f[n] = step[<<n, s>>]
  <2>1. f[n] = CHOOSE r \in {NonZeroTurn(w, list[n]) : w \in {f[n - 1]}} : TRUE
    BY <1>4, <1>7
  <2>2. {NonZeroTurn(w, list[n]) : w \in {f[n - 1]}} = {NonZeroTurn(s, list[n])}
    BY <1>10
  <2> QED
    BY <1>1, <2>1, <2>2, Choice
<1>11. Turns(f, L, x, S, step)
  BY <1>9, <1>10 DEF Turns
<1>12. f = g
  BY <1>0, <1>11, LoopIs
<1> QED
  BY <1>5, <1>3, <1>8, <1>12 DEF NonZeroMakes

IndirectStays(v, b, level, L, S) == \A n \in 1 .. L : \A s \in S : ReadLevel(v, s) \in S

IndirectMakes(g, v, b, level, L, S) ==
  /\ g \in [0 .. L -> S] /\ g[0] = Recorded(NonZero(<<b>>)) /\ \A n \in 1 .. L : g[n] = ReadLevel(v, g[n - 1])
  /\ L = level => Indirect(v, b, level) = g[L]

LEMMA IndirectLoop ==
  ASSUME NEW v, NEW b, NEW level, NEW L \in Nat, NEW S, NEW x \in S, x = Recorded(NonZero(<<b>>)), IndirectStays(v, b, level, L, S)
  PROVE  \E g : IndirectMakes(g, v, b, level, L, S)
<1> DEFINE step == [p \in (1 .. L) \X S |-> ReadLevel(v, p[2])]
           Is(f) == f = [n \in 0 .. L |->
                      IF n = 0 THEN x ELSE CHOOSE r \in {ReadLevel(v, w) : w \in {f[n - 1]}} : TRUE]
<1>1. \A n \in 1 .. L, s \in S : step[<<n, s>>] = ReadLevel(v, s)
  OBVIOUS
<1>2. step \in [(1 .. L) \X S -> S]
  <2>1. \A p \in (1 .. L) \X S : ReadLevel(v, p[2]) \in S
    BY DEF IndirectStays
  <2> QED
    BY <2>1
<1> HIDE DEF step
<1>0. PICK g : Loops(g, L, x, S, step)
  BY <1>2, LoopBuilt
<1>3. g \in [0 .. L -> S] /\ g[0] = x /\ \A n \in 1 .. L : g[n] = step[<<n, g[n - 1]>>]
  BY <1>0 DEF Loops
<1>4. \A n \in 1 .. L : g[n - 1] \in S /\ n \in 0 .. L /\ n # 0
  BY <1>3
<1>5. \A n \in 1 .. L : g[n] = ReadLevel(v, g[n - 1])
  BY <1>1, <1>3, <1>4
<1>6. Is(g)
  <2>1. ASSUME NEW n \in 0 .. L
        PROVE  g[n] = IF n = 0 THEN x ELSE CHOOSE r \in {ReadLevel(v, w) : w \in {g[n - 1]}} : TRUE
    <3>1. CASE n = 0
      BY <1>3, <3>1
    <3>2. CASE n # 0
      <4>1. {ReadLevel(v, w) : w \in {g[n - 1]}} = {ReadLevel(v, g[n - 1])} /\ n \in 1 .. L
        BY <3>2
      <4> QED
        BY <1>5, <3>2, <4>1, Choice
    <3> QED
      BY <3>1, <3>2
  <2>2. g = [n \in 0 .. L |-> g[n]]
    BY <1>3
  <2> QED
    BY <2>1, <2>2, Zenon
<1> DEFINE f == CHOOSE f : Is(f)
<1>7. Is(f)
  BY <1>6
<1>8. L = level => Indirect(v, b, level) = f[L]
  BY DEF Indirect, With
<1> HIDE DEF f
<1>9. DOMAIN f = 0 .. L /\ f = [n \in DOMAIN f |-> f[n]] /\ f[0] = x
  BY <1>7
<1>10. ASSUME NEW n \in 1 .. L, NEW s \in S, f[n - 1] = s PROVE f[n] = step[<<n, s>>]
  <2>1. f[n] = CHOOSE r \in {ReadLevel(v, w) : w \in {f[n - 1]}} : TRUE
    BY <1>4, <1>7
  <2>2. {ReadLevel(v, w) : w \in {f[n - 1]}} = {ReadLevel(v, s)}
    BY <1>10
  <2> QED
    BY <1>1, <2>1, <2>2, Choice
<1>11. Turns(f, L, x, S, step)
  BY <1>9, <1>10 DEF Turns
<1>12. f = g
  BY <1>0, <1>11, LoopIs
<1> QED
  BY <1>5, <1>3, <1>8, <1>12 DEF IndirectMakes

LoadStays(fl, L, S) == \A n \in 1 .. L : \A s \in S : ReadTurn(s) \in S

LoadMakes(g, fl, L, S) ==
  /\ g \in [0 .. L -> S] /\ g[0] = [words |-> fl.words, entries |-> <<>>] /\ \A n \in 1 .. L : g[n] = ReadTurn(g[n - 1])
  /\ L = fl.count => LoadFile(fl) = g[L].entries

LEMMA LoadLoop ==
  ASSUME NEW fl, NEW L \in Nat, NEW S, NEW x \in S, x = [words |-> fl.words, entries |-> <<>>], LoadStays(fl, L, S)
  PROVE  \E g : LoadMakes(g, fl, L, S)
<1> DEFINE step == [p \in (1 .. L) \X S |-> ReadTurn(p[2])]
           Is(f) == f = [n \in 0 .. L |->
                      IF n = 0 THEN x ELSE CHOOSE r \in {ReadTurn(w) : w \in {f[n - 1]}} : TRUE]
<1>1. \A n \in 1 .. L, s \in S : step[<<n, s>>] = ReadTurn(s)
  OBVIOUS
<1>2. step \in [(1 .. L) \X S -> S]
  <2>1. \A p \in (1 .. L) \X S : ReadTurn(p[2]) \in S
    BY DEF LoadStays
  <2> QED
    BY <2>1
<1> HIDE DEF step
<1>0. PICK g : Loops(g, L, x, S, step)
  BY <1>2, LoopBuilt
<1>3. g \in [0 .. L -> S] /\ g[0] = x /\ \A n \in 1 .. L : g[n] = step[<<n, g[n - 1]>>]
  BY <1>0 DEF Loops
<1>4. \A n \in 1 .. L : g[n - 1] \in S /\ n \in 0 .. L /\ n # 0
  BY <1>3
<1>5. \A n \in 1 .. L : g[n] = ReadTurn(g[n - 1])
  BY <1>1, <1>3, <1>4
<1>6. Is(g)
  <2>1. ASSUME NEW n \in 0 .. L
        PROVE  g[n] = IF n = 0 THEN x ELSE CHOOSE r \in {ReadTurn(w) : w \in {g[n - 1]}} : TRUE
    <3>1. CASE n = 0
      BY <1>3, <3>1
    <3>2. CASE n # 0
      <4>1. {ReadTurn(w) : w \in {g[n - 1]}} = {ReadTurn(g[n - 1])} /\ n \in 1 .. L
        BY <3>2
      <4> QED
        BY <1>5, <3>2, <4>1, Choice
    <3> QED
      BY <3>1, <3>2
  <2>2. g = [n \in 0 .. L |-> g[n]]
    BY <1>3
  <2> QED
    BY <2>1, <2>2, Zenon
<1> DEFINE f == CHOOSE f : Is(f)
<1>7. Is(f)
  BY <1>6
<1>8. L = fl.count => LoadFile(fl) = f[L].entries
  BY DEF LoadFile, ReadTurn, With
<1> HIDE DEF f
<1>9. DOMAIN f = 0 .. L /\ f = [n \in DOMAIN f |-> f[n]] /\ f[0] = x
  BY <1>7
<1>10. ASSUME NEW n \in 1 .. L, NEW s \in S, f[n - 1] = s PROVE f[n] = step[<<n, s>>]
  <2>1. f[n] = CHOOSE r \in {ReadTurn(w) : w \in {f[n - 1]}} : TRUE
    BY <1>4, <1>7
  <2>2. {ReadTurn(w) : w \in {f[n - 1]}} = {ReadTurn(s)}
    BY <1>10
  <2> QED
    BY <1>1, <2>1, <2>2, Choice
<1>11. Turns(f, L, x, S, step)
  BY <1>9, <1>10 DEF Turns
<1>12. f = g
  BY <1>0, <1>11, LoopIs
<1> QED
  BY <1>5, <1>3, <1>8, <1>12 DEF LoadMakes

JudgeStays(entries, sorted, L, S) == \A n \in 1 .. L : \A s \in S : Judge(s, entries[n], sorted) \in S

JudgeMakes(g, entries, sorted, L, S) ==
  /\ g \in [0 .. L -> S] /\ g[0] = <<>> /\ \A n \in 1 .. L : g[n] = Judge(g[n - 1], entries[n], sorted)
  /\ L = Len(entries) => JudgeAll(entries, sorted) = g[L]

LEMMA JudgeLoop ==
  ASSUME NEW entries, NEW sorted, NEW L \in Nat, NEW S, NEW x \in S, x = <<>>, JudgeStays(entries, sorted, L, S)
  PROVE  \E g : JudgeMakes(g, entries, sorted, L, S)
<1> DEFINE step == [p \in (1 .. L) \X S |-> Judge(p[2], entries[p[1]], sorted)]
           Is(f) == f = [n \in 0 .. L |->
                      IF n = 0 THEN x ELSE CHOOSE r \in {Judge(w, entries[n], sorted) : w \in {f[n - 1]}} : TRUE]
<1>1. \A n \in 1 .. L, s \in S : step[<<n, s>>] = Judge(s, entries[n], sorted)
  OBVIOUS
<1>2. step \in [(1 .. L) \X S -> S]
  <2>1. \A p \in (1 .. L) \X S : Judge(p[2], entries[p[1]], sorted) \in S
    BY DEF JudgeStays
  <2> QED
    BY <2>1
<1> HIDE DEF step
<1>0. PICK g : Loops(g, L, x, S, step)
  BY <1>2, LoopBuilt
<1>3. g \in [0 .. L -> S] /\ g[0] = x /\ \A n \in 1 .. L : g[n] = step[<<n, g[n - 1]>>]
  BY <1>0 DEF Loops
<1>4. \A n \in 1 .. L : g[n - 1] \in S /\ n \in 0 .. L /\ n # 0
  BY <1>3
<1>5. \A n \in 1 .. L : g[n] = Judge(g[n - 1], entries[n], sorted)
  BY <1>1, <1>3, <1>4
<1>6. Is(g)
  <2>1. ASSUME NEW n \in 0 .. L
        PROVE  g[n] = IF n = 0 THEN x ELSE CHOOSE r \in {Judge(w, entries[n], sorted) : w \in {g[n - 1]}} : TRUE
    <3>1. CASE n = 0
      BY <1>3, <3>1
    <3>2. CASE n # 0
      <4>1. {Judge(w, entries[n], sorted) : w \in {g[n - 1]}} = {Judge(g[n - 1], entries[n], sorted)} /\ n \in 1 .. L
        BY <3>2
      <4> QED
        BY <1>5, <3>2, <4>1, Choice
    <3> QED
      BY <3>1, <3>2
  <2>2. g = [n \in 0 .. L |-> g[n]]
    BY <1>3
  <2> QED
    BY <2>1, <2>2, Zenon
<1> DEFINE f == CHOOSE f : Is(f)
<1>7. Is(f)
  BY <1>6
<1>8. L = Len(entries) => JudgeAll(entries, sorted) = f[L]
  BY DEF JudgeAll, With
<1> HIDE DEF f
<1>9. DOMAIN f = 0 .. L /\ f = [n \in DOMAIN f |-> f[n]] /\ f[0] = x
  BY <1>7
<1>10. ASSUME NEW n \in 1 .. L, NEW s \in S, f[n - 1] = s PROVE f[n] = step[<<n, s>>]
  <2>1. f[n] = CHOOSE r \in {Judge(w, entries[n], sorted) : w \in {f[n - 1]}} : TRUE
    BY <1>4, <1>7
  <2>2. {Judge(w, entries[n], sorted) : w \in {f[n - 1]}} = {Judge(s, entries[n], sorted)}
    BY <1>10
  <2> QED
    BY <1>1, <2>1, <2>2, Choice
<1>11. Turns(f, L, x, S, step)
  BY <1>9, <1>10 DEF Turns
<1>12. f = g
  BY <1>0, <1>11, LoopIs
<1> QED
  BY <1>5, <1>3, <1>8, <1>12 DEF JudgeMakes

------------------------------------------------------------------------------
(* What the collectors of clusters give. *)

FoundLists(S) == {f \in [none : BOOLEAN, clusters : Seq(S)] : f.none => f.clusters = <<>>}

LEMMA RecordedIn ==
  ASSUME NEW S
  PROVE  NoClusters \in FoundLists(S) /\ \A list \in Seq(S) : Recorded(list) \in FoundLists(S)
  BY DEF NoClusters, Recorded, FoundLists

FollowStates(v, first) ==
  [cluster : {first} \cup {NextCluster(v, c) : c \in Nat}, list : Seq(Nat)]

LEMMA FollowGoes ==
  ASSUME NEW v, v.last \in Nat, NEW first
  PROVE  \E g : FollowMakes(g, v, first, MaxClusters, FollowStates(v, first))
<1> DEFINE C == {first} \cup {NextCluster(v, c) : c \in Nat}
           S == [cluster : C, list : Seq(Nat)]
           x == [cluster |-> first, list |-> <<>>]
<1>1. x \in S
  OBVIOUS
<1>2. MaxClusters \in Nat
  BY BackupAssumption
<1>3. FollowStays(v, first, MaxClusters, S)
  <2> SUFFICES ASSUME NEW s \in S PROVE FollowTurn(v, s) \in S
    BY DEF FollowStays
  <2>1. CASE s.cluster \in 2 .. v.last + 1
    <3>1. s.cluster \in Nat
      BY <2>1
    <3>2. NextCluster(v, s.cluster) \in C
      BY <3>1
    <3>3. Append(s.list, s.cluster) \in Seq(Nat)
      BY <3>1
    <3> HIDE DEF C
    <3> QED
      BY <2>1, <3>2, <3>3 DEF FollowTurn
  <2>2. CASE s.cluster \notin 2 .. v.last + 1
    BY <2>2 DEF FollowTurn
  <2> QED
    BY <2>1, <2>2
<1>4. S = FollowStates(v, first)
  BY DEF FollowStates
<1> HIDE DEF S
<1> QED
  BY <1>1, <1>2, <1>3, <1>4, FollowLoop

LEMMA FollowIn ==
  ASSUME NEW v, v.last \in Nat, NEW first
  PROVE  Follow(v, first) \in Seq(Nat)
<1>1. PICK g : FollowMakes(g, v, first, MaxClusters, FollowStates(v, first))
  BY FollowGoes
<1>2. g[MaxClusters] \in FollowStates(v, first)
  BY <1>1, BackupAssumption DEF FollowMakes
<1> QED
  BY <1>1, <1>2 DEF FollowStates, FollowMakes

LEMMA MappedIn ==
  ASSUME NEW list \in Seq(Int)
  PROVE  Mapped(list) \in Seq(Int)
<1> DEFINE L == Len(list)
<1>1. L \in Nat
  OBVIOUS
<1>2. MappedStays(list, L, Seq(Int))
  BY DEF MappedTurn, MappedStays
<1>3. <<>> \in Seq(Int)
  OBVIOUS
<1>4. PICK g : MappedMakes(g, list, L, Seq(Int))
  <2> HIDE DEF L
  <2> QED
    BY <1>1, <1>2, <1>3, MappedLoop
<1> QED
  BY <1>1, <1>4 DEF MappedMakes

LEMMA RunsIn ==
  ASSUME NEW list \in Seq(Int)
  PROVE  Runs(list) \in FoundLists(Int)
<1> DEFINE Op(kept) == IF kept = <<>> THEN NoClusters ELSE Recorded(kept)
<1>1. Runs(list) = Op(Mapped(list))
  <2>1. {Op(w) : w \in {Mapped(list)}} = {Op(Mapped(list))}
    OBVIOUS
  <2> QED
    BY <2>1, Choice DEF Runs, With
<1> QED
  BY <1>1, MappedIn, RecordedIn

LEMMA NonZeroIn ==
  ASSUME NEW list \in Seq(Nat)
  PROVE  NonZero(list) \in Seq(Nat)
<1> DEFINE L == Len(list)
<1>1. L \in Nat
  OBVIOUS
<1>2. NonZeroStays(list, L, Seq(Nat))
  BY DEF NonZeroTurn, NonZeroStays
<1>3. <<>> \in Seq(Nat)
  OBVIOUS
<1>4. PICK g : NonZeroMakes(g, list, L, Seq(Nat))
  <2> HIDE DEF L
  <2> QED
    BY <1>1, <1>2, <1>3, NonZeroLoop
<1> QED
  BY <1>1, <1>4 DEF NonZeroMakes

LEMMA FlattenIn ==
  ASSUME NEW S, NEW L \in Nat, NEW lists \in [1 .. L -> Seq(S)]
  PROVE  FlattenSeq(lists) \in Seq(S)
<1>1. lists \in Seq(Seq(S)) /\ Len(lists) = L
  OBVIOUS
<1>2. CASE L = 0
  <2>1. FlattenSeq(lists) = lists /\ lists = <<>>
    BY <1>1, <1>2 DEF FlattenSeq
  <2> QED
    BY <2>1
<1>3. CASE L # 0
  <2> DEFINE M == L - 1
             step == [p \in (1 .. M) \X Seq(S) |-> p[2] \o lists[p[1] + 1]]
             Is(f) == f = [i \in 1 .. Len(lists) |-> IF i = 1 THEN lists[i] ELSE f[i - 1] \o lists[i]]
             f == CHOOSE f : Is(f)
  <2>1. M \in Nat /\ lists[1] \in Seq(S)
    BY <1>3
  <2>2. step \in [(1 .. M) \X Seq(S) -> Seq(S)]
    <3>1. \A p \in (1 .. M) \X Seq(S) : p[2] \o lists[p[1] + 1] \in Seq(S)
      OBVIOUS
    <3> QED
      BY <3>1
  <2>3. \A n \in 1 .. M, s \in Seq(S) : step[<<n, s>>] = s \o lists[n + 1]
    OBVIOUS
  <2> HIDE DEF step
  <2>4. PICK g : Loops(g, M, lists[1], Seq(S), step)
    <3> HIDE DEF M
    <3> QED
      BY <2>1, <2>2, LoopBuilt
  <2>5. g[0] = lists[1] /\ \A n \in 1 .. M : g[n] = g[n - 1] \o lists[n + 1]
    <3>1. \A n \in 1 .. M : g[n] = step[<<n, g[n - 1]>>] /\ g[n - 1] \in Seq(S)
      BY <2>1, <2>4 DEF Loops
    <3> QED
      BY <2>3, <2>4, <3>1 DEF Loops
  <2>6. Is([i \in 1 .. L |-> g[i - 1]])
    <3>1. \A i \in 1 .. L : i # 1 => i - 1 \in 1 .. M /\ (i - 1) + 1 = i /\ (i - 1) - 1 = i - 2
      OBVIOUS
    <3>2. \A i \in 1 .. L : i # 1 => g[i - 1] = g[i - 2] \o lists[i]
      BY <2>5, <3>1
    <3>3. \A i \in 1 .. L : i # 1 => [k \in 1 .. L |-> g[k - 1]][i - 1] = g[i - 2]
      OBVIOUS
    <3>4. \A i \in 1 .. L :
            g[i - 1] = IF i = 1 THEN lists[i] ELSE [k \in 1 .. L |-> g[k - 1]][i - 1] \o lists[i]
      <4> SUFFICES ASSUME NEW i \in 1 .. L
                   PROVE  g[i - 1] = IF i = 1 THEN lists[i] ELSE [k \in 1 .. L |-> g[k - 1]][i - 1] \o lists[i]
        OBVIOUS
      <4>1. CASE i = 1
        BY <2>5, <4>1
      <4>2. CASE i # 1
        BY <3>2, <3>3, <4>2
      <4> QED
        BY <4>1, <4>2
    <3> QED
      BY <1>1, <3>4
  <2>7. Is(f)
    BY <2>6
  <2>8. FlattenSeq(lists) = f[L]
    BY <1>1, <1>3 DEF FlattenSeq
  <2> HIDE DEF f
  <2>9. \A i \in 1 .. L : f[i] = IF i = 1 THEN lists[i] ELSE f[i - 1] \o lists[i]
    BY <1>1, <2>7
  <2> DEFINE Bad == {i \in 1 .. L : f[i] \notin Seq(S)}
  <2>10. Bad = {}
    <3> SUFFICES ASSUME Bad # {} PROVE FALSE
      OBVIOUS
    <3>1. PICK m \in Bad : \A k \in Bad : m <= k
      <4>1. Bad \in SUBSET Nat
        OBVIOUS
      <4> HIDE DEF Bad
      <4> QED
        BY <4>1, LeastNat
    <3>2. m # 1
      BY <2>1, <2>9, <3>1
    <3>3. f[m - 1] \in Seq(S)
      BY <3>1, <3>2
    <3>4. f[m] = f[m - 1] \o lists[m] /\ lists[m] \in Seq(S)
      BY <2>9, <3>1, <3>2
    <3>5. f[m] \in Seq(S)
      BY <3>3, <3>4
    <3> QED
      BY <3>1, <3>5
  <2> QED
    BY <1>3, <2>8, <2>10
<1> QED
  BY <1>2, <1>3

LEMMA ProductIn ==
  ASSUME NEW a \in Nat, NEW b \in Nat
  PROVE  a * b \in Nat
  OBVIOUS

LEMMA PointedIn ==
  ASSUME NEW v, NEW b, v.blocks[b] \in Seq(Nat)
  PROVE  Pointed(v, b) \in Seq(Nat)
<1> DEFINE w == v.blocks[b]
           pairs == [i \in 1 .. Len(w) \div 2 |-> w[2 * i - 1] + Wide * w[2 * i]]
<1>1. Wide \in Nat /\ w \in Seq(Nat) /\ Len(w) \in Nat
  BY BackupAssumption
<1>2. Len(w) \div 2 \in Nat /\ 2 * (Len(w) \div 2) <= Len(w)
  <2> HIDE DEF w
  <2> QED
    BY <1>1
<1>3. \A i \in 1 .. Len(w) \div 2 : w[2 * i - 1] + Wide * w[2 * i] \in Nat
  <2> HIDE DEF w
  <2> SUFFICES ASSUME NEW i \in 1 .. Len(w) \div 2 PROVE w[2 * i - 1] + Wide * w[2 * i] \in Nat
    OBVIOUS
  <2>1. 2 * i - 1 \in 1 .. Len(w) /\ 2 * i \in 1 .. Len(w)
    <3>1. PICK h : h = Len(w) \div 2
      OBVIOUS
    <3>2. h \in Nat /\ 2 * h <= Len(w) /\ i \in 1 .. h
      BY <1>2, <3>1
    <3> QED
      BY <1>1, <3>2
  <2>2. w[2 * i - 1] \in Nat /\ w[2 * i] \in Nat
    BY <1>1, <2>1
  <2>3. Wide * w[2 * i] \in Nat
    BY <1>1, <2>2, ProductIn
  <2>4. \A m, n \in Nat : m + n \in Nat
    OBVIOUS
  <2> QED
    BY <2>2, <2>3, <2>4
<1>4. pairs \in Seq(Nat)
  <2> HIDE DEF w
  <2> QED
    BY <1>2, <1>3
<1>5. NonZero(pairs) \in Seq(Nat)
  <2> HIDE DEF pairs
  <2> QED
    BY <1>4, NonZeroIn
<1> QED
  BY <1>5 DEF Pointed

LEMMA ReadLevelIn ==
  ASSUME NEW v, \A b \in DOMAIN v.blocks : v.blocks[b] \in Seq(Nat), NEW s \in FoundLists(Nat)
  PROVE  ReadLevel(v, s) \in FoundLists(Nat)
<1>1. CASE s.none \/ ~(ToSet(s.clusters) \subseteq DOMAIN v.blocks)
  BY <1>1, RecordedIn DEF ReadLevel
<1>2. CASE ~s.none /\ ToSet(s.clusters) \subseteq DOMAIN v.blocks
  <2> DEFINE L == Len(s.clusters)
             lists == [k \in DOMAIN s.clusters |-> Pointed(v, s.clusters[k])]
  <2>1. s.clusters \in Seq(Nat)
    BY DEF FoundLists
  <2>2. L \in Nat /\ DOMAIN s.clusters = 1 .. L
    BY <2>1
  <2>3. \A k \in 1 .. L : s.clusters[k] \in DOMAIN v.blocks
    BY <1>2, <2>2 DEF ToSet
  <2>4. \A k \in 1 .. L : Pointed(v, s.clusters[k]) \in Seq(Nat)
    BY <2>3, PointedIn
  <2>5. lists \in [1 .. L -> Seq(Nat)]
    BY <2>2, <2>4
  <2>6. FlattenSeq(lists) \in Seq(Nat)
    <3> HIDE DEF lists, L
    <3> QED
      BY <2>2, <2>5, FlattenIn
  <2>7. Recorded(FlattenSeq(lists)) \in FoundLists(Nat)
    <3> HIDE DEF lists
    <3> QED
      BY <2>6, RecordedIn
  <2> QED
    BY <1>2, <2>7 DEF ReadLevel
<1> QED
  BY <1>1, <1>2

LEMMA IndirectGoes ==
  ASSUME NEW v, \A b \in DOMAIN v.blocks : v.blocks[b] \in Seq(Nat), NEW b \in Nat, NEW level \in Nat
  PROVE  \E g : IndirectMakes(g, v, b, level, level, FoundLists(Nat))
<1> DEFINE S == FoundLists(Nat)
           x == Recorded(NonZero(<<b>>))
<1>1. x \in S
  <2>1. <<b>> \in Seq(Nat)
    OBVIOUS
  <2>2. NonZero(<<b>>) \in Seq(Nat)
    BY <2>1, NonZeroIn
  <2> QED
    BY <2>2, RecordedIn
<1>2. IndirectStays(v, b, level, level, S)
  BY ReadLevelIn DEF IndirectStays
<1> HIDE DEF S
<1>3. \E g : IndirectMakes(g, v, b, level, level, S)
  BY <1>1, <1>2, IndirectLoop
<1> QED
  BY <1>3 DEF S

LEMMA IndirectIn ==
  ASSUME NEW v, \A b \in DOMAIN v.blocks : v.blocks[b] \in Seq(Nat), NEW b \in Nat, NEW level \in Nat
  PROVE  Indirect(v, b, level) \in FoundLists(Nat)
<1>1. PICK g : IndirectMakes(g, v, b, level, level, FoundLists(Nat))
  BY IndirectGoes
<1> QED
  BY <1>1 DEF IndirectMakes

PartsOf(v, inode) == [level \in 1 .. 3 |-> Indirect(v, inode.indirect[level], level)]

AllOf(inode, p) == NonZero(inode.direct) \o p[1].clusters \o p[2].clusters \o p[3].clusters

EndOf(p, all) == IF all = <<>> \/ \E level \in 1 .. 3 : p[level].none THEN NoClusters ELSE Recorded(all)

LEMMA BlocksAre ==
  ASSUME NEW v, NEW inode
  PROVE  Blocks(v, inode) = EndOf(PartsOf(v, inode), AllOf(inode, PartsOf(v, inode)))
<1> DEFINE parts == PartsOf(v, inode)
           Op(p) == With(AllOf(inode, p), LAMBDA all : EndOf(p, all))
<1>1. Blocks(v, inode) = Op(parts)
  <2>0. Blocks(v, inode) = CHOOSE r \in {Op(w) : w \in {parts}} : TRUE
    BY DEF Blocks, With, PartsOf, AllOf, EndOf
  <2> HIDE DEF Op, parts
  <2>1. {Op(w) : w \in {parts}} = {Op(parts)}
    OBVIOUS
  <2> QED
    BY <2>0, <2>1, Choice
<1>2. Op(parts) = EndOf(parts, AllOf(inode, parts))
  <2>1. {EndOf(parts, w) : w \in {AllOf(inode, parts)}} = {EndOf(parts, AllOf(inode, parts))}
    OBVIOUS
  <2>2. Op(parts) = CHOOSE r \in {EndOf(parts, w) : w \in {AllOf(inode, parts)}} : TRUE
    BY DEF With
  <2> HIDE DEF Op, parts
  <2> QED
    BY <2>1, <2>2, Choice
<1> QED
  BY <1>1, <1>2

LEMMA BlocksIn ==
  ASSUME NEW v, \A b \in DOMAIN v.blocks : v.blocks[b] \in Seq(Nat),
         NEW inode \in [direct : Seq(Nat), indirect : [1 .. 3 -> Nat]]
  PROVE  Blocks(v, inode) \in FoundLists(Nat)
<1>1. PICK parts : parts = PartsOf(v, inode)
  OBVIOUS
<1>2. \A level \in 1 .. 3 : parts[level] \in FoundLists(Nat)
  <2> SUFFICES ASSUME NEW level \in 1 .. 3 PROVE Indirect(v, inode.indirect[level], level) \in FoundLists(Nat)
    BY <1>1 DEF PartsOf
  <2>1. inode.indirect[level] \in Nat /\ level \in Nat
    OBVIOUS
  <2> QED
    BY <2>1, IndirectIn
<1>3. AllOf(inode, parts) \in Seq(Nat)
  <2>1. parts[1].clusters \in Seq(Nat) /\ parts[2].clusters \in Seq(Nat) /\ parts[3].clusters \in Seq(Nat)
    BY <1>2 DEF FoundLists
  <2>2. NonZero(inode.direct) \in Seq(Nat)
    BY NonZeroIn
  <2> QED
    BY <2>1, <2>2 DEF AllOf
<1>4. EndOf(parts, AllOf(inode, parts)) \in FoundLists(Nat)
  BY <1>3, RecordedIn DEF EndOf
<1> QED
  BY <1>1, <1>4, BlocksAre

\* What a directory of the volume lists, and what is found of it.
LEMMA FoundIn ==
  ASSUME NEW v \in Volumes, NEW inode \in DOMAIN v.dirs, NEW i \in DOMAIN v.dirs[inode],
         ~v.dirs[inode][i].dir
  PROVE  Found(v, v.dirs[inode][i]) \in FoundLists(Int)
<1> DEFINE e == v.dirs[inode][i]
<1>1. v.last \in Nat /\ (\A b \in DOMAIN v.blocks : v.blocks[b] \in Seq(Nat))
  <2>1. {v.last, v.unit, v.data, v.rootDir} \subseteq Nat
    BY VolumesAssumption
  <2>2. \A b \in DOMAIN v.blocks : v.blocks[b] \in Seq(Nat)
    BY VolumesAssumption
  <2> QED
    BY <2>1, <2>2
<1>2. /\ v.kind = "ntfs" => v.runs[e.inode] \in Seq(Int)
      /\ v.kind = "ext" => v.inodes[e.inode] \in [direct : Seq(Nat), indirect : [1 .. 3 -> Nat]]
  BY VolumesAssumption
<1>3. \A f \in FoundLists(Nat) : f \in FoundLists(Int)
  BY DEF FoundLists
<1> HIDE DEF e
<1>4. CASE v.kind \in {"fat", "exfat"}
  <2>1. Follow(v, e.inode) \in Seq(Nat)
    BY <1>1, FollowIn
  <2>2. Recorded(Follow(v, e.inode)) \in FoundLists(Nat)
    BY <2>1, RecordedIn
  <2> QED
    BY <1>3, <1>4, <2>2 DEF Found, e
<1>5. CASE v.kind = "ntfs"
  <2>1. Runs(v.runs[e.inode]) \in FoundLists(Int)
    BY <1>2, <1>5, RunsIn
  <2> QED
    BY <1>5, <2>1 DEF Found, e
<1>6. CASE v.kind = "ext"
  <2>1. Blocks(v, v.inodes[e.inode]) \in FoundLists(Nat)
    BY <1>1, <1>2, <1>6, BlocksIn
  <2> QED
    BY <1>3, <1>6, <2>1 DEF Found, e
<1>7. CASE v.kind \notin {"fat", "exfat", "ntfs", "ext"}
  BY <1>7, RecordedIn DEF Found
<1> QED
  BY <1>4, <1>5, <1>6, <1>7

\* collect_clusters_fs records the offset of each of them.
LEMMA CollectIs ==
  ASSUME NEW v, NEW e, NEW found, found = Found(v, e)
  PROVE  Collect(v, e) = [none |-> found.none, clusters |-> Offsets(v, found.clusters)]
<1> DEFINE Op(w) == [none |-> w.none, clusters |-> Offsets(v, w.clusters)]
<1>1. Collect(v, e) = CHOOSE r \in {Op(w) : w \in {found}} : TRUE
  BY DEF Collect, With
<1>2. {Op(w) : w \in {found}} = {Op(found)}
  OBVIOUS
<1>3. Op(found) = [none |-> found.none, clusters |-> Offsets(v, found.clusters)]
  OBVIOUS
<1> HIDE DEF Op
<1>4. Collect(v, e) = Op(found)
  BY <1>1, <1>2, Choice
<1> QED
  BY <1>3, <1>4

LEMMA OffsetsIn ==
  ASSUME NEW v \in Volumes, NEW list \in Seq(Int)
  PROVE  /\ Offsets(v, list) \in Seq(Int) /\ Len(Offsets(v, list)) = Len(list)
         /\ list = <<>> => Offsets(v, list) = <<>>
<1>1. v.data \in Int /\ v.unit \in Int
  <2>1. {v.last, v.unit, v.data, v.rootDir} \subseteq Nat
    BY VolumesAssumption
  <2> QED
    BY <2>1
<1>2. \A k \in DOMAIN list : Offset(v, list[k]) \in Int
  <2> SUFFICES ASSUME NEW k \in DOMAIN list PROVE Offset(v, list[k]) \in Int
    OBVIOUS
  <2>1. PICK m \in Int : m = Numbered(v, list[k])
    BY DEF Numbered
  <2>2. PICK u \in Int : u = v.unit
    BY <1>1
  <2>3. m * u \in Int
    OBVIOUS
  <2> QED
    BY <1>1, <2>1, <2>2, <2>3 DEF Offset
<1>3. PICK n \in Nat : n = Len(list) /\ DOMAIN list = 1 .. n
  OBVIOUS
<1>4. Offsets(v, list) = [k \in 1 .. n |-> Offset(v, list[k])]
  BY <1>3 DEF Offsets
<1>5. \A k \in 1 .. n : Offset(v, list[k]) \in Int
  BY <1>2, <1>3
<1>6. [k \in 1 .. n |-> Offset(v, list[k])] \in Seq(Int) /\ Len([k \in 1 .. n |-> Offset(v, list[k])]) = n
  BY <1>5
<1> QED
  BY <1>3, <1>4, <1>6

LEMMA CollectIn ==
  ASSUME NEW v \in Volumes, NEW inode \in DOMAIN v.dirs, NEW i \in DOMAIN v.dirs[inode],
         ~v.dirs[inode][i].dir
  PROVE  Collect(v, v.dirs[inode][i]) \in FoundLists(Int)
<1>1. PICK found \in FoundLists(Int) : found = Found(v, v.dirs[inode][i])
  BY FoundIn
<1>2. Collect(v, v.dirs[inode][i]) = [none |-> found.none, clusters |-> Offsets(v, found.clusters)]
  BY <1>1, CollectIs
<1>3. found.clusters \in Seq(Int) /\ found.none \in BOOLEAN /\ (found.none => found.clusters = <<>>)
  BY DEF FoundLists
<1>4. PICK list \in Seq(Int) : list = found.clusters
  BY <1>3
<1>5. Offsets(v, list) \in Seq(Int) /\ (list = <<>> => Offsets(v, list) = <<>>)
  BY OffsetsIn
<1> QED
  BY <1>2, <1>3, <1>4, <1>5 DEF FoundLists

------------------------------------------------------------------------------
(* The words of the file, and the entries they stand for. *)

Heads == [dir : BOOLEAN, none : BOOLEAN, size : Nat, mtime : Nat, count : Nat]

AllWords ==
  {<<"head", head>> : head \in Heads} \cup {<<"path", path>> : path \in Seq(Nat)}
  \cup {<<"cluster", c>> : c \in Int}

Indexed ==
  {e \in [path : Seq(Nat), dir : BOOLEAN, size : Nat, mtime : Nat, none : BOOLEAN, clusters : Seq(Int)] :
     e.none => e.clusters = <<>>}

Size(e) == 2 + Len(e.clusters)

HeadOf(e) == [dir |-> e.dir, none |-> e.none, size |-> e.size, mtime |-> e.mtime, count |-> Len(e.clusters)]

Says(w, e) ==
  /\ w[1] = <<"head", HeadOf(e)>> /\ w[2] = <<"path", e.path>>
  /\ \A k \in 1 .. Len(e.clusters) : w[k + 2] = <<"cluster", e.clusters[k]>>

LEMMA IndexedHas ==
  ASSUME NEW e \in Indexed
  PROVE  /\ e.path \in Seq(Nat) /\ e.clusters \in Seq(Int) /\ Len(e.clusters) \in Nat /\ Size(e) \in Nat
         /\ Size(e) >= 2 /\ e.none \in BOOLEAN /\ e.dir \in BOOLEAN /\ e.size \in Nat /\ e.mtime \in Nat
         /\ e.none => e.clusters = <<>> /\ Len(e.clusters) = 0
         /\ HeadOf(e) \in Heads
  BY DEF Indexed, Size, HeadOf, Heads

LEMMA ListHas ==
  ASSUME NEW list \in Seq(Indexed)
  PROVE  /\ Len(list) \in Nat
         /\ \A i \in 1 .. Len(list) :
              list[i] \in Indexed /\ Size(list[i]) \in Nat /\ Size(list[i]) >= 2
<1> SUFFICES ASSUME NEW i \in 1 .. Len(list)
             PROVE  list[i] \in Indexed /\ Size(list[i]) \in Nat /\ Size(list[i]) >= 2
  OBVIOUS
<1>1. list[i] \in Indexed
  OBVIOUS
<1> QED
  BY <1>1, IndexedHas

LEMMA JoinIs ==
  ASSUME NEW S, NEW p \in Seq(S), NEW q \in Seq(S)
  PROVE  /\ p \o q \in Seq(S) /\ Len(p) \in Nat /\ Len(q) \in Nat /\ Len(p \o q) = Len(p) + Len(q)
         /\ \A i \in 1 .. Len(p) : (p \o q)[i] = p[i]
         /\ \A i \in 1 .. Len(q) : (p \o q)[Len(p) + i] = q[i]
  OBVIOUS

LEMMA WordsAre ==
  ASSUME NEW e \in Indexed
  PROVE  Words(e) \in Seq(AllWords) /\ Len(Words(e)) = Size(e) /\ Says(Words(e), e)
<1> DEFINE two == <<<<"head", HeadOf(e)>>, <<"path", e.path>>>>
           more == [k \in DOMAIN e.clusters |-> <<"cluster", e.clusters[k]>>]
           L == Len(e.clusters)
<1>1. e.clusters \in Seq(Int) /\ L \in Nat /\ DOMAIN e.clusters = 1 .. L
  BY IndexedHas
<1>2. <<"head", HeadOf(e)>> \in AllWords /\ <<"path", e.path>> \in AllWords
  BY IndexedHas DEF AllWords
<1>3. two \in Seq(AllWords) /\ Len(two) = 2 /\ two[1] = <<"head", HeadOf(e)>> /\ two[2] = <<"path", e.path>>
  <2>1. PICK a, b : a = <<"head", HeadOf(e)>> /\ b = <<"path", e.path>>
    OBVIOUS
  <2>2. <<a, b>> \in Seq(AllWords) /\ Len(<<a, b>>) = 2 /\ <<a, b>>[1] = a /\ <<a, b>>[2] = b
    BY <1>2, <2>1
  <2> QED
    BY <2>1, <2>2
<1>4. \A k \in 1 .. L : <<"cluster", e.clusters[k]>> \in AllWords
  BY <1>1 DEF AllWords
<1>5. more \in [1 .. L -> AllWords]
  BY <1>1, <1>4
<1>6. more \in Seq(AllWords) /\ Len(more) = L /\ \A k \in 1 .. L : more[k] = <<"cluster", e.clusters[k]>>
  <2>1. \A k \in 1 .. L : more[k] = <<"cluster", e.clusters[k]>>
    BY <1>1
  <2> HIDE DEF more, L
  <2>2. more \in Seq(AllWords) /\ Len(more) = L
    BY <1>1, <1>5
  <2> QED
    BY <2>1, <2>2
<1>7. Words(e) = two \o (IF e.none THEN <<>> ELSE more)
  BY DEF Words, HeadOf
<1>8. Words(e) = two \o more
  <2>1. CASE e.none
    <3>1. L = 0
      BY <2>1, IndexedHas
    <3>2. more = <<>>
      <4> HIDE DEF more
      <4> QED
        BY <1>6, <3>1
    <3> QED
      BY <1>7, <2>1, <3>2
  <2>2. CASE ~e.none
    BY <1>7, <2>2
  <2> QED
    BY <2>1, <2>2
<1> HIDE DEF two, more
<1>9. /\ two \o more \in Seq(AllWords) /\ Len(two \o more) = 2 + L
      /\ (two \o more)[1] = two[1] /\ (two \o more)[2] = two[2]
      /\ \A k \in 1 .. L : (two \o more)[k + 2] = more[k]
  <2>0. /\ two \o more \in Seq(AllWords) /\ Len(two \o more) = Len(two) + Len(more)
        /\ \A i \in 1 .. Len(two) : (two \o more)[i] = two[i]
        /\ \A i \in 1 .. Len(more) : (two \o more)[Len(two) + i] = more[i]
    <3>1. two \in Seq(AllWords)
      BY <1>3
    <3>2. more \in Seq(AllWords)
      BY <1>6
    <3> QED
      BY <3>1, <3>2, JoinIs
  <2> HIDE DEF L
  <2>1. /\ two \o more \in Seq(AllWords) /\ Len(two \o more) = 2 + L
        /\ \A i \in 1 .. 2 : (two \o more)[i] = two[i]
        /\ \A i \in 1 .. L : (two \o more)[2 + i] = more[i]
    BY <1>3, <1>6, <2>0
  <2>2. 1 \in 1 .. 2 /\ 2 \in 1 .. 2 /\ \A k \in 1 .. L : 2 + k = k + 2
    BY <1>1
  <2> QED
    BY <2>1, <2>2
<1> QED
  BY <1>3, <1>6, <1>8, <1>9 DEF Says, Size

\* "ws" has the words of "list", entry by entry, cut short somewhere or not; those of entry i
\* come after the first off[i - 1].
Holds(ws, list, off) ==
  /\ ws \in Seq(AllWords) /\ list \in Seq(Indexed) /\ off \in [0 .. Len(list) -> Nat] /\ off[0] = 0
  /\ \A i \in 1 .. Len(list) : off[i] = off[i - 1] + Size(list[i])
  /\ \A i \in 1 .. Len(list) : \A k \in 1 .. Size(list[i]) :
       off[i - 1] + k <= Len(ws) => ws[off[i - 1] + k] = Words(list[i])[k]
  /\ Len(ws) <= off[Len(list)]

Kept(ws, list) == \E off : Holds(ws, list, off)

Whole(ws, list) == \E off : Holds(ws, list, off) /\ Len(ws) = off[Len(list)]

LEMMA HoldsCut ==
  ASSUME NEW ws, NEW list, NEW off, Holds(ws, list, off), NEW n \in 0 .. Len(ws)
  PROVE  Holds(SubSeq(ws, 1, n), list, off)
<1>1. ws \in Seq(AllWords) /\ list \in Seq(Indexed) /\ off \in [0 .. Len(list) -> Nat]
  BY DEF Holds
<1>2. /\ SubSeq(ws, 1, n) \in Seq(AllWords) /\ Len(SubSeq(ws, 1, n)) = n /\ n <= Len(ws)
      /\ \A i \in 1 .. n : SubSeq(ws, 1, n)[i] = ws[i]
  BY <1>1, PrefixIs
<1>3. ASSUME NEW i \in 1 .. Len(list), NEW k \in 1 .. Size(list[i]), off[i - 1] + k <= n
      PROVE  SubSeq(ws, 1, n)[off[i - 1] + k] = Words(list[i])[k]
  <2>1. off[i - 1] \in Nat /\ k \in Nat \ {0}
    <3>1. Size(list[i]) \in Nat
      BY <1>1, ListHas
    <3>2. i - 1 \in 0 .. Len(list)
      BY <1>1
    <3>3. off[i - 1] \in Nat
      BY <1>1, <3>2
    <3> QED
      BY <3>1, <3>3
  <2>2. off[i - 1] + k \in 1 .. n /\ off[i - 1] + k <= Len(ws)
    BY <1>2, <1>3, <2>1
  <2>3. ws[off[i - 1] + k] = Words(list[i])[k]
    BY <2>2 DEF Holds
  <2> QED
    BY <1>2, <2>2, <2>3
<1>4. n <= off[Len(list)]
  <2>1. Len(list) \in 0 .. Len(list) /\ Len(ws) \in Nat
    BY <1>1
  <2>2. off[Len(list)] \in Nat /\ Len(ws) <= off[Len(list)]
    BY <1>1, <2>1 DEF Holds
  <2> QED
    BY <1>2, <2>1, <2>2
<1> QED
  BY <1>1, <1>2, <1>3, <1>4 DEF Holds

LEMMA OffsetsGrow ==
  ASSUME NEW L \in Nat, NEW off \in [0 .. L -> Nat], \A i \in 1 .. L : off[i] >= off[i - 1]
  PROVE  \A i \in 0 .. L : off[i] <= off[L]
<1> DEFINE Bad == {d \in 0 .. L : off[L - d] > off[L]}
<1>1. Bad = {}
  <2> SUFFICES ASSUME Bad # {} PROVE FALSE
    OBVIOUS
  <2>1. Bad \in SUBSET Nat
    OBVIOUS
  <2>2. PICK d \in Bad : \A k \in Bad : d <= k
    <3> HIDE DEF Bad
    <3> QED
      BY <2>1, LeastNat
  <2>3. d \in 0 .. L /\ off[L - d] > off[L] /\ d # 0
    BY <2>2
  <2>4. d - 1 \notin Bad
    <3>1. ~(d <= d - 1)
      BY <2>3
    <3> HIDE DEF Bad
    <3> QED
      BY <2>2, <3>1
  <2>5. PICK m \in 1 .. L : m = L - (d - 1)
    BY <2>3
  <2>6. off[m] <= off[L]
    BY <2>3, <2>4, <2>5
  <2>7. m - 1 = L - d /\ off[m] >= off[m - 1] /\ off[m] \in Nat /\ off[m - 1] \in Nat /\ off[L] \in Nat
    BY <2>3, <2>5
  <2> QED
    BY <2>3, <2>6, <2>7
<1> QED
  <2> SUFFICES ASSUME NEW i \in 0 .. L PROVE off[i] <= off[L]
    OBVIOUS
  <2>1. PICK d \in 0 .. L : d = L - i
    OBVIOUS
  <2>2. L - d = i
    BY <2>1
  <2>3. ~(off[L - d] > off[L])
    BY <1>1
  <2>4. off[i] \in Nat /\ off[L] \in Nat
    OBVIOUS
  <2> QED
    BY <2>2, <2>3, <2>4

\* One entry more, written or lost.
LEMMA HoldsMore ==
  ASSUME NEW ws, NEW list, NEW off, Holds(ws, list, off), NEW e \in Indexed, NEW vs,
         \/ vs = ws
         \/ vs = ws \o Words(e) /\ Len(ws) = off[Len(list)]
  PROVE  \E on : /\ Holds(vs, Append(list, e), on)
                 /\ vs = ws \o Words(e) => Len(vs) = on[Len(Append(list, e))]
<1> DEFINE L == Len(list)
           l2 == Append(list, e)
           on == [i \in 0 .. L + 1 |-> IF i = L + 1 THEN off[L] + Size(e) ELSE off[i]]
<1>1. ws \in Seq(AllWords) /\ list \in Seq(Indexed) /\ off \in [0 .. L -> Nat] /\ L \in Nat
  BY DEF Holds
<1>2. off[L] \in Nat /\ Len(ws) \in Nat /\ Len(ws) <= off[L] /\ off[0] = 0
  BY <1>1 DEF Holds
<1>3. Words(e) \in Seq(AllWords) /\ Len(Words(e)) = Size(e) /\ Size(e) \in Nat
  BY WordsAre, IndexedHas
<1>4. /\ l2 \in Seq(Indexed) /\ Len(l2) = L + 1 /\ l2[L + 1] = e
      /\ \A i \in 1 .. L : l2[i] = list[i]
  BY <1>1
<1>5. /\ on \in [0 .. L + 1 -> Nat] /\ on[0] = 0 /\ on[L + 1] = off[L] + Size(e)
      /\ \A i \in 0 .. L : on[i] = off[i]
  BY <1>1, <1>2, <1>3
<1> HIDE DEF on, l2
<1>6. vs \in Seq(AllWords) /\ Len(vs) <= on[L + 1]
  <2>1. CASE vs = ws
    BY <1>1, <1>2, <1>3, <1>5, <2>1
  <2>2. CASE vs = ws \o Words(e) /\ Len(ws) = off[L]
    <3>1. ws \o Words(e) \in Seq(AllWords) /\ Len(ws \o Words(e)) = Len(ws) + Len(Words(e))
      BY <1>1, <1>3, JoinIs
    <3> QED
      BY <1>2, <1>3, <1>5, <2>2, <3>1
  <2> QED
    BY <2>1, <2>2
<1>7. \A i \in 1 .. L + 1 : on[i] = on[i - 1] + Size(l2[i])
  <2> SUFFICES ASSUME NEW i \in 1 .. L + 1 PROVE on[i] = on[i - 1] + Size(l2[i])
    OBVIOUS
  <2>1. CASE i = L + 1
    <3>1. i - 1 = L /\ L \in 0 .. L
      BY <1>1, <2>1
    <3> QED
      BY <1>4, <1>5, <2>1, <3>1
  <2>2. CASE i # L + 1
    <3>1. i \in 1 .. L /\ i - 1 \in 0 .. L /\ i \in 0 .. L
      BY <1>1, <2>2
    <3>2. off[i] = off[i - 1] + Size(list[i])
      BY <3>1 DEF Holds
    <3> QED
      BY <1>4, <1>5, <3>1, <3>2
  <2> QED
    BY <2>1, <2>2
<1>8. \A m \in 1 .. Len(ws) : vs[m] = ws[m]
  <2>1. CASE vs = ws
    BY <2>1
  <2>2. CASE vs = ws \o Words(e)
    <3>1. \A m \in 1 .. Len(ws) : (ws \o Words(e))[m] = ws[m]
      BY <1>1, <1>3, JoinIs
    <3> QED
      BY <2>2, <3>1
  <2> QED
    BY <2>1, <2>2
<1>9. ASSUME NEW i \in 1 .. L + 1, NEW k \in 1 .. Size(l2[i]), on[i - 1] + k <= Len(vs)
      PROVE  vs[on[i - 1] + k] = Words(l2[i])[k]
  <2>1. CASE i = L + 1
    <3>1. on[i - 1] = off[L] /\ l2[i] = e
      <4>1. i - 1 = L /\ L \in 0 .. L
        BY <1>1, <2>1
      <4> QED
        BY <1>4, <1>5, <2>1, <4>1
    <3>2. k \in 1 .. Len(Words(e))
      BY <1>3, <3>1
    <3>3. CASE vs = ws
      BY <1>2, <1>9, <3>1, <3>2, <3>3
    <3>4. CASE vs = ws \o Words(e) /\ Len(ws) = off[L]
      <4>1. (ws \o Words(e))[Len(ws) + k] = Words(e)[k]
        BY <1>1, <1>3, <3>2, JoinIs
      <4> QED
        BY <3>1, <3>4, <4>1
    <3> QED
      BY <3>3, <3>4
  <2>2. CASE i # L + 1
    <3>1. i \in 1 .. L /\ i - 1 \in 0 .. L /\ i \in 0 .. L
      BY <1>1, <2>2
    <3>2. on[i - 1] = off[i - 1] /\ l2[i] = list[i] /\ off[i - 1] \in Nat /\ k \in Nat \ {0}
      <4>1. Size(list[i]) \in Nat
        BY <1>1, <3>1, ListHas
      <4>2. on[i - 1] = off[i - 1] /\ l2[i] = list[i] /\ off[i - 1] \in Nat
        BY <1>1, <1>4, <1>5, <3>1
      <4> QED
        BY <4>1, <4>2
    <3>3. CASE off[i - 1] + k <= Len(ws)
      <4>1. ws[off[i - 1] + k] = Words(list[i])[k]
        BY <3>1, <3>2, <3>3 DEF Holds
      <4>2. off[i - 1] + k \in 1 .. Len(ws)
        BY <1>2, <3>2, <3>3
      <4> QED
        BY <1>8, <3>2, <4>1, <4>2
    <3>4. CASE ~(off[i - 1] + k <= Len(ws))
      <4>1. vs # ws
        BY <1>9, <3>2, <3>4
      <4>2. Len(ws) = off[L]
        BY <4>1
      <4>3. off[i] <= off[L]
        <5>1. \A j \in 1 .. L : off[j] >= off[j - 1]
          <6> SUFFICES ASSUME NEW j \in 1 .. L PROVE off[j] >= off[j - 1]
            OBVIOUS
          <6>1. off[j] = off[j - 1] + Size(list[j]) /\ Size(list[j]) \in Nat /\ off[j - 1] \in Nat
            <7>1. j - 1 \in 0 .. L /\ Size(list[j]) \in Nat
              BY <1>1, ListHas
            <7> QED
              BY <1>1, <7>1 DEF Holds
          <6> QED
            BY <6>1
        <5> HIDE DEF L
        <5> QED
          BY <1>1, <3>1, <5>1, OffsetsGrow
      <4>4. off[i] = off[i - 1] + Size(list[i]) /\ k <= Size(list[i]) /\ Size(list[i]) \in Nat
        BY <1>1, <3>1, <3>2, ListHas DEF Holds
      <4>5. off[i] \in Nat
        BY <1>1, <3>1
      <4> QED
        BY <1>2, <3>2, <3>4, <4>2, <4>3, <4>4, <4>5
    <3> QED
      BY <3>3, <3>4
  <2> QED
    BY <2>1, <2>2
<1>10. Holds(vs, l2, on)
  BY <1>4, <1>5, <1>6, <1>7, <1>9 DEF Holds
<1>11. vs = ws \o Words(e) => Len(vs) = on[L + 1]
  <2> SUFFICES ASSUME vs = ws \o Words(e) PROVE Len(vs) = on[L + 1]
    OBVIOUS
  <2>1. Len(ws \o Words(e)) = Len(ws) + Size(e)
    <3>1. PICK add : add = Words(e)
      OBVIOUS
    <3>2. add \in Seq(AllWords) /\ Len(add) = Size(e)
      BY <3>1, WordsAre
    <3>3. Len(ws \o add) = Len(ws) + Len(add)
      BY <1>1, <3>2, JoinIs
    <3> QED
      BY <3>1, <3>2, <3>3
  <2>2. Size(e) >= 2
    BY IndexedHas
  <2>3. vs # ws
    BY <1>2, <1>3, <2>1, <2>2
  <2> QED
    BY <1>5, <2>1, <2>3
<1> QED
  BY <1>4, <1>10, <1>11 DEF l2

\* Reading takes the words of an entry off, or finds that they are not all there.
After(ws, k) == SubSeq(ws, k + 1, Len(ws))

LEMMA AfterIs ==
  ASSUME NEW S, NEW ws \in Seq(S), NEW k \in 0 .. Len(ws)
  PROVE  /\ After(ws, k) \in Seq(S) /\ Len(After(ws, k)) = Len(ws) - k /\ Len(ws) \in Nat
         /\ \A i \in 1 .. Len(ws) - k : After(ws, k)[i] = ws[k + i]
         /\ After(ws, k) = <<>> <=> k = Len(ws)
<1>1. /\ After(ws, k) \in Seq(S) /\ Len(After(ws, k)) = Len(ws) - k /\ Len(ws) \in Nat
      /\ \A i \in 1 .. Len(ws) - k : After(ws, k)[i] = ws[k + i]
  BY DEF After
<1>2. After(ws, k) = <<>> <=> Len(After(ws, k)) = 0
  BY <1>1
<1> QED
  BY <1>1, <1>2

LEMMA AfterAfter ==
  ASSUME NEW S, NEW ws \in Seq(S), NEW k \in 0 .. Len(ws), NEW j \in 0 .. Len(ws) - k
  PROVE  After(After(ws, k), j) = After(ws, k + j)
<1>1. k + j \in 0 .. Len(ws) /\ Len(ws) \in Nat
  OBVIOUS
<1>2. /\ After(ws, k) \in Seq(S) /\ Len(After(ws, k)) = Len(ws) - k
      /\ \A i \in 1 .. Len(ws) - k : After(ws, k)[i] = ws[k + i]
  BY AfterIs
<1>3. PICK m : m = k + j
  OBVIOUS
<1>4. /\ After(ws, m) \in Seq(S) /\ Len(After(ws, m)) = Len(ws) - m
      /\ \A i \in 1 .. Len(ws) - m : After(ws, m)[i] = ws[m + i]
  BY <1>1, <1>3, AfterIs
<1>5. PICK x : x = After(ws, k)
  OBVIOUS
<1>6. /\ After(x, j) \in Seq(S) /\ Len(After(x, j)) = Len(x) - j
      /\ \A i \in 1 .. Len(x) - j : After(x, j)[i] = x[j + i]
  <2>1. x \in Seq(S) /\ j \in 0 .. Len(x)
    BY <1>2, <1>5
  <2> QED
    BY <2>1, AfterIs
<1>7. Len(After(x, j)) = Len(ws) - m
  BY <1>1, <1>2, <1>3, <1>5, <1>6
<1>8. ASSUME NEW i \in 1 .. Len(ws) - m PROVE After(x, j)[i] = After(ws, m)[i]
  <2>1. i \in 1 .. Len(x) - j /\ j + i \in 1 .. Len(ws) - k /\ k + (j + i) = m + i
    BY <1>1, <1>2, <1>3, <1>5
  <2>2. After(x, j)[i] = x[j + i] /\ x[j + i] = ws[k + (j + i)]
    BY <1>2, <1>5, <1>6, <2>1
  <2> QED
    BY <1>4, <2>1, <2>2
<1>9. After(x, j) = After(ws, m)
  <2>1. PICK a, b : a = After(x, j) /\ b = After(ws, m)
    OBVIOUS
  <2>2. a \in Seq(S) /\ b \in Seq(S) /\ Len(a) = Len(b) /\ \A i \in 1 .. Len(b) : a[i] = b[i]
    BY <1>4, <1>6, <1>7, <1>8, <2>1
  <2>3. a = b
    BY <2>2
  <2> QED
    BY <2>1, <2>3
<1> QED
  BY <1>3, <1>5, <1>9

LEMMA ReadOne ==
  ASSUME NEW w \in Seq(AllWords), w # <<>>, NEW e \in Indexed, NEW entries \in Seq(Indexed),
         \A k \in 1 .. Size(e) : k <= Len(w) => w[k] = Words(e)[k]
  PROVE  ReadTurn([words |-> w, entries |-> entries]) =
           IF Len(w) < Size(e) THEN [words |-> <<>>, entries |-> entries]
           ELSE [words |-> After(w, Size(e)), entries |-> Append(entries, e)]
<1> DEFINE s == [words |-> w, entries |-> entries]
           head == s.words[1][2]
           size == 2 + (IF head.none THEN 0 ELSE head.count)
           L == Len(e.clusters)
<1>1. /\ L \in Nat /\ Size(e) = 2 + L /\ e.none \in BOOLEAN /\ (e.none => L = 0)
      /\ e.clusters \in Seq(Int)
  BY IndexedHas DEF Size
<1>2. Len(w) \in Nat \ {0}
  OBVIOUS
<1>3. w[1] = <<"head", HeadOf(e)>>
  <2>1. Words(e)[1] = <<"head", HeadOf(e)>>
    BY WordsAre DEF Says
  <2>2. 1 \in 1 .. Size(e) /\ 1 <= Len(w)
    BY <1>1, <1>2
  <2> QED
    BY <2>1, <2>2
<1>4. head = HeadOf(e)
  BY <1>3
<1>5. size = Size(e)
  <2>1. HeadOf(e).none = e.none /\ HeadOf(e).count = L
    BY DEF HeadOf
  <2> HIDE DEF head, L
  <2>2. CASE e.none
    BY <1>1, <1>4, <2>1, <2>2
  <2>3. CASE ~e.none
    BY <1>1, <1>4, <2>1, <2>3
  <2> QED
    BY <2>2, <2>3
<1> DEFINE cut == [s EXCEPT !.words = <<>>]
           whole == [words |-> SubSeq(s.words, size + 1, Len(s.words)),
                     entries |-> Append(s.entries,
                       [path |-> s.words[2][2], dir |-> head.dir, size |-> head.size, mtime |-> head.mtime,
                        none |-> head.none, clusters |-> [k \in 1 .. size - 2 |-> s.words[k + 2][2]]])]
<1>6. ReadTurn(s) = IF Len(s.words) < size THEN cut ELSE whole
  <2>1. ReadTurn(s) = ReadEntry(s)
    BY DEF ReadTurn
  <2>2. ReadEntry(s) = IF Len(s.words) < size THEN cut ELSE whole
    BY DEF ReadEntry
  <2> QED
    BY <2>1, <2>2
<1>7. cut = [words |-> <<>>, entries |-> entries] /\ s.words = w /\ s.entries = entries
  OBVIOUS
<1>8. ASSUME ~(Len(w) < Size(e))
      PROVE  whole = [words |-> After(w, Size(e)), entries |-> Append(entries, e)]
  <2>1. w[2] = <<"path", e.path>> /\ \A k \in 1 .. L : w[k + 2] = <<"cluster", e.clusters[k]>>
    <3>1. Words(e)[2] = <<"path", e.path>> /\ \A k \in 1 .. L : Words(e)[k + 2] = <<"cluster", e.clusters[k]>>
      BY WordsAre DEF Says
    <3>2. 2 \in 1 .. Size(e) /\ 2 <= Len(w)
      BY <1>1, <1>2, <1>8
    <3>3. \A k \in 1 .. L : k + 2 \in 1 .. Size(e) /\ k + 2 <= Len(w)
      <4> HIDE DEF L
      <4> QED
        BY <1>1, <1>2, <1>8
    <3> HIDE DEF L
    <3> QED
      BY <3>1, <3>2, <3>3
  <2>2. w[2][2] = e.path /\ \A k \in 1 .. L : w[k + 2][2] = e.clusters[k]
    BY <2>1
  <2>3. [k \in 1 .. Size(e) - 2 |-> w[k + 2][2]] = e.clusters
    <3>1. Size(e) - 2 = L
      BY <1>1
    <3>2. e.clusters = [k \in 1 .. L |-> e.clusters[k]]
      BY <1>1
    <3> HIDE DEF L
    <3>3. [k \in 1 .. L |-> w[k + 2][2]] = [k \in 1 .. L |-> e.clusters[k]]
      BY <2>2
    <3> QED
      BY <3>1, <3>2, <3>3
  <2>4. e = [path |-> e.path, dir |-> e.dir, size |-> e.size, mtime |-> e.mtime, none |-> e.none,
             clusters |-> e.clusters]
    BY DEF Indexed
  <2>5. /\ HeadOf(e).dir = e.dir /\ HeadOf(e).size = e.size /\ HeadOf(e).mtime = e.mtime
        /\ HeadOf(e).none = e.none
    BY DEF HeadOf
  <2>6. [path |-> s.words[2][2], dir |-> head.dir, size |-> head.size, mtime |-> head.mtime,
         none |-> head.none, clusters |-> [k \in 1 .. size - 2 |-> s.words[k + 2][2]]] = e
    <3>1. [k \in 1 .. size - 2 |-> s.words[k + 2][2]] = e.clusters
      <4> HIDE DEF size, s
      <4> QED
        BY <1>5, <1>7, <2>3
    <3> HIDE DEF size, head, s
    <3> QED
      BY <1>4, <1>7, <2>2, <2>4, <2>5, <3>1
  <2>7. SubSeq(s.words, size + 1, Len(s.words)) = After(w, Size(e))
    <3> HIDE DEF size, s
    <3> QED
      BY <1>5, <1>7 DEF After
  <2> QED
    BY <1>7, <2>6, <2>7
<1> HIDE DEF cut, whole, size, s
<1> QED
  BY <1>5, <1>6, <1>7, <1>8 DEF s

\* What is left to read when n entries are read, and when the next is not all there.
At(ws, list, off, n) == [words |-> After(ws, off[n]), entries |-> SubSeq(list, 1, n)]

Cut(list, n) == [words |-> <<>>, entries |-> SubSeq(list, 1, n)]

ReadStates(ws, list, off) ==
  {Cut(list, n) : n \in 0 .. Len(list)}
  \cup {At(ws, list, off, n) : n \in {m \in 0 .. Len(list) : off[m] <= Len(ws)}}

LEMMA HoldsHas ==
  ASSUME NEW ws, NEW list, NEW off, Holds(ws, list, off)
  PROVE  /\ ws \in Seq(AllWords) /\ list \in Seq(Indexed) /\ off \in [0 .. Len(list) -> Nat]
         /\ Len(list) \in Nat /\ Len(ws) \in Nat /\ off[0] = 0
         /\ \A n \in 0 .. Len(list) : off[n] \in Nat /\ off[n] <= off[Len(list)]
         /\ \A n \in 1 .. Len(list) :
              /\ off[n] = off[n - 1] + Size(list[n]) /\ Size(list[n]) \in Nat /\ Size(list[n]) >= 2
              /\ off[n - 1] \in Nat /\ list[n] \in Indexed
         /\ Len(ws) <= off[Len(list)]
<1>1. /\ ws \in Seq(AllWords) /\ list \in Seq(Indexed) /\ off \in [0 .. Len(list) -> Nat] /\ off[0] = 0
      /\ Len(ws) <= off[Len(list)]
  BY DEF Holds
<1>2. Len(list) \in Nat /\ Len(ws) \in Nat
  BY <1>1
<1>3. ASSUME NEW n \in 1 .. Len(list)
      PROVE  /\ off[n] = off[n - 1] + Size(list[n]) /\ Size(list[n]) \in Nat /\ Size(list[n]) >= 2
             /\ off[n - 1] \in Nat /\ list[n] \in Indexed
  <2>1. n - 1 \in 0 .. Len(list)
    BY <1>2
  <2> QED
    BY <1>1, <2>1, ListHas DEF Holds
<1>4. \A n \in 1 .. Len(list) : off[n] >= off[n - 1]
  <2> SUFFICES ASSUME NEW n \in 1 .. Len(list) PROVE off[n] >= off[n - 1]
    OBVIOUS
  <2>1. off[n] = off[n - 1] + Size(list[n]) /\ Size(list[n]) \in Nat /\ off[n - 1] \in Nat
    BY <1>3
  <2> QED
    BY <2>1
<1>5. \A n \in 0 .. Len(list) : off[n] <= off[Len(list)]
  BY <1>1, <1>2, <1>4, OffsetsGrow
<1> QED
  BY <1>1, <1>2, <1>3, <1>5

LEMMA TurnAt ==
  ASSUME NEW ws, NEW list, NEW off, Holds(ws, list, off), NEW n \in 0 .. Len(list), off[n] < Len(ws)
  PROVE  /\ n + 1 \in 1 .. Len(list)
         /\ ReadTurn(At(ws, list, off, n)) =
              IF off[n + 1] <= Len(ws) THEN At(ws, list, off, n + 1) ELSE Cut(list, n)
<1>1. /\ ws \in Seq(AllWords) /\ list \in Seq(Indexed) /\ Len(list) \in Nat /\ Len(ws) \in Nat
      /\ off[n] \in Nat /\ Len(ws) <= off[Len(list)]
  BY HoldsHas
<1>2. n # Len(list)
  BY <1>1
<1>3. n + 1 \in 1 .. Len(list)
  BY <1>1, <1>2
<1>4. PICK m : m = n + 1
  OBVIOUS
<1>5. m \in 1 .. Len(list) /\ m - 1 = n
  BY <1>3, <1>4
<1>6. /\ off[m] = off[n] + Size(list[m]) /\ Size(list[m]) \in Nat /\ Size(list[m]) >= 2
      /\ list[m] \in Indexed
  BY <1>5, HoldsHas
<1> DEFINE w == After(ws, off[n])
           e == list[m]
<1>7. /\ w \in Seq(AllWords) /\ Len(w) = Len(ws) - off[n] /\ w # <<>>
      /\ \A i \in 1 .. Len(ws) - off[n] : w[i] = ws[off[n] + i]
  <2>1. PICK k : k = off[n] /\ k \in 0 .. Len(ws) /\ k # Len(ws)
    BY <1>1
  <2>2. /\ After(ws, k) \in Seq(AllWords) /\ Len(After(ws, k)) = Len(ws) - k
        /\ \A i \in 1 .. Len(ws) - k : After(ws, k)[i] = ws[k + i]
    <3>1. ws \in Seq(AllWords) /\ k \in 0 .. Len(ws)
      BY <1>1, <2>1
    <3> HIDE DEF w, e
    <3> QED
      BY ONLY <3>1, AfterIs, SMTT(30)
  <2>3. Len(<<>>) = 0 /\ Len(ws) - k # 0
    BY <1>1, <2>1
  <2>4. After(ws, k) # <<>>
    BY <2>2, <2>3
  <2> QED
    BY <2>1, <2>2, <2>4
<1>8. ASSUME NEW k \in 1 .. Size(e), k <= Len(w) PROVE w[k] = Words(e)[k]
  <2>1. off[n] + k <= Len(ws) /\ k \in 1 .. Len(ws) - off[n]
    <3> HIDE DEF w
    <3> QED
      BY <1>1, <1>6, <1>7, <1>8
  <2>2. ws[off[n] + k] = Words(e)[k]
    BY <1>5, <2>1 DEF Holds
  <2> QED
    BY <1>7, <2>1, <2>2
<1>9. SubSeq(list, 1, n) \in Seq(Indexed) /\ Append(SubSeq(list, 1, n), e) = SubSeq(list, 1, m)
  <2>1. n \in 0 .. Len(list) /\ m \in 0 .. Len(list) /\ m # 0
    BY <1>5
  <2>2. SubSeq(list, 1, n) \in Seq(Indexed)
    BY <1>1, <2>1, PrefixIs
  <2>3. SubSeq(list, 1, m) = Append(SubSeq(list, 1, m - 1), list[m])
    BY <1>1, <2>1, PrefixIs
  <2> QED
    BY <1>5, <2>2, <2>3
<1>10. ReadTurn([words |-> w, entries |-> SubSeq(list, 1, n)]) =
         IF Len(w) < Size(e) THEN [words |-> <<>>, entries |-> SubSeq(list, 1, n)]
         ELSE [words |-> After(w, Size(e)), entries |-> Append(SubSeq(list, 1, n), e)]
  <2>1. PICK x : x = SubSeq(list, 1, n)
    OBVIOUS
  <2>2. x \in Seq(Indexed)
    BY <1>9, <2>1
  <2>3. e \in Indexed
    BY <1>6
  <2> HIDE DEF w, e
  <2>4. ReadTurn([words |-> w, entries |-> x]) =
          IF Len(w) < Size(e) THEN [words |-> <<>>, entries |-> x]
          ELSE [words |-> After(w, Size(e)), entries |-> Append(x, e)]
    BY <1>7, <1>8, <2>2, <2>3, ReadOne
  <2> QED
    BY <2>1, <2>4
<1>11. Len(w) < Size(e) <=> ~(off[m] <= Len(ws))
  <2> HIDE DEF w
  <2> QED
    BY <1>1, <1>6, <1>7
<1>12. ASSUME off[m] <= Len(ws) PROVE After(w, Size(e)) = After(ws, off[m])
  <2>1. PICK k, j : k = off[n] /\ j = Size(e)
    OBVIOUS
  <2>2. k \in 0 .. Len(ws) /\ j \in 0 .. Len(ws) - k /\ k + j = off[m]
    BY <1>1, <1>6, <1>12, <2>1
  <2>3. After(After(ws, k), j) = After(ws, k + j)
    BY <1>1, <2>2, AfterAfter
  <2> QED
    BY <2>1, <2>2, <2>3
<1> HIDE DEF w
<1>13. ReadTurn(At(ws, list, off, n)) = IF off[m] <= Len(ws) THEN At(ws, list, off, m) ELSE Cut(list, n)
  <2>1. ReadTurn(At(ws, list, off, n)) = ReadTurn([words |-> w, entries |-> SubSeq(list, 1, n)])
    BY DEF At, w
  <2>2. CASE off[m] <= Len(ws)
    BY <1>9, <1>10, <1>11, <1>12, <2>1, <2>2 DEF At
  <2>3. CASE ~(off[m] <= Len(ws))
    BY <1>9, <1>10, <1>11, <2>1, <2>3 DEF Cut
  <2> QED
    BY <2>2, <2>3
<1> QED
  BY <1>3, <1>4, <1>13

\* What is read from a file is what was written to it, up to where it was cut.
LEMMA LoadsBack ==
  ASSUME NEW f, NEW list, NEW off, Holds(f.words, list, off), f.count = Len(list)
  PROVE  /\ \E n \in 0 .. Len(list) : LoadFile(f) = SubSeq(list, 1, n)
         /\ Len(f.words) = off[Len(list)] => LoadFile(f) = list
<1> DEFINE ws == f.words
           S == ReadStates(ws, list, off)
           x == [words |-> f.words, entries |-> <<>>]
<1> HIDE DEF ws
<1>1. /\ Holds(ws, list, off)
      /\ ws \in Seq(AllWords) /\ list \in Seq(Indexed) /\ Len(list) \in Nat /\ Len(ws) \in Nat
      /\ off[0] = 0 /\ \A n \in 0 .. Len(list) : off[n] \in Nat /\ off[n] <= off[Len(list)]
  BY HoldsHas DEF ws
<1>2. x = At(ws, list, off, 0)
  <2>1. After(ws, 0) = ws
    BY <1>1 DEF After
  <2>2. SubSeq(list, 1, 0) = <<>>
    BY <1>1
  <2> QED
    BY <1>1, <2>1, <2>2 DEF At, ws
<1>3. x \in S
  BY <1>1, <1>2 DEF ReadStates
<1>4. \A n \in 0 .. Len(list) : ReadTurn(Cut(list, n)) = Cut(list, n)
  BY DEF ReadTurn, Cut
<1>5. ASSUME NEW n \in 0 .. Len(list), off[n] <= Len(ws) PROVE ReadTurn(At(ws, list, off, n)) \in S
  <2>1. CASE off[n] < Len(ws)
    <3>1. n + 1 \in 1 .. Len(list)
          /\ ReadTurn(At(ws, list, off, n)) =
               IF off[n + 1] <= Len(ws) THEN At(ws, list, off, n + 1) ELSE Cut(list, n)
      BY <1>1, <2>1, TurnAt
    <3>2. CASE off[n + 1] <= Len(ws)
      BY <3>1, <3>2 DEF ReadStates
    <3>3. CASE ~(off[n + 1] <= Len(ws))
      BY <3>1, <3>3 DEF ReadStates
    <3> QED
      BY <3>2, <3>3
  <2>2. CASE ~(off[n] < Len(ws))
    <3>1. off[n] = Len(ws)
      BY <1>1, <1>5, <2>2
    <3>2. After(ws, off[n]) = <<>>
      BY <1>1, <3>1, AfterIs
    <3>3. At(ws, list, off, n) = Cut(list, n)
      BY <3>2 DEF At, Cut
    <3> QED
      BY <1>4, <3>3 DEF ReadStates
  <2> QED
    BY <2>1, <2>2
<1>6. LoadStays(f, Len(list), S)
  <2> SUFFICES ASSUME NEW s \in S PROVE ReadTurn(s) \in S
    BY DEF LoadStays
  <2>1. CASE s \in {Cut(list, n) : n \in 0 .. Len(list)}
    BY <1>4, <2>1
  <2>2. CASE s \in {At(ws, list, off, n) : n \in {m \in 0 .. Len(list) : off[m] <= Len(ws)}}
    BY <1>5, <2>2
  <2> QED
    BY <2>1, <2>2 DEF ReadStates
<1> HIDE DEF S
<1>7. PICK g : LoadMakes(g, f, Len(list), S)
  BY <1>1, <1>3, <1>6, LoadLoop
<1>8. /\ g \in [0 .. Len(list) -> S] /\ g[0] = x /\ LoadFile(f) = g[Len(list)].entries
      /\ \A n \in 1 .. Len(list) : g[n] = ReadTurn(g[n - 1])
  BY <1>7 DEF LoadMakes
<1>9. \E n \in 0 .. Len(list) : LoadFile(f) = SubSeq(list, 1, n)
  <2>1. g[Len(list)] \in S
    BY <1>1, <1>8
  <2>2. \A n : Cut(list, n).entries = SubSeq(list, 1, n)
               /\ At(ws, list, off, n).entries = SubSeq(list, 1, n)
    BY DEF Cut, At
  <2>3. \A s \in S : \E n \in 0 .. Len(list) : s.entries = SubSeq(list, 1, n)
    BY <2>2 DEF S, ReadStates
  <2> QED
    BY <1>8, <2>1, <2>3
<1>10. ASSUME Len(ws) = off[Len(list)] PROVE LoadFile(f) = list
  <2> DEFINE Bad == {n \in 0 .. Len(list) : g[n] # At(ws, list, off, n)}
  <2>1. Bad = {}
    <3> SUFFICES ASSUME Bad # {} PROVE FALSE
      OBVIOUS
    <3>1. Bad \in SUBSET Nat
      BY <1>1
    <3>2. PICK n \in Bad : \A k \in Bad : n <= k
      <4> HIDE DEF Bad
      <4> QED
        BY <3>1, LeastNat
    <3>3. n \in 0 .. Len(list) /\ n # 0 /\ g[n] # At(ws, list, off, n)
      BY <1>2, <1>8, <3>2
    <3>4. PICK m \in 0 .. Len(list) : m = n - 1
      BY <1>1, <3>3
    <3>5. g[m] = At(ws, list, off, m)
      <4>1. ~(n <= m)
        BY <3>3, <3>4
      <4>2. m \notin Bad
        <5> HIDE DEF Bad
        <5> QED
          BY <3>2, <4>1
      <4> QED
        BY <4>2
    <3>6. n \in 1 .. Len(list) /\ m + 1 = n
      BY <1>1, <3>3, <3>4
    <3>7. off[n] = off[m] + Size(list[n]) /\ Size(list[n]) \in Nat /\ Size(list[n]) >= 2
      BY <1>1, <3>4, <3>6, HoldsHas
    <3>8. off[m] < Len(ws) /\ off[n] <= Len(ws)
      <4>1. off[n] \in Nat /\ off[m] \in Nat /\ off[n] <= off[Len(list)]
        BY <1>1, <3>3
      <4> QED
        BY <1>1, <1>10, <3>7, <4>1
    <3>9. ReadTurn(At(ws, list, off, m)) = At(ws, list, off, n)
      <4>1. ReadTurn(At(ws, list, off, m)) =
              IF off[m + 1] <= Len(ws) THEN At(ws, list, off, m + 1) ELSE Cut(list, m)
        BY <1>1, <3>8, TurnAt
      <4> QED
        BY <3>6, <3>8, <4>1
    <3>10. g[n] = ReadTurn(g[m])
      BY <1>8, <3>4, <3>6
    <3> QED
      BY <3>3, <3>5, <3>9, <3>10
  <2>2. g[Len(list)] = At(ws, list, off, Len(list))
    BY <1>1, <2>1
  <2>3. g[Len(list)].entries = SubSeq(list, 1, Len(list))
    BY <2>2 DEF At
  <2>4. SubSeq(list, 1, Len(list)) = list
    BY <1>1, PrefixIs
  <2> QED
    BY <1>8, <2>3, <2>4
<1> QED
  BY <1>9, <1>10 DEF ws

------------------------------------------------------------------------------
(* The tree a comparison makes. *)

Sources == {<<"restored">>, <<"modified">>} \cup Seq(Int)

\* What UpdateAt makes of the node of an entry.
Marked(node, entry, found) ==
  [node EXCEPT !.src = IF found = {} THEN <<"restored">> ELSE <<"modified">>,
               !.clusters = IF entry.dir \/ entry.clusters = <<>> THEN @ ELSE entry.clusters]

Shown(t, entry, found) == AddPath(t, entry.path, Item(entry.dir, found = {}, entry.size, NoSource))

LEMMA JudgeIs ==
  ASSUME NEW t, NEW entry, NEW sorted, NEW found, found = FindLive(sorted, entry.path),
         NEW u, u = Shown(t, entry, found)
  PROVE  Judge(t, entry, sorted) =
           IF \E e \in found : e.size = entry.size /\ e.mtime = entry.mtime THEN t
           ELSE [i \in DOMAIN u |-> IF i \in FindPath(u, entry.path) THEN Marked(u[i], entry, found) ELSE u[i]]
<1> DEFINE R(w, x, y) == [i \in DOMAIN w |-> IF i \in x THEN Marked(w[i], entry, y) ELSE w[i]]
           Q(w, y) == CHOOSE r \in {R(w, x, y) : x \in {FindPath(w, entry.path)}} : TRUE
           P(y) == CHOOSE r \in {Q(w, y) : w \in {Shown(t, entry, y)}} : TRUE
           J(y) == IF \E e \in y : e.size = entry.size /\ e.mtime = entry.mtime THEN t ELSE P(y)
<1>1. Judge(t, entry, sorted) = CHOOSE r \in {J(y) : y \in {found}} : TRUE
  BY DEF Judge, UpdateAt, With, Marked, Shown
<1> HIDE DEF J
<1>2. {J(y) : y \in {found}} = {J(found)}
  OBVIOUS
<1>3. Judge(t, entry, sorted) = J(found)
  BY <1>1, <1>2, Choice
<1> HIDE DEF P
<1>4. J(found) = IF \E e \in found : e.size = entry.size /\ e.mtime = entry.mtime THEN t ELSE P(found)
  BY DEF J
<1> HIDE DEF Q
<1>5. {Q(w, found) : w \in {Shown(t, entry, found)}} = {Q(u, found)}
  OBVIOUS
<1>6. P(found) = Q(u, found)
  BY <1>5, Choice DEF P
<1> HIDE DEF R
<1>7. {R(u, x, found) : x \in {FindPath(u, entry.path)}} = {R(u, FindPath(u, entry.path), found)}
  OBVIOUS
<1>8. Q(u, found) = R(u, FindPath(u, entry.path), found)
  BY <1>7, Choice DEF Q
<1>9. P(found) = [i \in DOMAIN u |-> IF i \in FindPath(u, entry.path) THEN Marked(u[i], entry, found) ELSE u[i]]
  BY <1>6, <1>8 DEF R
<1> QED
  BY <1>3, <1>4, <1>9

LEMMA JudgeIn ==
  ASSUME NEW t \in Trees(Nat, Sources), NEW entry \in Indexed, NEW sorted
  PROVE  Judge(t, entry, sorted) \in Trees(Nat, Sources)
<1>1. NoSource \in Sources /\ <<"restored">> \in Sources /\ <<"modified">> \in Sources
      /\ entry.clusters \in Sources
  BY IndexedHas DEF Sources, NoSource
<1>2. PICK found : found = FindLive(sorted, entry.path)
  OBVIOUS
<1> DEFINE item == Item(entry.dir, found = {}, entry.size, NoSource)
<1>3. item \in Items(Sources)
  BY <1>1, IndexedHas DEF Item, Items
<1>4. PICK u \in Trees(Nat, Sources) : u = Shown(t, entry, found)
  <2>1. entry.path \in Seq(Nat)
    BY IndexedHas
  <2> HIDE DEF item
  <2>2. AddPath(t, entry.path, item) \in Trees(Nat, Sources)
    BY <1>1, <1>3, <2>1, AddPathIn
  <2> QED
    BY <2>2 DEF Shown, item
<1> DEFINE at == FindPath(u, entry.path)
           v == [i \in DOMAIN u |-> IF i \in at THEN Marked(u[i], entry, found) ELSE u[i]]
<1>5. Judge(t, entry, sorted) \in {t, v}
  BY <1>2, <1>4, JudgeIs
<1>6. \A n \in Nodes(Nat, Sources) :
        Marked(n, entry, found) \in Nodes(Nat, Sources) /\ Marked(n, entry, found).parent = n.parent
  BY <1>1, IndexedHas DEF Marked, Nodes
<1>7. \A i \in DOMAIN u : u[i] \in Nodes(Nat, Sources)
  BY TreeHas
<1> HIDE DEF at
<1>8. v \in [DOMAIN u -> Nodes(Nat, Sources)] /\ \A i \in DOMAIN u : v[i].parent = u[i].parent
  BY <1>6, <1>7
<1> HIDE DEF v
<1>9. v \in Trees(Nat, Sources)
  BY <1>8, ChangedTree
<1> QED
  BY <1>5, <1>9

LEMMA JudgeAllIn ==
  ASSUME NEW entries \in Seq(Indexed), NEW sorted
  PROVE  JudgeAll(entries, sorted) \in Trees(Nat, Sources)
<1> DEFINE L == Len(entries)
           S == Trees(Nat, Sources)
<1>1. L \in Nat /\ <<>> \in S
  BY NoTree
<1>2. JudgeStays(entries, sorted, L, S)
  <2> SUFFICES ASSUME NEW n \in 1 .. L, NEW t \in S PROVE Judge(t, entries[n], sorted) \in S
    BY DEF JudgeStays
  <2>1. entries[n] \in Indexed
    OBVIOUS
  <2> HIDE DEF L
  <2> QED
    BY <2>1, JudgeIn
<1>3. PICK g : JudgeMakes(g, entries, sorted, L, S)
  <2> HIDE DEF L, S
  <2> QED
    BY <1>1, <1>2, JudgeLoop
<1> QED
  BY <1>1, <1>3 DEF JudgeMakes

------------------------------------------------------------------------------
(* The walk, and what it gives to the file. *)

LEMMA DirEntryIn ==
  ASSUME NEW path \in Seq(Nat)
  PROVE  DirEntry(path) \in Indexed /\ DirEntry(path).path = path
<1>1. <<>> \in Seq(Int)
  OBVIOUS
<1> QED
  BY <1>1 DEF DirEntry, Indexed

LEMMA ListingHas ==
  ASSUME NEW v \in Volumes, NEW inode \in DOMAIN v.dirs
  PROVE  /\ v.dirs[inode] \in Seq(Listings) /\ Len(v.dirs[inode]) \in Nat
         /\ DOMAIN v.dirs[inode] = 1 .. Len(v.dirs[inode])
         /\ \A i \in DOMAIN v.dirs[inode] : v.dirs[inode][i] \in Listings
<1>1. v.dirs[inode] \in Seq(Listings)
  BY VolumesAssumption
<1> QED
  BY <1>1

LEMMA FileEntryIn ==
  ASSUME NEW v \in Volumes, NEW inode \in DOMAIN v.dirs, NEW i \in DOMAIN v.dirs[inode],
         NEW path \in Seq(Nat), NEW e, e = v.dirs[inode][i], ~e.dir
  PROVE  /\ FileEntry(v, path, e) \in Indexed /\ FileEntry(v, path, e).path = path
         /\ ~FileEntry(v, path, e).dir /\ FileEntry(v, path, e).clusters = Collect(v, e).clusters
<1> DEFINE Op(found) ==
             [path |-> path, dir |-> FALSE, size |-> e.size, mtime |-> e.mtime,
              none |-> found.none, clusters |-> found.clusters]
<1>1. PICK found \in FoundLists(Int) : found = Collect(v, e)
  BY CollectIn
<1>2. {Op(w) : w \in {found}} = {Op(found)}
  OBVIOUS
<1>3. FileEntry(v, path, e) = CHOOSE r \in {Op(w) : w \in {found}} : TRUE
  BY <1>1 DEF FileEntry, With
<1> HIDE DEF Op
<1>4. FileEntry(v, path, e) = Op(found)
  BY <1>2, <1>3, Choice
<1>5. e \in Listings
  BY ListingHas
<1>6. Op(found) \in Indexed /\ Op(found).path = path /\ ~Op(found).dir /\ Op(found).clusters = found.clusters
  BY <1>5 DEF Op, Indexed, FoundLists, Listings
<1> QED
  BY <1>1, <1>4, <1>6

LEMMA KeptMore ==
  ASSUME NEW ws, NEW list, NEW e \in Indexed
  PROVE  /\ Whole(ws, list) => Whole(ws \o Words(e), Append(list, e)) /\ Kept(ws, list)
         /\ Kept(ws, list) =>
              /\ Kept(ws, Append(list, e))
              /\ list \in Seq(Indexed) /\ Append(list, e) \in Seq(Indexed)
              /\ Len(list) \in Nat /\ Len(Append(list, e)) = Len(list) + 1
<1>1. ASSUME Whole(ws, list) PROVE Whole(ws \o Words(e), Append(list, e)) /\ Kept(ws, list)
  <2>1. PICK off : Holds(ws, list, off) /\ Len(ws) = off[Len(list)]
    BY <1>1 DEF Whole
  <2>2. PICK vs : vs = ws \o Words(e)
    OBVIOUS
  <2>3. PICK on : /\ Holds(vs, Append(list, e), on)
                  /\ vs = ws \o Words(e) => Len(vs) = on[Len(Append(list, e))]
    <3>1. Holds(ws, list, off) /\ (vs = ws \/ (vs = ws \o Words(e) /\ Len(ws) = off[Len(list)]))
      BY <2>1, <2>2
    <3> QED
      BY <3>1, HoldsMore
  <2>4. Whole(vs, Append(list, e))
    BY <2>2, <2>3 DEF Whole
  <2> QED
    BY <2>1, <2>2, <2>4 DEF Kept
<1>2. ASSUME Kept(ws, list)
      PROVE  /\ Kept(ws, Append(list, e))
             /\ list \in Seq(Indexed) /\ Append(list, e) \in Seq(Indexed)
             /\ Len(list) \in Nat /\ Len(Append(list, e)) = Len(list) + 1
  <2>1. PICK off : Holds(ws, list, off)
    BY <1>2 DEF Kept
  <2>2. PICK vs : vs = ws
    OBVIOUS
  <2>3. PICK on : Holds(vs, Append(list, e), on)
    <3>1. Holds(ws, list, off) /\ (vs = ws \/ (vs = ws \o Words(e) /\ Len(ws) = off[Len(list)]))
      BY <2>1, <2>2
    <3> QED
      BY <3>1, HoldsMore
  <2>4. list \in Seq(Indexed)
    BY <2>1 DEF Holds
  <2> QED
    BY <2>2, <2>3, <2>4 DEF Kept
<1> QED
  BY <1>1, <1>2

LEMMA KeptCut ==
  ASSUME NEW ws, NEW list, Kept(ws, list), NEW n \in 0 .. Len(ws)
  PROVE  Kept(SubSeq(ws, 1, n), list)
  BY HoldsCut DEF Kept

LEMMA NothingKept ==
  Whole(<<>>, <<>>) /\ Kept(<<>>, <<>>) /\ Len(<<>>) = 0
<1> DEFINE off == [i \in 0 .. 0 |-> 0]
<1>1. <<>> \in Seq(Indexed) /\ Len(<<>>) = 0 /\ <<>> \in Seq(AllWords)
  OBVIOUS
<1>2. off \in [0 .. 0 -> Nat] /\ off[0] = 0
  OBVIOUS
<1>3. 1 .. 0 = {}
  OBVIOUS
<1> HIDE DEF off
<1>4. Holds(<<>>, <<>>, off)
  BY <1>1, <1>2, <1>3 DEF Holds
<1> QED
  BY <1>1, <1>2, <1>4 DEF Kept, Whole

Frames(v) == [inode : DOMAIN v.dirs, path : Seq(Nat), left : Seq(Listings)]

\* The calls: what is left of a directory is of that directory.
Calls(v, st) ==
  /\ st \in Seq(Frames(v)) /\ Len(st) <= MaxDepth
  /\ \A k \in 1 .. Len(st) : \A i \in 1 .. Len(st[k].left) :
       \E j \in DOMAIN v.dirs[st[k].inode] : st[k].left[i] = v.dirs[st[k].inode][j]

\* The words are those of so many entries, cut short or not.
Counted(ws, n) == \E list : Kept(ws, list) /\ Len(list) = n

CountedWhole(ws, n) == \E list : Whole(ws, list) /\ Len(list) = n

TypeInv ==
  /\ volume \in Volumes /\ snapshot \in Volumes
  /\ pc \in {"idle", "create", "live"}
  /\ written \in Nat /\ compares \in 0 .. MaxCompares /\ full \in BOOLEAN
  /\ report \in {"none", "created", "failed", "compared"}
  /\ file.kind \in {"none", "dsk"} /\ file.count \in Nat
  /\ tree \in Trees(Nat, Sources)
  /\ pc = "idle" => stack = <<>>
  /\ Calls(volume, stack)
  /\ Counted(file.words, file.count)
  /\ pc = "create" => Counted(words, written) /\ (~full => CountedWhole(words, written))

LEMMA NoCalls ==
  ASSUME NEW v
  PROVE  Calls(v, <<>>)
<1>1. <<>> \in Seq(Frames(v)) /\ Len(<<>>) = 0 /\ 1 .. 0 = {}
  OBVIOUS
<1>2. 0 <= MaxDepth
  BY BackupAssumption
<1> QED
  BY <1>1, <1>2 DEF Calls

LEMMA FirstCall ==
  ASSUME NEW v \in Volumes, NEW inode \in DOMAIN v.dirs, NEW path \in Seq(Nat),
         NEW f, f = [inode |-> inode, path |-> path, left |-> v.dirs[inode]]
  PROVE  f \in Frames(v) /\ Calls(v, <<f>>)
<1>1. f \in Frames(v)
  BY ListingHas DEF Frames
<1>2. <<f>> \in Seq(Frames(v)) /\ Len(<<f>>) = 1 /\ <<f>>[1] = f
  BY <1>1
<1>3. 1 <= MaxDepth
  BY BackupAssumption
<1>4. ASSUME NEW k \in 1 .. 1, NEW i \in 1 .. Len(<<f>>[k].left)
      PROVE  \E j \in DOMAIN v.dirs[<<f>>[k].inode] : <<f>>[k].left[i] = v.dirs[<<f>>[k].inode][j]
  <2>1. <<f>>[k] = f
    BY <1>2
  <2>2. i \in DOMAIN v.dirs[inode]
    BY <1>4, <2>1, ListingHas
  <2> QED
    BY <2>1, <2>2
<1> QED
  BY <1>1, <1>2, <1>3, <1>4 DEF Calls

RestOf(st) == [st EXCEPT ![Len(st)].left = Tail(@)]

LEMMA TopHas ==
  ASSUME NEW v \in Volumes, NEW st, Calls(v, st), st # <<>>
  PROVE  /\ Len(st) \in 1 .. MaxDepth /\ Last(st) = st[Len(st)] /\ st \in Seq(Frames(v))
         /\ \A k \in 1 .. Len(st) : st[k] \in Frames(v)
         /\ Last(st).inode \in DOMAIN v.dirs /\ Last(st).path \in Seq(Nat) /\ Last(st).left \in Seq(Listings)
         /\ Last(st).left # <<>> =>
              /\ Head(Last(st).left) = Last(st).left[1] /\ Len(Last(st).left) \in Nat \ {0}
              /\ Head(Last(st).left) \in Listings
              /\ \E j \in DOMAIN v.dirs[Last(st).inode] : Head(Last(st).left) = v.dirs[Last(st).inode][j]
<1>1. st \in Seq(Frames(v)) /\ Len(st) <= MaxDepth /\ MaxDepth \in Nat
  BY BackupAssumption DEF Calls
<1>2. Len(st) \in 1 .. MaxDepth /\ Last(st) = st[Len(st)] /\ Len(st) \in 1 .. Len(st)
  BY <1>1 DEF Last
<1>3. \A k \in 1 .. Len(st) : st[k] \in Frames(v)
  BY <1>1
<1>4. Last(st).inode \in DOMAIN v.dirs /\ Last(st).path \in Seq(Nat) /\ Last(st).left \in Seq(Listings)
  BY <1>2, <1>3 DEF Frames
<1>5. ASSUME Last(st).left # <<>>
      PROVE  /\ Head(Last(st).left) = Last(st).left[1] /\ Len(Last(st).left) \in Nat \ {0}
             /\ Head(Last(st).left) \in Listings
             /\ \E j \in DOMAIN v.dirs[Last(st).inode] : Head(Last(st).left) = v.dirs[Last(st).inode][j]
  <2>1. PICK q : q = Last(st).left
    OBVIOUS
  <2>2. q \in Seq(Listings) /\ q # <<>>
    BY <1>4, <1>5, <2>1
  <2>3. Head(q) = q[1] /\ Len(q) \in Nat \ {0} /\ Head(q) \in Listings /\ 1 \in 1 .. Len(q)
    BY <2>2
  <2>4. \E j \in DOMAIN v.dirs[Last(st).inode] : q[1] = v.dirs[Last(st).inode][j]
    BY <1>2, <2>1, <2>3 DEF Calls
  <2> QED
    BY <2>1, <2>3, <2>4
<1> QED
  BY <1>1, <1>2, <1>3, <1>4, <1>5

LEMMA RestHas ==
  ASSUME NEW v \in Volumes, NEW st, Calls(v, st), st # <<>>, Last(st).left # <<>>
  PROVE  LET r == RestOf(st)
         IN /\ r \in Seq(Frames(v)) /\ Len(r) = Len(st)
            /\ \A k \in 1 .. Len(st) - 1 : r[k] = st[k]
            /\ r[Len(st)].inode = st[Len(st)].inode /\ r[Len(st)].path = st[Len(st)].path
            /\ r[Len(st)].left = Tail(st[Len(st)].left)
            /\ Len(Tail(st[Len(st)].left)) = Len(st[Len(st)].left) - 1
            /\ \A i \in 1 .. Len(st[Len(st)].left) - 1 : Tail(st[Len(st)].left)[i] = st[Len(st)].left[i + 1]
            /\ Calls(v, r)
<1> DEFINE L == Len(st)
           r == RestOf(st)
           q == st[L].left
<1>1. L \in 1 .. MaxDepth /\ st \in Seq(Frames(v)) /\ st[L] \in Frames(v) /\ q # <<>> /\ L \in Nat
  BY TopHas
<1>2. q \in Seq(Listings)
  BY <1>1 DEF Frames
<1>3. /\ Tail(q) \in Seq(Listings) /\ Len(Tail(q)) = Len(q) - 1 /\ Len(q) \in Nat \ {0}
      /\ \A i \in 1 .. Len(q) - 1 : Tail(q)[i] = q[i + 1]
  <2> HIDE DEF q
  <2> QED
    BY <1>1, <1>2
<1>4. PICK f : f = [st[L] EXCEPT !.left = Tail(@)]
  OBVIOUS
<1>5. f \in Frames(v) /\ f.inode = st[L].inode /\ f.path = st[L].path /\ f.left = Tail(q)
  <2>1. f.inode = st[L].inode /\ f.path = st[L].path /\ f.left = Tail(q)
    BY <1>1, <1>4 DEF Frames
  <2> HIDE DEF q
  <2> QED
    BY <1>1, <1>3, <1>4, <2>1 DEF Frames
<1>6. r = [st EXCEPT ![L] = f]
  BY <1>4 DEF RestOf
<1> HIDE DEF r, q, L
<1>7. r \in Seq(Frames(v)) /\ Len(r) = L /\ r[L] = f /\ \A k \in 1 .. L - 1 : r[k] = st[k]
  <2>1. L \in 1 .. Len(st)
    BY <1>1 DEF L
  <2> QED
    BY <1>1, <1>5, <1>6, <2>1 DEF L
<1>8. Calls(v, r)
  <2>1. Len(r) <= MaxDepth
    BY <1>1, <1>7
  <2>2. ASSUME NEW k \in 1 .. L, NEW i \in 1 .. Len(r[k].left)
        PROVE  \E j \in DOMAIN v.dirs[r[k].inode] : r[k].left[i] = v.dirs[r[k].inode][j]
    <3>1. CASE k = L
      <4>1. i \in 1 .. Len(q) - 1 /\ i + 1 \in 1 .. Len(q)
        BY <1>3, <1>5, <1>7, <2>2, <3>1
      <4>2. r[k].left[i] = q[i + 1] /\ r[k].inode = st[L].inode
        BY <1>3, <1>5, <1>7, <3>1, <4>1
      <4>3. \E j \in DOMAIN v.dirs[st[L].inode] : q[i + 1] = v.dirs[st[L].inode][j]
        BY <1>1, <4>1 DEF Calls, L, q
      <4> QED
        BY <4>2, <4>3
    <3>2. CASE k # L
      <4>1. k \in 1 .. L - 1 /\ k \in 1 .. Len(st)
        BY <1>1, <3>2 DEF L
      <4>2. r[k] = st[k]
        BY <1>7, <4>1
      <4> QED
        BY <2>2, <4>1, <4>2 DEF Calls
    <3> QED
      BY <3>1, <3>2
  <2> QED
    BY <1>7, <2>1, <2>2 DEF Calls
<1> QED
  BY <1>3, <1>5, <1>7, <1>8 DEF r, q, L

LEMMA PushHas ==
  ASSUME NEW v \in Volumes, NEW r, Calls(v, r), Len(r) < MaxDepth,
         NEW inode \in DOMAIN v.dirs, NEW path \in Seq(Nat),
         NEW f, f = [inode |-> inode, path |-> path, left |-> v.dirs[inode]]
  PROVE  /\ Calls(v, Append(r, f)) /\ Append(r, f) \in Seq(Frames(v))
         /\ Len(r) \in Nat /\ Len(Append(r, f)) = Len(r) + 1
         /\ Append(r, f)[Len(r) + 1] = f /\ \A k \in 1 .. Len(r) : Append(r, f)[k] = r[k]
<1>1. f \in Frames(v)
  BY FirstCall
<1>2. r \in Seq(Frames(v)) /\ Len(r) \in Nat /\ MaxDepth \in Nat
  BY BackupAssumption DEF Calls
<1>3. PICK s : s = Append(r, f)
  OBVIOUS
<1>4. /\ s \in Seq(Frames(v)) /\ Len(s) = Len(r) + 1
      /\ s[Len(r) + 1] = f /\ \A k \in 1 .. Len(r) : s[k] = r[k]
  BY <1>1, <1>2, <1>3
<1>5. ASSUME NEW k \in 1 .. Len(s), NEW i \in 1 .. Len(s[k].left)
      PROVE  \E j \in DOMAIN v.dirs[s[k].inode] : s[k].left[i] = v.dirs[s[k].inode][j]
  <2>1. CASE k = Len(r) + 1
    <3>1. s[k] = f
      BY <1>4, <2>1
    <3>2. i \in DOMAIN v.dirs[inode]
      BY <1>5, <3>1, ListingHas
    <3> QED
      BY <3>1, <3>2
  <2>2. CASE k # Len(r) + 1
    <3>1. k \in 1 .. Len(r)
      BY <1>2, <1>4, <2>2
    <3>2. s[k] = r[k]
      BY <1>4, <3>1
    <3> QED
      BY <1>5, <3>1, <3>2 DEF Calls
  <2> QED
    BY <2>1, <2>2
<1>6. Calls(v, s)
  BY <1>2, <1>4, <1>5 DEF Calls
<1> QED
  BY <1>2, <1>3, <1>4, <1>6

LEMMA FrontHas ==
  ASSUME NEW v, NEW st, Calls(v, st), st # <<>>
  PROVE  /\ Calls(v, Front(st)) /\ Len(Front(st)) = Len(st) - 1 /\ Len(st) \in Nat \ {0}
         /\ \A k \in 1 .. Len(st) - 1 : Front(st)[k] = st[k]
<1>1. st \in Seq(Frames(v)) /\ MaxDepth \in Nat
  BY BackupAssumption DEF Calls
<1>2. PICK r : r = Front(st)
  OBVIOUS
<1>3. /\ r \in Seq(Frames(v)) /\ Len(r) = Len(st) - 1 /\ Len(st) \in Nat \ {0}
      /\ \A k \in 1 .. Len(st) - 1 : r[k] = st[k]
  BY <1>1, <1>2, FrontAndLast
<1>4. ASSUME NEW k \in 1 .. Len(r), NEW i \in 1 .. Len(r[k].left)
      PROVE  \E j \in DOMAIN v.dirs[r[k].inode] : r[k].left[i] = v.dirs[r[k].inode][j]
  <2>1. k \in 1 .. Len(st) /\ r[k] = st[k]
    BY <1>3
  <2>2. \A i1 \in 1 .. Len(st[k].left) :
          \E j \in DOMAIN v.dirs[st[k].inode] : st[k].left[i1] = v.dirs[st[k].inode][j]
    BY <2>1 DEF Calls
  <2>3. PICK f : f = r[k] /\ f = st[k] /\ i \in 1 .. Len(f.left)
    BY <1>4, <2>1
  <2>4. \E j \in DOMAIN v.dirs[f.inode] : f.left[i] = v.dirs[f.inode][j]
    BY <2>2, <2>3
  <2> QED
    BY <2>3, <2>4
<1>5. Len(r) <= MaxDepth
  BY <1>1, <1>3 DEF Calls
<1>6. Calls(v, r)
  BY <1>3, <1>4, <1>5 DEF Calls
<1> QED
  BY <1>2, <1>3, <1>6

ListedEntry == IF Listed.dir THEN DirEntry(ListedPath) ELSE FileEntry(volume, ListedPath, Listed)

LEMMA ListedHas ==
  ASSUME volume \in Volumes, Calls(volume, stack), stack # <<>>, Top.left # <<>>
  PROVE  /\ ListedPath \in Seq(Nat) /\ Listed \in Listings
         /\ ListedEntry \in Indexed /\ ListedEntry.path = ListedPath
         /\ Top.inode \in DOMAIN volume.dirs
         /\ Rest = RestOf(stack) /\ Calls(volume, Rest) /\ Len(Rest) = Len(stack)
<1>1. Top = Last(stack) /\ Listed = Head(Last(stack).left) /\ Last(stack).left # <<>>
  BY DEF Top, Listed
<1>2. /\ Top.inode \in DOMAIN volume.dirs /\ Top.path \in Seq(Nat) /\ Listed \in Listings
      /\ \E j \in DOMAIN volume.dirs[Top.inode] : Listed = volume.dirs[Top.inode][j]
  BY <1>1, TopHas
<1>3. ListedPath \in Seq(Nat)
  <2>1. Listed.name \in Nat
    BY <1>2 DEF Listings
  <2> QED
    BY <1>2, <2>1 DEF ListedPath
<1>4. CASE Listed.dir
  <2>1. ListedEntry = DirEntry(ListedPath)
    BY <1>4 DEF ListedEntry
  <2>2. Rest = RestOf(stack) /\ Calls(volume, RestOf(stack)) /\ Len(RestOf(stack)) = Len(stack)
    BY <1>1, RestHas DEF Rest, RestOf
  <2> QED
    BY <1>2, <1>3, <2>1, <2>2, DirEntryIn
<1>5. CASE ~Listed.dir
  <2>1. ListedEntry = FileEntry(volume, ListedPath, Listed)
    BY <1>5 DEF ListedEntry
  <2>2. Rest = RestOf(stack) /\ Calls(volume, RestOf(stack)) /\ Len(RestOf(stack)) = Len(stack)
    BY <1>1, RestHas DEF Rest, RestOf
  <2>3. FileEntry(volume, ListedPath, Listed) \in Indexed
        /\ FileEntry(volume, ListedPath, Listed).path = ListedPath
    BY <1>2, <1>3, <1>5, FileEntryIn
  <2> QED
    BY <1>2, <1>3, <2>1, <2>2, <2>3
<1> QED
  BY <1>4, <1>5

LEMMA CallHas ==
  ASSUME volume \in Volumes, NEW inode \in DOMAIN volume.dirs, NEW path \in Seq(Nat)
  PROVE  /\ Calls(volume, <<Call(inode, path)>>)
         /\ \A r : Calls(volume, r) /\ Len(r) < MaxDepth => Calls(volume, Append(r, Call(inode, path)))
<1>1. Call(inode, path) = [inode |-> inode, path |-> path, left |-> volume.dirs[inode]]
  BY DEF Call
<1>2. Calls(volume, <<Call(inode, path)>>)
  BY <1>1, FirstCall
<1>3. ASSUME NEW r, Calls(volume, r), Len(r) < MaxDepth
      PROVE  Calls(volume, Append(r, Call(inode, path)))
  BY <1>1, <1>3, PushHas
<1> QED
  BY <1>2, <1>3

LEMMA BuildIs ==
  ASSUME NEW entries, entries = LoadFile(file), NEW sorted, sorted = Sorted(live)
  PROVE  With(LoadFile(file), LAMBDA x : With(Sorted(live), LAMBDA y : JudgeAll(x, y)))
           = JudgeAll(entries, sorted)
<1> DEFINE Q(x) == CHOOSE r \in {JudgeAll(x, y) : y \in {sorted}} : TRUE
<1>1. With(LoadFile(file), LAMBDA x : With(Sorted(live), LAMBDA y : JudgeAll(x, y)))
        = CHOOSE r \in {Q(x) : x \in {entries}} : TRUE
  BY DEF With
<1>2. Q(entries) = JudgeAll(entries, sorted)
  <2>1. {JudgeAll(entries, y) : y \in {sorted}} = {JudgeAll(entries, sorted)}
    OBVIOUS
  <2> QED
    BY <2>1, Choice
<1> HIDE DEF Q
<1>3. {Q(x) : x \in {entries}} = {Q(entries)}
  OBVIOUS
<1> QED
  BY <1>1, <1>2, <1>3, Choice

LEMMA LoadedIn ==
  ASSUME NEW f, Counted(f.words, f.count)
  PROVE  LoadFile(f) \in Seq(Indexed)
<1>1. PICK list, off : Holds(f.words, list, off) /\ f.count = Len(list)
  BY DEF Counted, Kept
<1>2. PICK n \in 0 .. Len(list) : LoadFile(f) = SubSeq(list, 1, n)
  BY <1>1, LoadsBack
<1>3. list \in Seq(Indexed)
  BY <1>1 DEF Holds
<1> QED
  BY <1>2, <1>3, PrefixIs

LEMMA TypeInit == Init => TypeInv
<1> SUFFICES ASSUME Init PROVE TypeInv
  OBVIOUS
<1>1. Calls(volume, <<>>)
  BY NoCalls
<1>2. Kept(<<>>, <<>>) /\ Len(<<>>) = 0
  BY NothingKept
<1>3. <<>> \in Trees(Nat, Sources)
  BY NoTree
<1>4. file.words = <<>> /\ file.count = 0 /\ file.kind = "none"
  BY DEF Init, NoFile
<1>5. Counted(file.words, file.count)
  BY <1>2, <1>4 DEF Counted
<1>6. 0 \in 0 .. MaxCompares
  BY BackupAssumption
<1>7. pc = "idle" /\ stack = <<>> /\ snapshot = volume /\ volume \in Volumes /\ tree = <<>>
      /\ written = 0 /\ compares = 0 /\ report = "none" /\ full \in BOOLEAN
  BY DEF Init
<1>8. Calls(volume, stack) /\ tree \in Trees(Nat, Sources)
  BY <1>1, <1>3, <1>7
<1> QED
  BY <1>4, <1>5, <1>6, <1>7, <1>8 DEF TypeInv

\* An index with no count reads as empty.
LEMMA EmptyFile ==
  Counted(<<>>, 0)
<1>1. Kept(<<>>, <<>>) /\ Len(<<>>) = 0
  BY NothingKept
<1> QED
  BY <1>1 DEF Counted

LEMMA TypeStep == TypeInv /\ [Next]_vars => TypeInv'
<1> SUFFICES ASSUME TypeInv, [Next]_vars PROVE TypeInv'
  OBVIOUS
<1> USE DEF TypeInv
<1>1. CASE CreateRefused
  BY <1>1 DEF CreateRefused
<1>2. CASE BeginCreate
  <2>1. volume.root \in DOMAIN volume.dirs /\ <<>> \in Seq(Nat)
    BY <1>2 DEF BeginCreate, Readable
  <2>2. Calls(volume, <<Call(volume.root, <<>>)>>)
    BY <2>1, CallHas
  <2>3. Calls(volume', stack')
    BY <1>2, <2>2 DEF BeginCreate
  <2>4. CountedWhole(words', written') /\ Counted(words', written')
    <3>1. PICK e \in Indexed : e = DirEntry(<<>>)
      BY <2>1, DirEntryIn
    <3>2. PICK none : none = <<>> /\ Whole(none, none) /\ Kept(none, none)
      BY NothingKept
    <3>3. Whole(none \o Words(e), Append(none, e))
      BY <3>2, KeptMore
    <3>4. none \o Words(e) = Words(e) /\ Append(none, e) = <<e>>
      BY <3>2, WordsAre
    <3>5. Whole(words', <<e>>) /\ Len(<<e>>) = written'
      BY <1>2, <3>1, <3>3, <3>4 DEF BeginCreate
    <3> QED
      BY <3>5, KeptMore, <3>1 DEF CountedWhole, Counted
  <2> QED
    BY <1>2, <2>3, <2>4 DEF BeginCreate
<1>3. CASE WriteEntry
  <2>1. stack # <<>> /\ Top.left # <<>>
    BY <1>3 DEF WriteEntry, Walking
  <2>2. /\ ListedPath \in Seq(Nat) /\ ListedEntry \in Indexed
        /\ Calls(volume, Rest) /\ Len(Rest) = Len(stack)
    BY <2>1, ListedHas
  <2>3. Calls(volume', stack')
    <3>1. CASE Descends(Listed) /\ Readable(Listed.inode)
      <4>1. Len(Rest) < MaxDepth /\ Listed.inode \in DOMAIN volume.dirs
        BY <2>2, <3>1 DEF Descends, Readable
      <4>2. Calls(volume, Append(Rest, Call(Listed.inode, ListedPath)))
        BY <2>2, <4>1, CallHas
      <4> QED
        BY <1>3, <3>1, <4>2 DEF WriteEntry
    <3>2. CASE ~(Descends(Listed) /\ Readable(Listed.inode))
      BY <1>3, <2>2, <3>2 DEF WriteEntry
    <3> QED
      BY <3>1, <3>2
  <2>4. written' = written + 1 /\ full' = full
    BY <1>3 DEF WriteEntry, Count
  <2>5. CASE full
    <3>1. words' = words
      BY <1>3, <2>5 DEF WriteEntry, Put
    <3>2. PICK list : Kept(words, list) /\ Len(list) = written
      BY <1>3 DEF WriteEntry, Counted
    <3>3. Counted(words', written')
      BY <2>2, <2>4, <3>1, <3>2, KeptMore DEF Counted
    <3> QED
      BY <1>3, <2>3, <2>4, <2>5, <3>3 DEF WriteEntry
  <2>6. CASE ~full
    <3>1. words' = words \o Words(ListedEntry)
      BY <1>3, <2>6 DEF WriteEntry, Put, ListedEntry
    <3>2. PICK list : Whole(words, list) /\ Len(list) = written
      BY <1>3, <2>6 DEF WriteEntry, CountedWhole
    <3>3. Kept(words, list) /\ Whole(words', Append(list, ListedEntry))
      BY <2>2, <3>1, <3>2, KeptMore
    <3>4. Len(Append(list, ListedEntry)) = written' /\ Kept(words', Append(list, ListedEntry))
      BY <2>2, <2>4, <3>2, <3>3, KeptMore
    <3>5. CountedWhole(words', written') /\ Counted(words', written')
      BY <3>3, <3>4 DEF CountedWhole, Counted
    <3> QED
      BY <1>3, <2>3, <2>4, <3>5 DEF WriteEntry
  <2> QED
    BY <2>5, <2>6
<1>4. CASE RunFull
  <2>1. PICK list : Kept(words, list) /\ Len(list) = written
    BY <1>4 DEF RunFull, Counted
  <2>2. PICK n \in 0 .. Len(words) : words' = SubSeq(words, 1, n)
    BY <1>4 DEF RunFull
  <2>3. Counted(words', written')
    BY <1>4, <2>1, <2>2, KeptCut DEF RunFull, Counted
  <2> QED
    BY <1>4, <2>3 DEF RunFull
<1>5. CASE CreateDone
  <2>2. Counted(file'.words, file'.count)
        /\ file'.kind \in {"none", "dsk"} /\ file'.count \in Nat
    <3>1. CASE file' = file
      BY <3>1
    <3>2. CASE file' = Made(written, words)
      <4>1. file'.words = words /\ file'.count = written /\ file'.kind = "dsk"
        BY <3>2 DEF Made
      <4> QED
        BY <1>5, <4>1 DEF CreateDone
    <3>3. CASE file' = Made(0, <<>>)
      <4>1. file'.words = <<>> /\ file'.count = 0 /\ file'.kind = "dsk"
        BY <3>3 DEF Made
      <4> QED
        BY <4>1, EmptyFile
    <3> QED
      BY <1>5, <3>1, <3>2, <3>3 DEF CreateDone
  <2> QED
    BY <1>5, <2>2 DEF CreateDone
<1>6. CASE KillCreate
  <2>1. file'.words = <<>> /\ file'.count = 0 /\ file'.kind = "dsk"
    BY <1>6 DEF KillCreate, Made
  <2>2. Counted(file'.words, file'.count)
    BY <2>1, EmptyFile
  <2> QED
    BY <1>6, <2>1, <2>2, NoCalls DEF KillCreate
<1>7. CASE SkipEntry
  <2>1. stack # <<>> /\ Top.left # <<>> /\ stack' = Rest
    BY <1>7 DEF SkipEntry, Walking
  <2>2. Calls(volume', stack')
    BY <1>7, <2>1, ListedHas DEF SkipEntry
  <2> QED
    BY <1>7, <2>2 DEF SkipEntry, Walking
<1>8. CASE LeaveDir
  <2>1. Calls(volume', stack')
    BY <1>8, FrontHas DEF LeaveDir, Walking
  <2> QED
    BY <1>8, <2>1 DEF LeaveDir, Walking
<1>9. CASE Change
  <2>1. Calls(volume', stack')
    BY <1>9, NoCalls DEF Change
  <2> QED
    BY <1>9, <2>1 DEF Change
<1>10. CASE CompareRefused
  <2>1. compares + 1 \in 0 .. MaxCompares
    BY <1>10, BackupAssumption DEF CompareRefused, Compare
  <2> QED
    BY <1>10, <2>1, NoTree DEF CompareRefused, Compare
<1>11. CASE BeginCompare
  <2>1. compares + 1 \in 0 .. MaxCompares
    BY <1>11, BackupAssumption DEF BeginCompare, Compare
  <2>2. volume.root \in DOMAIN volume.dirs /\ <<>> \in Seq(Nat)
    BY <1>11 DEF BeginCompare, Readable
  <2>3. Calls(volume, <<Call(volume.root, <<>>)>>)
    BY <2>2, CallHas
  <2>4. Calls(volume', stack')
    BY <1>11, <2>3 DEF BeginCompare
  <2> QED
    BY <1>11, <2>1, <2>4, NoTree DEF BeginCompare, Compare
<1>12. CASE LiveEntry
  <2>1. stack # <<>> /\ Top.left # <<>>
    BY <1>12 DEF LiveEntry, Walking
  <2>2. ListedPath \in Seq(Nat) /\ Calls(volume, Rest) /\ Len(Rest) = Len(stack)
    BY <2>1, ListedHas
  <2>3. Calls(volume', stack')
    <3>1. CASE Descends(Listed)
      <4>1. Len(Rest) < MaxDepth /\ Listed.inode \in DOMAIN volume.dirs
        BY <1>12, <2>2, <3>1 DEF LiveEntry, Descends, Readable
      <4>2. Calls(volume, Append(Rest, Call(Listed.inode, ListedPath)))
        BY <2>2, <4>1, CallHas
      <4> QED
        BY <1>12, <3>1, <4>2 DEF LiveEntry
    <3>2. CASE ~Descends(Listed)
      BY <1>12, <2>2, <3>2 DEF LiveEntry
    <3> QED
      BY <3>1, <3>2
  <2> QED
    BY <1>12, <2>3 DEF LiveEntry
<1>13. CASE LiveFails
  BY <1>13, NoCalls DEF LiveFails
<1>14. CASE BuildTree
  <2>1. PICK entries, sorted : entries = LoadFile(file) /\ sorted = Sorted(live)
    OBVIOUS
  <2>2. tree' = JudgeAll(entries, sorted)
    <3>1. With(LoadFile(file), LAMBDA x : With(Sorted(live), LAMBDA y : JudgeAll(x, y)))
            = JudgeAll(entries, sorted)
      BY <2>1, BuildIs
    <3> QED
      BY <1>14, <3>1 DEF BuildTree
  <2>3. entries \in Seq(Indexed)
    BY <2>1, LoadedIn
  <2>4. tree' \in Trees(Nat, Sources)
    BY <2>2, <2>3, JudgeAllIn
  <2> QED
    BY <1>14, <2>4 DEF BuildTree
<1>15. CASE UNCHANGED vars
  BY <1>15 DEF vars
<1> QED
  BY <1>1, <1>2, <1>3, <1>4, <1>5, <1>6, <1>7, <1>8, <1>9, <1>10, <1>11, <1>12, <1>13, <1>14, <1>15 DEF Next

\* A backup, a comparison and the tree it makes keep their types, and no walk is deeper than
\* inode_known has room for (backup_walk_dir, backup_walk_live).
THEOREM BackupTypeCorrect == Spec => []TypeOK
<1>1. TypeInv => TypeOK
  <2> SUFFICES ASSUME TypeInv PROVE TypeOK
    OBVIOUS
  <2>1. \A i \in DOMAIN tree : tree[i].parent \in 0 .. i - 1
    BY TreeHas DEF TypeInv
  <2>2. Len(stack) <= MaxDepth
    BY DEF TypeInv, Calls
  <2> QED
    BY <2>1, <2>2 DEF TypeInv, TypeOK
<1> QED
  BY <1>1, TypeInit, TypeStep, PTL DEF Spec

------------------------------------------------------------------------------
(* What there is to list, level by level. *)

RootState(v) == [dirs |-> {[path |-> <<>>, entry |-> [inode |-> v.root], above |-> {}]}, all |-> {}]

Below(v, s) == UNION {Inside(v, d) : d \in s.dirs}

ReachTurn(v, s) ==
  With(Below(v, s), LAMBDA found : [dirs |-> Opened(v, found), all |-> s.all \cup found])

ReachStays(v, L, S) == \A n \in 1 .. L : \A s \in S : ReachTurn(v, s) \in S

ReachMakes(g, v, L, S) ==
  /\ g \in [0 .. L -> S] /\ g[0] = RootState(v) /\ \A n \in 1 .. L : g[n] = ReachTurn(v, g[n - 1])
  /\ L = MaxDepth => Reachable(v) = g[L].all

LEMMA ReachLoop ==
  ASSUME NEW v, NEW L \in Nat, NEW S, NEW x \in S, x = RootState(v), ReachStays(v, L, S)
  PROVE  \E g : ReachMakes(g, v, L, S)
<1> DEFINE step == [p \in (1 .. L) \X S |-> ReachTurn(v, p[2])]
           Is(f) == f = [n \in 0 .. L |->
                      IF n = 0 THEN x ELSE CHOOSE r \in {ReachTurn(v, w) : w \in {f[n - 1]}} : TRUE]
<1>1. \A n \in 1 .. L, s \in S : step[<<n, s>>] = ReachTurn(v, s)
  OBVIOUS
<1>2. step \in [(1 .. L) \X S -> S]
  <2>1. \A p \in (1 .. L) \X S : ReachTurn(v, p[2]) \in S
    BY DEF ReachStays
  <2> QED
    BY <2>1
<1> HIDE DEF step
<1>0. PICK g : Loops(g, L, x, S, step)
  BY <1>2, LoopBuilt
<1>3. g \in [0 .. L -> S] /\ g[0] = x /\ \A n \in 1 .. L : g[n] = step[<<n, g[n - 1]>>]
  BY <1>0 DEF Loops
<1>4. \A n \in 1 .. L : g[n - 1] \in S /\ n \in 0 .. L /\ n # 0
  BY <1>3
<1>5. \A n \in 1 .. L : g[n] = ReachTurn(v, g[n - 1])
  BY <1>1, <1>3, <1>4
<1>6. Is(g)
  <2>1. ASSUME NEW n \in 0 .. L
        PROVE  g[n] = IF n = 0 THEN x ELSE CHOOSE r \in {ReachTurn(v, w) : w \in {g[n - 1]}} : TRUE
    <3>1. CASE n = 0
      BY <1>3, <3>1
    <3>2. CASE n # 0
      <4>1. {ReachTurn(v, w) : w \in {g[n - 1]}} = {ReachTurn(v, g[n - 1])} /\ n \in 1 .. L
        BY <3>2
      <4> QED
        BY <1>5, <3>2, <4>1, Choice
    <3> QED
      BY <3>1, <3>2
  <2>2. g = [n \in 0 .. L |-> g[n]]
    BY <1>3
  <2> QED
    BY <2>1, <2>2, Zenon
<1> DEFINE f == CHOOSE f : Is(f)
<1>7. Is(f)
  BY <1>6
<1>8. L = MaxDepth => Reachable(v) = f[L].all
  BY DEF Reachable, Below, ReachTurn, RootState, With
<1> HIDE DEF f
<1>9. DOMAIN f = 0 .. L /\ f = [n \in DOMAIN f |-> f[n]] /\ f[0] = x
  BY <1>7
<1>10. ASSUME NEW n \in 1 .. L, NEW s \in S, f[n - 1] = s PROVE f[n] = step[<<n, s>>]
  <2>1. f[n] = CHOOSE r \in {ReachTurn(v, w) : w \in {f[n - 1]}} : TRUE
    BY <1>4, <1>7
  <2>2. {ReachTurn(v, w) : w \in {f[n - 1]}} = {ReachTurn(v, s)}
    BY <1>10
  <2> QED
    BY <1>1, <2>1, <2>2, Choice
<1>11. Turns(f, L, x, S, step)
  BY <1>9, <1>10 DEF Turns
<1>12. f = g
  BY <1>0, <1>11, LoopIs
<1> QED
  BY <1>5, <1>3, <1>8, <1>12 DEF ReachMakes

LEMMA ReachTurnIs ==
  ASSUME NEW v, NEW s
  PROVE  ReachTurn(v, s).dirs = Opened(v, Below(v, s)) /\ ReachTurn(v, s).all = s.all \cup Below(v, s)
         /\ ReachTurn(v, s) = [dirs |-> Opened(v, Below(v, s)), all |-> s.all \cup Below(v, s)]
<1> DEFINE Op(found) == [dirs |-> Opened(v, found), all |-> s.all \cup found]
<1>1. ReachTurn(v, s) = CHOOSE r \in {Op(w) : w \in {Below(v, s)}} : TRUE
  BY DEF ReachTurn, With
<1> HIDE DEF Op
<1>2. {Op(w) : w \in {Below(v, s)}} = {Op(Below(v, s))}
  OBVIOUS
<1>3. ReachTurn(v, s) = Op(Below(v, s))
  BY <1>1, <1>2, Choice
<1> QED
  BY <1>3 DEF Op

\* Where the walk may be: a directory, or something listed, and the inodes above it.
Places(v) ==
  [path : Seq(Nat), entry : {[inode |-> v.root]} \cup Listings, above : SUBSET ({v.root} \cup Nat)]

Levels(v, g) ==
  /\ g[0].dirs = {[path |-> <<>>, entry |-> [inode |-> v.root], above |-> {}]} /\ g[0].all = {}
  /\ \A n \in 1 .. MaxDepth : g[n].dirs = Opened(v, Below(v, g[n - 1]))
                             /\ g[n].all = g[n - 1].all \cup Below(v, g[n - 1])
  /\ \A n \in 0 .. MaxDepth :
       /\ g[n].all \subseteq Places(v)
       /\ \A d \in g[n].dirs : d \in Places(v) /\ d.entry.inode \in DOMAIN v.dirs
  /\ Reachable(v) = g[MaxDepth].all

LEMMA InsideHas ==
  ASSUME NEW v \in Volumes, NEW d \in Places(v), d.entry.inode \in DOMAIN v.dirs, NEW x \in Inside(v, d)
  PROVE  /\ x \in Places(v) /\ x.above = d.above \cup {d.entry.inode} /\ x.entry \in Listings
         /\ x.path = Append(d.path, x.entry.name) /\ ~Ignored(x.entry)
         /\ \E j \in DOMAIN v.dirs[d.entry.inode] : x.entry = v.dirs[d.entry.inode][j]
<1>1. PICK e \in ToSet(v.dirs[d.entry.inode]) :
         ~Ignored(e) /\ x = [path |-> Append(d.path, e.name), entry |-> e, above |-> d.above \cup {d.entry.inode}]
  BY DEF Inside
<1>2. PICK j \in DOMAIN v.dirs[d.entry.inode] : e = v.dirs[d.entry.inode][j]
  BY <1>1 DEF ToSet
<1>3. e \in Listings
  BY <1>2, ListingHas
<1>4. d.path \in Seq(Nat) /\ d.above \subseteq {v.root} \cup Nat /\ d.entry.inode \in {v.root} \cup Nat
        /\ e.name \in Nat
  BY <1>3 DEF Places, Listings
<1>5. Append(d.path, e.name) \in Seq(Nat) /\ d.above \cup {d.entry.inode} \subseteq {v.root} \cup Nat
  BY <1>4
<1>6. /\ x.entry = e /\ x.path = Append(d.path, e.name) /\ x.above = d.above \cup {d.entry.inode}
  BY <1>1
<1>7. x \in Places(v)
  BY <1>1, <1>3, <1>5 DEF Places
<1> QED
  BY <1>1, <1>2, <1>3, <1>6, <1>7

LEMMA LevelsExist ==
  ASSUME NEW v \in Volumes, v.root \in DOMAIN v.dirs
  PROVE  \E g : Levels(v, g)
<1> DEFINE P == Places(v)
           D == {d \in P : d.entry.inode \in DOMAIN v.dirs}
           S == [dirs : SUBSET D, all : SUBSET P]
           x == RootState(v)
<1>1. x \in S
  <2>1. [path |-> <<>>, entry |-> [inode |-> v.root], above |-> {}] \in D
    BY DEF Places
  <2> HIDE DEF D, P
  <2> QED
    BY <2>1 DEF RootState
<1>2. ReachStays(v, MaxDepth, S)
  <2> SUFFICES ASSUME NEW s \in S PROVE ReachTurn(v, s) \in S
    BY DEF ReachStays
  <2>1. s.dirs \subseteq D /\ s.all \subseteq P
    OBVIOUS
  <2>2. Below(v, s) \subseteq P
    <3> SUFFICES ASSUME NEW y \in Below(v, s) PROVE y \in P
      OBVIOUS
    <3>1. PICK d \in s.dirs : y \in Inside(v, d)
      BY DEF Below
    <3>2. d \in P /\ d.entry.inode \in DOMAIN v.dirs
      BY <2>1
    <3> QED
      BY <3>1, <3>2, InsideHas
  <2>3. Opened(v, Below(v, s)) \subseteq D
    BY <2>2 DEF Opened
  <2> HIDE DEF D, P
  <2>4. [dirs |-> Opened(v, Below(v, s)), all |-> s.all \cup Below(v, s)] \in S
    BY <2>1, <2>2, <2>3
  <2> QED
    BY <2>4, ReachTurnIs
<1>3. MaxDepth \in Nat
  BY BackupAssumption
<1>4. PICK g : ReachMakes(g, v, MaxDepth, S)
  <2> HIDE DEF S
  <2> QED
    BY <1>1, <1>2, <1>3, ReachLoop
<1>5. /\ g \in [0 .. MaxDepth -> S] /\ g[0] = RootState(v) /\ Reachable(v) = g[MaxDepth].all
      /\ \A n \in 1 .. MaxDepth : g[n] = ReachTurn(v, g[n - 1])
  BY <1>4 DEF ReachMakes
<1>6. \A n \in 0 .. MaxDepth : g[n].all \subseteq P /\ g[n].dirs \subseteq D
  <2> HIDE DEF P, D
  <2> QED
    BY <1>5
<1>7. \A n \in 1 .. MaxDepth : g[n].dirs = Opened(v, Below(v, g[n - 1]))
                             /\ g[n].all = g[n - 1].all \cup Below(v, g[n - 1])
  BY <1>5, ReachTurnIs
<1>8. g[0].dirs = {[path |-> <<>>, entry |-> [inode |-> v.root], above |-> {}]} /\ g[0].all = {}
  BY <1>5 DEF RootState
<1> QED
  BY <1>5, <1>6, <1>7, <1>8 DEF Levels

LEMMA BelowHas ==
  ASSUME NEW v \in Volumes, NEW g, Levels(v, g), NEW n \in 1 .. MaxDepth, NEW x \in Below(v, g[n - 1])
  PROVE  \E d \in g[n - 1].dirs :
           /\ d \in Places(v) /\ d.entry.inode \in DOMAIN v.dirs /\ x \in Inside(v, d)
           /\ x \in Places(v) /\ x.path = Append(d.path, x.entry.name) /\ x.entry \in Listings
           /\ x.above = d.above \cup {d.entry.inode} /\ ~Ignored(x.entry)
           /\ \E j \in DOMAIN v.dirs[d.entry.inode] : x.entry = v.dirs[d.entry.inode][j]
<1>1. PICK d \in g[n - 1].dirs : x \in Inside(v, d)
  BY DEF Below
<1>2. n - 1 \in 0 .. MaxDepth
  BY BackupAssumption
<1>3. d \in Places(v) /\ d.entry.inode \in DOMAIN v.dirs
  BY <1>1, <1>2 DEF Levels
<1> QED
  BY <1>1, <1>3, InsideHas

Depth(g, n) == \A d \in g[n].dirs : Len(d.path) = n

LEMMA DirsHave ==
  ASSUME NEW v \in Volumes, NEW g, Levels(v, g)
  PROVE  /\ \A n \in 0 .. MaxDepth : Depth(g, n)
         /\ \A n \in 1 .. MaxDepth : \A x \in Below(v, g[n - 1]) : Len(x.path) = n
<1>1. MaxDepth \in Nat
  BY BackupAssumption
<1>2. ASSUME NEW n \in 1 .. MaxDepth, Depth(g, n - 1), NEW x \in Below(v, g[n - 1])
      PROVE  Len(x.path) = n
  <2>1. PICK d \in g[n - 1].dirs :
          d \in Places(v) /\ x.path = Append(d.path, x.entry.name) /\ x.entry \in Listings
    BY BelowHas
  <2>2. d.path \in Seq(Nat) /\ x.entry.name \in Nat /\ Len(d.path) = n - 1
    BY <1>2, <2>1 DEF Places, Listings, Depth
  <2> QED
    BY <2>1, <2>2
<1> DEFINE Bad == {n \in 0 .. MaxDepth : ~Depth(g, n)}
<1>3. Bad = {}
  <2> SUFFICES ASSUME Bad # {} PROVE FALSE
    OBVIOUS
  <2>1. Bad \in SUBSET Nat
    BY <1>1
  <2>2. PICK n \in Bad : \A k \in Bad : n <= k
    <3> HIDE DEF Bad
    <3> QED
      BY <2>1, LeastNat
  <2>3. n \in 0 .. MaxDepth /\ ~Depth(g, n)
    BY <2>2
  <2>4. n # 0
    <3>1. Depth(g, 0)
      <4>1. Len(<<>>) = 0
        OBVIOUS
      <4> QED
        BY <4>1 DEF Levels, Depth
    <3> QED
      BY <2>3, <3>1
  <2>5. n \in 1 .. MaxDepth /\ n - 1 \in 0 .. MaxDepth
    BY <1>1, <2>3, <2>4
  <2>6. Depth(g, n - 1)
    <3>1. ~(n <= n - 1)
      BY <2>5
    <3>2. n - 1 \notin Bad
      <4> HIDE DEF Bad
      <4> QED
        BY <2>2, <3>1
    <3> QED
      BY <2>5, <3>2
  <2>7. g[n].dirs \subseteq Below(v, g[n - 1])
    BY <2>5 DEF Levels, Opened
  <2>8. Depth(g, n)
    BY <1>2, <2>5, <2>6, <2>7 DEF Depth
  <2> QED
    BY <2>3, <2>8
<1>4. ASSUME NEW n \in 1 .. MaxDepth, NEW x \in Below(v, g[n - 1]) PROVE Len(x.path) = n
  <2>1. n - 1 \in 0 .. MaxDepth
    BY <1>1
  <2>2. Depth(g, n - 1)
    BY <1>3, <2>1
  <2> QED
    BY <1>2, <2>2
<1> QED
  BY <1>3, <1>4

Gathered(v, g, m) == \A x : x \in g[m].all <=> \E n \in 1 .. m : x \in Below(v, g[n - 1])

LEMMA ReachableIs ==
  ASSUME NEW v \in Volumes, NEW g, Levels(v, g)
  PROVE  \A x : x \in Reachable(v) <=> \E n \in 1 .. MaxDepth : x \in Below(v, g[n - 1])
<1>1. MaxDepth \in Nat
  BY BackupAssumption
<1> DEFINE Bad == {m \in 0 .. MaxDepth : ~Gathered(v, g, m)}
<1>2. Bad = {}
  <2> SUFFICES ASSUME Bad # {} PROVE FALSE
    OBVIOUS
  <2>1. Bad \in SUBSET Nat
    BY <1>1
  <2>2. PICK m \in Bad : \A k \in Bad : m <= k
    <3> HIDE DEF Bad
    <3> QED
      BY <2>1, LeastNat
  <2>3. m \in 0 .. MaxDepth /\ ~Gathered(v, g, m)
    BY <2>2
  <2>4. m # 0
    <3>1. Gathered(v, g, 0)
      <4>1. g[0].all = {} /\ 1 .. 0 = {}
        BY DEF Levels
      <4> QED
        BY <4>1 DEF Gathered
    <3> QED
      BY <2>3, <3>1
  <2>5. m \in 1 .. MaxDepth /\ m - 1 \in 0 .. MaxDepth
    BY <1>1, <2>3, <2>4
  <2>6. Gathered(v, g, m - 1)
    <3>1. ~(m <= m - 1)
      BY <2>5
    <3>2. m - 1 \notin Bad
      <4> HIDE DEF Bad
      <4> QED
        BY <2>2, <3>1
    <3> QED
      BY <2>5, <3>2
  <2>7. g[m].all = g[m - 1].all \cup Below(v, g[m - 1])
    BY <2>5 DEF Levels
  <2>8. \A n : n \in 1 .. m <=> n \in 1 .. m - 1 \/ n = m
    BY <2>5
  <2>9. Gathered(v, g, m)
    <3> SUFFICES ASSUME NEW x PROVE x \in g[m].all <=> \E n \in 1 .. m : x \in Below(v, g[n - 1])
      BY DEF Gathered
    <3>1. x \in g[m - 1].all <=> \E n \in 1 .. m - 1 : x \in Below(v, g[n - 1])
      BY <2>6 DEF Gathered
    <3>2. x \in g[m].all <=> x \in g[m - 1].all \/ x \in Below(v, g[m - 1])
      BY <2>7
    <3>3. (\E n \in 1 .. m : x \in Below(v, g[n - 1]))
            <=> (\E n \in 1 .. m - 1 : x \in Below(v, g[n - 1])) \/ x \in Below(v, g[m - 1])
      BY <2>8
    <3> QED
      BY <3>1, <3>2, <3>3
  <2> QED
    BY <2>3, <2>9
<1>3. Gathered(v, g, MaxDepth)
  BY <1>1, <1>2
<1>4. Reachable(v) = g[MaxDepth].all
  BY DEF Levels
<1> QED
  BY <1>3, <1>4 DEF Gathered

OnePlace(set) == \A x, y \in set : x.path = y.path => x = y

LEMMA AppendOne ==
  ASSUME NEW p \in Seq(Nat), NEW q \in Seq(Nat), NEW a \in Nat, NEW b \in Nat, Append(p, a) = Append(q, b)
  PROVE  p = q /\ a = b
<1>1. Len(p) = Len(q) /\ Len(p) \in Nat
  <2>1. Len(Append(p, a)) = Len(p) + 1 /\ Len(Append(q, b)) = Len(q) + 1
    OBVIOUS
  <2> QED
    BY <2>1
<1>2. Append(p, a)[Len(p) + 1] = a /\ Append(q, b)[Len(q) + 1] = b
  OBVIOUS
<1>3. \A i \in 1 .. Len(p) : p[i] = q[i]
  <2> SUFFICES ASSUME NEW i \in 1 .. Len(p) PROVE p[i] = q[i]
    OBVIOUS
  <2>1. i \in 1 .. Len(q)
    BY <1>1
  <2>2. Append(p, a)[i] = p[i]
    OBVIOUS
  <2>3. Append(q, b)[i] = q[i]
    BY <2>1
  <2> QED
    BY <2>2, <2>3
<1>4. p = q
  BY <1>1, <1>3
<1>5. a = b
  BY <1>1, <1>2
<1> QED
  BY <1>4, <1>5

LEMMA OneBelow ==
  ASSUME NEW v \in Volumes, NEW g, Levels(v, g), NamesApart, NEW n \in 1 .. MaxDepth, OnePlace(g[n - 1].dirs)
  PROVE  OnePlace(Below(v, g[n - 1]))
<1> SUFFICES ASSUME NEW x \in Below(v, g[n - 1]), NEW y \in Below(v, g[n - 1]), x.path = y.path
             PROVE  x = y
  BY DEF OnePlace
<1>1. PICK d \in g[n - 1].dirs :
         /\ d \in Places(v) /\ d.entry.inode \in DOMAIN v.dirs
         /\ x \in Places(v) /\ x.path = Append(d.path, x.entry.name) /\ x.entry \in Listings
         /\ x.above = d.above \cup {d.entry.inode} /\ ~Ignored(x.entry)
         /\ \E j \in DOMAIN v.dirs[d.entry.inode] : x.entry = v.dirs[d.entry.inode][j]
  BY BelowHas
<1>2. PICK c \in g[n - 1].dirs :
         /\ c \in Places(v)
         /\ y \in Places(v) /\ y.path = Append(c.path, y.entry.name) /\ y.entry \in Listings
         /\ y.above = c.above \cup {c.entry.inode} /\ ~Ignored(y.entry)
         /\ \E j \in DOMAIN v.dirs[c.entry.inode] : y.entry = v.dirs[c.entry.inode][j]
  BY BelowHas
<1>3. d.path = c.path /\ x.entry.name = y.entry.name
  <2>1. d.path \in Seq(Nat) /\ c.path \in Seq(Nat) /\ x.entry.name \in Nat /\ y.entry.name \in Nat
    BY <1>1, <1>2 DEF Places, Listings
  <2>2. Append(d.path, x.entry.name) = Append(c.path, y.entry.name)
    BY <1>1, <1>2
  <2>3. PICK p, q, a, b : p = d.path /\ q = c.path /\ a = x.entry.name /\ b = y.entry.name
    OBVIOUS
  <2>4. p \in Seq(Nat) /\ q \in Seq(Nat) /\ a \in Nat /\ b \in Nat /\ Append(p, a) = Append(q, b)
    BY <2>1, <2>2, <2>3
  <2>5. p = q /\ a = b
    BY <2>4, AppendOne
  <2> QED
    BY <2>3, <2>5
<1>4. d = c
  BY <1>1, <1>2, <1>3 DEF OnePlace
<1>5. x.entry = y.entry
  <2>1. PICK i \in DOMAIN v.dirs[d.entry.inode] : x.entry = v.dirs[d.entry.inode][i]
    BY <1>1
  <2>2. PICK j \in DOMAIN v.dirs[d.entry.inode] : y.entry = v.dirs[d.entry.inode][j]
    BY <1>2, <1>4
  <2>3. i = j
    BY <1>1, <1>2, <1>3, <2>1, <2>2 DEF NamesApart
  <2> QED
    BY <2>1, <2>2, <2>3
<1>6. x = [path |-> x.path, entry |-> x.entry, above |-> x.above]
      /\ y = [path |-> y.path, entry |-> y.entry, above |-> y.above]
  BY <1>1, <1>2 DEF Places
<1> QED
  BY <1>1, <1>2, <1>4, <1>5, <1>6

\* A path leads to one place.
LEMMA PlacesApart ==
  ASSUME NEW v \in Volumes, NEW g, Levels(v, g), NamesApart
  PROVE  /\ \A n \in 0 .. MaxDepth : OnePlace(g[n].dirs)
         /\ \A n \in 1 .. MaxDepth : OnePlace(Below(v, g[n - 1]))
         /\ OnePlace(Reachable(v))
<1>1. MaxDepth \in Nat
  BY BackupAssumption
<1> DEFINE Bad == {n \in 0 .. MaxDepth : ~OnePlace(g[n].dirs)}
<1>2. Bad = {}
  <2> SUFFICES ASSUME Bad # {} PROVE FALSE
    OBVIOUS
  <2>1. Bad \in SUBSET Nat
    BY <1>1
  <2>2. PICK n \in Bad : \A k \in Bad : n <= k
    <3> HIDE DEF Bad
    <3> QED
      BY <2>1, LeastNat
  <2>3. n \in 0 .. MaxDepth /\ ~OnePlace(g[n].dirs)
    BY <2>2
  <2>4. n # 0
    <3>1. OnePlace(g[0].dirs)
      BY DEF Levels, OnePlace
    <3> QED
      BY <2>3, <3>1
  <2>5. n \in 1 .. MaxDepth /\ n - 1 \in 0 .. MaxDepth
    BY <1>1, <2>3, <2>4
  <2>6. OnePlace(g[n - 1].dirs)
    <3>1. ~(n <= n - 1)
      BY <2>5
    <3>2. n - 1 \notin Bad
      <4> HIDE DEF Bad
      <4> QED
        BY <2>2, <3>1
    <3> QED
      BY <2>5, <3>2
  <2>7. OnePlace(Below(v, g[n - 1]))
    BY <2>5, <2>6, OneBelow
  <2>8. g[n].dirs \subseteq Below(v, g[n - 1])
    BY <2>5 DEF Levels, Opened
  <2> QED
    BY <2>3, <2>7, <2>8 DEF OnePlace
<1>3. \A n \in 0 .. MaxDepth : OnePlace(g[n].dirs)
  BY <1>2
<1>4. ASSUME NEW n \in 1 .. MaxDepth PROVE OnePlace(Below(v, g[n - 1]))
  <2>1. n - 1 \in 0 .. MaxDepth
    BY <1>1
  <2>2. OnePlace(g[n - 1].dirs)
    BY <1>3, <2>1
  <2> QED
    BY <2>2, OneBelow
<1>5. ASSUME NEW x \in Reachable(v), NEW y \in Reachable(v), x.path = y.path PROVE x = y
  <2>1. PICK n \in 1 .. MaxDepth : x \in Below(v, g[n - 1])
    BY ReachableIs
  <2>2. PICK m \in 1 .. MaxDepth : y \in Below(v, g[m - 1])
    BY ReachableIs
  <2>3. n = m
    BY <1>5, <2>1, <2>2, DirsHave
  <2> QED
    BY <1>4, <1>5, <2>1, <2>2, <2>3 DEF OnePlace
<1> QED
  BY <1>3, <1>4, <1>5 DEF OnePlace

\* Above what is listed, at every level, is a directory that is opened and names the next.
Leads(v, g, path, k) ==
  \E d \in g[k].dirs : \E j \in DOMAIN v.dirs[d.entry.inode] :
    /\ d.path = SubSeq(path, 1, k) /\ ~Ignored(v.dirs[d.entry.inode][j])
    /\ path[k + 1] = v.dirs[d.entry.inode][j].name

AllLed(v, g, n) == \A x \in Below(v, g[n - 1]) : \A k \in 0 .. n - 1 : Leads(v, g, x.path, k)

LEMMA Led ==
  ASSUME NEW v \in Volumes, NEW g, Levels(v, g)
  PROVE  \A n \in 1 .. MaxDepth : AllLed(v, g, n)
<1>1. MaxDepth \in Nat
  BY BackupAssumption
<1> DEFINE Bad == {n \in 1 .. MaxDepth : ~AllLed(v, g, n)}
<1> SUFFICES ASSUME Bad # {} PROVE FALSE
  OBVIOUS
<1>2. Bad \in SUBSET Nat
  BY <1>1
<1>3. PICK n \in Bad : \A k \in Bad : n <= k
  <2> HIDE DEF Bad
  <2> QED
    BY <1>2, LeastNat
<1>4. n \in 1 .. MaxDepth /\ ~AllLed(v, g, n)
  BY <1>3
<1>5. ASSUME NEW x \in Below(v, g[n - 1]), NEW k \in 0 .. n - 1 PROVE Leads(v, g, x.path, k)
  <2>1. PICK d \in g[n - 1].dirs :
           /\ d \in Places(v) /\ x \in Places(v)
           /\ x.path = Append(d.path, x.entry.name) /\ x.entry \in Listings
           /\ ~Ignored(x.entry)
           /\ \E j \in DOMAIN v.dirs[d.entry.inode] : x.entry = v.dirs[d.entry.inode][j]
    BY <1>4, BelowHas
  <2>2. n - 1 \in 0 .. MaxDepth /\ n \in Nat
    BY <1>1, <1>4
  <2>3. Len(d.path) = n - 1 /\ d.path \in Seq(Nat) /\ x.entry.name \in Nat
    BY <2>1, <2>2, DirsHave DEF Places, Listings, Depth
  <2>4. x.path \in Seq(Nat) /\ Len(x.path) = n /\ x.path[n] = x.entry.name
        /\ \A i \in 1 .. n - 1 : x.path[i] = d.path[i]
    BY <2>1, <2>2, <2>3
  <2>5. \A i \in 0 .. n - 1 : SubSeq(x.path, 1, i) = SubSeq(d.path, 1, i)
    <3> SUFFICES ASSUME NEW i \in 0 .. n - 1 PROVE SubSeq(x.path, 1, i) = SubSeq(d.path, 1, i)
      OBVIOUS
    <3>1. PICK a, b : a = SubSeq(x.path, 1, i) /\ b = SubSeq(d.path, 1, i)
      OBVIOUS
    <3>2. a \in Seq(Nat) /\ Len(a) = i /\ \A m \in 1 .. i : a[m] = x.path[m]
      BY <2>2, <2>4, <3>1, PrefixIs
    <3>3. b \in Seq(Nat) /\ Len(b) = i /\ \A m \in 1 .. i : b[m] = d.path[m]
      BY <2>2, <2>3, <3>1, PrefixIs
    <3>4. \A m \in 1 .. i : m \in 1 .. n - 1
      BY <2>2
    <3>5. \A m \in 1 .. i : a[m] = b[m]
      BY <2>4, <3>2, <3>3, <3>4
    <3>6. a = b
      BY <3>2, <3>3, <3>5
    <3> QED
      BY <3>1, <3>6
  <2>6. CASE k = n - 1
    <3>1. SubSeq(d.path, 1, k) = d.path
      BY <2>3, <2>6, PrefixIs
    <3>2. SubSeq(x.path, 1, k) = d.path /\ x.path[k + 1] = x.entry.name
      BY <2>2, <2>4, <2>5, <2>6, <3>1
    <3>3. d \in g[k].dirs
      BY <2>6
    <3> QED
      BY <2>1, <3>2, <3>3 DEF Leads
  <2>7. CASE k # n - 1
    <3>1. PICK m : m = n - 1
      OBVIOUS
    <3>2. m \in 1 .. MaxDepth /\ k \in 0 .. m - 1 /\ k + 1 \in 1 .. n - 1 /\ ~(n <= m)
      BY <1>1, <1>4, <2>7, <3>1
    <3>3. AllLed(v, g, m)
      <4>1. m \notin Bad
        <5> HIDE DEF Bad
        <5> QED
          BY <1>3, <3>2
      <4> QED
        BY <3>2, <4>1
    <3>4. d \in Below(v, g[m - 1])
      BY <3>1, <3>2 DEF Levels, Opened
    <3>5. Leads(v, g, d.path, k)
      BY <3>2, <3>3, <3>4 DEF AllLed
    <3>6. SubSeq(x.path, 1, k) = SubSeq(d.path, 1, k) /\ x.path[k + 1] = d.path[k + 1]
      BY <2>4, <2>5, <3>2
    <3> QED
      BY <3>5, <3>6 DEF Leads
  <2> QED
    BY <2>6, <2>7
<1> QED
  BY <1>4, <1>5 DEF AllLed

------------------------------------------------------------------------------
(* The walk lists everything there is to list, once. *)

\* A frame of the walk, the k-th, has yet to list what "path" goes through.
PendingAt(f, k, path) ==
  \E m \in 1 .. Len(f.left) :
    ~Ignored(f.left[m]) /\ k <= Len(path) /\ SubSeq(path, 1, k) = Append(f.path, f.left[m].name)

Pending(st, path) == \E k \in 1 .. Len(st) : PendingAt(st[k], k, path)

\* The head of the innermost frame is what "path" goes through.
ByHead(st, path) ==
  LET f == st[Len(st)]
  IN ~Ignored(f.left[1]) /\ Len(st) <= Len(path) /\ SubSeq(path, 1, Len(st)) = Append(f.path, f.left[1].name)

Apart(left) ==
  \A i, j \in 1 .. Len(left) :
    ~Ignored(left[i]) /\ ~Ignored(left[j]) /\ left[i].name = left[j].name => i = j

Upto(st, k) == {st[j].inode : j \in 1 .. k}

\* A frame is of a directory of its level.
Placed(g, st, k) ==
  \E d \in g[k - 1].dirs :
    d.path = st[k].path /\ d.entry.inode = st[k].inode /\ d.above = Upto(st, k - 1)

Standing(g, st) == \A k \in 1 .. Len(st) : Placed(g, st, k) /\ Apart(st[k].left)

\* The directories the walk is in have been listed.
Behind(st) == \A k \in 1 .. Len(st) : \A j \in 1 .. k - 1 : ~PendingAt(st[j], j, st[k].path)

LEMMA PendingRestAt ==
  ASSUME NEW v \in Volumes, NEW st, Calls(v, st), st # <<>>, Last(st).left # <<>>, NEW path
  PROVE  PendingAt(st[Len(st)], Len(st), path)
           <=> PendingAt(RestOf(st)[Len(st)], Len(st), path) \/ ByHead(st, path)
<1> DEFINE K == Len(st)
<1>1. PICK f, h : f = st[K] /\ h = RestOf(st)[K]
  OBVIOUS
<1>2. /\ f = Last(st) /\ Len(f.left) \in Nat \ {0}
  BY <1>1, TopHas
<1>3. /\ h.path = f.path /\ Len(h.left) = Len(f.left) - 1
      /\ \A i \in 1 .. Len(f.left) - 1 : h.left[i] = f.left[i + 1]
  <2>1. /\ RestOf(st)[K].path = st[K].path /\ RestOf(st)[K].left = Tail(st[K].left)
        /\ Len(Tail(st[K].left)) = Len(st[K].left) - 1
        /\ \A i \in 1 .. Len(st[K].left) - 1 : Tail(st[K].left)[i] = st[K].left[i + 1]
    BY RestHas
  <2> HIDE DEF K
  <2> QED
    BY <1>1, <2>1
<1>4. PICK L : L = Len(f.left) /\ L \in Nat \ {0} /\ Len(h.left) = L - 1
  BY <1>2, <1>3
<1> DEFINE Goes(e) == ~Ignored(e) /\ K <= Len(path) /\ SubSeq(path, 1, K) = Append(f.path, e.name)
<1>5. PendingAt(f, K, path) <=> \E m \in 1 .. L : Goes(f.left[m])
  BY <1>4 DEF PendingAt
<1>6. PendingAt(h, K, path) <=> \E m \in 1 .. L - 1 : Goes(f.left[m + 1])
  BY <1>3, <1>4 DEF PendingAt
<1>7. ByHead(st, path) <=> Goes(f.left[1])
  BY <1>1 DEF ByHead
<1> HIDE DEF Goes
<1>8. (\E m \in 1 .. L : Goes(f.left[m])) <=> (\E m \in 1 .. L - 1 : Goes(f.left[m + 1])) \/ Goes(f.left[1])
  <2>1. ASSUME NEW m \in 1 .. L, Goes(f.left[m]), m # 1
        PROVE  \E n \in 1 .. L - 1 : Goes(f.left[n + 1])
    <3>1. m - 1 \in 1 .. L - 1 /\ (m - 1) + 1 = m
      BY <1>4, <2>1
    <3> QED
      BY <2>1, <3>1
  <2>2. \A m \in 1 .. L - 1 : m + 1 \in 1 .. L
    BY <1>4
  <2>3. 1 \in 1 .. L
    BY <1>4
  <2> QED
    BY <2>1, <2>2, <2>3
<1> QED
  BY <1>1, <1>5, <1>6, <1>7, <1>8

LEMMA PendingRest ==
  ASSUME NEW v \in Volumes, NEW st, Calls(v, st), st # <<>>, Last(st).left # <<>>, NEW path
  PROVE  Pending(st, path) <=> Pending(RestOf(st), path) \/ ByHead(st, path)
<1>1. PICK K : K = Len(st) /\ K \in Nat \ {0}
  BY TopHas
<1>2. PICK r : r = RestOf(st)
  OBVIOUS
<1>3. Len(r) = K /\ \A k \in 1 .. K - 1 : r[k] = st[k]
  BY <1>1, <1>2, RestHas
<1>4. PendingAt(st[K], K, path) <=> PendingAt(r[K], K, path) \/ ByHead(st, path)
  BY <1>1, <1>2, PendingRestAt
<1>5. \A k : k \in 1 .. K <=> k \in 1 .. K - 1 \/ k = K
  BY <1>1
<1>6. Pending(st, path) <=> (\E k \in 1 .. K - 1 : PendingAt(st[k], k, path)) \/ PendingAt(st[K], K, path)
  BY <1>1, <1>5 DEF Pending
<1>7. Pending(r, path) <=> (\E k \in 1 .. K - 1 : PendingAt(r[k], k, path)) \/ PendingAt(r[K], K, path)
  BY <1>3, <1>5 DEF Pending
<1>8. (\E k \in 1 .. K - 1 : PendingAt(st[k], k, path)) <=> (\E k \in 1 .. K - 1 : PendingAt(r[k], k, path))
  BY <1>3
<1> QED
  BY <1>2, <1>4, <1>6, <1>7, <1>8

LEMMA StandingRest ==
  ASSUME NEW v \in Volumes, NEW st, Calls(v, st), st # <<>>, Last(st).left # <<>>, NEW g
  PROVE  /\ Standing(g, st) => Standing(g, RestOf(st))
         /\ Behind(st) => Behind(RestOf(st))
         /\ \A k \in 1 .. Len(st) : Upto(RestOf(st), k) = Upto(st, k)
<1>1. PICK K : K = Len(st) /\ K \in Nat \ {0}
  BY TopHas
<1>2. PICK r : r = RestOf(st)
  OBVIOUS
<1>3. /\ Len(r) = K /\ (\A k \in 1 .. K - 1 : r[k] = st[k])
      /\ r[K].inode = st[K].inode /\ r[K].path = st[K].path
      /\ Len(r[K].left) = Len(st[K].left) - 1 /\ Len(st[K].left) \in Nat \ {0}
      /\ \A i \in 1 .. Len(st[K].left) - 1 : r[K].left[i] = st[K].left[i + 1]
  <2>1. Len(st[K].left) \in Nat \ {0}
    BY <1>1, TopHas
  <2>2. /\ Len(r) = K /\ (\A k \in 1 .. K - 1 : r[k] = st[k])
        /\ r[K].inode = st[K].inode /\ r[K].path = st[K].path /\ r[K].left = Tail(st[K].left)
        /\ Len(Tail(st[K].left)) = Len(st[K].left) - 1
        /\ \A i \in 1 .. Len(st[K].left) - 1 : Tail(st[K].left)[i] = st[K].left[i + 1]
    BY <1>1, <1>2, RestHas
  <2> QED
    BY <2>1, <2>2
<1>4. \A k \in 1 .. K : r[k].inode = st[k].inode /\ r[k].path = st[k].path
  <2>1. \A k \in 1 .. K : k \in 1 .. K - 1 \/ k = K
    BY <1>1
  <2> QED
    BY <1>3, <2>1
<1>5. ASSUME NEW k \in 0 .. K PROVE Upto(r, k) = Upto(st, k)
  <2>1. \A j \in 1 .. k : r[j].inode = st[j].inode
    BY <1>1, <1>4
  <2> QED
    BY <2>1 DEF Upto
<1>6. ASSUME Standing(g, st) PROVE Standing(g, r)
  <2> SUFFICES ASSUME NEW k \in 1 .. K PROVE Placed(g, r, k) /\ Apart(r[k].left)
    BY <1>3 DEF Standing
  <2>1. Placed(g, st, k) /\ Apart(st[k].left)
    BY <1>1, <1>6 DEF Standing
  <2>2. k - 1 \in 0 .. K
    BY <1>1
  <2>3. Placed(g, r, k)
    BY <1>4, <1>5, <2>1, <2>2 DEF Placed
  <2>4. Apart(r[k].left)
    <3>1. CASE k # K
      <4>1. r[k] = st[k]
        BY <1>1, <1>3, <3>1
      <4> QED
        BY <2>1, <4>1
    <3>2. CASE k = K
      <4>1. PICK a, b, L : a = st[K].left /\ b = r[K].left /\ L = Len(a) - 1
        OBVIOUS
      <4>2. L \in Nat /\ Len(b) = L /\ Len(a) = L + 1 /\ (\A i \in 1 .. L : b[i] = a[i + 1]) /\ Apart(a)
        BY <1>3, <2>1, <3>2, <4>1
      <4>3. \A i \in 1 .. L : i + 1 \in 1 .. Len(a)
        BY <4>2
      <4>4. ASSUME NEW i \in 1 .. L, NEW j \in 1 .. L, ~Ignored(b[i]), ~Ignored(b[j]), b[i].name = b[j].name
            PROVE  i = j
        <5>1. i + 1 = j + 1
          BY <4>2, <4>3, <4>4 DEF Apart
        <5> QED
          BY <5>1
      <4>5. Apart(b)
        BY <4>2, <4>4 DEF Apart
      <4> QED
        BY <3>2, <4>1, <4>5
    <3> QED
      BY <3>1, <3>2
  <2> QED
    BY <2>3, <2>4
<1>7. ASSUME Behind(st) PROVE Behind(r)
  <2> SUFFICES ASSUME NEW k \in 1 .. K, NEW j \in 1 .. k - 1 PROVE ~PendingAt(r[j], j, r[k].path)
    BY <1>3 DEF Behind
  <2>1. j \in 1 .. K - 1
    BY <1>1
  <2>2. r[j] = st[j] /\ r[k].path = st[k].path
    BY <1>3, <1>4, <2>1
  <2>3. ~PendingAt(st[j], j, st[k].path)
    BY <1>1, <1>7 DEF Behind
  <2> QED
    BY <2>2, <2>3
<1>8. \A k \in 1 .. K : k \in 0 .. K
  BY <1>1
<1> QED
  BY <1>1, <1>2, <1>5, <1>6, <1>7, <1>8

OnList(list, path) == \E i \in 1 .. Len(list) : list[i].path = path

\* Every path of the list is of "/" or of something that can be reached, and comes once.
Listing(v, list) ==
  /\ OnList(list, <<>>)
  /\ \A i \in 1 .. Len(list) : list[i].path = <<>> \/ \E x \in Reachable(v) : x.path = list[i].path
  /\ \A i, j \in 1 .. Len(list) : list[i].path = list[j].path => i = j

Covered(v, list, st) == \A x \in Reachable(v) : OnList(list, x.path) \/ Pending(st, x.path)

Fresh(list, st) == \A i \in 1 .. Len(list) : ~Pending(st, list[i].path)

Walk(v, g, list, st) ==
  Standing(g, st) /\ Behind(st) /\ Listing(v, list) /\ Covered(v, list, st) /\ Fresh(list, st)

LEMMA ReachedHas ==
  ASSUME NEW v \in Volumes, NEW g, Levels(v, g), NEW x \in Reachable(v)
  PROVE  /\ x \in Places(v) /\ x.path \in Seq(Nat) /\ Len(x.path) \in 1 .. MaxDepth
         /\ x \in Below(v, g[Len(x.path) - 1])
         /\ \A k \in 0 .. Len(x.path) - 1 : Leads(v, g, x.path, k)
<1>1. PICK n \in 1 .. MaxDepth : x \in Below(v, g[n - 1])
  BY ReachableIs
<1>2. x \in Places(v)
  BY <1>1, BelowHas
<1>3. Len(x.path) = n
  BY <1>1, DirsHave
<1>4. AllLed(v, g, n)
  BY <1>1, Led
<1> QED
  BY <1>1, <1>2, <1>3, <1>4 DEF AllLed, Places

LEMMA LedPending ==
  ASSUME NEW v \in Volumes, NEW path \in Seq(Nat), NEW k \in 0 .. Len(path) - 1,
         NEW inode \in DOMAIN v.dirs, NEW f, f.left = v.dirs[inode], f.path = SubSeq(path, 1, k),
         NEW j \in DOMAIN v.dirs[inode], ~Ignored(v.dirs[inode][j]), path[k + 1] = v.dirs[inode][j].name
  PROVE  PendingAt(f, k + 1, path)
<1>1. j \in 1 .. Len(f.left)
  BY ListingHas
<1>2. PICK n : n = k + 1 /\ n \in 0 .. Len(path) /\ n # 0 /\ n - 1 = k /\ n <= Len(path)
  OBVIOUS
<1>3. SubSeq(path, 1, n) = Append(SubSeq(path, 1, n - 1), path[n])
  <2>1. n # 0 => SubSeq(path, 1, n) = Append(SubSeq(path, 1, n - 1), path[n])
    BY <1>2, PrefixIs
  <2> QED
    BY <1>2, <2>1
<1>4. SubSeq(path, 1, n) = Append(f.path, f.left[j].name)
  BY <1>2, <1>3
<1>5. ~Ignored(f.left[j])
  OBVIOUS
<1>6. PendingAt(f, n, path)
  BY <1>1, <1>2, <1>4, <1>5 DEF PendingAt
<1> QED
  BY <1>2, <1>6

LEMMA WalkBegins ==
  ASSUME NEW v \in Volumes, v.root \in DOMAIN v.dirs, NamesApart, NEW g, Levels(v, g),
         NEW f, f = [inode |-> v.root, path |-> <<>>, left |-> v.dirs[v.root]],
         NEW e, e.path = <<>>
  PROVE  Walk(v, g, <<e>>, <<f>>)
<1>1. f.inode = v.root /\ f.path = <<>> /\ f.left = v.dirs[v.root]
  OBVIOUS
<1>2. PICK st, list : st = <<f>> /\ list = <<e>>
  OBVIOUS
<1>3. Len(st) = 1 /\ st[1] = f /\ Len(list) = 1 /\ list[1] = e /\ 1 .. 1 = {1} /\ 1 .. 0 = {}
  BY <1>2
<1>4. Standing(g, st)
  <2>1. Placed(g, st, 1)
    <3>1. PICK d : d = [path |-> <<>>, entry |-> [inode |-> v.root], above |-> {}]
      OBVIOUS
    <3>2. d \in g[0].dirs
      BY <3>1 DEF Levels
    <3>3. d.path = <<>> /\ d.entry.inode = v.root /\ d.above = {}
      BY <3>1
    <3>4. Upto(st, 0) = {}
      BY <1>3 DEF Upto
    <3>5. d.path = st[1].path /\ d.entry.inode = st[1].inode /\ d.above = Upto(st, 0) /\ 1 - 1 = 0
      BY <1>1, <1>3, <3>3, <3>4
    <3> QED
      BY <3>2, <3>5 DEF Placed
  <2>2. Apart(f.left)
    <3>1. DOMAIN v.dirs[v.root] = 1 .. Len(v.dirs[v.root])
      BY ListingHas
    <3> QED
      BY <1>1, <3>1 DEF Apart, NamesApart
  <2> QED
    BY <1>3, <2>1, <2>2 DEF Standing
<1>5. Behind(st)
  BY <1>3 DEF Behind
<1>6. Listing(v, list)
  BY <1>3 DEF Listing, OnList
<1>7. Covered(v, list, st)
  <2> SUFFICES ASSUME NEW x \in Reachable(v) PROVE Pending(st, x.path)
    BY DEF Covered
  <2>1. x.path \in Seq(Nat) /\ Len(x.path) \in 1 .. MaxDepth /\ 0 \in 0 .. Len(x.path) - 1
        /\ Leads(v, g, x.path, 0)
    <3>1. x.path \in Seq(Nat) /\ Len(x.path) \in 1 .. MaxDepth
          /\ \A k \in 0 .. Len(x.path) - 1 : Leads(v, g, x.path, k)
      BY ReachedHas
    <3>2. 0 \in 0 .. Len(x.path) - 1
      BY <3>1, BackupAssumption
    <3> QED
      BY <3>1, <3>2
  <2>2. PICK d \in g[0].dirs : \E j \in DOMAIN v.dirs[d.entry.inode] :
           /\ d.path = SubSeq(x.path, 1, 0) /\ ~Ignored(v.dirs[d.entry.inode][j])
           /\ x.path[0 + 1] = v.dirs[d.entry.inode][j].name
    BY <2>1 DEF Leads
  <2>3. d.entry.inode = v.root /\ d.path = <<>>
    BY <2>2 DEF Levels
  <2>4. PICK j \in DOMAIN v.dirs[v.root] :
          ~Ignored(v.dirs[v.root][j]) /\ x.path[0 + 1] = v.dirs[v.root][j].name
    BY <2>2, <2>3
  <2>5. PICK p, k : p = x.path /\ k = 0
    OBVIOUS
  <2>6. p \in Seq(Nat) /\ k \in 0 .. Len(p) - 1 /\ f.path = SubSeq(p, 1, k) /\ p[k + 1] = v.dirs[v.root][j].name
    BY <1>1, <2>1, <2>2, <2>3, <2>4, <2>5
  <2>7. PendingAt(f, k + 1, p)
    BY <1>1, <2>4, <2>6, LedPending
  <2>8. k + 1 = 1
    BY <2>5
  <2> QED
    BY <1>3, <2>5, <2>7, <2>8 DEF Pending
<1>8. Fresh(list, st)
  <2>1. Len(<<>>) = 0 /\ ~(1 <= 0)
    OBVIOUS
  <2>2. ~PendingAt(f, 1, <<>>)
    BY <2>1 DEF PendingAt
  <2> QED
    BY <1>3, <2>2 DEF Fresh, Pending
<1> QED
  BY <1>2, <1>4, <1>5, <1>6, <1>7, <1>8 DEF Walk

LEMMA WalkSkips ==
  ASSUME NEW v \in Volumes, NEW st, Calls(v, st), st # <<>>, Last(st).left # <<>>, Ignored(Head(Last(st).left)),
         NEW g, NEW list, Walk(v, g, list, st)
  PROVE  Walk(v, g, list, RestOf(st))
<1>1. Head(Last(st).left) = st[Len(st)].left[1]
  BY TopHas
<1>2. \A path : ~ByHead(st, path)
  BY <1>1 DEF ByHead
<1>3. \A path : Pending(st, path) <=> Pending(RestOf(st), path)
  BY <1>2, PendingRest
<1>4. Standing(g, RestOf(st)) /\ Behind(RestOf(st))
  BY StandingRest DEF Walk
<1>5. Covered(v, list, RestOf(st))
  BY <1>3 DEF Walk, Covered
<1>6. Fresh(list, RestOf(st))
  BY <1>3 DEF Walk, Fresh
<1> QED
  BY <1>4, <1>5, <1>6 DEF Walk

LEMMA WalkLeaves ==
  ASSUME NEW v \in Volumes, NEW st, Calls(v, st), st # <<>>, Last(st).left = <<>>,
         NEW g, NEW list, Walk(v, g, list, st)
  PROVE  Walk(v, g, list, Front(st))
<1>1. PICK K, r : K = Len(st) /\ r = Front(st)
  OBVIOUS
<1>2. K \in Nat \ {0} /\ Len(r) = K - 1 /\ \A k \in 1 .. K - 1 : r[k] = st[k]
  BY <1>1, FrontHas
<1>3. st[K].left = <<>>
  BY <1>1, TopHas
<1>4. \A path : ~PendingAt(st[K], K, path)
  <2>1. 1 .. Len(<<>>) = {}
    OBVIOUS
  <2> QED
    BY <1>3, <2>1 DEF PendingAt
<1>5. \A k : k \in 1 .. K <=> k \in 1 .. K - 1 \/ k = K
  BY <1>2
<1>6. ASSUME NEW path PROVE Pending(st, path) <=> Pending(r, path)
  <2>1. Pending(st, path) <=> (\E k \in 1 .. K - 1 : PendingAt(st[k], k, path)) \/ PendingAt(st[K], K, path)
    BY <1>1, <1>5 DEF Pending
  <2>2. Pending(r, path) <=> \E k \in 1 .. K - 1 : PendingAt(r[k], k, path)
    BY <1>2 DEF Pending
  <2> QED
    BY <1>2, <1>4, <2>1, <2>2
<1>7. Standing(g, r)
  <2> SUFFICES ASSUME NEW k \in 1 .. K - 1 PROVE Placed(g, r, k) /\ Apart(r[k].left)
    BY <1>2 DEF Standing
  <2>1. Placed(g, st, k) /\ Apart(st[k].left)
    BY <1>1, <1>5 DEF Walk, Standing
  <2>2. Upto(r, k - 1) = Upto(st, k - 1)
    <3>1. \A j \in 1 .. k - 1 : r[j] = st[j]
      BY <1>2
    <3> QED
      BY <3>1 DEF Upto
  <2> QED
    BY <1>2, <2>1, <2>2 DEF Placed
<1>8. Behind(r)
  <2> SUFFICES ASSUME NEW k \in 1 .. K - 1, NEW j \in 1 .. k - 1 PROVE ~PendingAt(r[j], j, r[k].path)
    BY <1>2 DEF Behind
  <2>1. j \in 1 .. K - 1
    BY <1>2
  <2>2. r[k] = st[k] /\ r[j] = st[j]
    BY <1>2, <2>1
  <2> QED
    BY <1>1, <1>5, <2>2 DEF Walk, Behind
<1>9. Covered(v, list, r)
  BY <1>6 DEF Walk, Covered
<1>10. Fresh(list, r)
  BY <1>6 DEF Walk, Fresh
<1> QED
  BY <1>1, <1>7, <1>8, <1>9, <1>10 DEF Walk

\* The innermost call comes to "e", at "path".
ComesTo(st, e, path) ==
  /\ st # <<>> /\ Last(st).left # <<>> /\ e = Head(Last(st).left) /\ ~Ignored(e)
  /\ path = Append(Last(st).path, e.name)

HeadBelow(v, g, st, e, path) ==
  \E y \in Below(v, g[Len(st) - 1]) : y.path = path /\ y.entry = e /\ y.above = Upto(st, Len(st))

LEMMA HeadPlace ==
  ASSUME NEW v \in Volumes, NEW g, Levels(v, g), NEW st, Calls(v, st), Standing(g, st),
         NEW e, NEW path, ComesTo(st, e, path)
  PROVE  /\ HeadBelow(v, g, st, e, path)
         /\ path \in Seq(Nat) /\ Len(path) = Len(st) /\ Len(Last(st).path) = Len(st) - 1
         /\ e \in Listings /\ e = st[Len(st)].left[1] /\ SubSeq(path, 1, Len(st)) = path
         /\ ByHead(st, path)
<1>0. /\ st # <<>> /\ Last(st).left # <<>> /\ e = Head(Last(st).left) /\ ~Ignored(e)
      /\ path = Append(Last(st).path, e.name)
  BY DEF ComesTo
<1> USE <1>0
<1>1. PICK K, f : K = Len(st) /\ f = st[K]
  OBVIOUS
<1>2. /\ K \in 1 .. MaxDepth /\ f = Last(st) /\ f.inode \in DOMAIN v.dirs /\ f.path \in Seq(Nat)
      /\ e = f.left[1] /\ e \in Listings
      /\ \E j \in DOMAIN v.dirs[f.inode] : e = v.dirs[f.inode][j]
  <2>1. /\ K \in 1 .. MaxDepth /\ f = Last(st) /\ Last(st).inode \in DOMAIN v.dirs /\ Last(st).path \in Seq(Nat)
        /\ e = Last(st).left[1] /\ e \in Listings
    BY <1>1, TopHas
  <2>2. \E j \in DOMAIN v.dirs[Last(st).inode] : e = v.dirs[Last(st).inode][j]
    BY TopHas
  <2> QED
    BY <2>1, <2>2
<1>3. PICK d \in g[K - 1].dirs : d.path = f.path /\ d.entry.inode = f.inode /\ d.above = Upto(st, K - 1)
  <2>1. K \in 1 .. K
    BY <1>2, BackupAssumption
  <2>2. Placed(g, st, K)
    BY <1>1, <2>1 DEF Standing
  <2> QED
    BY <1>1, <2>2 DEF Placed
<1>4. K - 1 \in 0 .. MaxDepth /\ K \in Nat \ {0}
  BY <1>2, BackupAssumption
<1>5. Len(f.path) = K - 1
  BY <1>3, <1>4, DirsHave DEF Depth
<1>6. e.name \in Nat
  BY <1>2 DEF Listings
<1>7. path \in Seq(Nat) /\ Len(path) = K
  BY <1>2, <1>4, <1>5, <1>6
<1>8. Upto(st, K) = Upto(st, K - 1) \cup {f.inode}
  <2>1. \A j : j \in 1 .. K <=> j \in 1 .. K - 1 \/ j = K
    BY <1>4
  <2> QED
    BY <1>1, <2>1 DEF Upto
<1>9. PICK y : y = [path |-> Append(d.path, e.name), entry |-> e, above |-> d.above \cup {d.entry.inode}]
  OBVIOUS
<1>10. y \in Inside(v, d)
  <2>1. e \in ToSet(v.dirs[d.entry.inode])
    BY <1>2, <1>3 DEF ToSet
  <2> QED
    BY <1>9, <2>1 DEF Inside
<1>11. y \in Below(v, g[K - 1])
  BY <1>3, <1>10 DEF Below
<1>12. y.path = path /\ y.entry = e /\ y.above = Upto(st, K)
  BY <1>2, <1>3, <1>8, <1>9
<1>13. SubSeq(path, 1, K) = path
  BY <1>7, PrefixIs
<1>14. ByHead(st, path)
  BY <1>1, <1>2, <1>4, <1>7, <1>13 DEF ByHead
<1>15. HeadBelow(v, g, st, e, path)
  BY <1>1, <1>11, <1>12 DEF HeadBelow
<1> QED
  BY <1>1, <1>2, <1>5, <1>7, <1>13, <1>14, <1>15

LEMMA PrefixSame ==
  ASSUME NEW q \in Seq(Nat), NEW a \in Nat, NEW k \in 0 .. Len(q)
  PROVE  SubSeq(Append(q, a), 1, k) = SubSeq(q, 1, k)
<1>1. PICK p : p = Append(q, a)
  OBVIOUS
<1>2. p \in Seq(Nat) /\ Len(p) = Len(q) + 1 /\ (\A i \in 1 .. Len(q) : p[i] = q[i]) /\ Len(q) \in Nat
  BY <1>1
<1>3. k \in 0 .. Len(p)
  BY <1>2
<1>4. PICK b, c : b = SubSeq(p, 1, k) /\ c = SubSeq(q, 1, k)
  OBVIOUS
<1>5. b \in Seq(Nat) /\ Len(b) = k /\ \A i \in 1 .. k : b[i] = p[i]
  BY <1>2, <1>3, <1>4, PrefixIs
<1>6. c \in Seq(Nat) /\ Len(c) = k /\ \A i \in 1 .. k : c[i] = q[i]
  <2>1. /\ SubSeq(q, 1, k) \in Seq(Nat) /\ Len(SubSeq(q, 1, k)) = k
        /\ \A i \in 1 .. k : SubSeq(q, 1, k)[i] = q[i]
    BY PrefixIs
  <2> QED
    BY <1>4, <2>1
<1>7. \A i \in 1 .. k : b[i] = c[i]
  <2>1. \A i \in 1 .. k : i \in 1 .. Len(q)
    BY <1>2
  <2> QED
    BY <1>2, <1>5, <1>6, <2>1
<1>8. b = c
  BY <1>5, <1>6, <1>7
<1> QED
  BY <1>1, <1>4, <1>8

\* What has been listed is not to be listed again.
LEMMA HeadOnce ==
  ASSUME NEW v \in Volumes, NEW g, Levels(v, g), NEW st, Calls(v, st), Standing(g, st), Behind(st),
         NEW e, NEW path, ComesTo(st, e, path)
  PROVE  ~Pending(RestOf(st), path)
<1>a. /\ path \in Seq(Nat) /\ Len(path) = Len(st) /\ Len(Last(st).path) = Len(st) - 1
       /\ e \in Listings /\ e = st[Len(st)].left[1] /\ SubSeq(path, 1, Len(st)) = path
  BY HeadPlace
<1>b. e.name \in Nat
  BY <1>a DEF Listings
<1>0. /\ st # <<>> /\ Last(st).left # <<>> /\ e = Head(Last(st).left) /\ ~Ignored(e)
      /\ path = Append(Last(st).path, e.name)
  BY DEF ComesTo
<1> USE <1>0
<1>1. PICK K, f, r : K = Len(st) /\ f = st[K] /\ r = RestOf(st)
  OBVIOUS
<1>2. K \in 1 .. MaxDepth /\ f = Last(st) /\ f.path \in Seq(Nat) /\ Len(f.left) \in Nat \ {0}
  <2>1. K \in 1 .. MaxDepth /\ f = Last(st) /\ Last(st).path \in Seq(Nat) /\ Len(Last(st).left) \in Nat \ {0}
    BY <1>1, TopHas
  <2> QED
    BY <2>1
<1>3. path \in Seq(Nat) /\ Len(path) = K /\ Len(f.path) = K - 1 /\ e \in Listings /\ e = f.left[1]
      /\ SubSeq(path, 1, K) = path
  BY <1>1, <1>2, <1>a
<1>4. /\ Len(r) = K /\ (\A k \in 1 .. K - 1 : r[k] = st[k])
      /\ r[K].path = f.path /\ r[K].left = Tail(f.left) /\ Len(Tail(f.left)) = Len(f.left) - 1
      /\ \A i \in 1 .. Len(f.left) - 1 : Tail(f.left)[i] = f.left[i + 1]
  <2>1. /\ Len(r) = K /\ (\A k \in 1 .. K - 1 : r[k] = st[k])
        /\ r[K].path = st[K].path /\ r[K].left = Tail(st[K].left) /\ Len(Tail(st[K].left)) = Len(st[K].left) - 1
        /\ \A i \in 1 .. Len(st[K].left) - 1 : Tail(st[K].left)[i] = st[K].left[i + 1]
    BY <1>1, RestHas
  <2> QED
    BY <1>1, <2>1
<1>5. K \in Nat \ {0} /\ e.name \in Nat
  BY <1>2, <1>b, BackupAssumption
<1> SUFFICES ASSUME Pending(r, path) PROVE FALSE
  BY <1>1
<1>6. PICK k \in 1 .. K : PendingAt(r[k], k, path)
  BY <1>4 DEF Pending
<1>7. CASE k # K
  <2>1. k \in 1 .. K - 1 /\ k \in 0 .. Len(f.path) /\ k <= Len(f.path) /\ k \in 1 .. K
    BY <1>3, <1>5, <1>7
  <2>2. PendingAt(st[k], k, path)
    BY <1>4, <1>6, <2>1
  <2>3. SubSeq(path, 1, k) = SubSeq(f.path, 1, k)
    <3>1. SubSeq(Append(f.path, e.name), 1, k) = SubSeq(f.path, 1, k)
      BY <1>2, <1>5, <2>1, PrefixSame
    <3> QED
      BY <1>2, <3>1
  <2>4. PendingAt(st[k], k, f.path)
    BY <2>1, <2>2, <2>3 DEF PendingAt
  <2> QED
    BY <1>1, <1>5, <2>1, <2>4 DEF Behind
<1>8. CASE k = K
  <2>1. PICK m \in 1 .. Len(r[K].left) :
          ~Ignored(r[K].left[m]) /\ SubSeq(path, 1, K) = Append(r[K].path, r[K].left[m].name)
    BY <1>6, <1>8 DEF PendingAt
  <2>2. m \in 1 .. Len(f.left) - 1 /\ r[K].left[m] = f.left[m + 1]
    BY <1>4, <2>1
  <2>3. PICK b : b = f.left[m + 1]
    OBVIOUS
  <2>4. m + 1 \in 1 .. Len(f.left) /\ 1 \in 1 .. Len(f.left) /\ m + 1 # 1
    <3>1. PICK L : L = Len(f.left)
      OBVIOUS
    <3>2. L \in Nat /\ m \in 1 .. L - 1
      BY <1>2, <2>2, <3>1
    <3>3. m + 1 \in 1 .. L /\ 1 \in 1 .. L /\ m + 1 # 1
      BY ONLY <3>2
    <3> QED
      BY <3>1, <3>3
  <2>5. b.name \in Nat
    <3>1. f \in Frames(v)
      BY <1>1, <1>2, TopHas
    <3>2. f.left \in Seq(Listings)
      BY <3>1 DEF Frames
    <3>3. b \in Listings
      BY <2>3, <2>4, <3>2
    <3> QED
      BY <3>3 DEF Listings
  <2>6. Append(f.path, e.name) = Append(f.path, b.name)
    BY <1>2, <1>3, <1>4, <2>1, <2>2, <2>3
  <2>7. e.name = b.name
    <3>1. PICK p, x, y : p = f.path /\ x = e.name /\ y = b.name
      OBVIOUS
    <3>2. x = y
      BY <1>2, <1>5, <2>5, <2>6, <3>1, AppendOne
    <3> QED
      BY <3>1, <3>2
  <2>8. Apart(f.left)
    BY <1>1, <1>5 DEF Standing
  <2>9. ~Ignored(f.left[1]) /\ ~Ignored(f.left[m + 1]) /\ f.left[1].name = f.left[m + 1].name
    BY <1>3, <2>1, <2>2, <2>3, <2>7
  <2> QED
    BY <2>4, <2>8, <2>9 DEF Apart
<1> QED
  BY <1>7, <1>8

\* All but what is below the entry that is being listed.
CoveredBut(v, list, st) ==
  \A x \in Reachable(v) :
    OnList(list, x.path) \/ Pending(RestOf(st), x.path) \/ (ByHead(st, x.path) /\ Len(st) < Len(x.path))

LEMMA ComesHas ==
  ASSUME NEW st, NEW e, NEW path, ComesTo(st, e, path)
  PROVE  st # <<>> /\ Last(st).left # <<>>
  BY DEF ComesTo

LEMMA WalkLists ==
  ASSUME NEW v \in Volumes, NEW g, Levels(v, g), NEW st, Calls(v, st), NEW e, NEW path, ComesTo(st, e, path),
         NEW list \in Seq(Indexed), Walk(v, g, list, st), NEW entry \in Indexed, entry.path = path
  PROVE  /\ Standing(g, RestOf(st)) /\ Behind(RestOf(st))
         /\ Listing(v, Append(list, entry)) /\ Fresh(Append(list, entry), RestOf(st))
         /\ CoveredBut(v, Append(list, entry), st)
<1>1. /\ HeadBelow(v, g, st, e, path) /\ path \in Seq(Nat) /\ Len(path) = Len(st)
      /\ e = st[Len(st)].left[1] /\ SubSeq(path, 1, Len(st)) = path /\ ByHead(st, path)
  BY HeadPlace DEF Walk
<1>2. ~Pending(RestOf(st), path)
  BY HeadOnce DEF Walk
<1>3. st # <<>> /\ Last(st).left # <<>>
  BY ComesHas
<1>4. \A p : Pending(st, p) <=> Pending(RestOf(st), p) \/ ByHead(st, p)
  BY <1>3, PendingRest
<1>5. Standing(g, RestOf(st)) /\ Behind(RestOf(st))
  BY <1>3, StandingRest DEF Walk
<1>6. PICK more, L : more = Append(list, entry) /\ L = Len(list)
  OBVIOUS
<1>7. /\ L \in Nat /\ Len(more) = L + 1 /\ more[L + 1] = entry /\ (\A i \in 1 .. L : more[i] = list[i])
      /\ \A i : i \in 1 .. L + 1 <=> i \in 1 .. L \/ i = L + 1
  BY <1>6
<1>8. \A i \in 1 .. L : ~Pending(st, list[i].path)
  BY <1>6 DEF Walk, Fresh
<1>9. Fresh(more, RestOf(st))
  BY <1>2, <1>4, <1>7, <1>8 DEF Fresh
<1>10. Listing(v, more)
  <2>1. OnList(more, <<>>)
    <3>1. PICK i \in 1 .. L : list[i].path = <<>>
      BY <1>6 DEF Walk, Listing, OnList
    <3> QED
      BY <1>7, <3>1 DEF OnList
  <2>2. ASSUME NEW i \in 1 .. L + 1
        PROVE  more[i].path = <<>> \/ \E x \in Reachable(v) : x.path = more[i].path
    <3>1. CASE i \in 1 .. L
      BY <1>6, <1>7, <3>1 DEF Walk, Listing
    <3>2. CASE i = L + 1
      <4>1. PICK y \in Below(v, g[Len(st) - 1]) : y.path = path
        BY <1>1 DEF HeadBelow
      <4>2. Len(st) \in 1 .. MaxDepth
        BY <1>3, TopHas
      <4>3. y \in Reachable(v)
        BY <4>1, <4>2, ReachableIs
      <4> QED
        BY <1>7, <3>2, <4>1, <4>3
    <3> QED
      BY <1>7, <3>1, <3>2
  <2>3. ASSUME NEW i \in 1 .. L + 1, NEW j \in 1 .. L + 1, more[i].path = more[j].path
        PROVE  i = j
    <3>1. Pending(st, path)
      BY <1>1, <1>4
    <3>2. \A k \in 1 .. L : more[k].path # path
      BY <1>7, <1>8, <3>1
    <3>3. more[L + 1].path = path
      BY <1>7
    <3>4. \A a, b \in 1 .. L : more[a].path = more[b].path => a = b
      BY <1>6, <1>7 DEF Walk, Listing
    <3> QED
      BY <1>7, <2>3, <3>2, <3>3, <3>4
  <2> QED
    BY <1>7, <2>1, <2>2, <2>3 DEF Listing
<1>11. CoveredBut(v, more, st)
  <2> SUFFICES ASSUME NEW x \in Reachable(v)
               PROVE  OnList(more, x.path) \/ Pending(RestOf(st), x.path)
                      \/ (ByHead(st, x.path) /\ Len(st) < Len(x.path))
    BY DEF CoveredBut
  <2>1. CASE OnList(list, x.path)
    <3>1. PICK i \in 1 .. L : list[i].path = x.path
      BY <1>6, <2>1 DEF OnList
    <3>2. OnList(more, x.path)
      BY <1>7, <3>1 DEF OnList
    <3> QED
      BY <3>2
  <2>2. CASE Pending(RestOf(st), x.path)
    BY <2>2
  <2>3. CASE ByHead(st, x.path)
    <3>1. x.path \in Seq(Nat) /\ Len(x.path) \in Nat
      BY ReachedHas
    <3>2. /\ Len(st) <= Len(x.path) /\ Len(st) \in Nat
          /\ SubSeq(x.path, 1, Len(st)) = Append(st[Len(st)].path, st[Len(st)].left[1].name)
      <4>1. Len(st) \in 1 .. MaxDepth
        BY <1>3, TopHas
      <4>2. Len(st) <= Len(x.path) /\ SubSeq(x.path, 1, Len(st)) = Append(st[Len(st)].path, st[Len(st)].left[1].name)
        BY <2>3 DEF ByHead
      <4> QED
        BY <4>1, <4>2, BackupAssumption
    <3>3. SubSeq(path, 1, Len(st)) = Append(st[Len(st)].path, st[Len(st)].left[1].name)
      BY <1>1 DEF ByHead
    <3>4. CASE Len(st) = Len(x.path)
      <4>1. SubSeq(x.path, 1, Len(x.path)) = x.path
        BY <3>1, PrefixIs
      <4>2. x.path = path
        BY <1>1, <3>2, <3>3, <3>4, <4>1
      <4>3. OnList(more, x.path)
        BY <1>7, <4>2 DEF OnList
      <4> QED
        BY <4>3
    <3>5. CASE Len(st) # Len(x.path)
      BY <2>3, <3>1, <3>2, <3>5
    <3> QED
      BY <3>4, <3>5
  <2> QED
    BY <1>4, <2>1, <2>2, <2>3 DEF Walk, Covered
<1> QED
  BY <1>5, <1>6, <1>9, <1>10, <1>11

\* Something is below an entry: it is a directory the walk goes into.
LEMMA Deeper ==
  ASSUME NEW v \in Volumes, NEW g, Levels(v, g), NamesApart, NEW st, Calls(v, st), Standing(g, st),
         NEW e, NEW path, ComesTo(st, e, path),
         NEW x \in Reachable(v), ByHead(st, x.path), Len(st) < Len(x.path)
  PROVE  /\ e.dir /\ e.inode \in DOMAIN v.dirs \ Upto(st, Len(st)) /\ Len(st) < MaxDepth
         /\ \A f : f = [inode |-> e.inode, path |-> path, left |-> v.dirs[e.inode]]
                     => PendingAt(f, Len(st) + 1, x.path)
<1>1. /\ HeadBelow(v, g, st, e, path) /\ Len(path) = Len(st)
      /\ e = st[Len(st)].left[1] /\ SubSeq(path, 1, Len(st)) = path /\ ByHead(st, path)
  BY HeadPlace
<1>2. st # <<>>
  BY ComesHas
<1>3. PICK K : K = Len(st) /\ K \in 1 .. MaxDepth /\ K \in Nat /\ MaxDepth \in Nat
  BY <1>2, TopHas, BackupAssumption
<1>4. PICK p : p = x.path /\ p \in Seq(Nat) /\ Len(p) \in 1 .. MaxDepth /\ Len(p) \in Nat
  BY ReachedHas, BackupAssumption
<1>5. K < MaxDepth /\ K \in 0 .. Len(p) - 1
  BY <1>3, <1>4
<1>6. Leads(v, g, p, K)
  BY <1>4, <1>5, ReachedHas
<1>7. SubSeq(p, 1, K) = path
  BY <1>1, <1>3, <1>4 DEF ByHead
<1>8. PICK d \in g[K].dirs : \E j \in DOMAIN v.dirs[d.entry.inode] :
        /\ d.path = SubSeq(p, 1, K) /\ ~Ignored(v.dirs[d.entry.inode][j])
        /\ p[K + 1] = v.dirs[d.entry.inode][j].name
  BY <1>6 DEF Leads
<1>9. PICK y \in Below(v, g[K - 1]) : y.path = path /\ y.entry = e /\ y.above = Upto(st, K)
  BY <1>1, <1>3 DEF HeadBelow
<1>10. d \in Below(v, g[K - 1]) /\ d.entry.dir /\ d.entry.inode \in DOMAIN v.dirs \ d.above
  BY <1>3, <1>8 DEF Levels, Opened
<1>11. d = y
  <2>1. OnePlace(Below(v, g[K - 1]))
    BY <1>3, PlacesApart
  <2> QED
    BY <1>7, <1>8, <1>9, <1>10, <2>1 DEF OnePlace
<1>12. e.dir /\ e.inode \in DOMAIN v.dirs \ Upto(st, K)
  BY <1>9, <1>10, <1>11
<1>13. PICK j \in DOMAIN v.dirs[e.inode] :
         ~Ignored(v.dirs[e.inode][j]) /\ p[K + 1] = v.dirs[e.inode][j].name
  BY <1>8, <1>9, <1>11
<1>14. ASSUME NEW f, f = [inode |-> e.inode, path |-> path, left |-> v.dirs[e.inode]]
       PROVE  PendingAt(f, K + 1, p)
  <2>1. f.left = v.dirs[e.inode] /\ f.path = SubSeq(p, 1, K)
    BY <1>7, <1>14
  <2>2. PICK n : n = e.inode
    OBVIOUS
  <2>3. n \in DOMAIN v.dirs /\ f.left = v.dirs[n] /\ j \in DOMAIN v.dirs[n]
        /\ ~Ignored(v.dirs[n][j]) /\ p[K + 1] = v.dirs[n][j].name
    BY <1>12, <1>13, <2>1, <2>2
  <2> QED
    BY <1>4, <1>5, <2>1, <2>3, LedPending
<1> QED
  BY <1>3, <1>4, <1>5, <1>12, <1>14

LEMMA WalkStays ==
  ASSUME NEW v \in Volumes, NEW g, Levels(v, g), NamesApart, NEW st, Calls(v, st),
         NEW e, NEW path, ComesTo(st, e, path),
         NEW list \in Seq(Indexed), Walk(v, g, list, st), NEW entry \in Indexed, entry.path = path,
         ~(e.dir /\ e.inode \in DOMAIN v.dirs \ Upto(st, Len(st)) /\ Len(st) < MaxDepth)
  PROVE  Walk(v, g, Append(list, entry), RestOf(st))
<1>1. /\ Standing(g, RestOf(st)) /\ Behind(RestOf(st))
      /\ Listing(v, Append(list, entry)) /\ Fresh(Append(list, entry), RestOf(st))
      /\ CoveredBut(v, Append(list, entry), st)
  BY WalkLists
<1>2. Standing(g, st)
  BY DEF Walk
<1>3. ASSUME NEW x \in Reachable(v) PROVE ~(ByHead(st, x.path) /\ Len(st) < Len(x.path))
  <2> SUFFICES ASSUME ByHead(st, x.path), Len(st) < Len(x.path) PROVE FALSE
    OBVIOUS
  <2>1. e.dir /\ e.inode \in DOMAIN v.dirs \ Upto(st, Len(st)) /\ Len(st) < MaxDepth
    BY <1>2, Deeper
  <2> QED
    BY <2>1
<1>4. Covered(v, Append(list, entry), RestOf(st))
  BY <1>1, <1>3 DEF CoveredBut, Covered
<1> QED
  BY <1>1, <1>4 DEF Walk

LEMMA PrefixGoesOn ==
  ASSUME NEW path \in Seq(Nat), NEW name \in Nat, NEW q \in Seq(Nat), NEW k \in Nat, k + 1 <= Len(q),
         SubSeq(q, 1, k + 1) = Append(path, name)
  PROVE  SubSeq(q, 1, k) = path
<1>1. PICK n : n = k + 1 /\ n \in 0 .. Len(q) /\ n # 0 /\ n - 1 = k /\ n \in 1 .. Len(q)
  OBVIOUS
<1>2. SubSeq(q, 1, n) = Append(SubSeq(q, 1, n - 1), q[n])
  <2>1. n # 0 => SubSeq(q, 1, n) = Append(SubSeq(q, 1, n - 1), q[n])
    BY <1>1, PrefixIs
  <2> QED
    BY <1>1, <2>1
<1>3. PICK p, a : p = SubSeq(q, 1, k) /\ a = q[n]
  OBVIOUS
<1>4. p \in Seq(Nat) /\ a \in Nat
  <2>1. k \in 0 .. Len(q)
    BY <1>1
  <2>2. p \in Seq(Nat)
    BY <1>3, <2>1, PrefixIs
  <2> QED
    BY <1>1, <1>3, <2>2
<1>5. Append(p, a) = Append(path, name)
  BY <1>1, <1>2, <1>3
<1>6. p = path
  BY <1>4, <1>5, AppendOne
<1> QED
  BY <1>3, <1>6

LEMMA PendingPush ==
  ASSUME NEW r, NEW K \in Nat, NEW s, NEW f, Len(r) = K, Len(s) = K + 1, s[K + 1] = f,
         \A k \in 1 .. K : s[k] = r[k]
  PROVE  \A path : Pending(s, path) <=> Pending(r, path) \/ PendingAt(f, K + 1, path)
<1>1. \A k : k \in 1 .. K + 1 <=> k \in 1 .. K \/ k = K + 1
  OBVIOUS
<1> SUFFICES ASSUME NEW path
             PROVE  Pending(s, path) <=> Pending(r, path) \/ PendingAt(f, K + 1, path)
  OBVIOUS
<1>2. Pending(s, path) <=> (\E k \in 1 .. K : PendingAt(s[k], k, path)) \/ PendingAt(s[K + 1], K + 1, path)
  BY <1>1 DEF Pending
<1>3. Pending(r, path) <=> \E k \in 1 .. K : PendingAt(r[k], k, path)
  BY DEF Pending
<1> QED
  BY <1>2, <1>3

LEMMA WalkPushes ==
  ASSUME NEW v \in Volumes, NEW g, Levels(v, g), NamesApart, NEW st, Calls(v, st),
         NEW e, NEW path, ComesTo(st, e, path),
         NEW list \in Seq(Indexed), Walk(v, g, list, st), NEW entry \in Indexed, entry.path = path,
         e.dir, e.inode \in DOMAIN v.dirs \ Upto(st, Len(st)), Len(st) < MaxDepth,
         NEW f, f = [inode |-> e.inode, path |-> path, left |-> v.dirs[e.inode]]
  PROVE  Walk(v, g, Append(list, entry), Append(RestOf(st), f))
<1>1. /\ Standing(g, RestOf(st)) /\ Behind(RestOf(st))
      /\ Listing(v, Append(list, entry)) /\ Fresh(Append(list, entry), RestOf(st))
      /\ CoveredBut(v, Append(list, entry), st)
  BY WalkLists
<1>2. Standing(g, st) /\ Behind(st) /\ Fresh(list, st)
  BY DEF Walk
<1>3. /\ HeadBelow(v, g, st, e, path) /\ path \in Seq(Nat) /\ Len(path) = Len(st)
      /\ e = st[Len(st)].left[1] /\ SubSeq(path, 1, Len(st)) = path /\ ByHead(st, path)
  BY <1>2, HeadPlace
<1>4. ~Pending(RestOf(st), path)
  BY <1>2, HeadOnce
<1>5. st # <<>> /\ Last(st).left # <<>>
  BY ComesHas
<1>6. PICK K, r, s : K = Len(st) /\ r = RestOf(st) /\ s = Append(r, f)
  OBVIOUS
<1>7. K \in 1 .. MaxDepth /\ K \in Nat \ {0} /\ K < MaxDepth /\ MaxDepth \in Nat
  BY <1>5, <1>6, TopHas, BackupAssumption
<1>8. Len(r) = K /\ Calls(v, r)
  BY <1>5, <1>6, RestHas
<1>9. Len(s) = K + 1 /\ s[K + 1] = f /\ \A k \in 1 .. K : s[k] = r[k]
  <2>1. PICK inode \in DOMAIN v.dirs : inode = e.inode
    OBVIOUS
  <2>2. f = [inode |-> inode, path |-> path, left |-> v.dirs[inode]]
    BY <2>1
  <2>3. /\ Len(Append(r, f)) = Len(r) + 1
        /\ Append(r, f)[Len(r) + 1] = f /\ \A k \in 1 .. Len(r) : Append(r, f)[k] = r[k]
    BY <1>3, <1>7, <1>8, <2>2, PushHas
  <2> QED
    BY <1>6, <1>8, <2>3
<1>10. f.inode = e.inode /\ f.path = path /\ f.left = v.dirs[e.inode]
  OBVIOUS
<1>11. \A p : Pending(s, p) <=> Pending(r, p) \/ PendingAt(f, K + 1, p)
  BY <1>7, <1>8, <1>9, PendingPush
<1>12. \A k : k \in 1 .. K + 1 <=> k \in 1 .. K \/ k = K + 1
  BY <1>7
<1>13. ASSUME NEW k \in 0 .. K PROVE Upto(s, k) = Upto(r, k)
  <2>1. \A j \in 1 .. k : s[j] = r[j]
    BY <1>7, <1>9
  <2> QED
    BY <2>1 DEF Upto
<1>14. Standing(g, s)
  <2>1. ASSUME NEW k \in 1 .. K PROVE Placed(g, s, k) /\ Apart(s[k].left)
    <3>1. Placed(g, r, k) /\ Apart(r[k].left)
      BY <1>1, <1>6, <1>8 DEF Standing
    <3>2. k - 1 \in 0 .. K
      BY <1>7
    <3> QED
      BY <1>9, <1>13, <3>1, <3>2 DEF Placed
  <2>2. Placed(g, s, K + 1)
    <3>1. PICK y \in Below(v, g[K - 1]) : y.path = path /\ y.entry = e /\ y.above = Upto(st, K)
      BY <1>3, <1>6 DEF HeadBelow
    <3>2. y \in g[K].dirs
      BY <1>6, <1>7, <3>1 DEF Levels, Opened
    <3>3. Upto(s, K) = Upto(st, K)
      <4>1. \A k \in 1 .. Len(st) : Upto(RestOf(st), k) = Upto(st, k)
        BY <1>5, StandingRest
      <4>2. K \in 0 .. K /\ K \in 1 .. K
        BY <1>7
      <4> QED
        BY <1>6, <1>13, <4>1, <4>2
    <3>4. (K + 1) - 1 = K
      BY <1>7
    <3> QED
      BY <1>9, <1>10, <3>1, <3>2, <3>3, <3>4 DEF Placed
  <2>3. Apart(f.left)
    <3>1. PICK inode \in DOMAIN v.dirs : inode = e.inode
      OBVIOUS
    <3>2. DOMAIN v.dirs[inode] = 1 .. Len(v.dirs[inode])
      BY ListingHas
    <3>3. f.left = v.dirs[inode]
      BY <1>10, <3>1
    <3> QED
      BY <3>2, <3>3 DEF Apart, NamesApart
  <2> QED
    BY <1>9, <1>12, <2>1, <2>2, <2>3 DEF Standing
<1>15. Behind(s)
  <2>1. ASSUME NEW k \in 1 .. K, NEW j \in 1 .. k - 1 PROVE ~PendingAt(s[j], j, s[k].path)
    <3>1. j \in 1 .. K
      BY <1>7
    <3> QED
      BY <1>1, <1>6, <1>8, <1>9, <3>1 DEF Behind
  <2>2. ASSUME NEW j \in 1 .. K PROVE ~PendingAt(s[j], j, path)
    BY <1>4, <1>6, <1>8, <1>9 DEF Pending
  <2>3. (K + 1) - 1 = K
    BY <1>7
  <2> QED
    BY <1>9, <1>10, <1>12, <2>1, <2>2, <2>3 DEF Behind
<1>16. PICK more, L : more = Append(list, entry) /\ L = Len(list)
  OBVIOUS
<1>17. /\ L \in Nat /\ Len(more) = L + 1 /\ more[L + 1] = entry /\ (\A i \in 1 .. L : more[i] = list[i])
       /\ (\A i : i \in 1 .. L + 1 <=> i \in 1 .. L \/ i = L + 1) /\ \A i \in 1 .. L : list[i] \in Indexed
  BY <1>16
<1>18. Fresh(more, s)
  <2>1. ASSUME NEW i \in 1 .. L + 1 PROVE ~PendingAt(f, K + 1, more[i].path)
    <3>1. CASE i = L + 1
      <4>1. more[i].path = path /\ ~(K + 1 <= Len(path))
        BY <1>3, <1>6, <1>7, <1>17, <3>1
      <4> QED
        BY <4>1 DEF PendingAt
    <3>2. CASE i \in 1 .. L
      <4> SUFFICES ASSUME PendingAt(f, K + 1, more[i].path) PROVE FALSE
        OBVIOUS
      <4>1. PICK q : q = list[i].path /\ q \in Seq(Nat) /\ q = more[i].path
        BY <1>17, <3>2, IndexedHas
      <4>2. PICK m \in 1 .. Len(f.left) :
              K + 1 <= Len(q) /\ SubSeq(q, 1, K + 1) = Append(f.path, f.left[m].name)
        BY <4>1 DEF PendingAt
      <4>3. f.left[m].name \in Nat
        <5>1. PICK inode \in DOMAIN v.dirs : inode = e.inode
          OBVIOUS
        <5>2. f.left \in Seq(Listings)
          BY <1>10, <5>1, ListingHas
        <5>3. f.left[m] \in Listings
          BY <5>2
        <5> QED
          BY <5>3 DEF Listings
      <4>4. PICK name \in Nat : name = f.left[m].name
        BY <4>3
      <4>5. SubSeq(q, 1, K) = path
        BY <1>3, <1>7, <1>10, <4>1, <4>2, <4>4, PrefixGoesOn
      <4>6. K <= Len(q)
        BY <1>7, <4>1, <4>2
      <4>7. ByHead(st, q)
        BY <1>3, <1>6, <4>5, <4>6 DEF ByHead
      <4>8. Pending(st, q)
        BY <1>5, <4>7, PendingRest
      <4> QED
        BY <1>2, <1>16, <3>2, <4>1, <4>8 DEF Fresh
    <3> QED
      BY <1>17, <3>1, <3>2
  <2>2. \A i \in 1 .. L + 1 : ~Pending(r, more[i].path)
    BY <1>1, <1>6, <1>16, <1>17 DEF Fresh
  <2> QED
    BY <1>11, <1>17, <2>1, <2>2 DEF Fresh
<1>19. Covered(v, more, s)
  <2> SUFFICES ASSUME NEW x \in Reachable(v) PROVE OnList(more, x.path) \/ Pending(s, x.path)
    BY DEF Covered
  <2>1. CASE ByHead(st, x.path) /\ Len(st) < Len(x.path)
    <3>1. PendingAt(f, Len(st) + 1, x.path)
      BY <1>2, <2>1, Deeper
    <3> QED
      BY <1>6, <1>11, <3>1
  <2>2. CASE OnList(more, x.path) \/ Pending(r, x.path)
    BY <1>11, <2>2
  <2> QED
    BY <1>1, <1>6, <1>16, <2>1, <2>2 DEF CoveredBut
<1> QED
  BY <1>1, <1>6, <1>14, <1>15, <1>16, <1>18, <1>19 DEF Walk

\* The list has every path there is, once, and nothing else.
Lists(v, list) == Listing(v, list) /\ \A x \in Reachable(v) : OnList(list, x.path)

LEMMA ListsCount ==
  ASSUME NEW v \in Volumes, NEW g, Levels(v, g), NamesApart, NEW list \in Seq(Indexed), Lists(v, list)
  PROVE  /\ {list[k].path : k \in DOMAIN list} = {<<>>} \cup {x.path : x \in Reachable(v)}
         /\ Len(list) = Cardinality(Reachable(v)) + 1
<1> DEFINE R == Reachable(v)
           P == {x.path : x \in R}
           n == Len(list)
           T == {list[k].path : k \in 1 .. n}
           F == [k \in 1 .. n |-> list[k].path]
           G == [x \in R |-> x.path]
<1>1. n \in Nat /\ DOMAIN list = 1 .. n
  OBVIOUS
<1>2. OnePlace(R)
  BY PlacesApart
<1>3. <<>> \notin P
  <2>1. \A x \in R : Len(x.path) \in 1 .. MaxDepth
    BY ReachedHas
  <2>2. Len(<<>>) = 0 /\ 0 \notin 1 .. MaxDepth
    BY BackupAssumption
  <2> QED
    BY <2>1, <2>2
<1>4. T = {<<>>} \cup P
  <2>1. \A k \in 1 .. n : list[k].path = <<>> \/ \E x \in R : x.path = list[k].path
    BY DEF Lists, Listing
  <2>2. \E k \in 1 .. n : list[k].path = <<>>
    BY DEF Lists, Listing, OnList
  <2>3. \A x \in R : \E k \in 1 .. n : list[k].path = x.path
    BY DEF Lists, OnList
  <2> HIDE DEF R, n
  <2>4. ASSUME NEW t \in T PROVE t \in {<<>>} \cup P
    BY <2>1
  <2>5. ASSUME NEW t \in {<<>>} \cup P PROVE t \in T
    BY <2>2, <2>3
  <2> QED
    BY <2>4, <2>5
<1>5. \A i, j \in 1 .. n : list[i].path = list[j].path => i = j
  BY DEF Lists, Listing
<1> HIDE DEF R, n
<1>6. F \in Bijection(1 .. n, T)
  <2>1. F \in [1 .. n -> T] /\ \A k \in 1 .. n : F[k] = list[k].path
    OBVIOUS
  <2>2. \A t \in T : \E k \in 1 .. n : F[k] = t
    BY <2>1
  <2> HIDE DEF F, T
  <2>3. \A i, j \in 1 .. n : F[i] = F[j] => i = j
    BY <1>5, <2>1
  <2>4. F \in Injection(1 .. n, T)
    BY <2>1, <2>3 DEF Injection, IsInjective
  <2>5. F \in Surjection(1 .. n, T)
    BY <2>1, <2>2 DEF Surjection
  <2> QED
    BY <2>4, <2>5 DEF Bijection
<1>7. IsFiniteSet(T) /\ Cardinality(T) = n
  <2>1. IsFiniteSet(1 .. n) /\ Cardinality(1 .. n) = n
    <3>1. 1 \in Int /\ n \in Int
      BY <1>1
    <3>2. IsFiniteSet(1 .. n) /\ Cardinality(1 .. n) = IF 1 > n THEN 0 ELSE n - 1 + 1
      BY <3>1, FS_Interval
    <3> QED
      BY <1>1, <3>2
  <2>2. ExistsBijection(1 .. n, T)
    BY <1>6 DEF ExistsBijection
  <2> HIDE DEF T
  <2> QED
    BY <2>1, <2>2, FS_Bijection
<1>8. IsFiniteSet(P) /\ Cardinality(P) = n - 1
  <2>1. P = T \ {<<>>} /\ <<>> \in T
    BY <1>3, <1>4
  <2> HIDE DEF T, P
  <2> QED
    BY <1>7, <2>1, FS_RemoveElement
<1>9. G \in Injection(R, P) /\ G \in Surjection(R, P)
  <2>1. G \in [R -> P] /\ \A x \in R : G[x] = x.path
    OBVIOUS
  <2>2. \A t \in P : \E x \in R : G[x] = t
    BY <2>1
  <2> HIDE DEF G, P
  <2>3. \A x, y \in R : G[x] = G[y] => x = y
    BY <1>2, <2>1 DEF OnePlace
  <2>4. G \in Injection(R, P)
    BY <2>1, <2>3 DEF Injection, IsInjective
  <2>5. G \in Surjection(R, P)
    BY <2>1, <2>2 DEF Surjection
  <2> QED
    BY <2>4, <2>5
<1>10. Cardinality(R) = Cardinality(P)
  <2> HIDE DEF G, P
  <2> QED
    BY <1>8, <1>9, FS_Injection
<1>11. n = Cardinality(R) + 1
  BY <1>1, <1>8, <1>10
<1>12. {list[k].path : k \in DOMAIN list} = T
  BY <1>1
<1> QED
  BY <1>4, <1>11, <1>12 DEF R, n

------------------------------------------------------------------------------
(* The order of strcmp, the sorted list and the bisection. *)

\* The two part after n names, or the first ends there.
PartsAt(p, q, n) ==
  /\ n \in 0 .. Len(p) /\ n < Len(q) /\ \A i \in 1 .. n : p[i] = q[i]
  /\ n = Len(p) \/ p[n + 1] < q[n + 1]

LEMMA BeforeParts ==
  ASSUME NEW p \in Seq(Nat), NEW q \in Seq(Nat)
  PROVE  Before(p, q) <=> \E n \in Nat : PartsAt(p, q, n)
<1>1. ASSUME NEW n \in 0 .. Len(p), n < Len(q)
      PROVE  SubSeq(p, 1, n) = SubSeq(q, 1, n) <=> \A i \in 1 .. n : p[i] = q[i]
  <2>1. n \in 0 .. Len(q)
    BY <1>1
  <2>2. /\ Len(SubSeq(p, 1, n)) = n /\ \A i \in 1 .. n : SubSeq(p, 1, n)[i] = p[i]
        /\ SubSeq(p, 1, n) \in Seq(Nat)
    BY PrefixIs
  <2>3. /\ Len(SubSeq(q, 1, n)) = n /\ \A i \in 1 .. n : SubSeq(q, 1, n)[i] = q[i]
        /\ SubSeq(q, 1, n) \in Seq(Nat)
    BY <2>1, PrefixIs
  <2> QED
    BY <2>2, <2>3, SeqEqual
<1> QED
  BY <1>1 DEF Before, PartsAt

LEMMA BeforeTotal ==
  ASSUME NEW p \in Seq(Nat), NEW q \in Seq(Nat), p # q
  PROVE  Before(p, q) \/ Before(q, p)
<1> DEFINE T == {n \in Nat : n <= Len(p) /\ n <= Len(q) /\ (n = Len(p) \/ n = Len(q) \/ p[n + 1] # q[n + 1])}
<1>1. Len(p) \in Nat /\ Len(q) \in Nat
  OBVIOUS
<1>2. T # {}
  <2>1. CASE Len(p) <= Len(q)
    BY <1>1, <2>1
  <2>2. CASE Len(q) <= Len(p)
    BY <1>1, <2>2
  <2> QED
    BY <1>1, <2>1, <2>2
<1>3. PICK n \in T : \A k \in T : n <= k
  <2>1. T \in SUBSET Nat
    OBVIOUS
  <2> HIDE DEF T
  <2> QED
    BY <1>2, <2>1, LeastNat
<1>4. \A i \in 1 .. n : p[i] = q[i]
  <2> SUFFICES ASSUME NEW i \in 1 .. n, p[i] # q[i] PROVE FALSE
    OBVIOUS
  <2>1. i - 1 \in T
    BY <1>1
  <2>2. n \in Nat
    OBVIOUS
  <2> HIDE DEF T
  <2> QED
    BY <1>3, <2>1, <2>2
<1>5. n \in Nat /\ n <= Len(p) /\ n <= Len(q) /\ (n = Len(p) \/ n = Len(q) \/ p[n + 1] # q[n + 1])
  OBVIOUS
<1>6. ~(n = Len(p) /\ n = Len(q))
  <2> HIDE DEF T
  <2> SUFFICES ASSUME n = Len(p), n = Len(q) PROVE FALSE
    OBVIOUS
  <2>1. \A i \in 1 .. Len(p) : p[i] = q[i]
    BY <1>4
  <2>2. Len(p) = Len(q)
    OBVIOUS
  <2>3. p = q
    BY <2>1, <2>2, SeqEqual
  <2> QED
    BY <2>3
<1>7. n < Len(p) => p[n + 1] \in Nat
  BY <1>5
<1>8. n < Len(q) => q[n + 1] \in Nat
  BY <1>5
<1>9. PartsAt(p, q, n) \/ PartsAt(q, p, n)
  BY <1>1, <1>4, <1>5, <1>6, <1>7, <1>8 DEF PartsAt
<1> QED
  BY <1>5, <1>9, BeforeParts

LEMMA BeforeStrict ==
  ASSUME NEW p \in Seq(Nat)
  PROVE  ~Before(p, p)
<1>1. \A n \in Nat : ~PartsAt(p, p, n)
  <2> SUFFICES ASSUME NEW n \in Nat, PartsAt(p, p, n) PROVE FALSE
    OBVIOUS
  <2>1. n < Len(p) /\ p[n + 1] < p[n + 1]
    BY DEF PartsAt
  <2>2. p[n + 1] \in Nat
    BY <2>1
  <2> QED
    BY <2>1, <2>2
<1> QED
  BY <1>1, BeforeParts

LEMMA BeforeOn ==
  ASSUME NEW p \in Seq(Nat), NEW q \in Seq(Nat), NEW r \in Seq(Nat), Before(p, q), Before(q, r)
  PROVE  Before(p, r)
<1>1. PICK n \in Nat : PartsAt(p, q, n)
  BY BeforeParts
<1>2. PICK m \in Nat : PartsAt(q, r, m)
  BY BeforeParts
<1>3. Len(p) \in Nat /\ Len(q) \in Nat /\ Len(r) \in Nat
  OBVIOUS
<1>4. /\ n <= Len(p) /\ n < Len(q) /\ (n = Len(p) \/ p[n + 1] < q[n + 1])
      /\ \A i \in 1 .. n : p[i] = q[i]
  BY <1>1 DEF PartsAt
<1>5. /\ m <= Len(q) /\ m < Len(r) /\ (m = Len(q) \/ q[m + 1] < r[m + 1])
      /\ \A i \in 1 .. m : q[i] = r[i]
  BY <1>2 DEF PartsAt
<1>6. q[n + 1] \in Nat /\ r[m + 1] \in Nat
  BY <1>3, <1>4, <1>5
<1>7. CASE n < m
  <2>1. PartsAt(p, r, n)
    <3>1. \A i \in 1 .. n : p[i] = r[i]
      BY <1>4, <1>5, <1>7
    <3>2. q[n + 1] = r[n + 1]
      BY <1>5, <1>7
    <3> QED
      BY <1>3, <1>4, <1>5, <1>7, <3>1, <3>2 DEF PartsAt
  <2> QED
    BY <2>1, BeforeParts
<1>8. CASE n = m
  <2>1. PartsAt(p, r, n)
    <3>1. \A i \in 1 .. n : p[i] = r[i]
      BY <1>4, <1>5, <1>8
    <3>2. n # Len(p) => p[n + 1] \in Nat /\ p[n + 1] < r[n + 1]
      <4>1. n # Len(p) => p[n + 1] \in Nat
        BY <1>3, <1>4
      <4>2. q[n + 1] < r[n + 1]
        BY <1>3, <1>4, <1>5, <1>8
      <4> QED
        BY <1>4, <1>6, <1>8, <4>1, <4>2
    <3> QED
      BY <1>3, <1>4, <1>5, <1>8, <3>1, <3>2 DEF PartsAt
  <2> QED
    BY <2>1, BeforeParts
<1>9. CASE m < n
  <2>1. PartsAt(p, r, m)
    <3>1. \A i \in 1 .. m : p[i] = r[i]
      BY <1>4, <1>5, <1>9
    <3>2. p[m + 1] = q[m + 1]
      BY <1>4, <1>9
    <3>3. q[m + 1] < r[m + 1]
      BY <1>3, <1>4, <1>5, <1>9
    <3> QED
      BY <1>3, <1>4, <1>5, <1>9, <3>1, <3>2, <3>3 DEF PartsAt
  <2> QED
    BY <2>1, BeforeParts
<1> QED
  BY <1>7, <1>8, <1>9

SortStays(list, L, S) == \A n \in 1 .. L : \A s \in S : Insert(s, list[n]) \in S

SortMakes(g, list, L, S) ==
  /\ g \in [0 .. L -> S] /\ g[0] = <<>> /\ \A n \in 1 .. L : g[n] = Insert(g[n - 1], list[n])
  /\ L = Len(list) => Sorted(list) = g[L]

LEMMA SortLoop ==
  ASSUME NEW list, NEW L \in Nat, NEW S, NEW x \in S, x = <<>>, SortStays(list, L, S)
  PROVE  \E g : SortMakes(g, list, L, S)
<1> DEFINE step == [p \in (1 .. L) \X S |-> Insert(p[2], list[p[1]])]
           Is(f) == f = [n \in 0 .. L |->
                      IF n = 0 THEN x ELSE CHOOSE r \in {Insert(w, list[n]) : w \in {f[n - 1]}} : TRUE]
<1>1. \A n \in 1 .. L, s \in S : step[<<n, s>>] = Insert(s, list[n])
  OBVIOUS
<1>2. step \in [(1 .. L) \X S -> S]
  <2>1. \A p \in (1 .. L) \X S : Insert(p[2], list[p[1]]) \in S
    BY DEF SortStays
  <2> QED
    BY <2>1
<1> HIDE DEF step
<1>0. PICK g : Loops(g, L, x, S, step)
  BY <1>2, LoopBuilt
<1>3. g \in [0 .. L -> S] /\ g[0] = x /\ \A n \in 1 .. L : g[n] = step[<<n, g[n - 1]>>]
  BY <1>0 DEF Loops
<1>4. \A n \in 1 .. L : g[n - 1] \in S /\ n \in 0 .. L /\ n # 0
  BY <1>3
<1>5. \A n \in 1 .. L : g[n] = Insert(g[n - 1], list[n])
  BY <1>1, <1>3, <1>4
<1>6. Is(g)
  <2>1. ASSUME NEW n \in 0 .. L
        PROVE  g[n] = IF n = 0 THEN x ELSE CHOOSE r \in {Insert(w, list[n]) : w \in {g[n - 1]}} : TRUE
    <3>1. CASE n = 0
      BY <1>3, <3>1
    <3>2. CASE n # 0
      <4>1. {Insert(w, list[n]) : w \in {g[n - 1]}} = {Insert(g[n - 1], list[n])} /\ n \in 1 .. L
        BY <3>2
      <4> QED
        BY <1>5, <3>2, <4>1, Choice
    <3> QED
      BY <3>1, <3>2
  <2>2. g = [n \in 0 .. L |-> g[n]]
    BY <1>3
  <2> QED
    BY <2>1, <2>2, Zenon
<1> DEFINE f == CHOOSE f : Is(f)
<1>7. Is(f)
  BY <1>6
<1>8. L = Len(list) => Sorted(list) = f[L]
  BY DEF Sorted, With
<1> HIDE DEF f
<1>9. DOMAIN f = 0 .. L /\ f = [n \in DOMAIN f |-> f[n]] /\ f[0] = x
  BY <1>7
<1>10. ASSUME NEW n \in 1 .. L, NEW s \in S, f[n - 1] = s PROVE f[n] = step[<<n, s>>]
  <2>1. f[n] = CHOOSE r \in {Insert(w, list[n]) : w \in {f[n - 1]}} : TRUE
    BY <1>4, <1>7
  <2>2. {Insert(w, list[n]) : w \in {f[n - 1]}} = {Insert(s, list[n])}
    BY <1>10
  <2> QED
    BY <1>1, <2>1, <2>2, Choice
<1>11. Turns(f, L, x, S, step)
  BY <1>9, <1>10 DEF Turns
<1>12. f = g
  BY <1>0, <1>11, LoopIs
<1> QED
  BY <1>5, <1>3, <1>8, <1>12 DEF SortMakes

FindStays(sorted, path, L, S) == \A n \in 1 .. L : \A s \in S : Bisect(sorted, path, s) \in S

FindMakes(g, sorted, path, L, S) ==
  /\ g \in [0 .. L -> S] /\ g[0] = [lo |-> 0, hi |-> Len(sorted), found |-> {}]
  /\ \A n \in 1 .. L : g[n] = Bisect(sorted, path, g[n - 1])
  /\ L = Len(sorted) => FindLive(sorted, path) = g[L].found

LEMMA FindLoop ==
  ASSUME NEW sorted, NEW path, NEW L \in Nat, NEW S, NEW x \in S, x = [lo |-> 0, hi |-> Len(sorted), found |-> {}], FindStays(sorted, path, L, S)
  PROVE  \E g : FindMakes(g, sorted, path, L, S)
<1> DEFINE step == [p \in (1 .. L) \X S |-> Bisect(sorted, path, p[2])]
           Is(f) == f = [n \in 0 .. L |->
                      IF n = 0 THEN x ELSE CHOOSE r \in {Bisect(sorted, path, w) : w \in {f[n - 1]}} : TRUE]
<1>1. \A n \in 1 .. L, s \in S : step[<<n, s>>] = Bisect(sorted, path, s)
  OBVIOUS
<1>2. step \in [(1 .. L) \X S -> S]
  <2>1. \A p \in (1 .. L) \X S : Bisect(sorted, path, p[2]) \in S
    BY DEF FindStays
  <2> QED
    BY <2>1
<1> HIDE DEF step
<1>0. PICK g : Loops(g, L, x, S, step)
  BY <1>2, LoopBuilt
<1>3. g \in [0 .. L -> S] /\ g[0] = x /\ \A n \in 1 .. L : g[n] = step[<<n, g[n - 1]>>]
  BY <1>0 DEF Loops
<1>4. \A n \in 1 .. L : g[n - 1] \in S /\ n \in 0 .. L /\ n # 0
  BY <1>3
<1>5. \A n \in 1 .. L : g[n] = Bisect(sorted, path, g[n - 1])
  BY <1>1, <1>3, <1>4
<1>6. Is(g)
  <2>1. ASSUME NEW n \in 0 .. L
        PROVE  g[n] = IF n = 0 THEN x ELSE CHOOSE r \in {Bisect(sorted, path, w) : w \in {g[n - 1]}} : TRUE
    <3>1. CASE n = 0
      BY <1>3, <3>1
    <3>2. CASE n # 0
      <4>1. {Bisect(sorted, path, w) : w \in {g[n - 1]}} = {Bisect(sorted, path, g[n - 1])} /\ n \in 1 .. L
        BY <3>2
      <4> QED
        BY <1>5, <3>2, <4>1, Choice
    <3> QED
      BY <3>1, <3>2
  <2>2. g = [n \in 0 .. L |-> g[n]]
    BY <1>3
  <2> QED
    BY <2>1, <2>2, Zenon
<1> DEFINE f == CHOOSE f : Is(f)
<1>7. Is(f)
  BY <1>6
<1>8. L = Len(sorted) => FindLive(sorted, path) = f[L].found
  BY DEF FindLive, With
<1> HIDE DEF f
<1>9. DOMAIN f = 0 .. L /\ f = [n \in DOMAIN f |-> f[n]] /\ f[0] = x
  BY <1>7
<1>10. ASSUME NEW n \in 1 .. L, NEW s \in S, f[n - 1] = s PROVE f[n] = step[<<n, s>>]
  <2>1. f[n] = CHOOSE r \in {Bisect(sorted, path, w) : w \in {f[n - 1]}} : TRUE
    BY <1>4, <1>7
  <2>2. {Bisect(sorted, path, w) : w \in {f[n - 1]}} = {Bisect(sorted, path, s)}
    BY <1>10
  <2> QED
    BY <1>1, <2>1, <2>2, Choice
<1>11. Turns(f, L, x, S, step)
  BY <1>9, <1>10 DEF Turns
<1>12. f = g
  BY <1>0, <1>11, LoopIs
<1> QED
  BY <1>5, <1>3, <1>8, <1>12 DEF FindMakes

\* What has a path, of names.
Pathed(E) == \A e \in E : e.path \in Seq(Nat)

InOrder(s) == \A i, j \in 1 .. Len(s) : i < j => ~Before(s[j].path, s[i].path)

Place(s, e, i) ==
  /\ i \in 1 .. Len(s) + 1
  /\ \A j \in 1 .. i - 1 : ~Before(e.path, s[j].path)
  /\ \A j \in i .. Len(s) : Before(e.path, s[j].path)

LEMMA PlaceIs ==
  ASSUME NEW E, Pathed(E), NEW s \in Seq(E), InOrder(s), NEW e \in E
  PROVE  \E i : Place(s, e, i)
<1> DEFINE T == {i \in 1 .. Len(s) + 1 : i <= Len(s) => Before(e.path, s[i].path)}
<1>1. Len(s) \in Nat /\ \A i \in 1 .. Len(s) : s[i] \in E /\ s[i].path \in Seq(Nat)
  BY DEF Pathed
<1>2. e.path \in Seq(Nat)
  BY DEF Pathed
<1>3. T \in SUBSET Nat /\ T # {}
  <2>1. Len(s) + 1 \in T
    BY <1>1
  <2> QED
    BY <2>1
<1>4. \A i : i \in T <=> i \in 1 .. Len(s) + 1 /\ (i <= Len(s) => Before(e.path, s[i].path))
  OBVIOUS
<1> HIDE DEF T
<1>5. PICK m \in T : \A k \in T : m <= k
  BY <1>3, LeastNat
<1>6. m \in 1 .. Len(s) + 1 /\ (m <= Len(s) => Before(e.path, s[m].path))
  BY <1>4
<1>7. ASSUME NEW j \in 1 .. m - 1
      PROVE  ~Before(e.path, s[j].path)
  <2>1. j \notin T /\ j \in 1 .. Len(s) + 1
    BY <1>1, <1>5, <1>6
  <2> QED
    BY <1>4, <2>1
<1>8. ASSUME NEW j \in m .. Len(s)
      PROVE  Before(e.path, s[j].path)
  <2>1. m \in 1 .. Len(s) /\ j \in 1 .. Len(s) /\ Before(e.path, s[m].path)
    BY <1>1, <1>6
  <2>2. CASE j = m
    BY <2>1, <2>2
  <2>3. CASE j # m
    <3>1. ~Before(s[j].path, s[m].path)
      BY <2>1, <2>3 DEF InOrder
    <3>2. s[j].path = s[m].path \/ Before(s[m].path, s[j].path)
      BY <1>1, <2>1, <3>1, BeforeTotal
    <3> QED
      BY <1>1, <1>2, <2>1, <3>2, BeforeOn
  <2> QED
    BY <2>2, <2>3
<1> QED
  BY <1>6, <1>7, <1>8 DEF Place

\* What was not there is put between.
Between(s, r, e, i) ==
  /\ Len(r) = Len(s) + 1 /\ i \in 1 .. Len(s) + 1 /\ r[i] = e
  /\ \A j \in 1 .. i - 1 : r[j] = s[j]
  /\ \A j \in i + 1 .. Len(s) + 1 : r[j] = s[j - 1]

LEMMA InsertPuts ==
  ASSUME NEW E, NEW s \in Seq(E), NEW e \in E, NEW i \in 1 .. Len(s) + 1
  PROVE  InsertAt(s, i, e) \in Seq(E) /\ Between(s, InsertAt(s, i, e), e, i)
<1>1. Len(s) \in Nat
  OBVIOUS
<1>2. PICK p \in Seq(E) : p = SubSeq(s, 1, i - 1) /\ Len(p) = i - 1 /\ \A j \in 1 .. i - 1 : p[j] = s[j]
  <2>1. i - 1 \in 0 .. Len(s)
    BY <1>1
  <2> QED
    BY <2>1, PrefixIs
<1>3. PICK q \in Seq(E) : /\ q = SubSeq(s, i, Len(s)) /\ Len(q) = Len(s) - i + 1
                          /\ \A j \in 1 .. Len(s) - i + 1 : q[j] = s[i + j - 1]
  <2> DEFINE z == SubSeq(s, i, Len(s))
  <2>1. z \in Seq(E) /\ Len(z) = Len(s) - i + 1 /\ \A j \in 1 .. Len(s) - i + 1 : z[j] = s[i + j - 1]
    BY <1>1
  <2> QED
    BY <2>1
<1>4. PICK o \in Seq(E) : o = <<e>> /\ Len(o) = 1 /\ o[1] = e
  <2>1. <<e>> \in Seq(E) /\ Len(<<e>>) = 1 /\ <<e>>[1] = e
    OBVIOUS
  <2> QED
    BY <2>1
<1>5. InsertAt(s, i, e) = p \o o \o q
  BY <1>2, <1>3, <1>4 DEF InsertAt
<1>6. PICK po \in Seq(E) : po = p \o o /\ Len(po) = i /\ po[i] = e /\ \A j \in 1 .. i - 1 : po[j] = s[j]
  <2>1. /\ p \o o \in Seq(E) /\ Len(p \o o) = Len(p) + Len(o)
        /\ \A j \in 1 .. Len(p) : (p \o o)[j] = p[j]
        /\ \A j \in 1 .. Len(o) : (p \o o)[Len(p) + j] = o[j]
    BY <1>2, <1>4, JoinIs
  <2>2. Len(p \o o) = i /\ \A j \in 1 .. i - 1 : (p \o o)[j] = s[j]
    BY <1>1, <1>2, <1>4, <2>1
  <2>3. (p \o o)[i] = e
    <3>1. (p \o o)[Len(p) + 1] = o[1]
      BY <1>4, <2>1
    <3> QED
      BY <1>1, <1>2, <1>4, <3>1
  <2> QED
    BY <2>1, <2>2, <2>3
<1>7. PICK r \in Seq(E) :
        /\ r = po \o q /\ Len(r) = Len(s) + 1 /\ (\A j \in 1 .. i : r[j] = po[j])
        /\ \A j \in 1 .. Len(s) - i + 1 : r[i + j] = s[i + j - 1]
  <2>1. po \o q \in Seq(E) /\ Len(po \o q) = Len(po) + Len(q) /\ (\A j \in 1 .. Len(po) : (po \o q)[j] = po[j])
        /\ \A j \in 1 .. Len(q) : (po \o q)[Len(po) + j] = q[j]
    BY JoinIs
  <2> DEFINE r == po \o q
  <2>2. /\ r \in Seq(E) /\ Len(r) = Len(po) + Len(q) /\ (\A j \in 1 .. Len(po) : r[j] = po[j])
        /\ \A j \in 1 .. Len(q) : r[Len(po) + j] = q[j]
    BY <2>1
  <2> HIDE DEF r
  <2>a. Len(po) = i /\ Len(q) = Len(s) - i + 1 /\ i \in Nat /\ Len(s) \in Nat
    BY <1>1, <1>3, <1>6
  <2>3. Len(r) = Len(s) + 1 /\ \A j \in 1 .. i : r[j] = po[j]
    <3>1. Len(r) = i + (Len(s) - i + 1)
      BY <2>2, <2>a
    <3>2. i + (Len(s) - i + 1) = Len(s) + 1
      BY ONLY <2>a
    <3> QED
      BY <2>2, <2>a, <3>1, <3>2
  <2>4. ASSUME NEW j \in 1 .. Len(s) - i + 1
        PROVE  r[i + j] = s[i + j - 1]
    <3>1. r[i + j] = q[j]
      BY <2>2, <2>a
    <3>2. q[j] = s[i + j - 1]
      BY <1>3
    <3> QED
      BY <3>1, <3>2
  <2> QED
    BY <2>2, <2>3, <2>4 DEF r
<1>8. InsertAt(s, i, e) = r
  BY <1>5, <1>6, <1>7
<1>9. \A j \in i + 1 .. Len(s) + 1 : r[j] = s[j - 1]
  <2> SUFFICES ASSUME NEW j \in i + 1 .. Len(s) + 1 PROVE r[j] = s[j - 1]
    OBVIOUS
  <2>1. j - i \in 1 .. Len(s) - i + 1 /\ i + (j - i) = j /\ i + (j - i) - 1 = j - 1
    BY <1>1
  <2>2. r[i + (j - i)] = s[i + (j - i) - 1]
    BY <1>7, <2>1
  <2> QED
    BY <2>1, <2>2
<1>10. r[i] = e /\ \A j \in 1 .. i - 1 : r[j] = s[j]
  BY <1>6, <1>7
<1> QED
  BY <1>7, <1>8, <1>9, <1>10 DEF Between

\* "r" has what "s" has, and "e".
Gains(s, r, e) ==
  Len(r) = Len(s) + 1
  /\ \A x : (\E j \in 1 .. Len(s) + 1 : r[j] = x) <=> x = e \/ \E j \in 1 .. Len(s) : s[j] = x

LEMMA InsertIs ==
  ASSUME NEW E, Pathed(E), NEW s \in Seq(E), InOrder(s), NEW e \in E
  PROVE  Insert(s, e) \in Seq(E) /\ InOrder(Insert(s, e)) /\ Gains(s, Insert(s, e), e)
<1>1. PICK i : Place(s, e, i) /\ Insert(s, e) = InsertAt(s, i, e)
  <2>1. PICK k : Place(s, e, k)
    BY PlaceIs
  <2> DEFINE i == CHOOSE i \in 1 .. Len(s) + 1 :
                    /\ \A j \in 1 .. i - 1 : ~Before(e.path, s[j].path)
                    /\ \A j \in i .. Len(s) : Before(e.path, s[j].path)
  <2>2. Place(s, e, i)
    BY <2>1 DEF Place
  <2>3. Insert(s, e) = InsertAt(s, i, e)
    BY DEF Insert
  <2> QED
    BY <2>2, <2>3
<1>2. PICK r : r = Insert(s, e)
  OBVIOUS
<1>3. i \in 1 .. Len(s) + 1
  BY <1>1 DEF Place
<1>4. r \in Seq(E) /\ Between(s, r, e, i)
  BY <1>1, <1>2, <1>3, InsertPuts
<1>5. Len(s) \in Nat /\ i \in Nat
  BY <1>3
<1>6. \A j \in 1 .. Len(s) : s[j] \in E /\ s[j].path \in Seq(Nat)
  BY DEF Pathed
<1>7. e.path \in Seq(Nat)
  BY DEF Pathed
<1>8. /\ Len(r) = Len(s) + 1 /\ r[i] = e
      /\ \A j \in 1 .. i - 1 : r[j] = s[j] /\ j \in 1 .. Len(s)
      /\ \A j \in i + 1 .. Len(s) + 1 : r[j] = s[j - 1] /\ j - 1 \in 1 .. Len(s) /\ j - 1 \in i .. Len(s)
  BY <1>3, <1>4, <1>5 DEF Between
<1>9. \A j \in 1 .. Len(s) : (j < i => ~Before(e.path, s[j].path)) /\ (j >= i => ~Before(s[j].path, e.path))
  <2> SUFFICES ASSUME NEW j \in 1 .. Len(s)
               PROVE  (j < i => ~Before(e.path, s[j].path)) /\ (j >= i => ~Before(s[j].path, e.path))
    OBVIOUS
  <2>1. j < i => ~Before(e.path, s[j].path)
    BY <1>1, <1>5 DEF Place
  <2>2. j >= i => Before(e.path, s[j].path)
    BY <1>1, <1>5 DEF Place
  <2>3. ~(Before(e.path, s[j].path) /\ Before(s[j].path, e.path))
    BY <1>6, <1>7, BeforeOn, BeforeStrict
  <2> QED
    BY <2>1, <2>2, <2>3
<1>10. InOrder(r)
  <2> SUFFICES ASSUME NEW a \in 1 .. Len(s) + 1, NEW b \in 1 .. Len(s) + 1, a < b
               PROVE  ~Before(r[b].path, r[a].path)
    BY <1>8 DEF InOrder
  <2>1. CASE b < i
    <3>1. r[a] = s[a] /\ r[b] = s[b] /\ a \in 1 .. Len(s) /\ b \in 1 .. Len(s)
      BY <1>5, <1>8, <2>1
    <3> QED
      BY <3>1 DEF InOrder
  <2>2. CASE b = i
    <3>1. r[a] = s[a] /\ r[b] = e /\ a \in 1 .. Len(s) /\ a < i
      BY <1>5, <1>8, <2>2
    <3>2. PICK c \in 1 .. Len(s) : c = a /\ c < i /\ r[a] = s[c] /\ r[b] = e
      BY <3>1
    <3>3. ~Before(e.path, s[c].path)
      BY <1>9, <3>2
    <3> QED
      BY <3>2, <3>3
  <2>3. CASE b > i /\ a < i
    <3>1. r[a] = s[a] /\ r[b] = s[b - 1] /\ a \in 1 .. Len(s) /\ b - 1 \in 1 .. Len(s) /\ a < b - 1
      BY <1>5, <1>8, <2>3
    <3> QED
      BY <3>1 DEF InOrder
  <2>4. CASE b > i /\ a = i
    <3>1. r[a] = e /\ r[b] = s[b - 1] /\ b - 1 \in 1 .. Len(s) /\ b - 1 >= i
      BY <1>5, <1>8, <2>4
    <3>2. PICK c \in 1 .. Len(s) : c = b - 1 /\ c >= i /\ r[b] = s[c] /\ r[a] = e
      BY <3>1
    <3>3. ~Before(s[c].path, e.path)
      BY <1>9, <3>2
    <3> QED
      BY <3>2, <3>3
  <2>5. CASE a > i
    <3>1. r[a] = s[a - 1] /\ r[b] = s[b - 1] /\ a - 1 \in 1 .. Len(s) /\ b - 1 \in 1 .. Len(s) /\ a - 1 < b - 1
      BY <1>5, <1>8, <2>5
    <3> QED
      BY <3>1 DEF InOrder
  <2> QED
    BY <1>5, <2>1, <2>2, <2>3, <2>4, <2>5
<1>11. ASSUME NEW x
       PROVE  (\E j \in 1 .. Len(s) + 1 : r[j] = x) <=> x = e \/ \E j \in 1 .. Len(s) : s[j] = x
  <2>1. ASSUME NEW j \in 1 .. Len(s) + 1, r[j] = x
        PROVE  x = e \/ \E k \in 1 .. Len(s) : s[k] = x
    BY <1>5, <1>8, <2>1
  <2>2. ASSUME NEW j \in 1 .. Len(s), s[j] = x
        PROVE  \E k \in 1 .. Len(s) + 1 : r[k] = x
    <3>1. CASE j < i
      BY <1>5, <1>8, <2>2, <3>1
    <3>2. CASE j >= i
      <4>1. j + 1 \in i + 1 .. Len(s) + 1 /\ (j + 1) - 1 = j /\ j + 1 \in 1 .. Len(s) + 1
        BY <1>5, <3>2
      <4> QED
        BY <1>8, <2>2, <4>1
    <3> QED
      BY <1>5, <3>1, <3>2
  <2> QED
    BY <1>3, <1>8, <2>1, <2>2
<1>12. Gains(s, r, e)
  BY <1>8, <1>11 DEF Gains
<1> QED
  BY <1>2, <1>4, <1>10, <1>12

\* The two have the same entries.
SameEntries(s, list, n) == \A x : (\E j \in 1 .. Len(s) : s[j] = x) <=> \E j \in 1 .. n : list[j] = x

LEMMA SortedIs ==
  ASSUME NEW E, Pathed(E), NEW list \in Seq(E)
  PROVE  /\ Sorted(list) \in Seq(E) /\ InOrder(Sorted(list))
         /\ SameEntries(Sorted(list), list, Len(list))
<1> DEFINE S == {s \in Seq(E) : InOrder(s)}
<1>1. PICK L \in Nat : L = Len(list)
  OBVIOUS
<1>2. <<>> \in S
  BY DEF InOrder
<1>3. SortStays(list, L, S)
  <2> SUFFICES ASSUME NEW n \in 1 .. L, NEW s \in Seq(E), InOrder(s)
               PROVE  Insert(s, list[n]) \in Seq(E) /\ InOrder(Insert(s, list[n]))
    BY DEF SortStays
  <2>1. list[n] \in E
    BY <1>1
  <2> QED
    BY <2>1, InsertIs
<1> HIDE DEF S
<1>4. PICK g : SortMakes(g, list, L, S)
  <2>1. PICK x \in S : x = <<>>
    BY <1>2
  <2> QED
    BY <1>3, <2>1, SortLoop
<1>5. /\ g \in [0 .. L -> S] /\ g[0] = <<>> /\ Sorted(list) = g[L]
      /\ \A n \in 1 .. L : g[n] = Insert(g[n - 1], list[n])
  BY <1>1, <1>4 DEF SortMakes
<1>6. \A n \in 0 .. L : g[n] \in Seq(E) /\ InOrder(g[n])
  BY <1>5 DEF S
<1> DEFINE T == {n \in 0 .. L : ~SameEntries(g[n], list, n)}
<1>7. T = {}
  <2> SUFFICES ASSUME T # {} PROVE FALSE
    OBVIOUS
  <2>0. T \in SUBSET Nat
    OBVIOUS
  <2>1. \A n : n \in T <=> n \in 0 .. L /\ ~SameEntries(g[n], list, n)
    OBVIOUS
  <2> HIDE DEF T
  <2>2. PICK m \in T : \A k \in T : m <= k
    BY <2>0, LeastNat
  <2>3. m \in 0 .. L /\ ~SameEntries(g[m], list, m)
    BY <2>1
  <2>4. SameEntries(g[0], list, 0)
    BY <1>5 DEF SameEntries
  <2>5. m \in 1 .. L /\ m - 1 \in 0 .. L /\ m \in Nat
    BY <2>3, <2>4
  <2>6. SameEntries(g[m - 1], list, m - 1)
    <3>1. m - 1 \notin T
      BY <2>2, <2>5
    <3> QED
      BY <2>1, <2>5, <3>1
  <2>7. PICK s \in Seq(E) : s = g[m - 1] /\ InOrder(s)
    BY <1>6, <2>5
  <2>8. PICK e \in E : e = list[m]
    BY <1>1, <2>5
  <2>9. PICK r \in Seq(E) : r = g[m]
    BY <1>6, <2>3
  <2>10. r = Insert(s, e)
    BY <1>5, <2>5, <2>7, <2>8, <2>9
  <2>11. Len(r) = Len(s) + 1
         /\ \A x : (\E j \in 1 .. Len(s) + 1 : r[j] = x) <=> x = e \/ \E j \in 1 .. Len(s) : s[j] = x
    <3>1. Gains(s, r, e)
      BY <2>7, <2>10, InsertIs
    <3> QED
      BY <3>1 DEF Gains
  <2>12. SameEntries(r, list, m)
    <3> SUFFICES ASSUME NEW x PROVE (\E j \in 1 .. Len(r) : r[j] = x) <=> \E j \in 1 .. m : list[j] = x
      BY DEF SameEntries
    <3>1. (\E j \in 1 .. Len(s) : s[j] = x) <=> \E j \in 1 .. m - 1 : list[j] = x
      BY <2>6, <2>7 DEF SameEntries
    <3>2. (\E j \in 1 .. m : list[j] = x) <=> x = e \/ \E j \in 1 .. m - 1 : list[j] = x
      BY <2>5, <2>8
    <3> QED
      BY <2>11, <3>1, <3>2
  <2> QED
    BY <2>3, <2>9, <2>12
<1>8. SameEntries(g[L], list, L)
  BY <1>7
<1> QED
  BY <1>1, <1>5, <1>6, <1>8

\* So far: found, or still between the bounds.
Searching(s, path, st, n) ==
  /\ st.found = {} => /\ st.hi - st.lo <= Len(s) - n \/ st.hi <= st.lo
                      /\ \A j \in 1 .. Len(s) : s[j].path = path => st.lo < j /\ j <= st.hi
  /\ st.found # {} => /\ st.hi = st.lo
                      /\ \E j \in 1 .. Len(s) : st.found = {s[j]} /\ s[j].path = path

Searches(E, n) == [lo : 0 .. n, hi : 0 .. n, found : SUBSET E]

LEMMA BisectIs ==
  ASSUME NEW E, NEW s \in Seq(E), NEW path, NEW st \in Searches(E, Len(s))
  PROVE  /\ Bisect(s, path, st) \in Searches(E, Len(s))
         /\ st.lo >= st.hi => Bisect(s, path, st) = st
         /\ st.lo < st.hi =>
              \E mid \in st.lo .. st.hi - 1 :
                /\ mid + 1 \in 1 .. Len(s)
                /\ Bisect(s, path, st) =
                     IF s[mid + 1].path = path THEN [lo |-> st.lo, hi |-> st.lo, found |-> {s[mid + 1]}]
                     ELSE IF Before(path, s[mid + 1].path) THEN [lo |-> st.lo, hi |-> mid, found |-> st.found]
                     ELSE [lo |-> mid + 1, hi |-> st.hi, found |-> st.found]
<1>1. PICK lo \in 0 .. Len(s), hi \in 0 .. Len(s), found \in SUBSET E :
        st = [lo |-> lo, hi |-> hi, found |-> found]
  BY DEF Searches
<1>2. Len(s) \in Nat
  OBVIOUS
<1>3. CASE lo >= hi
  <2>1. Bisect(s, path, st) = st
    BY <1>1, <1>3 DEF Bisect
  <2> QED
    BY <1>1, <1>2, <1>3, <2>1
<1>4. CASE lo < hi
  <2>1. PICK mid \in lo .. hi - 1 : mid = lo + (hi - lo) \div 2
    <3>1. lo \in Nat /\ hi \in Nat /\ lo < hi
      BY <1>2, <1>4
    <3>2. (hi - lo) \div 2 \in Nat /\ (hi - lo) \div 2 <= hi - lo - 1
      BY ONLY <3>1
    <3>3. lo + (hi - lo) \div 2 \in lo .. hi - 1
      BY ONLY <3>1, <3>2
    <3> QED
      BY <3>3
  <2>2. mid + 1 \in 1 .. Len(s) /\ mid \in 0 .. Len(s) /\ mid + 1 \in 0 .. Len(s)
    BY <1>2, <1>4
  <2>3. s[mid + 1] \in E
    BY <2>2
  <2>4. Bisect(s, path, st) =
          IF s[mid + 1].path = path THEN [lo |-> lo, hi |-> lo, found |-> {s[mid + 1]}]
          ELSE IF Before(path, s[mid + 1].path) THEN [lo |-> lo, hi |-> mid, found |-> found]
          ELSE [lo |-> mid + 1, hi |-> hi, found |-> found]
    <3>1. Bisect(s, path, st) =
            IF s[mid + 1].path = path THEN [st EXCEPT !.hi = lo, !.found = {s[mid + 1]}]
            ELSE IF Before(path, s[mid + 1].path) THEN [st EXCEPT !.hi = mid] ELSE [st EXCEPT !.lo = mid + 1]
      <4>1. st.lo = lo /\ st.hi = hi /\ ~(lo >= hi)
        BY <1>1, <1>2, <1>4
      <4>2. st.lo + (st.hi - st.lo) \div 2 = mid
        BY <2>1, <4>1
      <4> QED
        BY <4>1, <4>2 DEF Bisect
    <3> QED
      BY <1>1, <3>1
  <2>5. Bisect(s, path, st) \in Searches(E, Len(s))
    <3>1. [lo |-> lo, hi |-> lo, found |-> {s[mid + 1]}] \in Searches(E, Len(s))
      BY <2>3 DEF Searches
    <3>2. [lo |-> lo, hi |-> mid, found |-> found] \in Searches(E, Len(s))
      BY <2>2 DEF Searches
    <3>3. [lo |-> mid + 1, hi |-> hi, found |-> found] \in Searches(E, Len(s))
      BY <2>2 DEF Searches
    <3> QED
      BY <2>4, <3>1, <3>2, <3>3
  <2>6. \E m \in lo .. hi - 1 :
          /\ m + 1 \in 1 .. Len(s)
          /\ Bisect(s, path, st) =
               IF s[m + 1].path = path THEN [lo |-> lo, hi |-> lo, found |-> {s[m + 1]}]
               ELSE IF Before(path, s[m + 1].path) THEN [lo |-> lo, hi |-> m, found |-> found]
               ELSE [lo |-> m + 1, hi |-> hi, found |-> found]
    BY <2>2, <2>4
  <2>7. st.lo = lo /\ st.hi = hi /\ st.found = found /\ ~(lo >= hi)
    BY <1>1, <1>2, <1>4
  <2> QED
    BY <2>5, <2>6, <2>7
<1> QED
  BY <1>2, <1>3, <1>4

LEMMA SearchGoesOn ==
  ASSUME NEW E, Pathed(E), NEW s \in Seq(E), InOrder(s), NEW path \in Seq(Nat),
         NEW st \in Searches(E, Len(s)), NEW n \in Nat, Searching(s, path, st, n)
  PROVE  Searching(s, path, Bisect(s, path, st), n + 1)
<1>1. PICK lo \in 0 .. Len(s), hi \in 0 .. Len(s), found \in SUBSET E :
        lo = st.lo /\ hi = st.hi /\ found = st.found
  BY DEF Searches
<1>2. Len(s) \in Nat /\ lo \in Nat /\ hi \in Nat
  BY <1>1
<1>3. CASE lo >= hi
  <2>1. Bisect(s, path, st) = st
    BY <1>1, <1>3, BisectIs
  <2>2. Searching(s, path, st, n + 1)
    BY <1>1, <1>2, <1>3 DEF Searching
  <2> QED
    BY <2>1, <2>2
<1>4. CASE lo < hi
  <2>1. PICK mid \in lo .. hi - 1 :
          /\ mid + 1 \in 1 .. Len(s)
          /\ Bisect(s, path, st) =
               IF s[mid + 1].path = path THEN [lo |-> lo, hi |-> lo, found |-> {s[mid + 1]}]
               ELSE IF Before(path, s[mid + 1].path) THEN [lo |-> lo, hi |-> mid, found |-> found]
               ELSE [lo |-> mid + 1, hi |-> hi, found |-> found]
    BY <1>1, <1>4, BisectIs
  <2>2. found = {} /\ hi - lo <= Len(s) - n /\ \A j \in 1 .. Len(s) : s[j].path = path => lo < j /\ j <= hi
    BY <1>1, <1>2, <1>4 DEF Searching
  <2>3. mid \in Nat /\ lo <= mid /\ mid < hi
    BY <1>2
  <2>4. \A j \in 1 .. Len(s) : s[j] \in E /\ s[j].path \in Seq(Nat)
    BY DEF Pathed
  <2>5. CASE s[mid + 1].path = path
    <3>1. Bisect(s, path, st) = [lo |-> lo, hi |-> lo, found |-> {s[mid + 1]}]
      BY <2>1, <2>5
    <3>2. \A r : r = [lo |-> lo, hi |-> lo, found |-> {s[mid + 1]}] => Searching(s, path, r, n + 1)
      <4> SUFFICES ASSUME NEW r, r.lo = lo, r.hi = lo, r.found = {s[mid + 1]}
                   PROVE  Searching(s, path, r, n + 1)
        OBVIOUS
      <4>1. r.found # {} /\ r.hi = r.lo
        OBVIOUS
      <4>2. \E j \in 1 .. Len(s) : r.found = {s[j]} /\ s[j].path = path
        BY <2>1, <2>5
      <4> QED
        BY <4>1, <4>2 DEF Searching
    <3> QED
      BY <3>1, <3>2
  <2>6. CASE s[mid + 1].path # path /\ Before(path, s[mid + 1].path)
    <3>1. Bisect(s, path, st) = [lo |-> lo, hi |-> mid, found |-> found]
      BY <2>1, <2>6
    <3>2. ASSUME NEW j \in 1 .. Len(s), s[j].path = path
          PROVE  lo < j /\ j <= mid
      <4>1. j # mid + 1
        BY <2>6, <3>2
      <4>2. ~(mid + 1 < j)
        BY <2>1, <2>6, <3>2 DEF InOrder
      <4> QED
        BY <2>2, <2>3, <3>2, <4>1, <4>2
    <3>3. mid - lo <= Len(s) - (n + 1)
      BY <1>2, <2>2, <2>3
    <3> QED
      BY <2>2, <3>1, <3>2, <3>3 DEF Searching
  <2>7. CASE s[mid + 1].path # path /\ ~Before(path, s[mid + 1].path)
    <3>1. Bisect(s, path, st) = [lo |-> mid + 1, hi |-> hi, found |-> found]
      BY <2>1, <2>7
    <3>2. Before(s[mid + 1].path, path)
      BY <2>1, <2>4, <2>7, BeforeTotal
    <3>3. ASSUME NEW j \in 1 .. Len(s), s[j].path = path
          PROVE  mid + 1 < j /\ j <= hi
      <4>1. j # mid + 1
        BY <2>7, <3>3
      <4>2. ~(j < mid + 1)
        BY <2>1, <3>2, <3>3 DEF InOrder
      <4> QED
        BY <2>2, <2>3, <3>3, <4>1, <4>2
    <3>4. hi - (mid + 1) <= Len(s) - (n + 1)
      BY <1>2, <2>2, <2>3
    <3> QED
      BY <2>2, <3>1, <3>3, <3>4 DEF Searching
  <2> QED
    BY <2>5, <2>6, <2>7
<1> QED
  BY <1>2, <1>3, <1>4

\* The bisection of a list in order finds an entry of that path, if there is one.
LEMMA FindLiveIs ==
  ASSUME NEW E, Pathed(E), NEW s \in Seq(E), InOrder(s), NEW path \in Seq(Nat)
  PROVE  /\ FindLive(s, path) = {} => \A j \in 1 .. Len(s) : s[j].path # path
         /\ FindLive(s, path) # {} => \E j \in 1 .. Len(s) : FindLive(s, path) = {s[j]} /\ s[j].path = path
<1>1. PICK L \in Nat : L = Len(s)
  OBVIOUS
<1> DEFINE S == Searches(E, L)
<1>2. PICK x \in S : x = [lo |-> 0, hi |-> Len(s), found |-> {}]
  <2>1. [lo |-> 0, hi |-> Len(s), found |-> {}] \in S
    BY <1>1 DEF Searches
  <2> HIDE DEF S
  <2> QED
    BY <2>1
<1>3. FindStays(s, path, L, S)
  BY <1>1, BisectIs DEF FindStays
<1> HIDE DEF S
<1>4. PICK g : FindMakes(g, s, path, L, S)
  BY <1>2, <1>3, FindLoop
<1>5. /\ g \in [0 .. L -> S] /\ g[0] = x /\ FindLive(s, path) = g[L].found
      /\ \A n \in 1 .. L : g[n] = Bisect(s, path, g[n - 1])
  BY <1>1, <1>2, <1>4 DEF FindMakes
<1> DEFINE T == {n \in 0 .. L : ~Searching(s, path, g[n], n)}
<1>6. T = {}
  <2> SUFFICES ASSUME T # {} PROVE FALSE
    OBVIOUS
  <2>0. T \in SUBSET Nat
    OBVIOUS
  <2>1. \A n : n \in T <=> n \in 0 .. L /\ ~Searching(s, path, g[n], n)
    OBVIOUS
  <2> HIDE DEF T
  <2>2. PICK m \in T : \A k \in T : m <= k
    BY <2>0, LeastNat
  <2>3. m \in 0 .. L /\ ~Searching(s, path, g[m], m)
    BY <2>1
  <2>4. Searching(s, path, g[0], 0)
    BY <1>1, <1>2, <1>5 DEF Searching
  <2>5. m \in 1 .. L /\ m - 1 \in 0 .. L /\ m - 1 \in Nat
    BY <2>3, <2>4
  <2>6. Searching(s, path, g[m - 1], m - 1)
    <3>1. m - 1 \notin T
      BY <2>2, <2>5
    <3> QED
      BY <2>1, <2>5, <3>1
  <2>7. PICK st \in Searches(E, Len(s)) : st = g[m - 1]
    BY <1>1, <1>5, <2>5 DEF S
  <2>8. PICK n \in Nat : n = m - 1 /\ n + 1 = m
    BY <2>5
  <2>9. Searching(s, path, Bisect(s, path, st), n + 1)
    BY <2>6, <2>7, <2>8, SearchGoesOn
  <2> QED
    BY <1>5, <2>3, <2>5, <2>7, <2>8, <2>9
<1>7. Searching(s, path, g[L], L)
  BY <1>6
<1>8. PICK st \in Searches(E, Len(s)) : st = g[L]
  BY <1>1, <1>5 DEF S
<1>9. st.lo \in Nat /\ st.hi \in Nat
  BY <1>1, <1>8 DEF Searches
<1>10. st.found = {} => \A j \in 1 .. Len(s) : s[j].path # path
  BY <1>1, <1>7, <1>8, <1>9 DEF Searching
<1>11. st.found # {} => \E j \in 1 .. Len(s) : st.found = {s[j]} /\ s[j].path = path
  BY <1>7, <1>8 DEF Searching
<1> QED
  BY <1>5, <1>8, <1>10, <1>11

------------------------------------------------------------------------------
(* What a comparison makes of the entries of an index. *)

\* The partition has the entry as the index has it.
Same(sorted, entry) == \E e \in FindLive(sorted, entry.path) : e.size = entry.size /\ e.mtime = entry.mtime

\* What a comparison makes of a tree with one entry that is not the same.
Judges(t, w, entry, sorted) ==
  /\ Distinct(w) /\ Len(t) <= Len(w)
  /\ \A i \in 0 .. Len(t) : FullPath(w, i) = FullPath(t, i)
  /\ \A i \in DOMAIN t : FullPath(t, i) # entry.path => w[i] = t[i]
  /\ \A i \in DOMAIN w \ DOMAIN t :
       \E k \in 1 .. Len(entry.path) : FullPath(w, i) = SubSeq(entry.path, 1, k)
  /\ (\A i \in DOMAIN t : FullPath(t, i) # entry.path)
     => \E v \in DOMAIN w :
          /\ FullPath(w, v) = entry.path
          /\ \E at : w[v] = Marked(NewNode(at, Last(entry.path), Item(entry.dir, FindLive(sorted, entry.path) = {}, entry.size, NoSource)),
                                   entry, FindLive(sorted, entry.path))

LEMMA JudgeAdds ==
  ASSUME NEW t \in Trees(Nat, Sources), Distinct(t), NEW entry \in Indexed, entry.path # <<>>,
         NEW sorted, ~Same(sorted, entry)
  PROVE  Judges(t, Judge(t, entry, sorted), entry, sorted)
<1>1. NoSource \in Sources /\ <<"restored">> \in Sources /\ <<"modified">> \in Sources
      /\ entry.clusters \in Sources
  BY IndexedHas DEF Sources, NoSource
<1>2. PICK found : found = FindLive(sorted, entry.path)
  OBVIOUS
<1>3. PICK item \in Items(Sources) : item = Item(entry.dir, found = {}, entry.size, NoSource)
  <2>1. Item(entry.dir, found = {}, entry.size, NoSource) \in Items(Sources)
    BY <1>1, IndexedHas DEF Item, Items
  <2> QED
    BY <2>1
<1>4. PICK path \in Seq(Nat) : path = entry.path
  BY IndexedHas
<1>5. PICK u \in Trees(Nat, Sources) : u = AddPath(t, path, item)
  BY <1>1, AddPathIn
<1>6. Added(t, u, path, item)
  BY <1>1, <1>4, <1>5, AddPathAdds
<1>7. /\ Len(t) \in Nat /\ DOMAIN t = 1 .. Len(t) /\ Len(u) \in Nat /\ DOMAIN u = 1 .. Len(u)
  BY TreeHas
<1>8. Distinct(u) /\ Len(t) <= Len(u)
  BY <1>6 DEF Added
<1>9. u = Shown(t, entry, found)
  BY <1>3, <1>4, <1>5 DEF Shown
<1> DEFINE at == FindPath(u, path)
           w == [i \in DOMAIN u |-> IF i \in at THEN Marked(u[i], entry, found) ELSE u[i]]
<1>10. Judge(t, entry, sorted) = w
  <2>1. ~\E e \in found : e.size = entry.size /\ e.mtime = entry.mtime
    BY <1>2 DEF Same
  <2> QED
    BY <1>2, <1>4, <1>9, <2>1, JudgeIs
<1>11. at = {i \in 0 .. Len(u) : FullPath(u, i) = path}
  BY <1>8, FindsPaths
<1>12. \A n \in Nodes(Nat, Sources) :
         Marked(n, entry, found) \in Nodes(Nat, Sources) /\ Marked(n, entry, found).parent = n.parent
         /\ Marked(n, entry, found).name = n.name
  BY <1>1, IndexedHas DEF Marked, Nodes
<1>13. \A i \in DOMAIN u : u[i] \in Nodes(Nat, Sources) /\ i \in 0 .. Len(u)
  BY <1>7, TreeHas
<1> HIDE DEF at
<1>14. \A i \in DOMAIN u : w[i] = IF FullPath(u, i) = path THEN Marked(u[i], entry, found) ELSE u[i]
  BY <1>11, <1>13
<1>15. w \in [DOMAIN u -> Nodes(Nat, Sources)]
       /\ \A i \in DOMAIN u : w[i].parent = u[i].parent /\ w[i].name = u[i].name
  BY <1>12, <1>13
<1> HIDE DEF w
<1>16. w \in Trees(Nat, Sources) /\ Len(w) = Len(u) /\ DOMAIN w = DOMAIN u
  BY <1>15, ChangedTree
<1>17. \A i \in 0 .. Len(u) : FullPath(w, i) = FullPath(u, i)
  <2>1. PICK c \in Trees(Nat, Sources) : c = w
    BY <1>16
  <2>2. Len(u) <= Len(c)
    BY <1>7, <1>16, <2>1
  <2>3. \A i \in DOMAIN u : c[i].parent = u[i].parent /\ c[i].name = u[i].name
    BY <1>15, <2>1
  <2>4. \A i \in 0 .. Len(u) : FullPath(c, i) = FullPath(u, i)
    BY <2>2, <2>3, SamePaths
  <2> QED
    BY <2>1, <2>4
<1>18. Distinct(w)
  BY <1>8, <1>15, <1>16 DEF Distinct
<1>19. Len(t) <= Len(w) /\ \A i \in 0 .. Len(t) : FullPath(w, i) = FullPath(t, i)
  <2>1. \A i \in 0 .. Len(t) : i \in 0 .. Len(u) /\ FullPath(u, i) = FullPath(t, i)
    BY <1>6, <1>7, <1>8 DEF Added
  <2> QED
    BY <1>8, <1>16, <1>17, <2>1
<1>20. ASSUME NEW i \in DOMAIN t, FullPath(t, i) # entry.path
       PROVE  w[i] = t[i]
  <2>1. i \in DOMAIN u /\ i \in 0 .. Len(t)
    BY <1>7, <1>8
  <2>2. FullPath(u, i) = FullPath(t, i) /\ u[i] = t[i]
    BY <1>4, <1>6, <1>20, <2>1 DEF Added
  <2> QED
    BY <1>4, <1>14, <1>20, <2>1, <2>2
<1>21. \A i \in DOMAIN w \ DOMAIN t : \E k \in 1 .. Len(entry.path) : FullPath(w, i) = SubSeq(entry.path, 1, k)
  <2>1. \A i \in DOMAIN u \ DOMAIN t : \E k \in 1 .. Len(path) : FullPath(u, i) = SubSeq(path, 1, k)
    BY <1>6 DEF Added
  <2> QED
    BY <1>4, <1>13, <1>16, <1>17, <2>1
<1>22. ASSUME \A i \in DOMAIN t : FullPath(t, i) # path
       PROVE  \E v \in DOMAIN w :
                FullPath(w, v) = path /\ \E a : w[v] = Marked(NewNode(a, Last(path), item), entry, found)
  <2>1. PICK v \in DOMAIN u :
          FullPath(u, v) = path /\ (v \in DOMAIN t \/ u[v] = NewNode(u[v].parent, Last(path), item))
    BY <1>6 DEF Added
  <2>2. FullPath(w, v) = path /\ v \in DOMAIN w
    BY <1>13, <1>16, <1>17, <2>1
  <2>3. v \notin DOMAIN t
    <3>1. \A i \in DOMAIN t : i \in 0 .. Len(t)
      BY <1>7
    <3> QED
      BY <1>19, <1>22, <2>2, <3>1
  <2>4. w[v] = Marked(NewNode(u[v].parent, Last(path), item), entry, found)
    BY <1>14, <2>1, <2>3
  <2> QED
    BY <2>2, <2>4
<1> QED
  BY <1>2, <1>3, <1>4, <1>10, <1>18, <1>19, <1>20, <1>21, <1>22 DEF Judges

\* "/" is not in the tree.
LEMMA JudgeRoot ==
  ASSUME NEW t \in Trees(Nat, Sources), NEW entry, entry.path = <<>>, NEW sorted
  PROVE  Judge(t, entry, sorted) = t
<1>1. PICK found : found = FindLive(sorted, entry.path)
  OBVIOUS
<1>2. Shown(t, entry, found) = t
  BY DEF Shown, AddPath
<1>3. PICK at : at = FindPath(t, entry.path)
  OBVIOUS
<1>4. 1 .. Len(t) = DOMAIN t /\ t = [i \in DOMAIN t |-> t[i]]
  BY TreeHas
<1>5. at = {Root}
  <2>0. <<>> \in Seq(Nat)
    OBVIOUS
  <2>1. PICK path \in Seq(Nat) : path = <<>>
    BY <2>0
  <2>2. PICK f \in [0 .. Len(path) -> SUBSET Nat] : f[0] = {Root} /\ FindPath(t, path) = f[Len(path)]
    BY FindPathIs
  <2> QED
    BY <1>3, <2>1, <2>2
<1>6. \A i \in DOMAIN t : i \notin at
  BY <1>4, <1>5 DEF Root
<1>7. Judge(t, entry, sorted) = IF \E e \in found : e.size = entry.size /\ e.mtime = entry.mtime THEN t
           ELSE [i \in DOMAIN t |-> IF i \in at THEN Marked(t[i], entry, found) ELSE t[i]]
  BY <1>1, <1>2, <1>3, JudgeIs
<1>8. [i \in DOMAIN t |-> IF i \in at THEN Marked(t[i], entry, found) ELSE t[i]] = [i \in DOMAIN t |-> t[i]]
  BY <1>6
<1> QED
  BY <1>4, <1>7, <1>8

\* A file is shown as deleted or modified, with the clusters it had.
ShowsAs(node, entry, sorted) ==
  /\ ~node.dir /\ node.size = entry.size /\ node.clusters = entry.clusters
  /\ node.deleted <=> FindLive(sorted, entry.path) = {}
  /\ node.src = IF FindLive(sorted, entry.path) = {} THEN <<"restored">> ELSE <<"modified">>

\* No path goes through that of a file.
Leaves(entries) ==
  \A i, j \in 1 .. Len(entries) : \A m \in 0 .. Len(entries[j].path) :
    ~entries[i].dir /\ SubSeq(entries[j].path, 1, m) = entries[i].path => i = j

\* After n entries: what is in the tree leads to one that is not the same, and every such
\* file is in it.
JudgedSome(t, entries, sorted, n) ==
  /\ Distinct(t)
  /\ \A v \in DOMAIN t : \E k \in 1 .. n :
       /\ ~Same(sorted, entries[k])
       /\ \E m \in 1 .. Len(entries[k].path) : FullPath(t, v) = SubSeq(entries[k].path, 1, m)
  /\ \A k \in 1 .. n : ~entries[k].dir /\ ~Same(sorted, entries[k]) =>
       \E v \in DOMAIN t : FullPath(t, v) = entries[k].path /\ ShowsAs(t[v], entries[k], sorted)

LEMMA JudgesOn ==
  ASSUME NEW entries \in Seq(Indexed), Leaves(entries), NEW sorted, NEW n \in 1 .. Len(entries),
         \A k \in 1 .. Len(entries) : ~entries[k].dir => entries[k].path # <<>>,
         NEW t \in Trees(Nat, Sources), JudgedSome(t, entries, sorted, n - 1)
  PROVE  JudgedSome(Judge(t, entries[n], sorted), entries, sorted, n)
<1>1. n \in Nat /\ n - 1 \in Nat /\ Len(entries) \in Nat
  OBVIOUS
<1>2. PICK e \in Indexed : e = entries[n]
  OBVIOUS
<1>3. PICK w : w = Judge(t, e, sorted)
  OBVIOUS
<1>4. \A k \in 1 .. n : k = n \/ k \in 1 .. n - 1
  BY <1>1
<1>5. \A k \in 1 .. n - 1 : k \in 1 .. n /\ k \in 1 .. Len(entries) /\ k # n
  BY <1>1
<1>6. CASE Same(sorted, e) \/ e.path = <<>>
  <2>1. w = t
    <3>1. CASE Same(sorted, e)
      BY <1>3, <3>1, JudgeIs DEF Same
    <3>2. CASE e.path = <<>>
      BY <1>3, <3>2, JudgeRoot
    <3> QED
      BY <1>6, <3>1, <3>2
  <2>2. Same(sorted, e) \/ e.dir
    BY <1>2, <1>6, IndexedHas
  <2> QED
    BY <1>2, <1>3, <1>4, <1>5, <2>1, <2>2 DEF JudgedSome
<1>7. CASE ~Same(sorted, e) /\ e.path # <<>>
  <2>1. Distinct(t)
    BY DEF JudgedSome
  <2>2. Judges(t, w, e, sorted)
    BY <1>3, <1>7, <2>1, JudgeAdds
  <2>3. DOMAIN t = 1 .. Len(t) /\ Len(t) \in Nat
    BY TreeHas
  <2>4. w \in Trees(Nat, Sources)
    BY <1>3, JudgeIn
  <2>5. DOMAIN w = 1 .. Len(w) /\ Len(w) \in Nat
    BY <2>4, TreeHas
  <2>6. \A i \in DOMAIN t : i \in DOMAIN w /\ FullPath(w, i) = FullPath(t, i)
    BY <2>2, <2>3, <2>5 DEF Judges
  <2>7. ASSUME NEW v \in DOMAIN w
        PROVE  \E k \in 1 .. n :
                 /\ ~Same(sorted, entries[k])
                 /\ \E m \in 1 .. Len(entries[k].path) : FullPath(w, v) = SubSeq(entries[k].path, 1, m)
    <3>1. CASE v \in DOMAIN t
      <4>1. PICK k \in 1 .. n - 1 :
              /\ ~Same(sorted, entries[k])
              /\ \E m \in 1 .. Len(entries[k].path) : FullPath(t, v) = SubSeq(entries[k].path, 1, m)
        BY <3>1 DEF JudgedSome
      <4> QED
        BY <1>5, <2>6, <3>1, <4>1
    <3>2. CASE v \notin DOMAIN t
      <4>1. \E m \in 1 .. Len(e.path) : FullPath(w, v) = SubSeq(e.path, 1, m)
        BY <2>2, <3>2 DEF Judges
      <4>2. n \in 1 .. n
        BY <1>1
      <4> QED
        BY <1>2, <1>7, <4>1, <4>2
    <3> QED
      BY <3>1, <3>2
  <2>8. ASSUME NEW k \in 1 .. n, ~entries[k].dir, ~Same(sorted, entries[k])
        PROVE  \E v \in DOMAIN w : FullPath(w, v) = entries[k].path /\ ShowsAs(w[v], entries[k], sorted)
    <3>1. CASE k = n
      <4>1. ~e.dir
        BY <1>2, <2>8, <3>1
      <4>2. ASSUME NEW i \in DOMAIN t
            PROVE  FullPath(t, i) # e.path
        <5>3. PICK j \in 1 .. n - 1 :
                \E m \in 1 .. Len(entries[j].path) : FullPath(t, i) = SubSeq(entries[j].path, 1, m)
          BY DEF JudgedSome
        <5>1. PICK m \in 1 .. Len(entries[j].path) : FullPath(t, i) = SubSeq(entries[j].path, 1, m)
          BY <5>3
        <5>2. j \in 1 .. Len(entries) /\ j # n /\ m \in 0 .. Len(entries[j].path)
          BY <1>5
        <5> QED
          BY <1>2, <4>1, <5>1, <5>2 DEF Leaves
      <4>3. PICK found : found = FindLive(sorted, e.path)
        OBVIOUS
      <4>6. PICK v \in DOMAIN w :
              /\ FullPath(w, v) = e.path
              /\ \E at : w[v] = Marked(NewNode(at, Last(e.path), Item(e.dir, found = {}, e.size, NoSource)), e, found)
        BY <2>2, <4>2, <4>3 DEF Judges
      <4>4. PICK at : w[v] = Marked(NewNode(at, Last(e.path), Item(e.dir, found = {}, e.size, NoSource)), e, found)
        BY <4>6
      <4>5. ShowsAs(w[v], e, sorted)
        <5>1. w[v].clusters = e.clusters
          <6>1. w[v].clusters = IF e.dir \/ e.clusters = <<>> THEN NoSource ELSE e.clusters
            BY <4>4 DEF Marked, NewNode
          <6>2. NoSource = <<>> /\ ~e.dir
            BY <4>1 DEF NoSource
          <6> QED
            BY ONLY <6>1, <6>2
        <5> QED
          BY <4>1, <4>3, <4>4, <5>1 DEF ShowsAs, Marked, NewNode, Item
      <4> QED
        BY <1>2, <3>1, <4>5, <4>6
    <3>2. CASE k # n
      <4>1. k \in 1 .. n - 1
        BY <1>4, <3>2
      <4>2. PICK v \in DOMAIN t : FullPath(t, v) = entries[k].path /\ ShowsAs(t[v], entries[k], sorted)
        BY <2>8, <4>1 DEF JudgedSome
      <4>3. FullPath(t, v) # e.path
        <5>1. k \in 1 .. Len(entries) /\ Len(e.path) \in 0 .. Len(e.path) /\ SubSeq(e.path, 1, Len(e.path)) = e.path
          <6>1. e.path \in Seq(Nat)
            BY IndexedHas
          <6> QED
            BY <1>5, <4>1, <6>1, SubSeqFull
        <5> QED
          BY <1>2, <2>8, <3>2, <4>2, <5>1 DEF Leaves
      <4>4. w[v] = t[v]
        BY <2>2, <4>3 DEF Judges
      <4> QED
        BY <2>6, <4>2, <4>4
    <3> QED
      BY <3>1, <3>2
  <2>9. Distinct(w)
    BY <2>2 DEF Judges
  <2> QED
    BY <1>2, <1>3, <2>7, <2>8, <2>9 DEF JudgedSome
<1> QED
  BY <1>6, <1>7

LEMMA AllJudged ==
  ASSUME NEW entries \in Seq(Indexed), Leaves(entries), NEW sorted,
         \A k \in 1 .. Len(entries) : ~entries[k].dir => entries[k].path # <<>>
  PROVE  JudgedSome(JudgeAll(entries, sorted), entries, sorted, Len(entries))
<1> DEFINE S == Trees(Nat, Sources)
<1>1. PICK L \in Nat : L = Len(entries)
  OBVIOUS
<1>2. PICK x \in S : x = <<>>
  BY NoTree
<1>3. JudgeStays(entries, sorted, L, S)
  <2> SUFFICES ASSUME NEW n \in 1 .. L, NEW t \in S PROVE Judge(t, entries[n], sorted) \in S
    BY DEF JudgeStays
  <2>1. entries[n] \in Indexed
    BY <1>1
  <2> QED
    BY <2>1, JudgeIn
<1> HIDE DEF S
<1>4. PICK g : JudgeMakes(g, entries, sorted, L, S)
  BY <1>2, <1>3, JudgeLoop
<1>5. /\ g \in [0 .. L -> S] /\ g[0] = <<>> /\ JudgeAll(entries, sorted) = g[L]
      /\ \A n \in 1 .. L : g[n] = Judge(g[n - 1], entries[n], sorted)
  BY <1>1, <1>4 DEF JudgeMakes
<1> DEFINE T == {n \in 0 .. L : ~JudgedSome(g[n], entries, sorted, n)}
<1>6. T = {}
  <2> SUFFICES ASSUME T # {} PROVE FALSE
    OBVIOUS
  <2>0. T \in SUBSET Nat
    OBVIOUS
  <2>1. \A n : n \in T <=> n \in 0 .. L /\ ~JudgedSome(g[n], entries, sorted, n)
    OBVIOUS
  <2> HIDE DEF T
  <2>2. PICK m \in T : \A k \in T : m <= k
    BY <2>0, LeastNat
  <2>3. m \in 0 .. L /\ ~JudgedSome(g[m], entries, sorted, m)
    BY <2>1
  <2>4. JudgedSome(g[0], entries, sorted, 0)
    BY <1>5 DEF JudgedSome, Distinct
  <2>5. m \in 1 .. L /\ m - 1 \in 0 .. L
    BY <2>3, <2>4
  <2>6. JudgedSome(g[m - 1], entries, sorted, m - 1)
    <3>1. m - 1 \notin T
      BY <2>2, <2>5
    <3> QED
      BY <2>1, <2>5, <3>1
  <2>7. PICK t \in Trees(Nat, Sources) : t = g[m - 1]
    BY <1>5, <2>5 DEF S
  <2>8. m \in 1 .. Len(entries)
    BY <1>1, <2>5
  <2>9. JudgedSome(Judge(t, entries[m], sorted), entries, sorted, m)
    BY <2>6, <2>7, <2>8, JudgesOn
  <2> QED
    BY <1>5, <2>3, <2>5, <2>7, <2>9
<1>7. JudgedSome(g[L], entries, sorted, L)
  BY <1>6
<1> QED
  BY <1>1, <1>5, <1>7

------------------------------------------------------------------------------
(* What the index says of the partition. *)

\* What an index says of something.
EntryOf(v, x) == IF x.entry.dir THEN DirEntry(x.path) ELSE FileEntry(v, x.path, x.entry)

\* What the list says is what the partition has.
Sound(v, list) ==
  \A i \in 1 .. Len(list) : list[i] = DirEntry(<<>>) \/ \E x \in Reachable(v) : list[i] = EntryOf(v, x)

PathsOnce(list) == \A i, j \in 1 .. Len(list) : list[i].path = list[j].path => i = j

LEMMA EntryOfHas ==
  ASSUME NEW v \in Volumes, NEW g, Levels(v, g), NEW x \in Reachable(v)
  PROVE  /\ EntryOf(v, x) \in Indexed /\ EntryOf(v, x).path = x.path /\ EntryOf(v, x).dir = x.entry.dir
         /\ ~x.entry.dir => EntryOf(v, x).clusters = Collect(v, x.entry).clusters
<1>1. PICK n \in 1 .. MaxDepth : x \in Below(v, g[n - 1])
  BY ReachableIs
<1>2. PICK d \in g[n - 1].dirs :
        /\ d.entry.inode \in DOMAIN v.dirs /\ x \in Places(v) /\ x.entry \in Listings
        /\ \E j \in DOMAIN v.dirs[d.entry.inode] : x.entry = v.dirs[d.entry.inode][j]
  BY <1>1, BelowHas
<1>3. x.path \in Seq(Nat) /\ x.entry.dir \in BOOLEAN
  BY <1>2 DEF Places, Listings
<1>4. CASE x.entry.dir
  <2>1. EntryOf(v, x) = DirEntry(x.path)
    BY <1>4 DEF EntryOf
  <2>2. DirEntry(x.path) \in Indexed /\ DirEntry(x.path).path = x.path
    BY <1>3, DirEntryIn
  <2>3. DirEntry(x.path).dir = TRUE
    BY DEF DirEntry
  <2> QED
    BY <1>3, <1>4, <2>1, <2>2, <2>3
<1>5. CASE ~x.entry.dir
  <2>1. EntryOf(v, x) = FileEntry(v, x.path, x.entry)
    BY <1>5 DEF EntryOf
  <2>2. /\ FileEntry(v, x.path, x.entry) \in Indexed /\ FileEntry(v, x.path, x.entry).path = x.path
        /\ ~FileEntry(v, x.path, x.entry).dir
        /\ FileEntry(v, x.path, x.entry).clusters = Collect(v, x.entry).clusters
    BY <1>2, <1>3, <1>5, FileEntryIn
  <2>3. FileEntry(v, x.path, x.entry).dir = FALSE
    BY <2>2, IndexedHas
  <2> QED
    BY <1>3, <1>5, <2>1, <2>2, <2>3
<1> QED
  BY <1>3, <1>4, <1>5

\* So far the words are those of what the walk has listed; when the destination is full they
\* may be cut short.
Walked(v, ws, n, st, cut) ==
  \E g, list : /\ Levels(v, g) /\ Kept(ws, list) /\ (~cut => Whole(ws, list)) /\ Len(list) = n
               /\ Walk(v, g, list, st) /\ Sound(v, list)

\* The words are those of an index of all there is.
Indexes(v, ws, n) ==
  \E g, list : Levels(v, g) /\ Whole(ws, list) /\ Len(list) = n /\ Lists(v, list)

\* The words, cut short or not, are those of an index of what there is.
Tells(v, ws, n) ==
  \E list : Kept(ws, list) /\ Len(list) = n /\ Sound(v, list) /\ PathsOnce(list)

LEMMA WholeHas ==
  ASSUME NEW ws, NEW list
  PROVE  (Whole(ws, list) \/ Kept(ws, list)) => list \in Seq(Indexed)
  BY DEF Whole, Kept, Holds

LEMMA WalkedAll ==
  ASSUME NEW v, NEW ws, NEW n, Walked(v, ws, n, <<>>, FALSE)
  PROVE  Indexes(v, ws, n)
<1>1. PICK g, list : Levels(v, g) /\ Whole(ws, list) /\ Len(list) = n /\ Walk(v, g, list, <<>>)
  BY DEF Walked
<1>2. \A path : ~Pending(<<>>, path)
  <2>1. 1 .. Len(<<>>) = {}
    OBVIOUS
  <2> QED
    BY <2>1 DEF Pending
<1>3. Lists(v, list)
  BY <1>1, <1>2 DEF Walk, Covered, Lists
<1> QED
  BY <1>1, <1>3 DEF Indexes

LEMMA WalkedTells ==
  ASSUME NEW v, NEW ws, NEW n, NEW st, NEW cut, Walked(v, ws, n, st, cut)
  PROVE  Tells(v, ws, n)
<1>1. PICK g, list : /\ Kept(ws, list) /\ Len(list) = n
                     /\ Walk(v, g, list, st) /\ Sound(v, list)
  BY DEF Walked
<1>2. PathsOnce(list)
  BY <1>1 DEF Walk, Listing, PathsOnce
<1> QED
  BY <1>1, <1>2 DEF Tells

LEMMA NothingTold ==
  ASSUME NEW v
  PROVE  Tells(v, <<>>, 0)
<1>1. Kept(<<>>, <<>>) /\ Len(<<>>) = 0 /\ Sound(v, <<>>) /\ PathsOnce(<<>>)
  BY NothingKept DEF Sound, PathsOnce
<1> QED
  BY <1>1 DEF Tells

Complete(loaded, all) ==
  /\ {loaded[k].path : k \in DOMAIN loaded} = {<<>>} \cup {x.path : x \in all}
  /\ Len(loaded) = Cardinality(all) + 1

\* Such an index reads back as it was written.
LEMMA IndexRead ==
  ASSUME NEW v \in Volumes, NamesApart, NEW f, Indexes(v, f.words, f.count)
  PROVE  Complete(LoadFile(f), Reachable(v))
<1>1. PICK g, list : Levels(v, g) /\ Whole(f.words, list) /\ Len(list) = f.count /\ Lists(v, list)
  BY DEF Indexes
<1>2. PICK off : Holds(f.words, list, off) /\ Len(f.words) = off[Len(list)]
  BY <1>1 DEF Whole
<1>3. LoadFile(f) = list
  BY <1>1, <1>2, LoadsBack
<1>4. list \in Seq(Indexed)
  BY <1>1, WholeHas
<1>5. /\ {list[k].path : k \in DOMAIN list} = {<<>>} \cup {x.path : x \in Reachable(v)}
      /\ Len(list) = Cardinality(Reachable(v)) + 1
  BY <1>1, <1>4, ListsCount
<1>6. Complete(list, Reachable(v))
  BY <1>5 DEF Complete
<1> QED
  BY <1>3, <1>6

\* What is read of an index that is cut short is the beginning of it.
LEMMA TellsRead ==
  ASSUME NEW v, NEW f, Tells(v, f.words, f.count)
  PROVE  LET entries == LoadFile(f)
         IN entries \in Seq(Indexed) /\ Sound(v, entries) /\ PathsOnce(entries)
<1>1. PICK list : Kept(f.words, list) /\ Len(list) = f.count /\ Sound(v, list) /\ PathsOnce(list)
  BY DEF Tells
<1>2. PICK off : Holds(f.words, list, off)
  BY <1>1 DEF Kept
<1>3. PICK n \in 0 .. Len(list) : LoadFile(f) = SubSeq(list, 1, n)
  BY <1>1, <1>2, LoadsBack
<1>4. list \in Seq(Indexed)
  BY <1>1, WholeHas
<1>5. PICK entries \in Seq(Indexed) :
        /\ entries = SubSeq(list, 1, n) /\ Len(entries) = n /\ \A i \in 1 .. n : entries[i] = list[i]
  BY <1>4, PrefixIs
<1>6. \A i \in 1 .. n : i \in 1 .. Len(list)
  BY <1>4
<1>7. Sound(v, entries) /\ PathsOnce(entries)
  BY <1>1, <1>5, <1>6 DEF Sound, PathsOnce
<1> QED
  BY <1>3, <1>5, <1>7

\* In a directory tree nothing is below a file.
LEMMA NothingBelow ==
  ASSUME NEW v \in Volumes, NEW g, Levels(v, g), NamesApart, NEW x \in Reachable(v), ~x.entry.dir,
         NEW y \in Reachable(v), NEW m \in 1 .. Len(y.path), SubSeq(y.path, 1, m) = x.path
  PROVE  x = y
<1>1. MaxDepth \in Nat
  BY BackupAssumption
<1>2. PICK q \in Seq(Nat) : q = y.path /\ Len(q) \in 1 .. MaxDepth
  BY ReachedHas
<1>3. CASE m = Len(q)
  <2>1. SubSeq(q, 1, Len(q)) = q
    BY PrefixIs
  <2> QED
    BY <1>2, <1>3, <2>1, PlacesApart DEF OnePlace
<1>4. CASE m # Len(q)
  <2>1. m \in 0 .. Len(q) - 1 /\ m \in 1 .. MaxDepth
    BY <1>1, <1>2, <1>4
  <2>2. Leads(v, g, q, m)
    BY <1>2, <2>1, ReachedHas
  <2>3. PICK d \in g[m].dirs : d.path = SubSeq(q, 1, m)
    BY <2>2 DEF Leads
  <2>4. d \in Below(v, g[m - 1]) /\ d.entry.dir
    BY <2>1, <2>3 DEF Levels, Opened
  <2>5. d \in Reachable(v)
    BY <2>1, <2>4, ReachableIs
  <2>6. d = x
    BY <1>2, <2>3, <2>5, PlacesApart DEF OnePlace
  <2> QED
    BY <2>4, <2>6
<1> QED
  BY <1>3, <1>4

LEMMA LeavesIs ==
  ASSUME NEW v \in Volumes, NEW g, Levels(v, g), NamesApart,
         NEW entries \in Seq(Indexed), Sound(v, entries), PathsOnce(entries)
  PROVE  /\ Leaves(entries)
         /\ \A k \in 1 .. Len(entries) : ~entries[k].dir => entries[k].path # <<>>
<1>1. ASSUME NEW i \in 1 .. Len(entries), ~entries[i].dir
      PROVE  \E x \in Reachable(v) : entries[i] = EntryOf(v, x) /\ entries[i].path = x.path /\ ~x.entry.dir
  <2>1. entries[i] # DirEntry(<<>>)
    BY <1>1 DEF DirEntry
  <2>2. PICK x \in Reachable(v) : entries[i] = EntryOf(v, x)
    BY <2>1 DEF Sound
  <2> QED
    BY <1>1, <2>2, EntryOfHas
<1>2. \A x \in Reachable(v) : x.path \in Seq(Nat) /\ Len(x.path) \in 1 .. MaxDepth
  BY ReachedHas
<1>3. MaxDepth \in Nat /\ 0 \notin 1 .. MaxDepth /\ Len(<<>>) = 0
  BY BackupAssumption
<1>4. \A i \in 1 .. Len(entries) : ~entries[i].dir => entries[i].path # <<>>
  BY <1>1, <1>2, <1>3
<1>5. ASSUME NEW i \in 1 .. Len(entries), NEW j \in 1 .. Len(entries), NEW m \in 0 .. Len(entries[j].path),
             ~entries[i].dir, SubSeq(entries[j].path, 1, m) = entries[i].path
      PROVE  i = j
  <2>1. PICK q \in Seq(Nat) : q = entries[j].path
    BY IndexedHas
  <2>2. PICK x \in Reachable(v) : entries[i].path = x.path /\ ~x.entry.dir
    BY <1>1, <1>5
  <2>3. m # 0
    <3>1. SubSeq(q, 1, 0) = <<>>
      BY PrefixIs
    <3> QED
      BY <1>4, <1>5, <2>1, <3>1
  <2>4. m \in 1 .. Len(q) /\ q # <<>>
    BY <1>5, <2>1, <2>3
  <2>5. PICK y \in Reachable(v) : q = y.path
    <3>1. entries[j] # DirEntry(<<>>)
      BY <2>1, <2>4 DEF DirEntry
    <3>2. PICK y \in Reachable(v) : entries[j] = EntryOf(v, y)
      BY <3>1 DEF Sound
    <3>3. EntryOf(v, y).path = y.path
      BY EntryOfHas
    <3> QED
      BY <2>1, <3>2, <3>3
  <2>6. x = y
    BY <1>5, <2>1, <2>2, <2>4, <2>5, NothingBelow
  <2> QED
    BY <2>1, <2>2, <2>5, <2>6 DEF PathsOnce
<1> QED
  BY <1>4, <1>5 DEF Leaves

\* Where the walk is when it has seen to what it lists.
Onward ==
  IF Descends(Listed) /\ Readable(Listed.inode) THEN Append(Rest, Call(Listed.inode, ListedPath)) ELSE Rest

\* What is listed is there, and the list goes on with it.
LEMMA ListsOn ==
  ASSUME NamesApart, TypeInv, stack # <<>>, Top.left # <<>>, ~Ignored(Listed),
         NEW g, Levels(volume, g), NEW list \in Seq(Indexed), Walk(volume, g, list, stack),
         NEW entry \in Indexed, entry.path = ListedPath
  PROVE  /\ Walk(volume, g, Append(list, entry), Onward)
         /\ \E x \in Reachable(volume) : x.path = ListedPath /\ x.entry = Listed
<1>1. volume \in Volumes /\ Calls(volume, stack)
  BY DEF TypeInv
<1>2. ListedPath \in Seq(Nat) /\ Listed \in Listings /\ Rest = RestOf(stack)
  BY <1>1, ListedHas
<1>3. ComesTo(stack, Listed, ListedPath)
  <2>1. Top = Last(stack) /\ Listed = Head(Top.left) /\ ListedPath = Append(Top.path, Listed.name)
    BY DEF Top, Listed, ListedPath
  <2> QED
    BY <2>1 DEF ComesTo
<1>4. PICK v, st, e, path : v = volume /\ st = stack /\ e = Listed /\ path = ListedPath
  OBVIOUS
<1>5. /\ v \in Volumes /\ Calls(v, st) /\ ComesTo(st, e, path) /\ Levels(v, g) /\ Walk(v, g, list, st)
      /\ entry.path = path
  BY <1>1, <1>3, <1>4
<1>6. Descends(Listed) /\ Readable(Listed.inode)
        <=> e.dir /\ e.inode \in DOMAIN v.dirs \ Upto(st, Len(st)) /\ Len(st) < MaxDepth
  <2>1. DOMAIN stack = 1 .. Len(stack)
    BY <1>1 DEF Calls
  <2>2. e.inode \notin Upto(st, Len(st)) <=> \A k \in DOMAIN stack : stack[k].inode # e.inode
    BY <1>4, <2>1 DEF Upto
  <2>3. Readable(Listed.inode) <=> e.inode \in DOMAIN v.dirs
    BY <1>4 DEF Readable
  <2>4. Descends(Listed) <=> e.dir /\ (\A k \in DOMAIN stack : stack[k].inode # e.inode) /\ Len(st) < MaxDepth
    <3>1. (\A k \in DOMAIN stack : stack[k].inode # Listed.inode)
            <=> (\A k \in DOMAIN stack : stack[k].inode # e.inode)
      BY <1>4
    <3>2. DescendsAnywhere(Listed) <=> Listed.dir /\ \A k \in DOMAIN stack : stack[k].inode # Listed.inode
      BY Zenon DEF DescendsAnywhere
    <3>3. Descends(Listed) <=> DescendsAnywhere(Listed) /\ Len(stack) < MaxDepth
      BY Zenon DEF Descends
    <3>4. Listed.dir = e.dir /\ Len(st) = Len(stack)
      BY <1>4
    <3> QED
      BY <3>1, <3>2, <3>3, <3>4, Zenon
  <2> QED
    BY <2>2, <2>3, <2>4
<1>7. Walk(v, g, Append(list, entry), Onward)
  <2>1. CASE Descends(Listed) /\ Readable(Listed.inode)
    <3>1. PICK f : f = [inode |-> e.inode, path |-> path, left |-> v.dirs[e.inode]]
      OBVIOUS
    <3>2. Onward = Append(RestOf(st), f)
      <4>1. Onward = Append(Rest, Call(Listed.inode, ListedPath))
        BY <2>1 DEF Onward
      <4>2. Call(Listed.inode, ListedPath) = f
        BY <1>4, <3>1 DEF Call
      <4> QED
        BY <1>2, <1>4, <4>1, <4>2
    <3>3. Walk(v, g, Append(list, entry), Append(RestOf(st), f))
      BY <1>5, <1>6, <2>1, <3>1, WalkPushes
    <3> QED
      BY <3>2, <3>3
  <2>2. CASE ~(Descends(Listed) /\ Readable(Listed.inode))
    <3>1. Onward = RestOf(st)
      BY <1>2, <1>4, <2>2 DEF Onward
    <3>2. Walk(v, g, Append(list, entry), RestOf(st))
      BY <1>5, <1>6, <2>2, WalkStays
    <3> QED
      BY <3>1, <3>2
  <2> QED
    BY <2>1, <2>2
<1>8. \E x \in Reachable(v) : x.path = path /\ x.entry = e
  <2>1. PICK y \in Below(v, g[Len(st) - 1]) : y.path = path /\ y.entry = e
    <3>1. HeadBelow(v, g, st, e, path)
      BY <1>5, HeadPlace DEF Walk
    <3> QED
      BY <3>1 DEF HeadBelow
  <2>2. Len(st) \in 1 .. MaxDepth
    BY <1>4, <1>5, TopHas
  <2> QED
    BY <1>5, <2>1, <2>2, ReachableIs
<1> QED
  BY <1>4, <1>7, <1>8

------------------------------------------------------------------------------
(* The writing of the index. *)

\* While the index is written, once it is reported as created, and of whatever was left of it.
WalkInv ==
  /\ pc = "create" => volume = snapshot /\ Walked(volume, words, written, stack, full)
  /\ (report = "created" /\ ~full) => Indexes(snapshot, file.words, file.count)
  /\ Tells(snapshot, file.words, file.count)

LEMMA BeginWalks ==
  ASSUME NamesApart, TypeInv, BeginCreate
  PROVE  Walked(volume', words', written', stack', full')
<1>1. volume \in Volumes /\ volume.root \in DOMAIN volume.dirs /\ volume' = volume
  BY DEF TypeInv, BeginCreate, Readable
<1>2. PICK g : Levels(volume, g)
  BY <1>1, LevelsExist
<1>3. PICK f : f = [inode |-> volume.root, path |-> <<>>, left |-> volume.dirs[volume.root]]
  OBVIOUS
<1>4. PICK e \in Indexed : e = DirEntry(<<>>) /\ e.path = <<>>
  <2>1. <<>> \in Seq(Nat)
    OBVIOUS
  <2> QED
    BY <2>1, DirEntryIn
<1>5. Walk(volume, g, <<e>>, <<f>>)
  BY <1>1, <1>2, <1>3, <1>4, WalkBegins
<1>6. PICK none : none = <<>> /\ Whole(none, none)
  BY NothingKept
<1>7. Whole(none \o Words(e), Append(none, e))
  BY <1>4, <1>6, KeptMore
<1>8. none \o Words(e) = Words(e) /\ Append(none, e) = <<e>>
  BY <1>4, <1>6, WordsAre
<1>9. stack' = <<f>> /\ words' = Words(e) /\ written' = 1 /\ Len(<<e>>) = 1
  BY <1>3, <1>4 DEF BeginCreate, Call
<1>10. Whole(words', <<e>>) /\ Kept(words', <<e>>) /\ Len(<<e>>) = written'
  BY <1>4, <1>7, <1>8, <1>9, KeptMore
<1>11. Sound(volume, <<e>>)
  <2>1. PICK list : list = <<e>>
    OBVIOUS
  <2>2. \A i \in 1 .. Len(list) : list[i] = e
    BY <2>1
  <2> QED
    BY <1>4, <2>1, <2>2 DEF Sound
<1>12. Walk(volume', g, <<e>>, stack') /\ Levels(volume', g) /\ Sound(volume', <<e>>)
  BY <1>1, <1>2, <1>5, <1>9, <1>11
<1> QED
  BY <1>10, <1>12 DEF Walked

LEMMA SoundMore ==
  ASSUME NEW v, NEW list \in Seq(Indexed), Sound(v, list), NEW entry,
         NEW x \in Reachable(v), entry = EntryOf(v, x), entry \in Indexed
  PROVE  Sound(v, Append(list, entry))
<1>1. PICK more : more = Append(list, entry)
  OBVIOUS
<1>2. /\ Len(more) = Len(list) + 1 /\ Len(list) \in Nat /\ more[Len(list) + 1] = entry
      /\ \A i \in 1 .. Len(list) : more[i] = list[i]
  BY <1>1
<1>3. \A i \in 1 .. Len(more) : i \in 1 .. Len(list) \/ i = Len(list) + 1
  BY <1>2
<1>4. Sound(v, more)
  BY <1>2, <1>3 DEF Sound
<1> QED
  BY <1>1, <1>4

LEMMA WriteWalks ==
  ASSUME NamesApart, TypeInv, WriteEntry, Walked(volume, words, written, stack, full)
  PROVE  Walked(volume', words', written', stack', full')
<1>1. stack # <<>> /\ Top.left # <<>> /\ ~Ignored(Listed)
  BY DEF WriteEntry, Walking
<1>2. volume \in Volumes /\ Calls(volume, stack) /\ written \in Nat /\ full \in BOOLEAN
  BY DEF TypeInv
<1>3. ListedEntry \in Indexed /\ ListedEntry.path = ListedPath
  BY <1>1, <1>2, ListedHas
<1>4. PICK g, list : /\ Levels(volume, g) /\ Kept(words, list) /\ (~full => Whole(words, list))
                     /\ Len(list) = written /\ Walk(volume, g, list, stack) /\ Sound(volume, list)
  BY DEF Walked
<1>5. list \in Seq(Indexed)
  BY <1>4, WholeHas
<1>6. PICK entry \in Indexed : entry = ListedEntry /\ entry.path = ListedPath
  BY <1>3
<1>7. /\ Walk(volume, g, Append(list, entry), Onward)
      /\ \E x \in Reachable(volume) : x.path = ListedPath /\ x.entry = Listed
  BY <1>1, <1>4, <1>5, <1>6, ListsOn
<1>8. stack' = Onward /\ volume' = volume /\ full' = full /\ written' = written + 1
      /\ words' = IF full THEN words ELSE words \o Words(entry)
  BY <1>6 DEF WriteEntry, Onward, Count, Put, ListedEntry
<1>9. Sound(volume, Append(list, entry))
  <2>1. PICK x \in Reachable(volume) : x.path = ListedPath /\ x.entry = Listed
    BY <1>7
  <2>2. entry = EntryOf(volume, x)
    BY <1>6, <2>1 DEF ListedEntry, EntryOf
  <2> QED
    BY <1>4, <1>5, <2>2, SoundMore
<1>10. /\ Kept(words', Append(list, entry)) /\ (~full' => Whole(words', Append(list, entry)))
       /\ Len(Append(list, entry)) = written'
  <2>1. CASE full
    BY <1>4, <1>8, <2>1, KeptMore
  <2>2. CASE ~full
    <3>1. words' = words \o Words(entry) /\ Whole(words, list) /\ Kept(words, list)
      BY <1>4, <1>8, <2>2
    <3>2. PICK ws, more : ws = words' /\ more = Append(list, entry)
      OBVIOUS
    <3>3. Whole(ws, more) /\ Len(more) = Len(list) + 1
      BY <3>1, <3>2, KeptMore
    <3>4. Kept(ws, more)
      BY <3>3 DEF Whole, Kept
    <3> QED
      BY <1>4, <1>8, <3>2, <3>3, <3>4
  <2> QED
    BY <2>1, <2>2
<1>11. /\ Walk(volume', g, Append(list, entry), stack') /\ Levels(volume', g)
       /\ Sound(volume', Append(list, entry))
  BY <1>4, <1>7, <1>8, <1>9
<1> QED
  BY <1>10, <1>11 DEF Walked

LEMMA GoesOn ==
  ASSUME NEW v \in Volumes, NEW ws, NEW n, NEW st, NEW cut, Calls(v, st), st # <<>>,
         Walked(v, ws, n, st, cut)
  PROVE  /\ (Last(st).left # <<>> /\ Ignored(Head(Last(st).left))) => Walked(v, ws, n, RestOf(st), cut)
         /\ Last(st).left = <<>> => Walked(v, ws, n, Front(st), cut)
<1>1. PICK g, list : /\ Levels(v, g) /\ Kept(ws, list) /\ (~cut => Whole(ws, list)) /\ Len(list) = n
                     /\ Walk(v, g, list, st) /\ Sound(v, list)
  BY DEF Walked
<1>2. ASSUME Last(st).left # <<>>, Ignored(Head(Last(st).left)) PROVE Walked(v, ws, n, RestOf(st), cut)
  <2>1. Walk(v, g, list, RestOf(st))
    BY <1>1, <1>2, WalkSkips
  <2> QED
    BY <1>1, <2>1 DEF Walked
<1>3. ASSUME Last(st).left = <<>> PROVE Walked(v, ws, n, Front(st), cut)
  <2>1. Walk(v, g, list, Front(st))
    BY <1>1, <1>3, WalkLeaves
  <2> QED
    BY <1>1, <2>1 DEF Walked
<1> QED
  BY <1>2, <1>3

LEMMA WalkedCut ==
  ASSUME NEW v, NEW ws, NEW n, NEW st, NEW cut, Walked(v, ws, n, st, cut), NEW k \in 0 .. Len(ws)
  PROVE  Walked(v, SubSeq(ws, 1, k), n, st, TRUE)
<1>1. PICK g, list : /\ Levels(v, g) /\ Kept(ws, list) /\ Len(list) = n
                     /\ Walk(v, g, list, st) /\ Sound(v, list)
  BY DEF Walked
<1>2. Kept(SubSeq(ws, 1, k), list)
  BY <1>1, KeptCut
<1> QED
  BY <1>1, <1>2 DEF Walked

LEMMA WalkInit == Init => WalkInv
<1> SUFFICES ASSUME Init PROVE WalkInv
  OBVIOUS
<1>1. file.words = <<>> /\ file.count = 0 /\ pc = "idle" /\ report = "none"
  BY DEF Init, NoFile
<1> QED
  BY <1>1, NothingTold DEF WalkInv

LEMMA WalkStep == NamesApart /\ TypeInv /\ WalkInv /\ [Next]_vars => WalkInv'
<1> SUFFICES ASSUME NamesApart, TypeInv, WalkInv, [Next]_vars PROVE WalkInv'
  OBVIOUS
<1>1. CASE CreateRefused
  BY <1>1 DEF CreateRefused, WalkInv
<1>2. CASE BeginCreate
  <2>1. Walked(volume', words', written', stack', full')
    BY <1>2, BeginWalks
  <2>2. file'.words = <<>> /\ file'.count = 0
    BY <1>2 DEF BeginCreate, NoFile
  <2>3. Tells(snapshot', file'.words, file'.count)
    BY <2>2, NothingTold
  <2> QED
    BY <1>2, <2>1, <2>3 DEF BeginCreate, WalkInv
<1>3. CASE WriteEntry
  <2>1. Walked(volume', words', written', stack', full')
    BY <1>3, WriteWalks DEF WalkInv, WriteEntry
  <2>2. /\ pc' = pc /\ full' = full /\ report' = report /\ file' = file /\ snapshot' = snapshot
        /\ volume' = volume /\ pc = "create"
    BY <1>3 DEF WriteEntry
  <2> QED
    BY <2>1, <2>2 DEF WalkInv
<1>4. CASE RunFull
  <2>1. PICK n \in 0 .. Len(words) : words' = SubSeq(words, 1, n)
    BY <1>4 DEF RunFull
  <2>2. /\ pc' = pc /\ full' = TRUE /\ report' = report /\ file' = file /\ snapshot' = snapshot
        /\ volume' = volume /\ pc = "create" /\ stack' = stack /\ written' = written
    BY <1>4 DEF RunFull
  <2>3. Walked(volume, words', written, stack, TRUE)
    BY <2>1, <2>2, WalkedCut DEF WalkInv
  <2> QED
    BY <2>2, <2>3 DEF WalkInv
<1>5. CASE CreateDone
  <2>1. /\ snapshot' = snapshot /\ stack = <<>> /\ pc = "create" /\ full' = full /\ pc' = "idle"
        /\ full \in BOOLEAN
    BY <1>5 DEF CreateDone, TypeInv
  <2>2. Walked(snapshot, words, written, <<>>, full)
    BY <2>1 DEF WalkInv
  <2>3. CASE report' = "failed" /\ file' = file
    BY <2>1, <2>3 DEF WalkInv
  <2>4. CASE file' = Made(written, words)
    <3>1. file'.words = words /\ file'.count = written
      BY <2>4 DEF Made
    <3>2. Tells(snapshot, words, written)
      BY <2>2, WalkedTells
    <3>3. ~full => Indexes(snapshot, words, written)
      <4> SUFFICES ASSUME ~full PROVE Indexes(snapshot, words, written)
        OBVIOUS
      <4>1. full = FALSE
        BY <2>1
      <4>2. Walked(snapshot, words, written, <<>>, FALSE)
        BY <2>2, <4>1
      <4> QED
        BY <4>2, WalkedAll
    <3> QED
      BY <2>1, <3>1, <3>2, <3>3 DEF WalkInv
  <2>5. CASE full /\ file' = Made(0, <<>>)
    <3>1. file'.words = <<>> /\ file'.count = 0
      BY <2>5 DEF Made
    <3> QED
      BY <2>1, <2>5, <3>1, NothingTold DEF WalkInv
  <2> QED
    BY <1>5, <2>3, <2>4, <2>5 DEF CreateDone
<1>6. CASE KillCreate
  <2>1. file'.words = <<>> /\ file'.count = 0 /\ report' = "none" /\ pc' = "idle"
    BY <1>6 DEF KillCreate, Made
  <2> QED
    BY <2>1, NothingTold DEF WalkInv
<1>7. CASE SkipEntry
  <2>1. stack # <<>> /\ Last(stack).left # <<>> /\ Ignored(Head(Last(stack).left)) /\ stack' = RestOf(stack)
    BY <1>7 DEF SkipEntry, Walking, Listed, Top, Rest, RestOf
  <2>2. pc = "create" => Walked(volume, words, written, stack', full)
    BY <2>1, GoesOn DEF WalkInv, TypeInv
  <2>3. /\ pc' = pc /\ full' = full /\ report' = report /\ file' = file /\ snapshot' = snapshot
        /\ volume' = volume /\ words' = words /\ written' = written
    BY <1>7 DEF SkipEntry
  <2> QED
    BY <2>2, <2>3 DEF WalkInv
<1>8. CASE LeaveDir
  <2>1. stack # <<>> /\ Last(stack).left = <<>> /\ stack' = Front(stack)
    BY <1>8 DEF LeaveDir, Walking, Top
  <2>2. pc = "create" => Walked(volume, words, written, stack', full)
    BY <2>1, GoesOn DEF WalkInv, TypeInv
  <2>3. /\ pc' = pc /\ full' = full /\ report' = report /\ file' = file /\ snapshot' = snapshot
        /\ volume' = volume /\ words' = words /\ written' = written
    BY <1>8 DEF LeaveDir
  <2> QED
    BY <2>2, <2>3 DEF WalkInv
<1>9. CASE Change
  BY <1>9 DEF Change, WalkInv
<1>10. CASE CompareRefused
  BY <1>10 DEF CompareRefused, Compare, WalkInv
<1>11. CASE BeginCompare
  BY <1>11 DEF BeginCompare, Compare, WalkInv
<1>12. CASE LiveEntry
  BY <1>12 DEF LiveEntry, WalkInv
<1>13. CASE LiveFails
  BY <1>13 DEF LiveFails, WalkInv
<1>14. CASE BuildTree
  BY <1>14 DEF BuildTree, WalkInv
<1>15. CASE UNCHANGED vars
  BY <1>15 DEF vars, WalkInv
<1> QED
  BY <1>1, <1>2, <1>3, <1>4, <1>5, <1>6, <1>7, <1>8, <1>9, <1>10, <1>11, <1>12, <1>13, <1>14, <1>15 DEF Next

------------------------------------------------------------------------------
(* The survey of the partition, for a comparison. *)

\* What live_array keeps of an entry.
Notes == [path : Seq(Nat), size : Nat, mtime : Nat]

NotedOf(x) == [path |-> x.path, size |-> x.entry.size, mtime |-> x.entry.mtime]

\* What is on the list is what is noted, after "/".
Alongside(list, notes) ==
  /\ Len(list) = Len(notes) + 1 /\ list[1].path = <<>>
  /\ \A i \in 1 .. Len(notes) : list[i + 1].path = notes[i].path

NotesTrue(v, notes) == \A i \in 1 .. Len(notes) : \E x \in Reachable(v) : notes[i] = NotedOf(x)

\* So far live_array has what the walk has listed.
Surveyed(v, notes, st) ==
  \E g, list : /\ Levels(v, g) /\ list \in Seq(Indexed) /\ Walk(v, g, list, st)
               /\ Alongside(list, notes) /\ NotesTrue(v, notes)

\* While the partition is surveyed.
LiveInv == pc = "live" => live \in Seq(Notes) /\ Surveyed(volume, live, stack)

LEMMA SurveyBegins ==
  ASSUME NamesApart, TypeInv, BeginCompare
  PROVE  live' \in Seq(Notes) /\ Surveyed(volume', live', stack')
<1>1. volume \in Volumes /\ volume.root \in DOMAIN volume.dirs /\ volume' = volume
  BY DEF TypeInv, BeginCompare, Readable
<1>2. PICK g : Levels(volume, g)
  BY <1>1, LevelsExist
<1>3. PICK f : f = [inode |-> volume.root, path |-> <<>>, left |-> volume.dirs[volume.root]]
  OBVIOUS
<1>4. PICK e \in Indexed : e.path = <<>>
  <2>1. <<>> \in Seq(Nat)
    OBVIOUS
  <2> QED
    BY <2>1, DirEntryIn
<1>5. Walk(volume, g, <<e>>, <<f>>)
  BY <1>1, <1>2, <1>3, <1>4, WalkBegins
<1>6. stack' = <<f>> /\ live' = <<>>
  BY <1>3 DEF BeginCompare, Call
<1>7. Alongside(<<e>>, <<>>) /\ NotesTrue(volume, <<>>) /\ <<e>> \in Seq(Indexed) /\ <<>> \in Seq(Notes)
  <2>1. PICK list, none : list = <<e>> /\ none = <<>>
    OBVIOUS
  <2>2. Len(list) = 1 /\ list[1] = e /\ Len(none) = 0 /\ 1 .. 0 = {}
    BY <2>1
  <2>3. Alongside(list, none) /\ NotesTrue(volume, none)
    BY <1>4, <2>2 DEF Alongside, NotesTrue
  <2> QED
    BY <2>1, <2>3
<1>8. Walk(volume', g, <<e>>, stack') /\ Levels(volume', g) /\ Alongside(<<e>>, live') /\ NotesTrue(volume', live')
  BY <1>1, <1>2, <1>5, <1>6, <1>7
<1> QED
  BY <1>6, <1>7, <1>8 DEF Surveyed

LEMMA SurveyGoesOn ==
  ASSUME NEW v \in Volumes, NEW notes, NEW st, Calls(v, st), st # <<>>, Surveyed(v, notes, st)
  PROVE  /\ (Last(st).left # <<>> /\ Ignored(Head(Last(st).left))) => Surveyed(v, notes, RestOf(st))
         /\ Last(st).left = <<>> => Surveyed(v, notes, Front(st))
<1>1. PICK g, list : /\ Levels(v, g) /\ list \in Seq(Indexed) /\ Walk(v, g, list, st)
                     /\ Alongside(list, notes) /\ NotesTrue(v, notes)
  BY DEF Surveyed
<1>2. ASSUME Last(st).left # <<>>, Ignored(Head(Last(st).left)) PROVE Surveyed(v, notes, RestOf(st))
  <2>1. Walk(v, g, list, RestOf(st))
    BY <1>1, <1>2, WalkSkips
  <2> QED
    BY <1>1, <2>1 DEF Surveyed
<1>3. ASSUME Last(st).left = <<>> PROVE Surveyed(v, notes, Front(st))
  <2>1. Walk(v, g, list, Front(st))
    BY <1>1, <1>3, WalkLeaves
  <2> QED
    BY <1>1, <2>1 DEF Surveyed
<1> QED
  BY <1>2, <1>3

LEMMA NotesMore ==
  ASSUME NEW v, NEW list \in Seq(Indexed), NEW notes \in Seq(Notes), Alongside(list, notes), NotesTrue(v, notes),
         NEW entry \in Indexed, NEW note \in Notes, entry.path = note.path,
         NEW x \in Reachable(v), note = NotedOf(x)
  PROVE  /\ Append(list, entry) \in Seq(Indexed) /\ Append(notes, note) \in Seq(Notes)
         /\ Alongside(Append(list, entry), Append(notes, note)) /\ NotesTrue(v, Append(notes, note))
<1>1. PICK more, ns : more = Append(list, entry) /\ ns = Append(notes, note)
  OBVIOUS
<1>2. /\ more \in Seq(Indexed) /\ ns \in Seq(Notes) /\ Len(list) \in Nat /\ Len(notes) \in Nat
      /\ Len(more) = Len(list) + 1 /\ Len(ns) = Len(notes) + 1
      /\ more[Len(list) + 1] = entry /\ ns[Len(notes) + 1] = note
      /\ \A i \in 1 .. Len(list) : more[i] = list[i]
      /\ \A i \in 1 .. Len(notes) : ns[i] = notes[i]
  BY <1>1
<1>3. Len(list) = Len(notes) + 1
  BY DEF Alongside
<1>4. 1 \in 1 .. Len(list) /\ \A i \in 1 .. Len(notes) : i + 1 \in 1 .. Len(list)
  BY <1>2, <1>3
<1>5. \A i \in 1 .. Len(ns) : i \in 1 .. Len(notes) \/ (i = Len(notes) + 1 /\ i + 1 = Len(list) + 1)
  BY <1>2, <1>3
<1>6. \A i \in 1 .. Len(ns) : more[i + 1].path = ns[i].path
  <2> SUFFICES ASSUME NEW i \in 1 .. Len(ns) PROVE more[i + 1].path = ns[i].path
    OBVIOUS
  <2>1. CASE i \in 1 .. Len(notes)
    <3>1. more[i + 1] = list[i + 1] /\ ns[i] = notes[i]
      BY <1>2, <1>4, <2>1
    <3> QED
      BY <2>1, <3>1 DEF Alongside
  <2>2. CASE i = Len(notes) + 1 /\ i + 1 = Len(list) + 1
    BY <1>2, <2>2
  <2> QED
    BY <1>5, <2>1, <2>2
<1>7. Len(more) = Len(ns) + 1 /\ more[1].path = <<>>
  BY <1>2, <1>3, <1>4 DEF Alongside
<1>8. Alongside(more, ns)
  BY <1>6, <1>7 DEF Alongside
<1>9. NotesTrue(v, ns)
  BY <1>2, <1>5 DEF NotesTrue
<1> QED
  BY <1>1, <1>2, <1>8, <1>9

LEMMA LiveSurveys ==
  ASSUME NamesApart, TypeInv, LiveEntry, live \in Seq(Notes), Surveyed(volume, live, stack)
  PROVE  live' \in Seq(Notes) /\ Surveyed(volume', live', stack')
<1>1. stack # <<>> /\ Top.left # <<>> /\ ~Ignored(Listed) /\ volume' = volume
  BY DEF LiveEntry, Walking
<1>2. volume \in Volumes /\ Calls(volume, stack)
  BY DEF TypeInv
<1>3. ListedPath \in Seq(Nat) /\ Listed \in Listings
  BY <1>1, <1>2, ListedHas
<1>4. PICK g, list : /\ Levels(volume, g) /\ list \in Seq(Indexed) /\ Walk(volume, g, list, stack)
                     /\ Alongside(list, live) /\ NotesTrue(volume, live)
  BY DEF Surveyed
<1>5. PICK entry \in Indexed : entry.path = ListedPath
  BY <1>3, DirEntryIn
<1>6. /\ Walk(volume, g, Append(list, entry), Onward)
      /\ \E x \in Reachable(volume) : x.path = ListedPath /\ x.entry = Listed
  BY <1>1, <1>4, <1>5, ListsOn
<1>7. stack' = Onward
  BY DEF LiveEntry, Onward
<1>8. PICK note \in Notes : note = Noted(Listed) /\ note.path = ListedPath
  <2>1. Listed.size \in Nat /\ Listed.mtime \in Nat
    BY <1>3 DEF Listings
  <2>2. PICK path, size, mtime : path = ListedPath /\ size = Listed.size /\ mtime = Listed.mtime
    OBVIOUS
  <2>3. PICK note : note = [path |-> path, size |-> size, mtime |-> mtime]
    OBVIOUS
  <2>4. note \in Notes /\ note.path = path
    BY <1>3, <2>1, <2>2, <2>3 DEF Notes
  <2>5. note = Noted(Listed)
    BY <2>2, <2>3 DEF Noted
  <2> QED
    BY <2>2, <2>4, <2>5
<1>9. PICK x \in Reachable(volume) : note = NotedOf(x)
  BY <1>6, <1>8 DEF Noted, NotedOf
<1>10. live' = Append(live, note)
  BY <1>8 DEF LiveEntry
<1>11. /\ Append(list, entry) \in Seq(Indexed) /\ Append(live, note) \in Seq(Notes)
       /\ Alongside(Append(list, entry), Append(live, note)) /\ NotesTrue(volume, Append(live, note))
  BY <1>4, <1>5, <1>8, <1>9, NotesMore
<1>12. /\ Walk(volume', g, Append(list, entry), stack') /\ Levels(volume', g)
       /\ Alongside(Append(list, entry), live') /\ NotesTrue(volume', live')
  BY <1>1, <1>4, <1>6, <1>7, <1>10, <1>11
<1> QED
  BY <1>10, <1>11, <1>12 DEF Surveyed

\* live_array has everything there is, as it is.
Tallied(v, notes) ==
  NotesTrue(v, notes) /\ \A x \in Reachable(v) : \E j \in 1 .. Len(notes) : notes[j].path = x.path

LEMMA SurveyEnds ==
  ASSUME NEW v \in Volumes, NEW notes \in Seq(Notes), Surveyed(v, notes, <<>>)
  PROVE  Tallied(v, notes) /\ \E g : Levels(v, g)
<1>1. PICK g, list : /\ Levels(v, g) /\ list \in Seq(Indexed) /\ Walk(v, g, list, <<>>)
                     /\ Alongside(list, notes) /\ NotesTrue(v, notes)
  BY DEF Surveyed
<1>2. \A path : ~Pending(<<>>, path)
  <2>1. 1 .. Len(<<>>) = {}
    OBVIOUS
  <2> QED
    BY <2>1 DEF Pending
<1>3. ASSUME NEW x \in Reachable(v) PROVE \E j \in 1 .. Len(notes) : notes[j].path = x.path
  <2>1. OnList(list, x.path)
    BY <1>1, <1>2 DEF Walk, Covered
  <2>2. PICK i \in 1 .. Len(list) : list[i].path = x.path
    BY <2>1 DEF OnList
  <2>3. Len(list) = Len(notes) + 1 /\ list[1].path = <<>> /\ Len(notes) \in Nat
    BY <1>1 DEF Alongside
  <2>4. i # 1
    <3>1. Len(x.path) \in 1 .. MaxDepth /\ MaxDepth \in Nat
      BY <1>1, ReachedHas, BackupAssumption
    <3>2. x.path # <<>>
      BY <3>1
    <3> QED
      BY <2>2, <2>3, <3>2
  <2>5. PICK j \in 1 .. Len(notes) : i = j + 1
    <3>1. i - 1 \in 1 .. Len(notes) /\ i = (i - 1) + 1
      BY <2>2, <2>3, <2>4
    <3> QED
      BY <3>1
  <2> QED
    BY <1>1, <2>2, <2>5 DEF Alongside
<1> QED
  BY <1>1, <1>3 DEF Tallied

LEMMA LiveInit == Init => LiveInv
  BY DEF Init, LiveInv

LEMMA LiveStep == NamesApart /\ TypeInv /\ LiveInv /\ [Next]_vars => LiveInv'
<1> SUFFICES ASSUME NamesApart, TypeInv, LiveInv, [Next]_vars PROVE LiveInv'
  OBVIOUS
<1>1. CASE CreateRefused \/ BeginCreate \/ WriteEntry \/ RunFull \/ CreateDone \/ KillCreate \/ Change
           \/ CompareRefused \/ LiveFails \/ BuildTree
  <2>1. pc' # "live"
    BY <1>1 DEF CreateRefused, BeginCreate, WriteEntry, RunFull, CreateDone, KillCreate, Change,
                CompareRefused, Compare, LiveFails, BuildTree
  <2> QED
    BY <2>1 DEF LiveInv
<1>2. CASE SkipEntry
  <2>1. stack # <<>> /\ Last(stack).left # <<>> /\ Ignored(Head(Last(stack).left)) /\ stack' = RestOf(stack)
    BY <1>2 DEF SkipEntry, Walking, Listed, Top, Rest, RestOf
  <2>2. pc = "live" => live \in Seq(Notes) /\ Surveyed(volume, live, stack')
    BY <2>1, SurveyGoesOn DEF LiveInv, TypeInv
  <2>3. pc' = pc /\ volume' = volume /\ live' = live
    BY <1>2 DEF SkipEntry
  <2> QED
    BY <2>2, <2>3 DEF LiveInv
<1>3. CASE LeaveDir
  <2>1. stack # <<>> /\ Last(stack).left = <<>> /\ stack' = Front(stack)
    BY <1>3 DEF LeaveDir, Walking, Top
  <2>2. pc = "live" => live \in Seq(Notes) /\ Surveyed(volume, live, stack')
    BY <2>1, SurveyGoesOn DEF LiveInv, TypeInv
  <2>3. pc' = pc /\ volume' = volume /\ live' = live
    BY <1>3 DEF LeaveDir
  <2> QED
    BY <2>2, <2>3 DEF LiveInv
<1>4. CASE BeginCompare
  BY <1>4, SurveyBegins DEF LiveInv
<1>5. CASE LiveEntry
  <2>1. live' \in Seq(Notes) /\ Surveyed(volume', live', stack')
    BY <1>5, LiveSurveys DEF LiveInv, LiveEntry
  <2> QED
    BY <2>1 DEF LiveInv
<1>6. CASE UNCHANGED vars
  BY <1>6 DEF vars, LiveInv
<1> QED
  BY <1>1, <1>2, <1>3, <1>4, <1>5, <1>6 DEF Next

\* A backup reported as created, to a destination that had room, reads back in full.
LEMMA CompleteIs ==
  ASSUME TypeInv, WalkInv, NamesApart
  PROVE  BackupComplete
<1> SUFFICES ASSUME report = "created", ~full
             PROVE  With(LoadFile(file), LAMBDA loaded : With(Reachable(snapshot), LAMBDA all :
                      /\ {loaded[k].path : k \in DOMAIN loaded} = {<<>>} \cup {x.path : x \in all}
                      /\ Len(loaded) = Cardinality(all) + 1))
  BY DEF BackupComplete
<1>1. PICK list, set : list = LoadFile(file) /\ set = Reachable(snapshot)
  OBVIOUS
<1>2. Complete(list, set)
  <2>1. snapshot \in Volumes /\ Indexes(snapshot, file.words, file.count)
    BY DEF TypeInv, WalkInv
  <2>2. PICK f, v : f = file /\ v = snapshot
    OBVIOUS
  <2>3. Complete(LoadFile(f), Reachable(v))
    BY <2>1, <2>2, IndexRead
  <2> QED
    BY <1>1, <2>2, <2>3
<1> DEFINE Q(loaded) == CHOOSE r \in {Complete(loaded, all) : all \in {set}} : TRUE
<1>3. With(LoadFile(file), LAMBDA loaded : With(Reachable(snapshot), LAMBDA all : Complete(loaded, all)))
        = CHOOSE r \in {Q(loaded) : loaded \in {list}} : TRUE
  BY <1>1 DEF With
<1>4. Q(list) = Complete(list, set)
  <2>1. {Complete(list, all) : all \in {set}} = {Complete(list, set)}
    OBVIOUS
  <2> QED
    BY <2>1, Choice
<1> HIDE DEF Q
<1>5. {Q(loaded) : loaded \in {list}} = {Q(list)}
  OBVIOUS
<1>6. With(LoadFile(file), LAMBDA loaded : With(Reachable(snapshot), LAMBDA all : Complete(loaded, all)))
  BY <1>2, <1>3, <1>4, <1>5, Choice
<1> QED
  BY <1>6 DEF Complete

\* A backup reported as created, to a destination that had room, reads back as one entry for
\* every entry the walk could reach and one for "/", whatever the partition holds and
\* however deep it is, if no directory has a name twice (backup_walk_dir, write_backup_entry,
\* backup_restore).
THEOREM BackupIsComplete ==
  ASSUME NamesApart
  PROVE  Spec => []BackupComplete
<1>1. TypeInv /\ WalkInv => BackupComplete
  BY CompleteIs
<1>2. Init => TypeInv /\ WalkInv
  BY TypeInit, WalkInit
<1>3. (TypeInv /\ WalkInv) /\ [Next]_vars => (TypeInv /\ WalkInv)'
  BY TypeStep, WalkStep
<1> QED
  BY <1>1, <1>2, <1>3, PTL DEF Spec

------------------------------------------------------------------------------
(* What the comparison makes of it. *)

\* What is at a path.
NowAt(all, path) == {x.entry : x \in {x \in all : x.path = path}}

Unchanged(e, entry) == e.size = entry.size /\ e.mtime = entry.mtime

\* live_array, sorted and searched, says what there is at a path.
LEMMA FindsNow ==
  ASSUME NEW v \in Volumes, NamesApart, NEW g, Levels(v, g), NEW notes \in Seq(Notes), Tallied(v, notes),
         NEW sorted, sorted = Sorted(notes), NEW path \in Seq(Nat)
  PROVE  /\ FindLive(sorted, path) = {} <=> NowAt(Reachable(v), path) = {}
         /\ \A entry : (\E e \in FindLive(sorted, path) : Unchanged(e, entry))
                         <=> \E e \in NowAt(Reachable(v), path) : Unchanged(e, entry)
<1>1. Pathed(Notes)
  BY DEF Pathed, Notes
<1>2. sorted \in Seq(Notes) /\ InOrder(sorted) /\ SameEntries(sorted, notes, Len(notes))
  BY <1>1, SortedIs
<1>3. \A x : (\E j \in 1 .. Len(sorted) : sorted[j] = x) <=> \E j \in 1 .. Len(notes) : notes[j] = x
  BY <1>2 DEF SameEntries
<1>4. PICK found : found = FindLive(sorted, path)
  OBVIOUS
<1>5. /\ found = {} => \A j \in 1 .. Len(sorted) : sorted[j].path # path
      /\ found # {} => \E j \in 1 .. Len(sorted) : found = {sorted[j]} /\ sorted[j].path = path
  BY <1>1, <1>2, <1>4, FindLiveIs
<1>6. PICK all : all = Reachable(v)
  OBVIOUS
<1>7. ASSUME found = {} PROVE NowAt(all, path) = {}
  <2> SUFFICES ASSUME NEW x \in all, x.path = path PROVE FALSE
    BY DEF NowAt
  <2>1. PICK j \in 1 .. Len(notes) : notes[j].path = x.path
    BY <1>6 DEF Tallied
  <2>2. PICK k \in 1 .. Len(sorted) : sorted[k] = notes[j]
    BY <1>3, <2>1
  <2> QED
    BY <1>5, <1>7, <2>1, <2>2
<1>8. ASSUME found # {}
      PROVE  \E x \in all : x.path = path /\ found = {NotedOf(x)} /\ NowAt(all, path) = {x.entry}
  <2>1. PICK j \in 1 .. Len(sorted) : found = {sorted[j]} /\ sorted[j].path = path
    BY <1>5, <1>8
  <2>2. PICK k \in 1 .. Len(notes) : notes[k] = sorted[j]
    BY <1>3, <2>1
  <2>3. PICK x \in all : notes[k] = NotedOf(x)
    BY <1>6, <2>2 DEF Tallied, NotesTrue
  <2>4. x.path = path
    BY <2>1, <2>2, <2>3 DEF NotedOf
  <2>5. \A y \in all : y.path = path => y = x
    BY <1>6, <2>4, PlacesApart DEF OnePlace
  <2>6. NowAt(all, path) = {x.entry}
    BY <2>4, <2>5 DEF NowAt
  <2> QED
    BY <2>1, <2>2, <2>3, <2>4, <2>6
<1>9. CASE found = {}
  BY <1>4, <1>6, <1>7, <1>9
<1>10. CASE found # {}
  <2>1. PICK x \in all : found = {NotedOf(x)} /\ NowAt(all, path) = {x.entry}
    BY <1>8, <1>10
  <2>2. NotedOf(x).size = x.entry.size /\ NotedOf(x).mtime = x.entry.mtime
    BY DEF NotedOf
  <2>3. \A entry : Unchanged(NotedOf(x), entry) <=> Unchanged(x.entry, entry)
    BY <2>2 DEF Unchanged
  <2> QED
    BY <1>4, <1>6, <2>1, <2>3
<1> QED
  BY <1>9, <1>10

\* What ComparisonExact says of a file of the index, from what is there and what is shown.
ExactAt(entry, now, shown) ==
  IF \E e \in now : Unchanged(e, entry) THEN shown = {}
  ELSE \E node \in shown : /\ ~node.dir /\ node.size = entry.size
                           /\ node.deleted <=> now = {}
                           /\ node.src = IF now = {} THEN <<"restored">> ELSE <<"modified">>

NodesOf(t, path) == {t[i] : i \in FindPath(t, path)}

Exact(entries, all, t) ==
  \A entry \in {e \in ToSet(entries) : ~e.dir} : ExactAt(entry, NowAt(all, entry.path), NodesOf(t, entry.path))

LEMMA NodesAt ==
  ASSUME NEW t \in Trees(Nat, Sources), Distinct(t), NEW path \in Seq(Nat), path # <<>>
  PROVE  \A i : i \in FindPath(t, path) <=> i \in DOMAIN t /\ FullPath(t, i) = path
<1>1. FindPath(t, path) = {i \in 0 .. Len(t) : FullPath(t, i) = path}
  BY FindsPaths
<1>2. DOMAIN t = 1 .. Len(t) /\ Len(t) \in Nat
  BY TreeHas
<1>3. FullPath(t, 0) = <<>>
  BY FullPathIs DEF Root
<1>4. \A i : i \in 0 .. Len(t) <=> i = 0 \/ i \in DOMAIN t
  BY <1>2
<1> QED
  BY <1>1, <1>3, <1>4

LEMMA ExactIs ==
  ASSUME NEW v \in Volumes, NamesApart, NEW g, Levels(v, g), NEW notes \in Seq(Notes), Tallied(v, notes),
         NEW entries \in Seq(Indexed), Leaves(entries),
         \A k \in 1 .. Len(entries) : ~entries[k].dir => entries[k].path # <<>>,
         NEW t \in Trees(Nat, Sources), JudgedSome(t, entries, Sorted(notes), Len(entries))
  PROVE  Exact(entries, Reachable(v), t)
<1>1. PICK sorted : sorted = Sorted(notes)
  OBVIOUS
<1>2. PICK all : all = Reachable(v)
  OBVIOUS
<1>3. Distinct(t)
  BY DEF JudgedSome
<1>4. ASSUME NEW k \in 1 .. Len(entries), NEW entry, entry = entries[k], ~entry.dir,
             NEW now, now = NowAt(all, entry.path), NEW shown, shown = NodesOf(t, entry.path)
      PROVE  ExactAt(entry, now, shown)
  <2>1. PICK path \in Seq(Nat) : path = entry.path /\ path # <<>>
    BY <1>4, IndexedHas
  <2>2. PICK found : found = FindLive(sorted, path)
    OBVIOUS
  <2>3. /\ found = {} <=> now = {}
        /\ (\E e \in found : Unchanged(e, entry)) <=> \E e \in now : Unchanged(e, entry)
    BY <1>1, <1>2, <1>4, <2>1, <2>2, FindsNow
  <2>4. Same(sorted, entry) <=> \E e \in now : Unchanged(e, entry)
    BY <2>1, <2>2, <2>3 DEF Same, Unchanged
  <2>5. \A i : i \in FindPath(t, path) <=> i \in DOMAIN t /\ FullPath(t, i) = path
    BY <1>3, <2>1, NodesAt
  <2>6. CASE Same(sorted, entry)
    <3>1. ASSUME NEW i \in FindPath(t, path) PROVE FALSE
      <4>1. i \in DOMAIN t /\ FullPath(t, i) = path
        BY <2>5, <3>1
      <4>2. PICK n \in 1 .. Len(entries) :
              /\ ~Same(sorted, entries[n])
              /\ \E m \in 1 .. Len(entries[n].path) : FullPath(t, i) = SubSeq(entries[n].path, 1, m)
        BY <1>1, <4>1 DEF JudgedSome
      <4>3. PICK m \in 1 .. Len(entries[n].path) : path = SubSeq(entries[n].path, 1, m)
        BY <4>1, <4>2
      <4>4. m \in 0 .. Len(entries[n].path)
        OBVIOUS
      <4>5. k = n
        BY <1>4, <2>1, <4>3, <4>4 DEF Leaves
      <4> QED
        BY <1>4, <2>6, <4>2, <4>5
    <3>2. shown = {}
      BY <1>4, <2>1, <3>1 DEF NodesOf
    <3> QED
      BY <2>4, <2>6, <3>2 DEF ExactAt
  <2>7. CASE ~Same(sorted, entry)
    <3>1. PICK i \in DOMAIN t : FullPath(t, i) = path /\ ShowsAs(t[i], entry, sorted)
      BY <1>1, <1>4, <2>1, <2>7 DEF JudgedSome
    <3>2. t[i] \in shown
      BY <1>4, <2>1, <2>5, <3>1 DEF NodesOf
    <3>3. /\ ~t[i].dir /\ t[i].size = entry.size
          /\ t[i].deleted <=> now = {}
          /\ t[i].src = IF now = {} THEN <<"restored">> ELSE <<"modified">>
      BY <2>1, <2>2, <2>3, <3>1 DEF ShowsAs
    <3> QED
      BY <2>4, <2>7, <3>2, <3>3 DEF ExactAt
  <2> QED
    BY <2>6, <2>7
<1>5. \A entry \in ToSet(entries) : \E k \in 1 .. Len(entries) : entry = entries[k]
  BY DEF ToSet
<1> QED
  BY <1>2, <1>4, <1>5 DEF Exact

\* Whatever is at the path of a file that was backed up has the clusters of that file.
Keeps(v, t) ==
  \A x \in Reachable(v) : ~x.entry.dir => \A i \in FindPath(t, x.path) : t[i].clusters = Collect(v, x.entry).clusters

LEMMA KeepsIs ==
  ASSUME NEW v \in Volumes, NamesApart, NEW g, Levels(v, g), NEW entries \in Seq(Indexed), Sound(v, entries),
         NEW sorted, NEW t \in Trees(Nat, Sources), JudgedSome(t, entries, sorted, Len(entries))
  PROVE  Keeps(v, t)
<1> SUFFICES ASSUME NEW x \in Reachable(v), ~x.entry.dir, NEW i \in FindPath(t, x.path)
             PROVE  t[i].clusters = Collect(v, x.entry).clusters
  BY DEF Keeps
<1>1. PICK path \in Seq(Nat) : path = x.path /\ path # <<>>
  <2>1. x.path \in Seq(Nat) /\ Len(x.path) \in 1 .. MaxDepth /\ MaxDepth \in Nat
    BY ReachedHas, BackupAssumption
  <2>2. x.path # <<>>
    BY <2>1
  <2> QED
    BY <2>1, <2>2
<1>2. Distinct(t)
  BY DEF JudgedSome
<1>3. i \in DOMAIN t /\ FullPath(t, i) = path
  BY <1>1, <1>2, NodesAt
<1>4. PICK n \in 1 .. Len(entries) :
        /\ ~Same(sorted, entries[n])
        /\ \E m \in 1 .. Len(entries[n].path) : FullPath(t, i) = SubSeq(entries[n].path, 1, m)
  BY <1>3 DEF JudgedSome
<1>5. PICK m \in 1 .. Len(entries[n].path) : path = SubSeq(entries[n].path, 1, m)
  BY <1>3, <1>4
<1>6. PICK q \in Seq(Nat) : q = entries[n].path /\ m \in 1 .. Len(q)
  BY IndexedHas
<1>7. entries[n] # DirEntry(<<>>)
  <2>1. q # <<>>
    BY <1>6
  <2> QED
    BY <1>6, <2>1 DEF DirEntry
<1>8. PICK y \in Reachable(v) : entries[n] = EntryOf(v, y)
  BY <1>7 DEF Sound
<1>9. /\ q = y.path /\ entries[n].dir = y.entry.dir
      /\ ~y.entry.dir => entries[n].clusters = Collect(v, y.entry).clusters
  BY <1>6, <1>8, EntryOfHas
<1>10. x = y
  BY <1>1, <1>5, <1>6, <1>9, NothingBelow
<1>11. PICK j \in DOMAIN t : FullPath(t, j) = entries[n].path /\ ShowsAs(t[j], entries[n], sorted)
  BY <1>4, <1>9, <1>10 DEF JudgedSome
<1>12. i = j
  <2>1. i \in 0 .. Len(t) /\ j \in 0 .. Len(t)
    BY <1>3, <1>11, NodeHas
  <2>2. FullPath(t, i) = FullPath(t, j)
    BY <1>1, <1>3, <1>6, <1>9, <1>10, <1>11
  <2> QED
    BY <1>2, <2>1, <2>2, OnePath
<1> QED
  BY <1>9, <1>10, <1>11, <1>12 DEF ShowsAs

------------------------------------------------------------------------------
(* A list of clusters that is collected from a layout that is kept. *)

\* Following a chain gives the chain.
LEMMA FollowOwn ==
  ASSUME NEW v, v.last \in Nat, NEW e, ChainIsOwn(v, e), Len(e.own) <= MaxClusters
  PROVE  Follow(v, e.inode) = e.own
<1>1. PICK own, first : own = e.own /\ first = e.inode
  OBVIOUS
<1>2. PICK L \in Nat : L = Len(own) /\ own \in Seq(2 .. v.last + 1)
  BY <1>1 DEF ChainIsOwn
<1> DEFINE Comes(k) == IF k = 0 THEN first ELSE NextCluster(v, own[k])
<1>3. \A k \in 0 .. L : IF k < L THEN Comes(k) = own[k + 1] ELSE Comes(k) \notin 2 .. v.last + 1
  BY <1>1, <1>2 DEF ChainIsOwn
<1>4. L <= MaxClusters /\ MaxClusters \in Nat
  BY <1>1, <1>2, BackupAssumption
<1>5. PICK g : FollowMakes(g, v, first, MaxClusters, FollowStates(v, first))
  BY FollowGoes
<1>6. /\ g[0] = [cluster |-> first, list |-> <<>>] /\ Follow(v, first) = g[MaxClusters].list
      /\ \A n \in 1 .. MaxClusters : g[n] = FollowTurn(v, g[n - 1])
  BY <1>5 DEF FollowMakes
<1> HIDE DEF Comes
<1> DEFINE Reached(n, m) == g[n] = [cluster |-> Comes(m), list |-> SubSeq(own, 1, m)]
           T == {n \in 0 .. MaxClusters : ~\E m \in 0 .. L : Reached(n, m) /\ (m = L \/ m = n)}
<1>7. Reached(0, 0)
  <2>1. SubSeq(own, 1, 0) = <<>>
    BY <1>2, PrefixIs
  <2> QED
    BY <1>6, <2>1 DEF Comes
<1>8. ASSUME NEW n \in 1 .. MaxClusters, NEW m \in 0 .. L, Reached(n - 1, m), m = L \/ m = n - 1
      PROVE  \E k \in 0 .. L : Reached(n, k) /\ (k = L \/ k = n)
  <2>1. PICK s : s = g[n - 1] /\ s = [cluster |-> Comes(m), list |-> SubSeq(own, 1, m)]
    BY <1>8
  <2>2. s.cluster = Comes(m) /\ s.list = SubSeq(own, 1, m) /\ g[n] = FollowTurn(v, s)
    <3>1. PICK at, sub : at = Comes(m) /\ sub = SubSeq(own, 1, m)
      OBVIOUS
    <3>2. s = [cluster |-> at, list |-> sub]
      BY <2>1, <3>1
    <3>3. s.cluster = at /\ s.list = sub
      BY ONLY <3>2
    <3> QED
      BY <1>6, <2>1, <3>1, <3>3
  <2>3. CASE m = L
    <3>1. Comes(m) \notin 2 .. v.last + 1
      BY <1>2, <1>3, <2>3
    <3>2. g[n] = s
      BY <2>2, <3>1 DEF FollowTurn
    <3> QED
      BY <2>1, <2>3, <3>2
  <2>4. CASE m # L
    <3>1. m = n - 1 /\ m + 1 = n /\ m < L /\ n \in 1 .. L /\ n \in 0 .. L /\ n # 0
      BY <1>2, <1>4, <1>8, <2>4
    <3>2. Comes(m) = own[n]
      BY <1>3, <3>1
    <3>3. own[n] \in 2 .. v.last + 1
      BY <1>2, <3>1
    <3>4. g[n] = [cluster |-> NextCluster(v, own[n]), list |-> Append(SubSeq(own, 1, n - 1), own[n])]
      BY <2>2, <3>1, <3>2, <3>3 DEF FollowTurn
    <3>5. SubSeq(own, 1, n) = Append(SubSeq(own, 1, n - 1), own[n])
      BY <1>2, <3>1, PrefixIs
    <3>6. Reached(n, n)
      BY <3>1, <3>4, <3>5 DEF Comes
    <3> QED
      BY <3>1, <3>6
  <2> QED
    BY <2>3, <2>4
<1>9. T = {}
  <2> SUFFICES ASSUME T # {} PROVE FALSE
    OBVIOUS
  <2>0. T \in SUBSET Nat
    OBVIOUS
  <2>1. \A n : n \in T <=> n \in 0 .. MaxClusters /\ ~\E m \in 0 .. L : Reached(n, m) /\ (m = L \/ m = n)
    OBVIOUS
  <2> HIDE DEF T, Reached
  <2>2. PICK n \in T : \A k \in T : n <= k
    BY <2>0, LeastNat
  <2>3. n \in 0 .. MaxClusters /\ ~\E m \in 0 .. L : Reached(n, m) /\ (m = L \/ m = n)
    BY <2>1
  <2>4. n # 0
    BY <1>2, <1>7, <2>3
  <2>5. n \in 1 .. MaxClusters /\ n - 1 \in 0 .. MaxClusters /\ ~(n <= n - 1)
    BY <1>4, <2>3, <2>4
  <2>6. PICK m \in 0 .. L : Reached(n - 1, m) /\ (m = L \/ m = n - 1)
    BY <2>1, <2>2, <2>5
  <2> QED
    BY <1>8, <2>3, <2>5, <2>6
<1>10. PICK m \in 0 .. L : Reached(MaxClusters, m) /\ (m = L \/ m = MaxClusters)
  <2>1. MaxClusters \in 0 .. MaxClusters
    BY <1>4
  <2> HIDE DEF Reached
  <2> QED
    BY <1>9, <2>1
<1>11. m = L
  BY <1>2, <1>4, <1>10
<1>12. Follow(v, first) = SubSeq(own, 1, L)
  BY <1>6, <1>10, <1>11
<1> QED
  BY <1>1, <1>2, <1>12, PrefixIs

\* A list that is read through leaves what there is.
LEMMA MappedOwn ==
  ASSUME NEW list \in Seq(Int), Len(list) <= MaxClusters, \A k \in 1 .. Len(list) : list[k] >= 0
  PROVE  Mapped(list) = list
<1>1. PICK L \in Nat : L = Len(list)
  OBVIOUS
<1>2. MappedStays(list, L, Seq(Int))
  BY <1>1 DEF MappedTurn, MappedStays
<1>3. <<>> \in Seq(Int)
  OBVIOUS
<1>4. PICK g : MappedMakes(g, list, L, Seq(Int))
  BY <1>2, <1>3, MappedLoop
<1>5. /\ g[0] = <<>> /\ Mapped(list) = g[L]
      /\ \A n \in 1 .. L : g[n] = MappedTurn(g[n - 1], list[n])
  BY <1>1, <1>4 DEF MappedMakes
<1>6. L <= MaxClusters /\ MaxClusters \in Nat
  BY <1>1, BackupAssumption
<1>7. ASSUME NEW n \in 1 .. L, g[n - 1] = SubSeq(list, 1, n - 1) PROVE g[n] = SubSeq(list, 1, n)
  <2>1. n \in 0 .. Len(list) /\ n # 0 /\ n - 1 \in 0 .. Len(list) /\ n \in 1 .. Len(list)
    BY <1>1
  <2>2. Len(SubSeq(list, 1, n - 1)) = n - 1
    BY <2>1, PrefixIs
  <2>3. SubSeq(list, 1, n) = Append(SubSeq(list, 1, n - 1), list[n])
    BY <2>1, PrefixIs
  <2>4. list[n] >= 0 /\ list[n] \in Int /\ n - 1 # MaxClusters
    BY <1>1, <1>6, <2>1
  <2>5. ~(list[n] < 0)
    BY <2>4
  <2> QED
    BY <1>5, <1>7, <2>2, <2>3, <2>4, <2>5 DEF MappedTurn
<1> DEFINE T == {n \in 0 .. L : g[n] # SubSeq(list, 1, n)}
<1>8. T = {}
  <2> SUFFICES ASSUME T # {} PROVE FALSE
    OBVIOUS
  <2>0. T \in SUBSET Nat
    OBVIOUS
  <2>1. \A n : n \in T <=> n \in 0 .. L /\ g[n] # SubSeq(list, 1, n)
    OBVIOUS
  <2> HIDE DEF T
  <2>2. PICK n \in T : \A k \in T : n <= k
    BY <2>0, LeastNat
  <2>3. SubSeq(list, 1, 0) = <<>>
    BY <1>1, PrefixIs
  <2>4. n \in 1 .. L /\ n - 1 \in 0 .. L /\ ~(n <= n - 1)
    <3>1. n \in 0 .. L /\ g[n] # SubSeq(list, 1, n)
      BY <2>1
    <3>2. n # 0
      BY <1>5, <2>3, <3>1
    <3> QED
      BY ONLY <3>1, <3>2, L \in Nat
  <2>5. g[n - 1] = SubSeq(list, 1, n - 1)
    BY <2>1, <2>2, <2>4
  <2> QED
    BY <1>7, <2>1, <2>4, <2>5
<1>9. g[L] = SubSeq(list, 1, L)
  BY <1>8
<1> QED
  BY <1>1, <1>5, <1>9, PrefixIs

\* Of a list that ends in zeros, the rest is left.
LEMMA NonZeroOwn ==
  ASSUME NEW list \in Seq(Nat), NEW m \in 0 .. Len(list),
         \A k \in 1 .. m : list[k] # 0, \A k \in m + 1 .. Len(list) : list[k] = 0
  PROVE  NonZero(list) = SubSeq(list, 1, m)
<1>1. PICK L \in Nat : L = Len(list)
  OBVIOUS
<1>2. NonZeroStays(list, L, Seq(Nat))
  BY <1>1 DEF NonZeroTurn, NonZeroStays
<1>3. <<>> \in Seq(Nat)
  OBVIOUS
<1>4. PICK g : NonZeroMakes(g, list, L, Seq(Nat))
  BY <1>2, <1>3, NonZeroLoop
<1>5. /\ g[0] = <<>> /\ NonZero(list) = g[L]
      /\ \A n \in 1 .. L : g[n] = NonZeroTurn(g[n - 1], list[n])
  BY <1>1, <1>4 DEF NonZeroMakes
<1> DEFINE Least(n) == IF n <= m THEN n ELSE m
           T == {n \in 0 .. L : g[n] # SubSeq(list, 1, Least(n))}
<1>6. ASSUME NEW n \in 1 .. L, g[n - 1] = SubSeq(list, 1, Least(n - 1)) PROVE g[n] = SubSeq(list, 1, Least(n))
  <2>1. g[n] = NonZeroTurn(g[n - 1], list[n])
    BY <1>5
  <2>2. CASE n <= m
    <3>1. n \in 1 .. m /\ Least(n) = n /\ Least(n - 1) = n - 1 /\ n \in 0 .. Len(list) /\ n # 0
      BY <1>1, <2>2
    <3>2. SubSeq(list, 1, n) = Append(SubSeq(list, 1, n - 1), list[n])
      BY <3>1, PrefixIs
    <3>3. list[n] # 0
      BY <3>1
    <3> QED
      BY <1>6, <2>1, <3>1, <3>2, <3>3 DEF NonZeroTurn
  <2>3. CASE ~(n <= m)
    <3>1. n \in m + 1 .. Len(list) /\ Least(n) = m /\ Least(n - 1) = m
      BY <1>1, <2>3
    <3>2. list[n] = 0
      BY <3>1
    <3> QED
      BY <1>6, <2>1, <3>1, <3>2 DEF NonZeroTurn
  <2> QED
    BY <2>2, <2>3
<1>7. T = {}
  <2> SUFFICES ASSUME T # {} PROVE FALSE
    OBVIOUS
  <2>0. T \in SUBSET Nat
    OBVIOUS
  <2>1. \A n : n \in T <=> n \in 0 .. L /\ g[n] # SubSeq(list, 1, Least(n))
    OBVIOUS
  <2>2. Least(0) = 0
    BY <1>1
  <2> HIDE DEF T, Least
  <2>3. PICK n \in T : \A k \in T : n <= k
    BY <2>0, LeastNat
  <2>4. SubSeq(list, 1, 0) = <<>>
    BY PrefixIs
  <2>5. n \in 1 .. L /\ n - 1 \in 0 .. L /\ ~(n <= n - 1)
    <3>1. n \in 0 .. L /\ g[n] # SubSeq(list, 1, Least(n))
      BY <2>1
    <3>2. n # 0
      BY <1>5, <2>2, <2>4, <3>1
    <3> QED
      BY ONLY <3>1, <3>2, L \in Nat
  <2>6. g[n - 1] = SubSeq(list, 1, Least(n - 1))
    BY <2>1, <2>3, <2>5
  <2> QED
    BY <1>6, <2>1, <2>3, <2>5, <2>6
<1>8. Least(L) = m
  BY <1>1
<1>9. g[L] = SubSeq(list, 1, Least(L))
  <2> HIDE DEF Least
  <2> QED
    BY <1>7
<1> QED
  BY <1>5, <1>8, <1>9

LEMMA OneZero ==
  ASSUME NEW b \in Nat
  PROVE  NonZero(<<b>>) = IF b = 0 THEN <<>> ELSE <<b>>
<1>1. PICK list : list = <<b>>
  OBVIOUS
<1>2. list \in Seq(Nat) /\ Len(list) = 1 /\ list[1] = b
  BY <1>1
<1>3. SubSeq(list, 1, 0) = <<>> /\ SubSeq(list, 1, 1) = list
  BY <1>2, PrefixIs
<1>4. CASE b = 0
  <2>1. NonZero(list) = SubSeq(list, 1, 0)
    <3>1. 0 \in 0 .. Len(list) /\ (\A k \in 1 .. 0 : list[k] # 0) /\ \A k \in 0 + 1 .. Len(list) : list[k] = 0
      BY <1>2, <1>4
    <3> QED
      BY <1>2, <3>1, NonZeroOwn
  <2> QED
    BY <1>1, <1>3, <1>4, <2>1
<1>5. CASE b # 0
  <2>1. NonZero(list) = SubSeq(list, 1, 1)
    <3>1. 1 \in 0 .. Len(list) /\ (\A k \in 1 .. 1 : list[k] # 0) /\ \A k \in 1 + 1 .. Len(list) : list[k] = 0
      BY <1>2, <1>5
    <3> QED
      BY <1>2, <3>1, NonZeroOwn
  <2> QED
    BY <1>1, <1>3, <1>5, <2>1
<1> QED
  BY <1>4, <1>5

\* No block leads to no block.
LEMMA NothingRead ==
  ASSUME NEW v
  PROVE  ReadLevel(v, Recorded(<<>>)) = Recorded(<<>>)
<1>1. PICK s : s = Recorded(<<>>)
  OBVIOUS
<1>2. ~s.none /\ s.clusters = <<>>
  BY <1>1 DEF Recorded
<1>3. PICK list : list = s.clusters
  OBVIOUS
<1>4. list \in Seq({}) /\ Len(list) = 0 /\ DOMAIN list = {}
  BY <1>2, <1>3
<1>5. ToSet(list) = {}
  BY <1>4 DEF ToSet
<1>6. PICK lists : lists = [k \in DOMAIN list |-> Pointed(v, list[k])]
  OBVIOUS
<1>7. lists = <<>>
  <2>1. lists = [k \in {} |-> Pointed(v, list[k])]
    BY <1>4, <1>6
  <2>2. lists \in Seq({}) /\ Len(lists) = 0
    BY <2>1
  <2> QED
    BY <2>2
<1>8. FlattenSeq(lists) = <<>>
  <2>1. Len(lists) = 0
    BY <1>7
  <2> QED
    BY <1>7, <2>1 DEF FlattenSeq
<1>9. ReadLevel(v, s) = Recorded(FlattenSeq(lists))
  BY <1>2, <1>3, <1>5, <1>6 DEF ReadLevel
<1> QED
  BY <1>1, <1>8, <1>9

LEMMA IndirectNone ==
  ASSUME NEW v, \A b \in DOMAIN v.blocks : v.blocks[b] \in Seq(Nat), NEW level \in 1 .. 3
  PROVE  Indirect(v, 0, level) = Recorded(<<>>)
<1>1. PICK g : IndirectMakes(g, v, 0, level, level, FoundLists(Nat))
  BY IndirectGoes
<1>2. /\ g[0] = Recorded(NonZero(<<0>>)) /\ Indirect(v, 0, level) = g[level]
      /\ \A n \in 1 .. level : g[n] = ReadLevel(v, g[n - 1])
  BY <1>1 DEF IndirectMakes
<1>3. g[0] = Recorded(<<>>)
  BY <1>2, OneZero
<1>4. g[1] = Recorded(<<>>)
  <2>1. 1 \in 1 .. level /\ 1 - 1 = 0
    OBVIOUS
  <2> QED
    BY <1>2, <1>3, <2>1, NothingRead
<1>5. CASE level = 1
  BY <1>2, <1>4, <1>5
<1>6. ASSUME level >= 2 PROVE g[2] = Recorded(<<>>)
  <2>1. 2 \in 1 .. level /\ 2 - 1 = 1
    BY <1>6
  <2> QED
    BY <1>2, <1>4, <2>1, NothingRead
<1>7. CASE level = 2
  BY <1>2, <1>6, <1>7
<1>8. CASE level = 3
  <2>1. 3 \in 1 .. level /\ 3 - 1 = 2
    BY <1>8
  <2> QED
    BY <1>2, <1>6, <1>8, <2>1, NothingRead
<1> QED
  BY <1>5, <1>7, <1>8

LEMMA FlattenOne ==
  ASSUME NEW lists, Len(lists) = 1
  PROVE  FlattenSeq(lists) = lists[1]
<1> DEFINE Is(f) == f = [i \in 1 .. Len(lists) |-> IF i = 1 THEN lists[i] ELSE f[i - 1] \o lists[i]]
           f == CHOOSE f : Is(f)
<1>1. Is([i \in 1 .. 1 |-> lists[1]])
  OBVIOUS
<1>2. Is(f)
  BY <1>1
<1>3. FlattenSeq(lists) = f[1]
  BY DEF FlattenSeq
<1> HIDE DEF f
<1>4. f[1] = lists[1]
  BY <1>2
<1> QED
  BY <1>3, <1>4

\* The pointers of a block of which only the first is used.
LEMMA PointedOne ==
  ASSUME NEW v, NEW b, v.blocks[b] \in Seq(Nat), Len(v.blocks[b]) >= 2, v.blocks[b][1] # 0,
         \A k \in 2 .. Len(v.blocks[b]) : v.blocks[b][k] = 0
  PROVE  Pointed(v, b) = <<v.blocks[b][1]>>
<1>1. PICK w \in Seq(Nat) : w = v.blocks[b]
  OBVIOUS
<1>2. PICK L \in Nat : L = Len(w) /\ L >= 2
  BY <1>1
<1>3. PICK h : h = L \div 2
  OBVIOUS
<1>4. h \in Nat /\ h >= 1 /\ 2 * h <= L
  BY <1>2, <1>3
<1>5. Wide \in Nat /\ Wide * 0 = 0
  BY BackupAssumption
<1>6. PICK first \in Nat : first = w[1] /\ first # 0
  BY <1>1, <1>2
<1>7. PICK pairs : pairs = [i \in 1 .. h |-> w[2 * i - 1] + Wide * w[2 * i]]
  OBVIOUS
<1>8. \A k \in 2 .. L : w[k] = 0
  BY <1>1, <1>2
<1>9. \A i \in 1 .. h : pairs[i] = IF i = 1 THEN first ELSE 0
  <2> SUFFICES ASSUME NEW i \in 1 .. h PROVE pairs[i] = IF i = 1 THEN first ELSE 0
    OBVIOUS
  <2>1. 2 * i \in 2 .. L
    BY <1>4
  <2>2. w[2 * i] = 0
    BY <1>8, <2>1
  <2>3. pairs[i] = w[2 * i - 1] + Wide * w[2 * i]
    BY <1>7
  <2>4. pairs[i] = w[2 * i - 1] + 0
    BY <1>5, <2>2, <2>3
  <2>5. CASE i = 1
    <3>1. w[2 * i - 1] = first
      BY <1>6, <2>5
    <3> QED
      BY <1>6, <2>4, <2>5, <3>1
  <2>6. CASE i # 1
    <3>1. 2 * i - 1 \in 2 .. L
      BY <1>4, <2>6
    <3>2. w[2 * i - 1] = 0
      BY <1>8, <3>1
    <3> QED
      BY <2>4, <2>6, <3>2
  <2> QED
    BY <2>5, <2>6
<1>10. pairs \in Seq(Nat) /\ Len(pairs) = h
  <2>1. \A i \in 1 .. h : pairs[i] \in Nat
    BY <1>6, <1>9
  <2>2. pairs \in [1 .. h -> Nat]
    BY <1>7, <2>1
  <2> QED
    BY ONLY <1>4, <2>2
<1>11. NonZero(pairs) = SubSeq(pairs, 1, 1)
  <2>1. 1 \in 0 .. Len(pairs)
    BY <1>4, <1>10
  <2>2. \A k \in 1 .. 1 : pairs[k] # 0
    BY <1>4, <1>6, <1>9
  <2>3. \A k \in 1 + 1 .. Len(pairs) : pairs[k] = 0
    BY <1>4, <1>9, <1>10
  <2> QED
    BY <1>10, <2>1, <2>2, <2>3, NonZeroOwn
<1>12. SubSeq(pairs, 1, 1) = <<first>>
  <2>1. pairs[1] = first /\ Len(pairs) >= 1
    BY <1>4, <1>9, <1>10
  <2>2. /\ SubSeq(pairs, 1, 1) \in Seq(Nat) /\ Len(SubSeq(pairs, 1, 1)) = 1
        /\ SubSeq(pairs, 1, 1)[1] = pairs[1]
    <3>1. 1 \in 0 .. Len(pairs) /\ 1 \in 1 .. 1
      BY <1>10, <2>1
    <3> QED
      BY <1>10, <3>1, PrefixIs
  <2>3. PICK sub : sub = SubSeq(pairs, 1, 1)
    OBVIOUS
  <2>4. sub \in Seq(Nat) /\ Len(sub) = 1 /\ sub[1] = first
    BY <2>1, <2>2, <2>3
  <2>5. sub = <<first>>
    BY ONLY <2>4
  <2> QED
    BY <2>3, <2>5
<1>13. Pointed(v, b) = NonZero(pairs)
  BY <1>1, <1>2, <1>3, <1>7 DEF Pointed
<1> QED
  BY <1>1, <1>6, <1>11, <1>12, <1>13

LEMMA IndirectOne ==
  ASSUME NEW v, \A b \in DOMAIN v.blocks : v.blocks[b] \in Seq(Nat), NEW b \in Nat, b # 0, b \in DOMAIN v.blocks,
         Len(v.blocks[b]) >= 2, v.blocks[b][1] # 0, \A k \in 2 .. Len(v.blocks[b]) : v.blocks[b][k] = 0
  PROVE  Indirect(v, b, 1) = Recorded(<<v.blocks[b][1]>>)
<1>1. PICK g : IndirectMakes(g, v, b, 1, 1, FoundLists(Nat))
  BY IndirectGoes
<1>2. g[0] = Recorded(NonZero(<<b>>)) /\ Indirect(v, b, 1) = g[1] /\ g[1] = ReadLevel(v, g[0])
  BY <1>1 DEF IndirectMakes
<1>3. PICK list : list = <<b>>
  OBVIOUS
<1>4. g[0] = Recorded(list)
  BY <1>2, <1>3, OneZero
<1>5. list \in Seq(Nat) /\ Len(list) = 1 /\ list[1] = b /\ DOMAIN list = 1 .. 1
  BY <1>3
<1>6. ToSet(list) \subseteq DOMAIN v.blocks
  BY <1>5 DEF ToSet
<1>7. PICK lists : lists = [k \in DOMAIN list |-> Pointed(v, list[k])]
  OBVIOUS
<1>8. Len(lists) = 1 /\ lists[1] = Pointed(v, b)
  BY <1>5, <1>7
<1>9. ReadLevel(v, Recorded(list)) = Recorded(FlattenSeq(lists))
  <2>1. ~Recorded(list).none /\ Recorded(list).clusters = list
    BY DEF Recorded
  <2> QED
    BY <1>6, <1>7, <2>1 DEF ReadLevel
<1>10. Pointed(v, b) = <<v.blocks[b][1]>>
  BY PointedOne
<1> QED
  BY <1>2, <1>4, <1>8, <1>9, <1>10, FlattenOne

\* Of the blocks of a file that is laid out so, none is lost.
LEMMA BlocksOwn ==
  ASSUME NEW v, \A b \in DOMAIN v.blocks : v.blocks[b] \in Seq(Nat),
         NEW e, e.own \in Seq(Int), v.inodes[e.inode] \in [direct : Seq(Nat), indirect : [1 .. 3 -> Nat]],
         BlocksAreOwn(v, e)
  PROVE  Blocks(v, v.inodes[e.inode]).clusters = e.own
<1>1. PICK inode \in [direct : Seq(Nat), indirect : [1 .. 3 -> Nat]] : inode = v.inodes[e.inode]
  OBVIOUS
<1>2. PICK own \in Seq(Int) : own = e.own
  OBVIOUS
<1>3. PICK direct \in Seq(Nat) : direct = inode.direct
  OBVIOUS
<1>4. PICK b \in Nat : b = inode.indirect[1]
  OBVIOUS
<1>5. PICK n \in 0 .. Len(direct) :
        /\ n <= Len(own) /\ \A k \in 1 .. n : direct[k] = own[k] /\ own[k] # 0
        /\ \A k \in n + 1 .. Len(direct) : direct[k] = 0
        /\ \/ b = 0 /\ Len(own) = n
           \/ /\ b \in DOMAIN v.blocks \ {0} /\ Len(own) = n + 1 /\ Len(v.blocks[b]) >= 2
              /\ v.blocks[b][1] = own[n + 1] /\ own[n + 1] # 0
              /\ \A k \in 2 .. Len(v.blocks[b]) : v.blocks[b][k] = 0
  BY <1>1, <1>2, <1>3, <1>4 DEF BlocksAreOwn
<1>6. inode.indirect[2] = 0 /\ inode.indirect[3] = 0
  <2>1. \A level \in 2 .. 3 : inode.indirect[level] = 0
    BY <1>1, Zenon DEF BlocksAreOwn
  <2> QED
    BY <2>1
<1>7. PICK p : p = PartsOf(v, inode)
  OBVIOUS
<1>8. p[1] = Indirect(v, b, 1) /\ p[2] = Recorded(<<>>) /\ p[3] = Recorded(<<>>)
  <2>1. p[1] = Indirect(v, b, 1) /\ p[2] = Indirect(v, 0, 2) /\ p[3] = Indirect(v, 0, 3)
    BY <1>4, <1>6, <1>7 DEF PartsOf
  <2>2. \A level \in 1 .. 3 : Indirect(v, 0, level) = Recorded(<<>>)
    BY IndirectNone
  <2> QED
    BY <2>1, <2>2
<1>9. PICK head \in Seq(Int) : head = SubSeq(own, 1, n)
  <2>1. n \in 0 .. Len(own)
    BY <1>5
  <2> QED
    BY <2>1, PrefixIs
<1>10. NonZero(direct) = head
  <2>1. NonZero(direct) = SubSeq(direct, 1, n)
    <3>1. \A k \in 1 .. n : direct[k] # 0
      BY <1>5
    <3> QED
      BY <1>5, <3>1, NonZeroOwn
  <2>2. /\ SubSeq(direct, 1, n) \in Seq(Nat) /\ Len(SubSeq(direct, 1, n)) = n
        /\ \A k \in 1 .. n : SubSeq(direct, 1, n)[k] = direct[k]
    BY PrefixIs
  <2>3. n \in 0 .. Len(own)
    BY <1>5
  <2>4. Len(head) = n /\ \A k \in 1 .. n : head[k] = own[k]
    BY <1>9, <2>3, PrefixIs
  <2>5. PICK kept : kept = SubSeq(direct, 1, n)
    OBVIOUS
  <2>6. kept \in Seq(Int) /\ Len(kept) = n /\ \A k \in 1 .. n : kept[k] = head[k]
    <3>1. kept \in Seq(Nat) /\ Len(kept) = n /\ \A k \in 1 .. n : kept[k] = direct[k]
      BY <2>2, <2>5
    <3>2. kept \in Seq(Int)
      BY ONLY <3>1
    <3> QED
      BY <1>5, <2>4, <3>1, <3>2
  <2>7. kept = head
    BY <2>4, <2>6
  <2> QED
    BY <2>1, <2>5, <2>7
<1>11. PICK tail \in Seq(Int) : Indirect(v, b, 1) = Recorded(tail) /\ own = head \o tail
  <2>1. CASE b = 0 /\ Len(own) = n
    <3>1. Indirect(v, b, 1) = Recorded(<<>>)
      <4>1. \A level \in 1 .. 3 : Indirect(v, 0, level) = Recorded(<<>>)
        BY IndirectNone
      <4> QED
        BY <2>1, <4>1
    <3>2. SubSeq(own, 1, Len(own)) = own
      <4>1. 0 \in 0 .. Len(own)
        OBVIOUS
      <4> QED
        BY <4>1, PrefixIs
    <3>3. own = head
      BY <1>9, <2>1, <3>2
    <3>4. <<>> \in Seq(Int) /\ own = head \o <<>>
      BY <3>3
    <3> QED
      BY <3>1, <3>4
  <2>2. CASE /\ b \in DOMAIN v.blocks \ {0} /\ Len(own) = n + 1 /\ Len(v.blocks[b]) >= 2
             /\ v.blocks[b][1] = own[n + 1] /\ own[n + 1] # 0
             /\ \A k \in 2 .. Len(v.blocks[b]) : v.blocks[b][k] = 0
    <3>1. PICK last : last = own[n + 1]
      OBVIOUS
    <3>2. Indirect(v, b, 1) = Recorded(<<last>>)
      BY <2>2, <3>1, IndirectOne
    <3>3. n + 1 \in 0 .. Len(own) /\ n + 1 # 0 /\ (n + 1) - 1 = n /\ n + 1 \in 1 .. Len(own)
      BY <2>2
    <3>4. SubSeq(own, 1, n + 1) = Append(head, last) /\ SubSeq(own, 1, Len(own)) = own
      <4>1. \A k \in 0 .. Len(own) : k # 0 => SubSeq(own, 1, k) = Append(SubSeq(own, 1, k - 1), own[k])
        BY PrefixIs
      <4>2. SubSeq(own, 1, Len(own)) = own
        BY <3>3, PrefixIs
      <4> QED
        BY <1>9, <3>1, <3>3, <4>1, <4>2
    <3>5. own = Append(head, last)
      BY <2>2, <3>4
    <3>6. last \in Int
      BY <3>1, <3>3
    <3>7. <<last>> \in Seq(Int) /\ Append(head, last) = head \o <<last>>
      BY ONLY <3>6, head \in Seq(Int)
    <3> QED
      BY <3>2, <3>5, <3>7
  <2> QED
    BY <1>5, <2>1, <2>2
<1>12. /\ p[1].clusters = tail /\ p[2].clusters = <<>> /\ p[3].clusters = <<>>
       /\ ~p[1].none /\ ~p[2].none /\ ~p[3].none
  BY <1>8, <1>11 DEF Recorded
<1>13. PICK all : all = AllOf(inode, p)
  OBVIOUS
<1>14. all = own
  <2>1. all = NonZero(direct) \o p[1].clusters \o p[2].clusters \o p[3].clusters
    BY <1>3, <1>13 DEF AllOf
  <2>2. all = (head \o tail) \o <<>> \o <<>>
    BY <1>10, <1>12, <2>1
  <2>3. own \o <<>> = own
    OBVIOUS
  <2> QED
    BY <1>11, <2>2, <2>3
<1>15. EndOf(p, all).clusters = own
  <2>1. \A level \in 1 .. 3 : ~p[level].none
    BY <1>12
  <2>2. CASE all = <<>>
    BY <1>14, <2>2 DEF EndOf, NoClusters
  <2>3. CASE all # <<>>
    <3>1. EndOf(p, all) = Recorded(all)
      BY <2>1, <2>3 DEF EndOf
    <3> QED
      BY <1>14, <3>1 DEF Recorded
  <2> QED
    BY <2>2, <2>3
<1>16. Blocks(v, inode) = EndOf(p, all)
  BY <1>7, <1>13, BlocksAre
<1> QED
  BY <1>1, <1>2, <1>15, <1>16

\* Of the runs of such a file, too.
LEMMA RunsOwn ==
  ASSUME NEW list \in Seq(Int), Len(list) <= MaxClusters, \A k \in DOMAIN list : list[k] >= 0
  PROVE  Runs(list).clusters = list
<1> DEFINE Op(kept) == IF kept = <<>> THEN NoClusters ELSE Recorded(kept)
<1>1. Runs(list) = Op(Mapped(list))
  <2>1. {Op(w) : w \in {Mapped(list)}} = {Op(Mapped(list))}
    OBVIOUS
  <2> QED
    BY <2>1, Choice DEF Runs, With
<1>2. Mapped(list) = list
  <2>1. \A k \in 1 .. Len(list) : list[k] >= 0
    OBVIOUS
  <2> QED
    BY <2>1, MappedOwn
<1>3. NoClusters.clusters = <<>> /\ Recorded(list).clusters = list
  BY DEF NoClusters, Recorded
<1> QED
  BY <1>1, <1>2, <1>3

\* What is laid out as "kept" is recorded as it lies.
LEMMA FoundOwn ==
  ASSUME LayoutsTrue, NEW v \in Volumes, NEW inode \in DOMAIN v.dirs, NEW i \in DOMAIN v.dirs[inode],
         NEW e, e = v.dirs[inode][i], ~e.dir, e.layout = "kept"
  PROVE  Found(v, e).clusters = e.own
<1>1. v.last \in Nat /\ (\A b \in DOMAIN v.blocks : v.blocks[b] \in Seq(Nat))
  <2>1. {v.last, v.unit, v.data, v.rootDir} \subseteq Nat
    BY VolumesAssumption
  <2>2. \A b \in DOMAIN v.blocks : v.blocks[b] \in Seq(Nat)
    BY VolumesAssumption
  <2> QED
    BY <2>1, <2>2
<1>2. /\ v.kind = "ntfs" => v.runs[e.inode] \in Seq(Int)
      /\ v.kind = "ext" => v.inodes[e.inode] \in [direct : Seq(Nat), indirect : [1 .. 3 -> Nat]]
  BY VolumesAssumption
<1>3. e.own \in Seq(Int)
  <2>1. e \in Listings
    BY ListingHas
  <2> QED
    BY <2>1 DEF Listings
<1>4. /\ Len(e.own) <= MaxClusters
      /\ \/ v.kind \in {"fat", "exfat"} /\ ChainIsOwn(v, e)
         \/ v.kind = "ntfs" /\ RunsAreOwn(v, e)
         \/ v.kind = "ext" /\ BlocksAreOwn(v, e)
  BY DEF LayoutsTrue
<1>5. CASE v.kind \in {"fat", "exfat"} /\ ChainIsOwn(v, e)
  <2>1. Follow(v, e.inode) = e.own
    BY <1>1, <1>4, <1>5, FollowOwn
  <2>2. Found(v, e) = Recorded(Follow(v, e.inode))
    BY <1>5 DEF Found
  <2> QED
    BY <2>1, <2>2 DEF Recorded
<1>6. CASE v.kind = "ntfs" /\ RunsAreOwn(v, e)
  <2>1. v.runs[e.inode] = e.own /\ \A k \in DOMAIN e.own : e.own[k] >= 0
    BY <1>6 DEF RunsAreOwn
  <2>2. Runs(v.runs[e.inode]).clusters = e.own
    BY <1>3, <1>4, <2>1, RunsOwn
  <2>3. Found(v, e) = Runs(v.runs[e.inode])
    BY <1>6 DEF Found
  <2> QED
    BY <2>2, <2>3
<1>7. CASE v.kind = "ext" /\ BlocksAreOwn(v, e)
  <2>1. Blocks(v, v.inodes[e.inode]).clusters = e.own
    BY <1>1, <1>2, <1>3, <1>7, BlocksOwn
  <2>2. Found(v, e) = Blocks(v, v.inodes[e.inode])
    BY <1>7 DEF Found
  <2> QED
    BY <2>1, <2>2
<1> QED
  BY <1>4, <1>5, <1>6, <1>7

\* Where it lies is where the driver reads it, except for what backup.c forgets.
LEMMA CollectOwn ==
  ASSUME LayoutsTrue, NEW v \in Volumes, NEW inode \in DOMAIN v.dirs, NEW i \in DOMAIN v.dirs[inode],
         NEW e, e = v.dirs[inode][i], ~e.dir, e.layout = "kept", Plain(v)
  PROVE  /\ Collect(v, e).clusters = [k \in DOMAIN e.own |-> DriverOffset(v, e.own[k])]
         /\ ClusterBytes(v) = v.unit
<1>1. PICK found : found = Found(v, e)
  OBVIOUS
<1>2. found.clusters = e.own
  BY <1>1, FoundOwn
<1>3. Collect(v, e).clusters = Offsets(v, found.clusters)
  BY <1>1, CollectIs
<1>4. v.rootDir = 0 /\ v.data \in Nat
  <2>1. {v.last, v.unit, v.data, v.rootDir} \subseteq Nat
    BY VolumesAssumption
  <2> QED
    BY <2>1 DEF Plain
<1>5. \A c : Offset(v, c) = DriverOffset(v, c)
  <2>1. v.data + v.rootDir = v.data
    BY <1>4
  <2> QED
    BY <2>1 DEF Offset, DriverOffset
<1>6. v.kind \in {"fat", "exfat", "ntfs", "ext"}
  BY DEF LayoutsTrue
<1> QED
  BY <1>2, <1>3, <1>5, <1>6 DEF Offsets, ClusterBytes, Plain

------------------------------------------------------------------------------
(* The comparison, step by step. *)

\* The root of what is backed up can be read, the file has its size of a cluster, and a
\* comparison has been begun.
RootInv ==
  /\ (pc = "create" \/ file # NoFile) => snapshot.root \in DOMAIN snapshot.dirs
  /\ compares # 0 => file # NoFile
  /\ pc = "live" => compares # 0
  /\ file # NoFile => file.unit = ClusterBytes(snapshot)

\* The tree of a comparison is that of the index and of the partition as they are.
ComparedInv ==
  report = "compared" =>
    /\ pc = "idle" /\ compares # 0
    /\ Exact(LoadFile(file), Reachable(volume), tree) /\ Keeps(snapshot, tree)

LEMMA RootInit == Init => RootInv /\ ComparedInv
  BY DEF Init, RootInv, ComparedInv

LEMMA MadeIs ==
  ASSUME NEW count, NEW what
  PROVE  Made(count, what) # NoFile /\ Made(count, what).unit = ClusterBytes(volume)
<1>1. /\ Made(count, what).kind = "dsk" /\ NoFile.kind = "none"
      /\ Made(count, what).unit = ClusterBytes(volume)
  BY DEF Made, NoFile
<1> QED
  BY <1>1

LEMMA RootStep == TypeInv /\ WalkInv /\ RootInv /\ [Next]_vars => RootInv'
<1> SUFFICES ASSUME TypeInv, WalkInv, RootInv, [Next]_vars PROVE RootInv'
  OBVIOUS
<1> USE DEF RootInv
<1>1. CASE CreateRefused
  BY <1>1 DEF CreateRefused
<1>2. CASE BeginCreate
  BY <1>2 DEF BeginCreate, Readable
<1>3. CASE WriteEntry
  BY <1>3 DEF WriteEntry
<1>4. CASE RunFull
  BY <1>4 DEF RunFull
<1>5. CASE CreateDone
  <2>1. pc = "create" /\ pc' = "idle" /\ snapshot' = snapshot /\ compares' = compares /\ volume = snapshot
    BY <1>5 DEF CreateDone, WalkInv
  <2>2. file' = file \/ (file' # NoFile /\ file'.unit = ClusterBytes(snapshot))
    BY <1>5, <2>1, MadeIs DEF CreateDone
  <2> QED
    BY <2>1, <2>2
<1>6. CASE KillCreate
  <2>1. /\ pc = "create" /\ pc' = "idle" /\ snapshot' = snapshot /\ volume = snapshot
        /\ compares' = compares
    BY <1>6 DEF KillCreate, WalkInv
  <2>2. file' # NoFile /\ file'.unit = ClusterBytes(snapshot)
    BY <1>6, <2>1, MadeIs DEF KillCreate
  <2> QED
    BY <2>1, <2>2
<1>7. CASE SkipEntry
  BY <1>7 DEF SkipEntry
<1>8. CASE LeaveDir
  BY <1>8 DEF LeaveDir
<1>9. CASE Change
  BY <1>9 DEF Change
<1>10. CASE CompareRefused
  <2>1. file # NoFile /\ file' = file /\ snapshot' = snapshot /\ pc' = "idle"
    BY <1>10 DEF CompareRefused, Compare
  <2> QED
    BY <2>1
<1>11. CASE BeginCompare
  <2>1. /\ file # NoFile /\ file' = file /\ snapshot' = snapshot /\ pc' = "live"
        /\ compares' = compares + 1 /\ compares \in Nat
    BY <1>11, BackupAssumption DEF BeginCompare, Compare, TypeInv
  <2>2. compares' # 0
    BY ONLY <2>1
  <2> QED
    BY <2>1, <2>2
<1>12. CASE LiveEntry
  BY <1>12 DEF LiveEntry
<1>13. CASE LiveFails
  BY <1>13 DEF LiveFails
<1>14. CASE BuildTree
  BY <1>14 DEF BuildTree
<1>15. CASE UNCHANGED vars
  BY <1>15 DEF vars
<1> QED
  BY <1>1, <1>2, <1>3, <1>4, <1>5, <1>6, <1>7, <1>8, <1>9, <1>10, <1>11, <1>12, <1>13, <1>14, <1>15 DEF Next

LEMMA BuildCompares ==
  ASSUME NamesApart, TypeInv, WalkInv, LiveInv, RootInv, BuildTree
  PROVE  ComparedInv'
<1>1. /\ pc = "live" /\ stack = <<>> /\ pc' = "idle" /\ report' = "compared"
      /\ volume' = volume /\ file' = file /\ compares' = compares /\ snapshot' = snapshot
  BY DEF BuildTree
<1>2. PICK entries : entries = LoadFile(file)
  OBVIOUS
<1>3. PICK notes \in Seq(Notes) : notes = live
  BY <1>1 DEF LiveInv
<1>4. PICK sorted : sorted = Sorted(notes)
  OBVIOUS
<1>5. PICK t : t = tree'
  OBVIOUS
<1>6. t = JudgeAll(entries, sorted)
  <2>1. tree' = With(LoadFile(file), LAMBDA x : With(Sorted(live), LAMBDA y : JudgeAll(x, y)))
    BY DEF BuildTree
  <2> QED
    BY <1>2, <1>3, <1>4, <1>5, <2>1, BuildIs
<1>7. PICK now \in Volumes : now = volume
  BY DEF TypeInv
<1>8. PICK then \in Volumes : then = snapshot
  BY DEF TypeInv
<1>9. Tallied(now, notes) /\ \E g : Levels(now, g)
  BY <1>1, <1>3, <1>7, SurveyEnds DEF LiveInv
<1>10. PICK h : Levels(now, h)
  BY <1>9
<1>11. PICK g : Levels(then, g)
  BY <1>1, <1>8, LevelsExist DEF RootInv
<1>12. entries \in Seq(Indexed) /\ Sound(then, entries) /\ PathsOnce(entries)
  <2>1. PICK f : f = file
    OBVIOUS
  <2>2. Tells(then, f.words, f.count)
    BY <1>8, <2>1 DEF WalkInv
  <2> QED
    BY <1>2, <2>1, <2>2, TellsRead
<1>13. Leaves(entries) /\ \A k \in 1 .. Len(entries) : ~entries[k].dir => entries[k].path # <<>>
  BY <1>11, <1>12, LeavesIs
<1>14. t \in Trees(Nat, Sources)
  BY <1>6, <1>12, JudgeAllIn
<1>15. JudgedSome(t, entries, sorted, Len(entries))
  BY <1>6, <1>12, <1>13, AllJudged
<1>16. Exact(entries, Reachable(now), t)
  BY <1>4, <1>9, <1>10, <1>12, <1>13, <1>14, <1>15, ExactIs
<1>17. Keeps(then, t)
  BY <1>11, <1>12, <1>14, <1>15, KeepsIs
<1>18. Exact(LoadFile(file'), Reachable(volume'), tree') /\ Keeps(snapshot', tree')
  BY <1>1, <1>2, <1>5, <1>7, <1>8, <1>16, <1>17
<1> QED
  BY <1>1, <1>18 DEF ComparedInv, RootInv

LEMMA ComparedStep ==
  NamesApart /\ TypeInv /\ WalkInv /\ LiveInv /\ RootInv /\ ComparedInv /\ [Next]_vars => ComparedInv'
<1> SUFFICES ASSUME NamesApart, TypeInv, WalkInv, LiveInv, RootInv, ComparedInv, [Next]_vars PROVE ComparedInv'
  OBVIOUS
<1>1. CASE CreateRefused
  BY <1>1 DEF CreateRefused, ComparedInv
<1>2. CASE BeginCreate
  BY <1>2 DEF BeginCreate, ComparedInv
<1>3. CASE WriteEntry
  BY <1>3 DEF WriteEntry, ComparedInv
<1>4. CASE RunFull
  BY <1>4 DEF RunFull, ComparedInv
<1>5. CASE CreateDone
  BY <1>5 DEF CreateDone, ComparedInv
<1>6. CASE KillCreate
  BY <1>6 DEF KillCreate, ComparedInv
<1>7. CASE SkipEntry
  BY <1>7 DEF SkipEntry, Walking, ComparedInv
<1>8. CASE LeaveDir
  BY <1>8 DEF LeaveDir, Walking, ComparedInv
<1>9. CASE Change
  BY <1>9 DEF Change, ComparedInv
<1>10. CASE CompareRefused
  BY <1>10 DEF CompareRefused, ComparedInv
<1>11. CASE BeginCompare
  BY <1>11 DEF BeginCompare, ComparedInv
<1>12. CASE LiveEntry
  BY <1>12 DEF LiveEntry, ComparedInv
<1>13. CASE LiveFails
  BY <1>13 DEF LiveFails, ComparedInv
<1>14. CASE BuildTree
  BY <1>14, BuildCompares
<1>15. CASE UNCHANGED vars
  BY <1>15 DEF vars, ComparedInv
<1> QED
  BY <1>1, <1>2, <1>3, <1>4, <1>5, <1>6, <1>7, <1>8, <1>9, <1>10, <1>11, <1>12, <1>13, <1>14, <1>15 DEF Next

LEMMA ComparedIs ==
  ASSUME ComparedInv
  PROVE  ComparisonExact
<1> DEFINE Op(all) ==
      \A entry \in {e \in ToSet(LoadFile(file)) : ~e.dir} :
        LET now == {x.entry : x \in {x \in all : x.path = entry.path}}
            same == \E e \in now : e.size = entry.size /\ e.mtime = entry.mtime
            shown == {tree[i] : i \in FindPath(tree, entry.path)}
        IN IF same THEN shown = {}
           ELSE \E node \in shown : /\ ~node.dir /\ node.size = entry.size
                                    /\ node.deleted <=> now = {}
                                    /\ node.src = IF now = {} THEN <<"restored">> ELSE <<"modified">>
<1> SUFFICES ASSUME report = "compared" PROVE With(Reachable(volume), Op)
  BY DEF ComparisonExact
<1>1. Exact(LoadFile(file), Reachable(volume), tree)
  BY DEF ComparedInv
<1>2. \A all : Exact(LoadFile(file), all, tree) <=> Op(all)
  BY DEF Exact, ExactAt, NowAt, NodesOf, Unchanged
<1>3. Op(Reachable(volume))
  BY <1>1, <1>2
<1>4. With(Reachable(volume), Op) = CHOOSE r \in {Op(all) : all \in {Reachable(volume)}} : TRUE
  BY DEF With
<1> HIDE DEF Op
<1>5. {Op(all) : all \in {Reachable(volume)}} = {Op(Reachable(volume))}
  OBVIOUS
<1> QED
  BY <1>3, <1>4, <1>5, Choice

\* Of a file of the index that is still there as it was, backup_restore_build_tree shows
\* nothing; of one that find_live_entry does not find in what backup_walk_live has listed, or
\* finds with another size or time, it shows a node that says so: for every volume, however
\* the writing of the index was cut short, and whatever has changed since.
THEOREM ComparisonIsExact ==
  ASSUME NamesApart
  PROVE  Spec => []ComparisonExact
<1> DEFINE Inv == TypeInv /\ WalkInv /\ LiveInv /\ RootInv /\ ComparedInv
<1>1. Init => Inv
  BY TypeInit, WalkInit, LiveInit, RootInit
<1>2. Inv /\ [Next]_vars => Inv'
  BY TypeStep, WalkStep, LiveStep, RootStep, ComparedStep
<1>3. Inv => ComparisonExact
  BY ComparedIs
<1> QED
  BY <1>1, <1>2, <1>3, PTL DEF Spec

LEMMA KeptIs ==
  ASSUME LayoutsTrue, TypeInv, RootInv, ComparedInv
  PROVE  ClustersKept
<1> SUFFICES ASSUME report = "compared", Plain(snapshot), NEW x \in Reachable(snapshot), ~x.entry.dir, x.entry.layout = "kept",
                    NEW i \in FindPath(tree, x.path)
             PROVE  /\ tree[i].clusters = [k \in DOMAIN x.entry.own |-> DriverOffset(snapshot, x.entry.own[k])]
                    /\ file.unit = snapshot.unit
  BY DEF ClustersKept
<1>1. PICK v \in Volumes : v = snapshot
  BY DEF TypeInv
<1>2. PICK g : Levels(v, g)
  BY <1>1, LevelsExist DEF RootInv, ComparedInv
<1>3. PICK n \in 1 .. MaxDepth : x \in Below(v, g[n - 1])
  BY <1>1, <1>2, ReachableIs
<1>4. PICK d \in g[n - 1].dirs :
        d.entry.inode \in DOMAIN v.dirs /\ \E j \in DOMAIN v.dirs[d.entry.inode] : x.entry = v.dirs[d.entry.inode][j]
  BY <1>2, <1>3, BelowHas
<1>5. PICK j \in DOMAIN v.dirs[d.entry.inode] : x.entry = v.dirs[d.entry.inode][j]
  BY <1>4
<1>6. /\ Collect(v, x.entry).clusters = [k \in DOMAIN x.entry.own |-> DriverOffset(v, x.entry.own[k])]
      /\ ClusterBytes(v) = v.unit
  BY <1>1, <1>4, <1>5, CollectOwn
<1>7. tree[i].clusters = Collect(v, x.entry).clusters
  BY <1>1 DEF ComparedInv, Keeps
<1>8. file.unit = ClusterBytes(v)
  BY <1>1 DEF RootInv, ComparedInv
<1> QED
  BY <1>1, <1>6, <1>7, <1>8

\* What collect_clusters_fs records of a file that is laid out as the file system would have
\* it, the index keeps and backup_restore_build_tree puts in the tree, with the size of a
\* cluster beside it, and it is where the driver reads the file, wherever backup.c forgets
\* neither the root directory nor the size: nothing else is at its path, and no entry of the
\* index gives it the clusters of another file.
THEOREM ClustersAreKept ==
  ASSUME NamesApart, LayoutsTrue
  PROVE  Spec => []ClustersKept
<1> DEFINE Inv == TypeInv /\ WalkInv /\ LiveInv /\ RootInv /\ ComparedInv
<1>1. Init => Inv
  BY TypeInit, WalkInit, LiveInit, RootInit
<1>2. Inv /\ [Next]_vars => Inv'
  BY TypeStep, WalkStep, LiveStep, RootStep, ComparedStep
<1>3. Inv => ClustersKept
  BY KeptIs
<1> QED
  BY <1>1, <1>2, <1>3, PTL DEF Spec
=============================================================================
