---------------------------- MODULE ScanTree_proofs ----------------------------
(***************************************************************************)
(* What the operators of ScanTree return: finding, adding and changing     *)
(* nodes, saving a tree and loading it.  DeepScan_proofs and Backup_proofs *)
(* rest on it.  Names and data are any sets; a recursive function is known *)
(* by building it step by step.                                            *)
(***************************************************************************)
EXTENDS ScanTree, SequenceTheorems, WellFoundedInduction, TLAPS

(* Numbers, sequences, recursive functions. *)

LEMMA LeastNat ==
  ASSUME NEW T \in SUBSET Nat, T # {}
  PROVE  \E m \in T : \A k \in T : m <= k
<1> DEFINE R == OpToRel(<, Nat)
<1>1. PICK m \in T : \A k \in T : ~ (<<k, m>> \in R)
  <2>1. IsWellFoundedOn(R, Nat)
    BY NatLessThanWellFounded
  <2> HIDE DEF R
  <2> QED
    BY <2>1, WFMin
<1>2. \A a, b \in Nat : a < b => <<a, b>> \in R
  BY DEF OpToRel
<1> HIDE DEF R
<1>3. m \in Nat /\ \A k \in T : k \in Nat /\ ~ (k < m)
  BY <1>1, <1>2
<1> QED
  BY <1>3

\* What a function g that is made by steps is: at i, the step from an earlier place.
Built(g, n, x, S, back, step) ==
  /\ g \in [0 .. n -> S] /\ g[0] = x
  /\ \A i \in 1 .. n : g[i] = step[<<i, g[back[i]]>>]

LEMMA Builds ==
  ASSUME NEW L \in Nat, NEW S, NEW x \in S, NEW back \in [1 .. L -> Nat],
         NEW step \in [(1 .. L) \X S -> S], \A i \in 1 .. L : back[i] < i
  PROVE  \E g : Built(g, L, x, S, back, step)
<1> DEFINE missing == {n \in 0 .. L : ~\E g : Built(g, n, x, S, back, step)}
<1>1. missing = {}
  <2> SUFFICES ASSUME missing # {} PROVE FALSE
    OBVIOUS
  <2>1. PICK m \in missing : \A k \in missing : m <= k
    <3>1. missing \in SUBSET Nat
      OBVIOUS
    <3> HIDE DEF missing
    <3> QED
      BY <3>1, LeastNat
  <2>2. m \in 0 .. L /\ ~\E g : Built(g, m, x, S, back, step)
    OBVIOUS
  <2>3. CASE m = 0
    <3> DEFINE g == [k \in 0 .. 0 |-> x]
    <3>1. g \in [0 .. 0 -> S] /\ g[0] = x
      OBVIOUS
    <3>2. 1 .. 0 = {}
      OBVIOUS
    <3>3. Built(g, 0, x, S, back, step)
      BY <3>1, <3>2 DEF Built
    <3> QED
      BY <2>2, <2>3, <3>3
  <2>4. CASE m # 0
    <3>1. m - 1 \in 0 .. L /\ ~(m <= m - 1) /\ m \in 1 .. L
      BY <2>2, <2>4
    <3>2. PICK f : Built(f, m - 1, x, S, back, step)
      BY <2>1, <3>1
    <3>3. back[m] \in 0 .. m - 1 /\ m \in Nat
      BY <3>1
    <3>4. f \in [0 .. m - 1 -> S] /\ f[0] = x /\ f[back[m]] \in S
      BY <3>2, <3>3 DEF Built
    <3> DEFINE last == step[<<m, f[back[m]]>>]
               g == [k \in 0 .. m |-> IF k = m THEN last ELSE f[k]]
    <3>5. last \in S
      BY <3>1, <3>4
    <3>6. \A k \in 0 .. m - 1 : g[k] = f[k] /\ k \in 0 .. m /\ k # m
      BY <3>3
    <3>7. g \in [0 .. m -> S] /\ g[m] = last
      <4>1. \A k \in 0 .. m : k # m => k \in 0 .. m - 1
        BY <3>3
      <4> HIDE DEF last
      <4> QED
        BY <3>3, <3>4, <3>5, <4>1
    <3>8. g[0] = x
      BY <3>1, <3>4, <3>6
    <3>9. ASSUME NEW i \in 1 .. m PROVE g[i] = step[<<i, g[back[i]]>>]
      <4>1. i \in 1 .. L /\ back[i] \in 0 .. m - 1
        BY <3>1
      <4>2. g[back[i]] = f[back[i]]
        BY <3>6, <4>1
      <4>3. CASE i = m
        BY <3>7, <4>2, <4>3
      <4>4. CASE i # m
        <5>1. i \in 1 .. m - 1 /\ i \in 0 .. m - 1
          BY <4>4, <3>1
        <5>2. f[i] = step[<<i, f[back[i]]>>]
          BY <3>2, <5>1 DEF Built
        <5>3. g[i] = f[i]
          BY <3>6, <5>1
        <5> HIDE DEF g
        <5> QED
          BY <5>2, <5>3, <4>2
      <4> QED
        BY <4>3, <4>4
    <3> HIDE DEF g
    <3>10. Built(g, m, x, S, back, step)
      BY <3>7, <3>8, <3>9 DEF Built
    <3> QED
      BY <2>2, <3>10
  <2> QED
    BY <2>3, <2>4
<1>2. L \in 0 .. L
  OBVIOUS
<1> QED
  BY <1>1, <1>2

\* Two functions that agree at 0, and at i if they do at an earlier place.
Alike(f, g, n) ==
  f[0] = g[0] /\ \A i \in 1 .. n : \E k \in 0 .. i - 1 : f[k] = g[k] => f[i] = g[i]

LEMMA Agree ==
  ASSUME NEW L \in Nat, NEW f, NEW g, Alike(f, g, L)
  PROVE  \A i \in 0 .. L : f[i] = g[i]
<1> DEFINE bad == {i \in 0 .. L : f[i] # g[i]}
<1> SUFFICES ASSUME bad # {} PROVE FALSE
  OBVIOUS
<1>1. PICK m \in bad : \A k \in bad : m <= k
  <2>1. bad \in SUBSET Nat
    OBVIOUS
  <2> HIDE DEF bad
  <2> QED
    BY <2>1, LeastNat
<1>2. m \in 1 .. L /\ f[m] # g[m]
  BY DEF Alike
<1>3. PICK k \in 0 .. m - 1 : f[k] = g[k] => f[m] = g[m]
  BY <1>2 DEF Alike
<1>4. k \in 0 .. L /\ ~(m <= k)
  BY <1>2, <1>3
<1> QED
  BY <1>1, <1>2, <1>3, <1>4

\* A recursive function and the one built by the same steps are the same.
Follows(f, n, x, S, back, step) ==
  /\ DOMAIN f = 0 .. n /\ f = [i \in DOMAIN f |-> f[i]] /\ f[0] = x
  /\ \A i \in 1 .. n : back[i] \in 0 .. i - 1
  /\ \A i \in 1 .. n : \A s \in S : f[back[i]] = s => f[i] = step[<<i, s>>]

LEMMA SameAsBuilt ==
  ASSUME NEW L \in Nat, NEW S, NEW x, NEW back, NEW step, NEW f, NEW g,
         Built(g, L, x, S, back, step), Follows(f, L, x, S, back, step)
  PROVE  f = g
<1> USE DEF Follows
<1>1. g \in [0 .. L -> S] /\ g[0] = x /\ \A i \in 1 .. L : g[i] = step[<<i, g[back[i]]>>]
  BY DEF Built
<1>2. ASSUME NEW i \in 1 .. L PROVE \E k \in 0 .. i - 1 : f[k] = g[k] => f[i] = g[i]
  <2>1. back[i] \in 0 .. i - 1
    OBVIOUS
  <2>2. g[back[i]] \in S
    BY <1>1, <2>1
  <2>3. f[back[i]] = g[back[i]] => f[i] = g[i]
    BY <1>1, <2>2
  <2> QED
    BY <2>1, <2>3
<1>3. \A i \in 0 .. L : f[i] = g[i]
  <2>1. Alike(f, g, L)
    BY <1>1, <1>2 DEF Alike
  <2> QED
    BY <2>1, Agree
<1>4. g = [i \in 0 .. L |-> g[i]]
  BY <1>1
<1> QED
  BY <1>3, <1>4, Zenon
------------------------------------------------------------------------------
(* Trees, and adding to them. *)

Nodes(names, data) ==
  [parent : Nat, name : names, dir : BOOLEAN, deleted : BOOLEAN, orphan : BOOLEAN, size : Nat,
   src : data, clusters : data]

Items(data) == [dir : BOOLEAN, deleted : BOOLEAN, size : Nat, src : data]

\* A parent is made before its children.
Trees(names, data) == {t \in Seq(Nodes(names, data)) : \A i \in DOMAIN t : t[i].parent < i}

\* A place in a tree.
Spots(names, data) == {s \in [tree : Trees(names, data), at : Nat] : s.at <= Len(s.tree)}

LEMMA Choice ==
  ASSUME NEW x
  PROVE  (CHOOSE r \in {x} : TRUE) = x
  OBVIOUS

LEMMA TreeHas ==
  ASSUME NEW names, NEW data, NEW t \in Trees(names, data)
  PROVE  /\ t \in Seq(Nodes(names, data)) /\ Len(t) \in Nat /\ DOMAIN t = 1 .. Len(t)
         /\ \A i \in DOMAIN t : t[i] \in Nodes(names, data) /\ t[i].parent \in 0 .. i - 1
<1>1. t \in Seq(Nodes(names, data)) /\ \A i \in DOMAIN t : t[i].parent < i
  BY DEF Trees
<1>2. \A i \in DOMAIN t : t[i] \in Nodes(names, data)
  BY <1>1
<1>3. \A n \in Nodes(names, data) : n.parent \in Nat
  BY DEF Nodes
<1>4. Len(t) \in Nat /\ DOMAIN t = 1 .. Len(t)
  BY <1>1
<1> QED
  BY <1>1, <1>2, <1>3, <1>4

LEMMA GrownTree ==
  ASSUME NEW names, NEW data, NEW t \in Trees(names, data), NEW n \in Nodes(names, data),
         n.parent <= Len(t)
  PROVE  Append(t, n) \in Trees(names, data) /\ Len(Append(t, n)) = Len(t) + 1
<1>1. /\ t \in Seq(Nodes(names, data)) /\ Len(t) \in Nat /\ DOMAIN t = 1 .. Len(t)
      /\ \A i \in DOMAIN t : t[i].parent \in 0 .. i - 1
  BY TreeHas
<1>2. Append(t, n) \in Seq(Nodes(names, data)) /\ Len(Append(t, n)) = Len(t) + 1
  BY <1>1, AppendProperties
<1>3. ASSUME NEW i \in DOMAIN Append(t, n) PROVE Append(t, n)[i].parent < i
  <2>1. i \in 1 .. Len(t) + 1
    BY <1>1, AppendProperties
  <2>2. n.parent \in Nat
    BY DEF Nodes
  <2>3. CASE i \in 1 .. Len(t)
    <3>1. Append(t, n)[i] = t[i]
      BY <1>1, <2>3, AppendProperties
    <3> QED
      BY <1>1, <2>3, <3>1
  <2>4. CASE i = Len(t) + 1
    <3>1. Append(t, n)[i] = n
      BY <1>1, <2>4, AppendProperties
    <3> QED
      BY <1>1, <2>2, <2>4, <3>1
  <2> QED
    BY <1>1, <2>1, <2>3, <2>4
<1> QED
  BY <1>2, <1>3 DEF Trees

LEMMA ChangedTree ==
  ASSUME NEW names, NEW data, NEW t \in Trees(names, data),
         NEW u \in [DOMAIN t -> Nodes(names, data)], \A i \in DOMAIN t : u[i].parent = t[i].parent
  PROVE  u \in Trees(names, data) /\ Len(u) = Len(t)
<1>1. /\ t \in Seq(Nodes(names, data)) /\ Len(t) \in Nat /\ DOMAIN t = 1 .. Len(t)
      /\ \A i \in DOMAIN t : t[i].parent < i
  BY TreeHas DEF Trees
<1>2. u \in [1 .. Len(t) -> Nodes(names, data)]
  BY <1>1
<1>3. u \in Seq(Nodes(names, data)) /\ DOMAIN u = 1 .. Len(t)
  BY <1>1, <1>2
<1>4. Len(u) = Len(t)
  BY <1>1, <1>3, LenProperties
<1> QED
  BY <1>1, <1>3, <1>4 DEF Trees

LEMMA FindChildIn ==
  ASSUME NEW t, NEW at, NEW name
  PROVE  \A i \in FindChild(t, at, name) : i \in DOMAIN t /\ t[i].parent = at /\ t[i].name = name
  BY DEF FindChild, First

LEMMA NewNodeIn ==
  ASSUME NEW names, NEW data, NEW at \in Nat, NEW name \in names, NEW item \in Items(data),
         NoSource \in data
  PROVE  NewNode(at, name, item) \in Nodes(names, data) /\ NewNode(at, name, item).parent = at
  BY DEF NewNode, Nodes, Items

LEMMA EnsureDirIn ==
  ASSUME NEW names, NEW data, NEW s \in Spots(names, data), NEW name \in names, NoSource \in data
  PROVE  EnsureDir(s, name) \in Spots(names, data)
<1> DEFINE t == s.tree
           found == FindChild(t, s.at, name)
<1>1. s \in [tree : Trees(names, data), at : Nat] /\ t \in Trees(names, data) /\ s.at \in Nat /\ s.at <= Len(t)
  BY DEF Spots
<1>2. Len(t) \in Nat /\ DOMAIN t = 1 .. Len(t)
  BY <1>1, TreeHas
<1>3. CASE found # {}
  <2> DEFINE i == CHOOSE i \in found : TRUE
  <2>1. i \in found
    BY <1>3
  <2>2. i \in DOMAIN t
    BY <2>1, FindChildIn
  <2>3. EnsureDir(s, name) = [s EXCEPT !.at = i]
    BY <1>3 DEF EnsureDir
  <2> HIDE DEF i
  <2>4. [s EXCEPT !.at = i] \in [tree : Trees(names, data), at : Nat]
    BY <1>1, <1>2, <2>2
  <2>5. [s EXCEPT !.at = i].at = i /\ [s EXCEPT !.at = i].tree = t
    BY <1>1
  <2> QED
    BY <1>2, <2>2, <2>3, <2>4, <2>5 DEF Spots
<1>4. CASE found = {}
  <2> DEFINE item == Item(TRUE, FALSE, 0, NoSource)
             n == NewNode(s.at, name, item)
  <2>1. item \in Items(data)
    BY DEF Item, Items
  <2> HIDE DEF item
  <2>2. n \in Nodes(names, data) /\ n.parent = s.at
    BY <1>1, <2>1, NewNodeIn
  <2>3. EnsureDir(s, name) = [tree |-> Append(t, n), at |-> Len(t) + 1]
    BY <1>4 DEF EnsureDir, item
  <2> HIDE DEF n
  <2>4. Append(t, n) \in Trees(names, data) /\ Len(Append(t, n)) = Len(t) + 1
    <3>1. n.parent <= Len(t)
      BY <1>1, <2>2
    <3> HIDE DEF t
    <3> QED
      BY <1>1, <2>2, <3>1, GrownTree
  <2> QED
    BY <1>2, <2>3, <2>4 DEF Spots
<1> QED
  BY <1>3, <1>4

\* With(v, Op) is Op(v), one operator at a time.
LEMMA WithEnsureDir ==
  ASSUME NEW s, NEW name
  PROVE  With(s, LAMBDA now : EnsureDir(now, name)) = EnsureDir(s, name)
<1>1. {EnsureDir(w, name) : w \in {s}} = {EnsureDir(s, name)}
  OBVIOUS
<1> QED
  BY <1>1, Choice DEF With

LEMMA EnsureDirsBuilt ==
  ASSUME NEW names, NEW data, NEW t \in Trees(names, data), NEW path \in Seq(names), NoSource \in data
  PROVE  \E made \in [0 .. Len(path) -> Spots(names, data)] :
           /\ made[0] = [tree |-> t, at |-> Root]
           /\ \A n \in 1 .. Len(path) : made[n] = EnsureDir(made[n - 1], path[n])
           /\ EnsureDirs(t, path) = made[Len(path)]
<1> DEFINE L == Len(path)
           S == Spots(names, data)
           x == [tree |-> t, at |-> Root]
           back == [i \in 1 .. L |-> i - 1]
           step == [p \in (1 .. L) \X S |-> EnsureDir(p[2], path[p[1]])]
           Is(f) == f = [n \in 0 .. L |-> IF n = 0 THEN x
                                          ELSE With(f[n - 1], LAMBDA s : EnsureDir(s, path[n]))]
<1>1. L \in Nat /\ \A i \in 1 .. L : path[i] \in names
  OBVIOUS
<1>2. x \in S
  <2>1. Len(t) \in Nat
    BY TreeHas
  <2> QED
    BY <2>1 DEF Root, Spots
<1>3. \A i \in 1 .. L : back[i] \in 0 .. i - 1 /\ back[i] = i - 1 /\ i \in 0 .. L
  BY <1>1
<1>4. \A i \in 1 .. L, s \in S : step[<<i, s>>] = EnsureDir(s, path[i])
  OBVIOUS
<1>5. \A i \in 1 .. L, s \in S : EnsureDir(s, path[i]) \in S
  BY <1>1, EnsureDirIn
<1>6. step \in [(1 .. L) \X S -> S]
  <2>1. \A p \in (1 .. L) \X S : EnsureDir(p[2], path[p[1]]) \in S
    BY <1>5
  <2> HIDE DEF S
  <2> QED
    BY <2>1
<1>7. back \in [1 .. L -> Nat] /\ \A i \in 1 .. L : back[i] < i
  BY <1>1
<1> HIDE DEF back, step, S, x
<1>8. PICK g : Built(g, L, x, S, back, step)
  BY <1>1, <1>2, <1>6, <1>7, Builds
<1>9. g \in [0 .. L -> S] /\ g[0] = x /\ \A i \in 1 .. L : g[i] = EnsureDir(g[i - 1], path[i])
  <2>1. g \in [0 .. L -> S] /\ g[0] = x /\ \A i \in 1 .. L : g[i] = step[<<i, g[back[i]]>>]
    BY <1>8 DEF Built
  <2>2. \A i \in 1 .. L : g[i - 1] \in S /\ back[i] = i - 1
    BY <1>1, <1>3, <2>1
  <2> QED
    BY <1>4, <2>1, <2>2
<1>10. Is(g)
  <2>1. \A n \in 0 .. L : n # 0 => n \in 1 .. L
    BY <1>1
  <2>2. \A n \in 0 .. L : g[n] = IF n = 0 THEN x ELSE With(g[n - 1], LAMBDA s : EnsureDir(s, path[n]))
    <3>1. ASSUME NEW n \in 0 .. L
          PROVE  g[n] = IF n = 0 THEN x ELSE With(g[n - 1], LAMBDA s : EnsureDir(s, path[n]))
      <4>1. CASE n = 0
        BY <1>9, <4>1
      <4>2. CASE n # 0
        <5>1. g[n] = EnsureDir(g[n - 1], path[n])
          BY <1>9, <2>1, <4>2
        <5>2. With(g[n - 1], LAMBDA s : EnsureDir(s, path[n])) = EnsureDir(g[n - 1], path[n])
          BY WithEnsureDir
        <5> QED
          BY <4>2, <5>1, <5>2
      <4> QED
        BY <4>1, <4>2
    <3> QED
      BY <3>1
  <2>3. g = [n \in 0 .. L |-> g[n]]
    BY <1>9
  <2> QED
    BY <2>2, <2>3, Zenon
<1> DEFINE f == CHOOSE f : Is(f)
<1>11. Is(f)
  BY <1>10
<1>12. EnsureDirs(t, path) = f[L]
  BY DEF EnsureDirs, x
<1> HIDE DEF f
<1>13. DOMAIN f = 0 .. L /\ f = [n \in DOMAIN f |-> f[n]] /\ f[0] = x
  BY <1>1, <1>11
<1>14. ASSUME NEW i \in 1 .. L, NEW s \in S, f[back[i]] = s PROVE f[i] = step[<<i, s>>]
  <2>1. i \in 0 .. L /\ i # 0 /\ back[i] = i - 1
    BY <1>3
  <2>2. f[i] = With(f[i - 1], LAMBDA r : EnsureDir(r, path[i]))
    BY <1>11, <2>1
  <2>3. f[i] = EnsureDir(s, path[i])
    BY <1>14, <2>1, <2>2, WithEnsureDir
  <2> QED
    BY <1>4, <2>3
<1>15. f = g
  <2>1. Follows(f, L, x, S, back, step)
    BY <1>3, <1>13, <1>14 DEF Follows
  <2> QED
    BY <1>1, <1>8, <2>1, SameAsBuilt
<1> QED
  BY <1>1, <1>9, <1>12, <1>15 DEF S, x

LEMMA RelistIn ==
  ASSUME NEW names, NEW data, NEW n \in Nodes(names, data), NEW item \in Items(data)
  PROVE  Relist(n, item) \in Nodes(names, data) /\ Relist(n, item).parent = n.parent
         /\ Relist(n, item).name = n.name
  BY DEF Relist, Nodes, Items

LEMMA PutAtIs ==
  ASSUME NEW t, NEW at, NEW name, NEW item
  PROVE  PutAt(t, at, name, item) =
           IF FindChild(t, at, name) = {} THEN Append(t, NewNode(at, name, item))
           ELSE [i \in DOMAIN t |-> IF i \in FindChild(t, at, name) THEN Relist(t[i], item) ELSE t[i]]
<1> DEFINE R(old) == IF old = {} THEN Append(t, NewNode(at, name, item))
                     ELSE [i \in DOMAIN t |-> IF i \in old THEN Relist(t[i], item) ELSE t[i]]
           v == FindChild(t, at, name)
<1>1. PutAt(t, at, name, item) = CHOOSE r \in {R(w) : w \in {v}} : TRUE
  BY DEF PutAt, With
<1> HIDE DEF R
<1>2. {R(w) : w \in {v}} = {R(v)}
  OBVIOUS
<1>3. PutAt(t, at, name, item) = R(v)
  BY <1>1, <1>2, Choice
<1> QED
  BY <1>3 DEF R

LEMMA PutAtIn ==
  ASSUME NEW names, NEW data, NEW t \in Trees(names, data), NEW at \in Nat, NEW name \in names,
         NEW item \in Items(data), NoSource \in data, at <= Len(t)
  PROVE  PutAt(t, at, name, item) \in Trees(names, data)
<1> DEFINE old == FindChild(t, at, name)
           u == [i \in DOMAIN t |-> IF i \in old THEN Relist(t[i], item) ELSE t[i]]
<1>1. CASE old = {}
  <2>1. NewNode(at, name, item) \in Nodes(names, data) /\ NewNode(at, name, item).parent = at
    BY NewNodeIn
  <2> DEFINE n == NewNode(at, name, item)
  <2>2. PutAt(t, at, name, item) = Append(t, n)
    BY <1>1, PutAtIs
  <2>3. n \in Nodes(names, data) /\ n.parent <= Len(t)
    BY <2>1
  <2> HIDE DEF n
  <2> QED
    BY <2>2, <2>3, GrownTree
<1>2. CASE old # {}
  <2>1. PutAt(t, at, name, item) = u
    BY <1>2, PutAtIs
  <2>2. \A i \in DOMAIN t : t[i] \in Nodes(names, data)
    BY TreeHas
  <2>3. \A i \in DOMAIN t : Relist(t[i], item) \in Nodes(names, data) /\ Relist(t[i], item).parent = t[i].parent
    BY <2>2, RelistIn
  <2> HIDE DEF old
  <2>4. u \in [DOMAIN t -> Nodes(names, data)] /\ \A i \in DOMAIN t : u[i].parent = t[i].parent
    BY <2>2, <2>3
  <2> HIDE DEF u
  <2> QED
    BY <2>1, <2>4, ChangedTree
<1> QED
  BY <1>1, <1>2

LEMMA AddPathIs ==
  ASSUME NEW t, NEW path, NEW item, path # <<>>
  PROVE  AddPath(t, path, item) =
           PutAt(EnsureDirs(t, Front(path)).tree, EnsureDirs(t, Front(path)).at, Last(path), item)
<1> DEFINE R(s) == PutAt(s.tree, s.at, Last(path), item)
           v == EnsureDirs(t, Front(path))
<1>1. AddPath(t, path, item) = CHOOSE r \in {R(w) : w \in {v}} : TRUE
  BY DEF AddPath, With
<1> HIDE DEF R
<1>2. {R(w) : w \in {v}} = {R(v)}
  OBVIOUS
<1>3. AddPath(t, path, item) = R(v)
  BY <1>1, <1>2, Choice
<1> QED
  BY <1>3 DEF R

LEMMA FrontAndLast ==
  ASSUME NEW names, NEW path \in Seq(names), path # <<>>
  PROVE  /\ Front(path) \in Seq(names) /\ Len(Front(path)) = Len(path) - 1
         /\ \A i \in 1 .. Len(path) - 1 : Front(path)[i] = path[i]
         /\ Last(path) = path[Len(path)] /\ Last(path) \in names /\ Len(path) \in Nat \ {0}
<1>1. Len(path) \in Nat \ {0}
  BY EmptySeq
<1>2. Front(path) = SubSeq(path, 1, Len(path) - 1) /\ Last(path) = path[Len(path)]
  BY DEF Front, Last
<1>3. 1 \in Int /\ Len(path) - 1 \in Int /\ \A i \in 1 .. Len(path) - 1 : path[i] \in names
  BY <1>1
<1>4. /\ SubSeq(path, 1, Len(path) - 1) \in Seq(names)
      /\ Len(SubSeq(path, 1, Len(path) - 1)) = Len(path) - 1
      /\ \A i \in 1 .. Len(path) - 1 : SubSeq(path, 1, Len(path) - 1)[i] = path[i]
  <2> DEFINE k == Len(path) - 1
  <2>1. k \in Int /\ k \in Nat /\ k - 1 + 1 = k /\ (1 <= k \/ k = 0) /\ \A i \in 1 .. k : 1 + i - 1 = i
    <3>1. PICK n \in Nat \ {0} : n = Len(path)
      BY <1>1
    <3> QED
      BY <3>1
  <2>2. \A i \in 1 .. k : path[i] \in names
    BY <1>3
  <2> HIDE DEF k
  <2>3. /\ SubSeq(path, 1, k) \in Seq(names)
        /\ Len(SubSeq(path, 1, k)) = IF 1 <= k THEN k - 1 + 1 ELSE 0
        /\ \A i \in 1 .. k - 1 + 1 : SubSeq(path, 1, k)[i] = path[1 + i - 1]
    BY <2>1, <2>2, SubSeqProperties
  <2>4. /\ SubSeq(path, 1, k) \in Seq(names) /\ Len(SubSeq(path, 1, k)) = k
        /\ \A i \in 1 .. k : SubSeq(path, 1, k)[i] = path[i]
    BY <2>1, <2>3
  <2> QED
    BY <2>4 DEF k
<1> QED
  BY <1>1, <1>2, <1>4

LEMMA EnsureDirsIn ==
  ASSUME NEW names, NEW data, NEW t \in Trees(names, data), NEW path \in Seq(names), NoSource \in data
  PROVE  EnsureDirs(t, path) \in Spots(names, data)
<1>1. PICK made \in [0 .. Len(path) -> Spots(names, data)] :
        /\ made[0] = [tree |-> t, at |-> Root]
        /\ \A n \in 1 .. Len(path) : made[n] = EnsureDir(made[n - 1], path[n])
        /\ EnsureDirs(t, path) = made[Len(path)]
  BY EnsureDirsBuilt
<1>2. Len(path) \in 0 .. Len(path)
  OBVIOUS
<1> QED
  BY <1>1, <1>2

LEMMA AddPathIn ==
  ASSUME NEW names, NEW data, NEW t \in Trees(names, data), NEW path \in Seq(names),
         NEW item \in Items(data), NoSource \in data
  PROVE  AddPath(t, path, item) \in Trees(names, data)
<1>1. CASE path = <<>>
  BY <1>1 DEF AddPath
<1>2. CASE path # <<>>
  <2>1. Front(path) \in Seq(names) /\ Last(path) \in names
    BY <1>2, FrontAndLast
  <2>2. EnsureDirs(t, Front(path)) \in Spots(names, data)
    BY <2>1, EnsureDirsIn
  <2>3. PICK s \in Spots(names, data) : s = EnsureDirs(t, Front(path))
    BY <2>2
  <2>4. s.tree \in Trees(names, data) /\ s.at \in Nat /\ s.at <= Len(s.tree)
    BY DEF Spots
  <2>5. PutAt(s.tree, s.at, Last(path), item) \in Trees(names, data)
    BY <2>1, <2>4, PutAtIn
  <2> QED
    BY <1>2, <2>3, <2>5, AddPathIs
<1> QED
  BY <1>1, <1>2

\* What session_read_tree does to the node that is at the path of an entry.
LoadedNode(node, e) ==
  [node EXCEPT !.orphan = e.orphan,
               !.clusters = IF e.clusters = NoSource \/ e.item.dir THEN @ ELSE e.clusters]

SavedEntries(names, data) ==
  [path : Seq(names), orphan : BOOLEAN, clusters : data, item : Items(data)]

LEMMA LoadEntryIs ==
  ASSUME NEW t, NEW e, NEW u, u = AddPath(t, e.path, e.item)
  PROVE  LoadEntry(t, e) =
           [i \in DOMAIN u |-> IF i \in FindPath(u, e.path) THEN LoadedNode(u[i], e) ELSE u[i]]
<1> DEFINE R(w, found) == [i \in DOMAIN w |-> IF i \in found THEN LoadedNode(w[i], e) ELSE w[i]]
           Q(w) == CHOOSE r \in {R(w, x) : x \in {FindPath(w, e.path)}} : TRUE
<1>1. LoadEntry(t, e) = CHOOSE r \in {Q(w) : w \in {u}} : TRUE
  BY DEF LoadEntry, UpdateAt, With, LoadedNode
<1> HIDE DEF Q
<1>2. {Q(w) : w \in {u}} = {Q(u)}
  OBVIOUS
<1>3. LoadEntry(t, e) = Q(u)
  BY <1>1, <1>2, Choice
<1> HIDE DEF R
<1>4. {R(u, x) : x \in {FindPath(u, e.path)}} = {R(u, FindPath(u, e.path))}
  OBVIOUS
<1>5. Q(u) = R(u, FindPath(u, e.path))
  BY <1>4, Choice DEF Q
<1> QED
  BY <1>3, <1>5 DEF R

LEMMA LoadEntryIn ==
  ASSUME NEW names, NEW data, NEW t \in Trees(names, data), NEW e \in SavedEntries(names, data),
         NoSource \in data
  PROVE  LoadEntry(t, e) \in Trees(names, data)
<1>1. e.path \in Seq(names) /\ e.orphan \in BOOLEAN /\ e.clusters \in data /\ e.item \in Items(data)
  BY DEF SavedEntries
<1>2. PICK u \in Trees(names, data) : u = AddPath(t, e.path, e.item)
  BY <1>1, AddPathIn
<1> DEFINE found == FindPath(u, e.path)
           v == [i \in DOMAIN u |-> IF i \in found THEN LoadedNode(u[i], e) ELSE u[i]]
<1>3. LoadEntry(t, e) = v
  BY <1>2, LoadEntryIs
<1>4. \A n \in Nodes(names, data) :
        LoadedNode(n, e) \in Nodes(names, data) /\ LoadedNode(n, e).parent = n.parent
  BY <1>1 DEF LoadedNode, Nodes
<1>5. \A i \in DOMAIN u : u[i] \in Nodes(names, data)
  BY TreeHas
<1> HIDE DEF found
<1>6. v \in [DOMAIN u -> Nodes(names, data)] /\ \A i \in DOMAIN u : v[i].parent = u[i].parent
  BY <1>4, <1>5
<1> HIDE DEF v
<1> QED
  BY <1>3, <1>6, ChangedTree

LEMMA NoTree ==
  ASSUME NEW names, NEW data
  PROVE  <<>> \in Trees(names, data)
<1>1. <<>> \in Seq(Nodes(names, data)) /\ DOMAIN <<>> = {}
  OBVIOUS
<1> QED
  BY <1>1 DEF Trees

LEMMA WithLoadEntry ==
  ASSUME NEW t, NEW e
  PROVE  With(t, LAMBDA u : LoadEntry(u, e)) = LoadEntry(t, e)
<1>1. {LoadEntry(w, e) : w \in {t}} = {LoadEntry(t, e)}
  OBVIOUS
<1> QED
  BY <1>1, Choice DEF With

LEMMA LoadBuilt ==
  ASSUME NEW names, NEW data, NEW entries \in Seq(SavedEntries(names, data)), NoSource \in data
  PROVE  \E read \in [0 .. Len(entries) -> Trees(names, data)] :
           /\ read[0] = <<>>
           /\ \A n \in 1 .. Len(entries) : read[n] = LoadEntry(read[n - 1], entries[n])
           /\ Load(entries) = read[Len(entries)]
<1> DEFINE L == Len(entries)
           S == Trees(names, data)
           x == <<>>
           back == [i \in 1 .. L |-> i - 1]
           step == [p \in (1 .. L) \X S |-> LoadEntry(p[2], entries[p[1]])]
           Is(f) == f = [n \in 0 .. L |-> IF n = 0 THEN x
                                          ELSE With(f[n - 1], LAMBDA t : LoadEntry(t, entries[n]))]
<1>1. L \in Nat /\ \A i \in 1 .. L : entries[i] \in SavedEntries(names, data)
  OBVIOUS
<1>2. x \in S
  BY NoTree
<1>3. \A i \in 1 .. L : back[i] \in 0 .. i - 1 /\ back[i] = i - 1 /\ i \in 0 .. L
  BY <1>1
<1>4. \A i \in 1 .. L, s \in S : step[<<i, s>>] = LoadEntry(s, entries[i])
  OBVIOUS
<1>5. \A i \in 1 .. L, s \in S : LoadEntry(s, entries[i]) \in S
  BY <1>1, LoadEntryIn
<1>6. step \in [(1 .. L) \X S -> S]
  <2>1. \A p \in (1 .. L) \X S : LoadEntry(p[2], entries[p[1]]) \in S
    BY <1>5
  <2> HIDE DEF S
  <2> QED
    BY <2>1
<1>7. back \in [1 .. L -> Nat] /\ \A i \in 1 .. L : back[i] < i
  BY <1>1
<1> HIDE DEF back, step, S, x
<1>8. PICK g : Built(g, L, x, S, back, step)
  BY <1>1, <1>2, <1>6, <1>7, Builds
<1>9. g \in [0 .. L -> S] /\ g[0] = x /\ \A i \in 1 .. L : g[i] = LoadEntry(g[i - 1], entries[i])
  <2>1. g \in [0 .. L -> S] /\ g[0] = x /\ \A i \in 1 .. L : g[i] = step[<<i, g[back[i]]>>]
    BY <1>8 DEF Built
  <2>2. \A i \in 1 .. L : g[i - 1] \in S /\ back[i] = i - 1
    BY <1>1, <1>3, <2>1
  <2> QED
    BY <1>4, <2>1, <2>2
<1>10. Is(g)
  <2>1. \A n \in 0 .. L : n # 0 => n \in 1 .. L
    BY <1>1
  <2>2. \A n \in 0 .. L : g[n] = IF n = 0 THEN x ELSE With(g[n - 1], LAMBDA t : LoadEntry(t, entries[n]))
    BY <1>9, <2>1, WithLoadEntry
  <2>3. g = [n \in 0 .. L |-> g[n]]
    BY <1>9
  <2> QED
    BY <2>2, <2>3, Zenon
<1> DEFINE f == CHOOSE f : Is(f)
<1>11. Is(f)
  BY <1>10
<1>12. Load(entries) = f[L]
  BY DEF Load, x
<1> HIDE DEF f
<1>13. DOMAIN f = 0 .. L /\ f = [n \in DOMAIN f |-> f[n]] /\ f[0] = x
  BY <1>1, <1>11
<1>14. ASSUME NEW i \in 1 .. L, NEW s \in S, f[back[i]] = s PROVE f[i] = step[<<i, s>>]
  <2>1. i \in 0 .. L /\ i # 0 /\ back[i] = i - 1
    BY <1>3
  <2>2. f[i] = With(f[i - 1], LAMBDA t : LoadEntry(t, entries[i]))
    BY <1>11, <2>1
  <2>3. f[i] = LoadEntry(s, entries[i])
    BY <1>14, <2>1, <2>2, WithLoadEntry
  <2> QED
    BY <1>4, <2>3
<1>15. f = g
  <2>1. Follows(f, L, x, S, back, step)
    BY <1>3, <1>13, <1>14 DEF Follows
  <2> QED
    BY <1>1, <1>8, <2>1, SameAsBuilt
<1> QED
  BY <1>1, <1>9, <1>12, <1>15 DEF S, x

LEMMA LoadIn ==
  ASSUME NEW names, NEW data, NEW entries \in Seq(SavedEntries(names, data)), NoSource \in data
  PROVE  Load(entries) \in Trees(names, data)
<1>1. PICK read \in [0 .. Len(entries) -> Trees(names, data)] : Load(entries) = read[Len(entries)]
  BY LoadBuilt
<1>2. Len(entries) \in 0 .. Len(entries)
  OBVIOUS
<1> QED
  BY <1>1, <1>2

------------------------------------------------------------------------------
(* What a save writes of a tree. *)

LEMMA FullPathIs ==
  ASSUME NEW names, NEW data, NEW t \in Trees(names, data)
  PROVE  /\ FullPath(t, Root) = <<>>
         /\ \A i \in 0 .. Len(t) : FullPath(t, i) \in Seq(names)
         /\ \A i \in 1 .. Len(t) : FullPath(t, i) = Append(FullPath(t, t[i].parent), t[i].name)
<1> DEFINE L == Len(t)
           S == Seq(names)
           back == [i \in 1 .. L |-> t[i].parent]
           step == [p \in (1 .. L) \X S |-> Append(p[2], t[p[1]].name)]
           Is(f) == f = [i \in 0 .. L |-> IF i = Root THEN <<>> ELSE Append(f[t[i].parent], t[i].name)]
<1>1. L \in Nat /\ \A i \in 1 .. L : t[i].name \in names /\ t[i].parent \in 0 .. i - 1
  <2>1. \A n \in Nodes(names, data) : n.name \in names
    BY DEF Nodes
  <2> QED
    BY <2>1, TreeHas
<1>2. <<>> \in S
  OBVIOUS
<1>3. \A i \in 1 .. L : back[i] \in 0 .. i - 1 /\ back[i] = t[i].parent /\ i \in 0 .. L
  BY <1>1
<1>4. \A i \in 1 .. L, s \in S : step[<<i, s>>] = Append(s, t[i].name)
  OBVIOUS
<1>5. \A i \in 1 .. L, s \in S : Append(s, t[i].name) \in S
  BY <1>1
<1>6. step \in [(1 .. L) \X S -> S]
  <2>1. \A p \in (1 .. L) \X S : Append(p[2], t[p[1]].name) \in S
    BY <1>5
  <2> HIDE DEF S
  <2> QED
    BY <2>1
<1>7. back \in [1 .. L -> Nat] /\ \A i \in 1 .. L : back[i] < i
  BY <1>1
<1> HIDE DEF back, step, S
<1>8. PICK g : Built(g, L, <<>>, S, back, step)
  BY <1>1, <1>2, <1>6, <1>7, Builds
<1>9. g \in [0 .. L -> S] /\ g[0] = <<>> /\ \A i \in 1 .. L : g[i] = Append(g[t[i].parent], t[i].name)
  <2>1. g \in [0 .. L -> S] /\ g[0] = <<>> /\ \A i \in 1 .. L : g[i] = step[<<i, g[back[i]]>>]
    BY <1>8 DEF Built
  <2>2. \A i \in 1 .. L : g[t[i].parent] \in S /\ back[i] = t[i].parent
    BY <1>1, <1>3, <2>1
  <2> QED
    BY <1>4, <2>1, <2>2
<1>10. Is(g)
  <2>1. \A n \in 0 .. L : n # 0 => n \in 1 .. L
    BY <1>1
  <2>2. \A n \in 0 .. L : g[n] = IF n = Root THEN <<>> ELSE Append(g[t[n].parent], t[n].name)
    BY <1>9, <2>1 DEF Root
  <2>3. g = [n \in 0 .. L |-> g[n]]
    BY <1>9
  <2> QED
    BY <2>2, <2>3, Zenon
<1> DEFINE f == CHOOSE f : Is(f)
<1>11. Is(f)
  BY <1>10
<1>12. \A i : FullPath(t, i) = f[i]
  BY DEF FullPath
<1> HIDE DEF f
<1>13. DOMAIN f = 0 .. L /\ f = [n \in DOMAIN f |-> f[n]] /\ f[0] = <<>>
  BY <1>1, <1>11 DEF Root
<1>14. ASSUME NEW i \in 1 .. L, NEW s \in S, f[back[i]] = s PROVE f[i] = step[<<i, s>>]
  <2>1. i \in 0 .. L /\ i # 0 /\ back[i] = t[i].parent
    BY <1>3
  <2>2. f[i] = Append(f[t[i].parent], t[i].name)
    BY <1>11, <2>1 DEF Root
  <2> QED
    BY <1>4, <1>14, <2>1, <2>2
<1>15. f = g
  <2>1. Follows(f, L, <<>>, S, back, step)
    BY <1>3, <1>13, <1>14 DEF Follows
  <2> QED
    BY <1>1, <1>8, <2>1, SameAsBuilt
<1> QED
  BY <1>1, <1>9, <1>12, <1>15 DEF S, Root

LEMMA GetPathIn ==
  ASSUME NEW names, NEW data, NEW t \in Trees(names, data), NEW i \in 0 .. Len(t)
  PROVE  GetPath(t, i) \in Seq(names)
<1> DEFINE R(path) == IF Len(path) > MaxChain THEN SubSeq(path, Len(path) - MaxChain + 1, Len(path)) ELSE path
           v == FullPath(t, i)
<1>1. GetPath(t, i) = CHOOSE r \in {R(w) : w \in {v}} : TRUE
  BY DEF GetPath, With
<1> HIDE DEF R
<1>2. {R(w) : w \in {v}} = {R(v)}
  OBVIOUS
<1>3. GetPath(t, i) = R(v)
  BY <1>1, <1>2, Choice
<1>4. PICK p \in Seq(names) : p = v
  BY FullPathIs
<1>5. R(p) \in Seq(names)
  <2>1. Len(p) \in Nat /\ MaxChain \in Nat \ {0}
    BY ChainAssumption
  <2>2. CASE Len(p) > MaxChain
    <3>1. Len(p) - MaxChain + 1 \in 1 .. Len(p) + 1 /\ Len(p) \in Len(p) - MaxChain .. Len(p)
      BY <2>1, <2>2
    <3>2. \A k \in Len(p) - MaxChain + 1 .. Len(p) : p[k] \in names
      BY <2>1, <2>2
    <3>3. SubSeq(p, Len(p) - MaxChain + 1, Len(p)) \in Seq(names)
      BY <2>1, <3>1, <3>2, SubSeqProperties
    <3> QED
      BY <2>2, <3>3 DEF R
  <2>3. CASE ~(Len(p) > MaxChain)
    BY <2>3 DEF R
  <2> QED
    BY <2>2, <2>3
<1> QED
  BY <1>3, <1>4, <1>5

LEMMA EntryIn ==
  ASSUME NEW names, NEW data, NEW t \in Trees(names, data), NEW i \in DOMAIN t
  PROVE  Entry(t, i) \in SavedEntries(names, data)
<1>1. i \in 0 .. Len(t) /\ t[i] \in Nodes(names, data)
  BY TreeHas
<1>2. GetPath(t, i) \in Seq(names)
  BY <1>1, GetPathIn
<1> QED
  BY <1>1, <1>2 DEF Entry, SavedEntries, Nodes, Items, Item

\* What is written below each node, once session_write_node_rec has come back to node i, and
\* the rows one after the other.
Row(t, i, row) ==
  [row EXCEPT ![t[i].parent] = <<Entry(t, i)>> \o (IF t[i].dir THEN row[i] ELSE <<>>) \o @]

Rows(rows, t, E) ==
  /\ rows \in [0 .. Len(t) -> [0 .. Len(t) -> Seq(E)]]
  /\ rows[0] = [at \in 0 .. Len(t) |-> <<>>]
  /\ \A n \in 1 .. Len(t) : rows[n] = Row(t, Len(t) + 1 - n, rows[n - 1])
  /\ Serialize(t) = rows[Len(t)][0]

LEMMA SerializeBuilt ==
  ASSUME NEW names, NEW data, NEW t \in Trees(names, data)
  PROVE  \E rows : Rows(rows, t, SavedEntries(names, data))
<1> DEFINE L == Len(t)
           E == SavedEntries(names, data)
           S == [0 .. L -> Seq(E)]
           x == [at \in 0 .. L |-> <<>>]
           back == [n \in 1 .. L |-> n - 1]
           step == [p \in (1 .. L) \X S |-> Row(t, L + 1 - p[1], p[2])]
           Is(f) == f = [i \in 1 .. L + 1 |->
                           IF i > L THEN x ELSE With(f[i + 1], LAMBDA later : Row(t, i, later))]
<1>1. L \in Nat /\ \A i \in 1 .. L : Entry(t, i) \in E /\ i \in 0 .. L /\ t[i].parent \in 0 .. L
  <2>1. \A i \in 1 .. L : t[i].parent \in 0 .. i - 1 /\ i \in DOMAIN t
    BY TreeHas
  <2>2. L \in Nat
    BY TreeHas
  <2> QED
    BY <2>1, <2>2, EntryIn
<1>2. x \in S
  OBVIOUS
<1>3. \A i \in 1 .. L : back[i] \in 0 .. i - 1 /\ back[i] = i - 1 /\ i \in 0 .. L /\ L + 1 - i \in 1 .. L
  BY <1>1
<1>4. ASSUME NEW i \in 1 .. L, NEW row \in S PROVE Row(t, i, row) \in S
  <2>1. \A at \in 0 .. L : row[at] \in Seq(E)
    OBVIOUS
  <2>2. Entry(t, i) \in E /\ row[i] \in Seq(E) /\ t[i].parent \in 0 .. L
    BY <1>1, <2>1
  <2> HIDE DEF E
  <2>3. <<Entry(t, i)>> \in Seq(E) /\ <<>> \in Seq(E)
    BY <2>2
  <2>4. (IF t[i].dir THEN row[i] ELSE <<>>) \in Seq(E)
    BY <2>2, <2>3
  <2>5. \A s \in Seq(E) : <<Entry(t, i)>> \o (IF t[i].dir THEN row[i] ELSE <<>>) \o s \in Seq(E)
    BY <2>3, <2>4
  <2>6. <<Entry(t, i)>> \o (IF t[i].dir THEN row[i] ELSE <<>>) \o row[t[i].parent] \in Seq(E)
    BY <2>1, <2>2, <2>5
  <2> QED
    BY <2>6 DEF Row
<1>5. \A i \in 1 .. L, row \in S : step[<<i, row>>] = Row(t, L + 1 - i, row)
  OBVIOUS
<1>6. step \in [(1 .. L) \X S -> S]
  <2>1. \A p \in (1 .. L) \X S : Row(t, L + 1 - p[1], p[2]) \in S
    BY <1>3, <1>4
  <2> HIDE DEF S
  <2> QED
    BY <2>1
<1>7. back \in [1 .. L -> Nat] /\ \A i \in 1 .. L : back[i] < i
  BY <1>1
<1> HIDE DEF back, step, x, S, L
<1>8. PICK g : Built(g, L, x, S, back, step)
  BY <1>1, <1>2, <1>6, <1>7, Builds
<1>9. g \in [0 .. L -> S] /\ g[0] = x /\ \A n \in 1 .. L : g[n] = Row(t, L + 1 - n, g[n - 1])
  <2>1. g \in [0 .. L -> S] /\ g[0] = x /\ \A i \in 1 .. L : g[i] = step[<<i, g[back[i]]>>]
    BY <1>8 DEF Built
  <2>2. \A i \in 1 .. L : g[i - 1] \in S /\ back[i] = i - 1
    BY <1>1, <1>3, <2>1
  <2> QED
    BY <1>5, <2>1, <2>2
<1>10. \A i, row : With(row, LAMBDA later : Row(t, i, later)) = Row(t, i, row)
  <2>1. ASSUME NEW i, NEW row PROVE With(row, LAMBDA later : Row(t, i, later)) = Row(t, i, row)
    <3>1. {Row(t, i, w) : w \in {row}} = {Row(t, i, row)}
      OBVIOUS
    <3> QED
      BY <3>1, Choice DEF With
  <2> QED
    BY <2>1
<1> DEFINE F == [i \in 1 .. L + 1 |-> g[L + 1 - i]]
<1>11. Is(F)
  <2>1. ASSUME NEW i \in 1 .. L + 1
        PROVE  g[L + 1 - i] = IF i > L THEN x ELSE With(F[i + 1], LAMBDA later : Row(t, i, later))
    <3>1. CASE i > L
      <4>1. L + 1 - i = 0
        BY <1>1, <3>1
      <4> QED
        BY <1>9, <3>1, <4>1
    <3>2. CASE ~(i > L)
      <4>1. L + 1 - i \in 1 .. L /\ i + 1 \in 1 .. L + 1
            /\ L + 1 - (L + 1 - i) = i /\ L + 1 - i - 1 = L + 1 - (i + 1)
        BY <1>1, <3>2
      <4>2. g[L + 1 - i] = Row(t, i, g[L + 1 - (i + 1)])
        <5>1. PICK n \in 1 .. L : n = L + 1 - i
          BY <4>1
        <5>2. g[n] = Row(t, L + 1 - n, g[n - 1])
          BY <1>9
        <5>3. L + 1 - n = i /\ n - 1 = L + 1 - (i + 1)
          BY <1>1, <5>1
        <5> QED
          BY <5>1, <5>2, <5>3
      <4>3. F[i + 1] = g[L + 1 - (i + 1)]
        BY <4>1
      <4> HIDE DEF F
      <4> QED
        BY <1>10, <3>2, <4>2, <4>3
    <3> QED
      BY <3>1, <3>2
  <2>2. F = [i \in 1 .. L + 1 |-> g[L + 1 - i]]
    OBVIOUS
  <2> HIDE DEF F
  <2> QED
    BY <2>1, <2>2, Zenon
<1> HIDE DEF F
<1> DEFINE f == CHOOSE f : Is(f)
<1>12. Is(f)
  BY <1>11
<1>13. Serialize(t) = f[1][0]
  BY DEF Serialize, Root, L, x, Row
<1> HIDE DEF f
<1> DEFINE h == [n \in 0 .. L |-> f[L + 1 - n]]
<1>14. DOMAIN h = 0 .. L /\ h = [n \in DOMAIN h |-> h[n]] /\ \A n \in 0 .. L : h[n] = f[L + 1 - n]
  OBVIOUS
<1> HIDE DEF h
<1>15. h[0] = x
  <2>1. 0 \in 0 .. L /\ L + 1 - 0 \in 1 .. L + 1 /\ L + 1 - 0 > L
    BY <1>1
  <2> QED
    BY <1>12, <1>14, <2>1
<1>16. ASSUME NEW n \in 1 .. L, NEW s \in S, h[back[n]] = s PROVE h[n] = step[<<n, s>>]
  <2> DEFINE i == L + 1 - n
  <2>1. i \in 1 .. L + 1 /\ ~(i > L) /\ n \in 0 .. L /\ n - 1 \in 0 .. L
        /\ L + 1 - (n - 1) = i + 1 /\ back[n] = n - 1
    BY <1>1, <1>3
  <2>2. f[i + 1] = s
    BY <1>14, <1>16, <2>1
  <2>3. h[n] = f[i]
    BY <1>14, <2>1
  <2>4. step[<<n, s>>] = Row(t, i, s)
    BY <1>5
  <2> HIDE DEF i
  <2>5. f[i] = With(f[i + 1], LAMBDA later : Row(t, i, later))
    BY <1>12, <2>1
  <2> QED
    BY <1>10, <2>2, <2>3, <2>4, <2>5
<1>17. h = g
  <2>1. \A i \in 1 .. L : back[i] \in 0 .. i - 1
    BY <1>3
  <2>2. Follows(h, L, x, S, back, step)
    BY <1>14, <1>15, <1>16, <2>1 DEF Follows
  <2>3. L \in Nat
    BY <1>1
  <2> QED
    BY <1>8, <2>2, <2>3, SameAsBuilt
<1>18. f[1] = g[L] /\ g[L] \in S
  <2>1. L \in 0 .. L /\ L + 1 - L = 1
    BY <1>1
  <2> QED
    BY <1>9, <1>14, <1>17, <2>1
<1>19. g \in [0 .. L -> S] /\ g[0] = x /\ (\A n \in 1 .. L : g[n] = Row(t, L + 1 - n, g[n - 1]))
       /\ Serialize(t) = g[L][0]
  BY <1>9, <1>13, <1>18
<1> QED
  BY <1>19 DEF S, x, L, Rows

LEMMA SerializeIn ==
  ASSUME NEW names, NEW data, NEW t \in Trees(names, data)
  PROVE  Serialize(t) \in Seq(SavedEntries(names, data))
<1>1. PICK rows : Rows(rows, t, SavedEntries(names, data))
  BY SerializeBuilt
<1>2. Len(t) \in Nat /\ Len(t) \in 0 .. Len(t) /\ 0 \in 0 .. Len(t)
  BY TreeHas
<1>3. rows[Len(t)] \in [0 .. Len(t) -> Seq(SavedEntries(names, data))]
  BY <1>1, <1>2 DEF Rows
<1> QED
  BY <1>1, <1>2, <1>3 DEF Rows

------------------------------------------------------------------------------
(* Paths.  A path leads to at most one node when no two children of a node   *)
(* have a name in common.                                                    *)

LEMMA PrefixIs ==
  ASSUME NEW S, NEW p \in Seq(S), NEW k \in 0 .. Len(p)
  PROVE  /\ SubSeq(p, 1, k) \in Seq(S) /\ Len(SubSeq(p, 1, k)) = k
         /\ \A i \in 1 .. k : SubSeq(p, 1, k)[i] = p[i]
         /\ SubSeq(p, 1, 0) = <<>> /\ SubSeq(p, 1, Len(p)) = p
         /\ k # 0 => SubSeq(p, 1, k) = Append(SubSeq(p, 1, k - 1), p[k])
<1>1. Len(p) \in Nat /\ k \in Nat /\ k \in Int /\ \A i \in 1 .. k : p[i] \in S
  OBVIOUS
<1>2. SubSeq(p, 1, k) \in Seq(S) /\ Len(SubSeq(p, 1, k)) = k /\ \A i \in 1 .. k : SubSeq(p, 1, k)[i] = p[i]
  <2>1. /\ SubSeq(p, 1, k) \in Seq(S)
        /\ Len(SubSeq(p, 1, k)) = IF 1 <= k THEN k - 1 + 1 ELSE 0
        /\ \A i \in 1 .. k - 1 + 1 : SubSeq(p, 1, k)[i] = p[1 + i - 1]
    BY <1>1, SubSeqProperties
  <2>2. (1 <= k \/ k = 0) /\ k - 1 + 1 = k /\ \A i \in 1 .. k : 1 + i - 1 = i
    BY <1>1
  <2> QED
    BY <2>1, <2>2
<1>3. SubSeq(p, 1, 0) = <<>>
  BY SubSeqEmpty
<1>4. SubSeq(p, 1, Len(p)) = p
  BY SubSeqFull
<1>5. ASSUME k # 0 PROVE SubSeq(p, 1, k) = Append(SubSeq(p, 1, k - 1), p[k])
  <2>1. 1 \in 1 .. Len(p) /\ k \in 1 .. Len(p) /\ k - 1 \in 0 .. Len(p)
    BY <1>1, <1>5
  <2>2. SubSeq(p, 1, k) = SubSeq(p, 1, k - 1) \o <<p[k]>>
    BY <2>1, SubSeqRecursiveSecond
  <2>3. SubSeq(p, 1, k - 1) \in Seq(S)
    <3>1. PICK n \in Int : n = k - 1
      BY <1>1
    <3>2. \A i \in 1 .. n : p[i] \in S
      BY <1>1, <3>1
    <3>3. SubSeq(p, 1, n) \in Seq(S)
      BY <3>2, SubSeqProperties
    <3> QED
      BY <3>1, <3>3
  <2>4. Append(SubSeq(p, 1, k - 1), p[k]) = SubSeq(p, 1, k - 1) \o <<p[k]>>
    BY <1>1, <2>1, <2>3, AppendIsConcat
  <2> QED
    BY <2>2, <2>4
<1> QED
  BY <1>2, <1>3, <1>4, <1>5

LEMMA PrefixOfPrefix ==
  ASSUME NEW S, NEW p \in Seq(S), NEW k \in 0 .. Len(p), NEW j \in 0 .. k
  PROVE  SubSeq(SubSeq(p, 1, k), 1, j) = SubSeq(p, 1, j)
<1>1. PICK q \in Seq(S) : q = SubSeq(p, 1, k) /\ Len(q) = k /\ \A i \in 1 .. k : q[i] = p[i]
  <2>1. SubSeq(p, 1, k) \in Seq(S) /\ Len(SubSeq(p, 1, k)) = k /\ \A i \in 1 .. k : SubSeq(p, 1, k)[i] = p[i]
    BY PrefixIs
  <2> QED
    BY <2>1, Zenon
<1>2. j \in 0 .. Len(q) /\ j \in 0 .. Len(p)
  BY <1>1
<1>3. PICK a \in Seq(S) : a = SubSeq(q, 1, j) /\ Len(a) = j /\ \A i \in 1 .. j : a[i] = q[i]
  <2>1. SubSeq(q, 1, j) \in Seq(S) /\ Len(SubSeq(q, 1, j)) = j /\ \A i \in 1 .. j : SubSeq(q, 1, j)[i] = q[i]
    BY <1>2, PrefixIs
  <2> QED
    BY <2>1, Zenon
<1>4. PICK b \in Seq(S) : b = SubSeq(p, 1, j) /\ Len(b) = j /\ \A i \in 1 .. j : b[i] = p[i]
  <2>1. SubSeq(p, 1, j) \in Seq(S) /\ Len(SubSeq(p, 1, j)) = j /\ \A i \in 1 .. j : SubSeq(p, 1, j)[i] = p[i]
    BY <1>2, PrefixIs
  <2> QED
    BY <2>1, Zenon
<1>5. \A i \in 1 .. j : a[i] = b[i]
  BY <1>1, <1>3, <1>4
<1>6. a = b
  BY <1>3, <1>4, <1>5, SeqEqual
<1> QED
  BY <1>1, <1>3, <1>4, <1>6

\* The path of a node that was added to the tree, or is in it.
LEMMA GetPathIs ==
  ASSUME NEW t, NEW i
  PROVE  GetPath(t, i) =
           IF Len(FullPath(t, i)) > MaxChain
           THEN SubSeq(FullPath(t, i), Len(FullPath(t, i)) - MaxChain + 1, Len(FullPath(t, i)))
           ELSE FullPath(t, i)
<1> DEFINE R(path) == IF Len(path) > MaxChain THEN SubSeq(path, Len(path) - MaxChain + 1, Len(path)) ELSE path
           v == FullPath(t, i)
<1>1. GetPath(t, i) = CHOOSE r \in {R(w) : w \in {v}} : TRUE
  BY DEF GetPath, With
<1> HIDE DEF R
<1>2. {R(w) : w \in {v}} = {R(v)}
  OBVIOUS
<1>3. GetPath(t, i) = R(v)
  BY <1>1, <1>2, Choice
<1> QED
  BY <1>3 DEF R

LEMMA LineageIs ==
  ASSUME NEW names, NEW data, NEW t \in Trees(names, data)
  PROVE  /\ Lineage(t, Root) = {}
         /\ \A i \in 1 .. Len(t) : Lineage(t, i) = {i} \cup Lineage(t, t[i].parent)
<1> DEFINE L == Len(t)
           S == SUBSET Nat
           back == [i \in 1 .. L |-> t[i].parent]
           step == [p \in (1 .. L) \X S |-> {p[1]} \cup p[2]]
           Is(f) == f = [i \in 0 .. L |-> IF i = Root THEN {} ELSE {i} \cup f[t[i].parent]]
<1>1. L \in Nat /\ \A i \in 1 .. L : t[i].parent \in 0 .. i - 1
  BY TreeHas
<1>2. {} \in S
  OBVIOUS
<1>3. \A i \in 1 .. L : back[i] \in 0 .. i - 1 /\ back[i] = t[i].parent /\ i \in 0 .. L
  BY <1>1
<1>4. \A i \in 1 .. L, s \in S : step[<<i, s>>] = {i} \cup s
  OBVIOUS
<1>5. \A i \in 1 .. L, s \in S : {i} \cup s \in S
  BY <1>1
<1>6. step \in [(1 .. L) \X S -> S]
  <2>1. \A p \in (1 .. L) \X S : {p[1]} \cup p[2] \in S
    BY <1>5
  <2> HIDE DEF S
  <2> QED
    BY <2>1
<1>7. back \in [1 .. L -> Nat] /\ \A i \in 1 .. L : back[i] < i
  BY <1>1
<1> HIDE DEF back, step, S
<1>8. PICK g : Built(g, L, {}, S, back, step)
  BY <1>1, <1>2, <1>6, <1>7, Builds
<1>9. g \in [0 .. L -> S] /\ g[0] = {} /\ \A i \in 1 .. L : g[i] = {i} \cup g[t[i].parent]
  <2>1. g \in [0 .. L -> S] /\ g[0] = {} /\ \A i \in 1 .. L : g[i] = step[<<i, g[back[i]]>>]
    BY <1>8 DEF Built
  <2>2. \A i \in 1 .. L : g[t[i].parent] \in S /\ back[i] = t[i].parent
    BY <1>1, <1>3, <2>1
  <2>3. ASSUME NEW i \in 1 .. L PROVE g[i] = {i} \cup g[t[i].parent]
    <3>1. g[i] = step[<<i, g[t[i].parent]>>] /\ g[t[i].parent] \in S
      BY <2>1, <2>2
    <3> QED
      BY <1>4, <3>1, Zenon
  <2> QED
    BY <2>1, <2>3, Zenon
<1>10. Is(g)
  <2>1. \A n \in 0 .. L : n # 0 => n \in 1 .. L
    BY <1>1
  <2>2. \A n \in 0 .. L : g[n] = IF n = Root THEN {} ELSE {n} \cup g[t[n].parent]
    BY <1>9, <2>1 DEF Root
  <2>3. g = [n \in 0 .. L |-> g[n]]
    BY <1>9
  <2> QED
    BY <2>2, <2>3, Zenon
<1> DEFINE f == CHOOSE f : Is(f)
<1>11. Is(f)
  BY <1>10
<1>12. \A i : Lineage(t, i) = f[i]
  BY DEF Lineage
<1> HIDE DEF f
<1>13. DOMAIN f = 0 .. L /\ f = [n \in DOMAIN f |-> f[n]] /\ f[0] = {}
  BY <1>1, <1>11 DEF Root
<1>14. ASSUME NEW i \in 1 .. L, NEW s \in S, f[back[i]] = s PROVE f[i] = step[<<i, s>>]
  <2>1. i \in 0 .. L /\ i # 0 /\ back[i] = t[i].parent
    BY <1>3
  <2>2. f[i] = {i} \cup f[t[i].parent]
    BY <1>11, <2>1 DEF Root
  <2> QED
    BY <1>4, <1>14, <2>1, <2>2
<1>15. f = g
  <2>1. Follows(f, L, {}, S, back, step)
    BY <1>3, <1>13, <1>14 DEF Follows
  <2> QED
    BY <1>1, <1>8, <2>1, SameAsBuilt
<1> QED
  BY <1>1, <1>9, <1>12, <1>15 DEF Root

LEMMA FindPathIs ==
  ASSUME NEW names, NEW data, NEW t \in Trees(names, data), NEW path \in Seq(names)
  PROVE  \E found \in [0 .. Len(path) -> SUBSET Nat] :
           /\ found[0] = {Root}
           /\ \A n \in 1 .. Len(path) :
                found[n] = UNION {FindChild(t, at, path[n]) : at \in found[n - 1]}
           /\ FindPath(t, path) = found[Len(path)]
<1> DEFINE L == Len(path)
           S == SUBSET Nat
           x == {Root}
           Below(s, i) == UNION {FindChild(t, at, path[i]) : at \in s}
           back == [i \in 1 .. L |-> i - 1]
           step == [p \in (1 .. L) \X S |-> Below(p[2], p[1])]
           Is(f) == f = [n \in 0 .. L |-> IF n = 0 THEN x ELSE Below(f[n - 1], n)]
<1>1. L \in Nat
  OBVIOUS
<1>2. x \in S
  BY DEF Root
<1>3. \A i \in 1 .. L : back[i] \in 0 .. i - 1 /\ back[i] = i - 1 /\ i \in 0 .. L
  BY <1>1
<1>4. \A i \in 1 .. L, s \in S : step[<<i, s>>] = Below(s, i)
  OBVIOUS
<1>5. \A i \in 1 .. L, s \in S : Below(s, i) \in S
  <2>1. DOMAIN t \subseteq Nat
    BY TreeHas
  <2>2. \A at, name : FindChild(t, at, name) \subseteq Nat
    BY <2>1, FindChildIn
  <2> QED
    BY <2>2
<1>6. step \in [(1 .. L) \X S -> S]
  <2>1. \A p \in (1 .. L) \X S : Below(p[2], p[1]) \in S
    BY <1>5
  <2> HIDE DEF S, Below
  <2> QED
    BY <2>1
<1>7. back \in [1 .. L -> Nat] /\ \A i \in 1 .. L : back[i] < i
  BY <1>1
<1> HIDE DEF back, step, S, Below, x
<1>8. PICK g : Built(g, L, x, S, back, step)
  BY <1>1, <1>2, <1>6, <1>7, Builds
<1>9. g \in [0 .. L -> S] /\ g[0] = x /\ \A i \in 1 .. L : g[i] = Below(g[i - 1], i)
  <2>1. g \in [0 .. L -> S] /\ g[0] = x /\ \A i \in 1 .. L : g[i] = step[<<i, g[back[i]]>>]
    BY <1>8 DEF Built
  <2>2. \A i \in 1 .. L : g[i - 1] \in S /\ back[i] = i - 1
    BY <1>1, <1>3, <2>1
  <2> QED
    BY <1>4, <2>1, <2>2
<1>10. Is(g)
  <2>1. \A n \in 0 .. L : n # 0 => n \in 1 .. L
    BY <1>1
  <2>2. \A n \in 0 .. L : g[n] = IF n = 0 THEN x ELSE Below(g[n - 1], n)
    BY <1>9, <2>1
  <2>3. g = [n \in 0 .. L |-> g[n]]
    BY <1>9
  <2> QED
    BY <2>2, <2>3, Zenon
<1> DEFINE f == CHOOSE f : Is(f)
<1>11. Is(f)
  BY <1>10
<1>12. FindPath(t, path) = f[L]
  BY DEF FindPath, x, Below
<1> HIDE DEF f
<1>13. DOMAIN f = 0 .. L /\ f = [n \in DOMAIN f |-> f[n]] /\ f[0] = x
  BY <1>1, <1>11
<1>14. ASSUME NEW i \in 1 .. L, NEW s \in S, f[back[i]] = s PROVE f[i] = step[<<i, s>>]
  <2>1. i \in 0 .. L /\ i # 0 /\ back[i] = i - 1
    BY <1>3
  <2>2. f[i] = Below(f[i - 1], i)
    BY <1>11, <2>1
  <2> QED
    BY <1>4, <1>14, <2>1, <2>2
<1>15. f = g
  <2>1. Follows(f, L, x, S, back, step)
    BY <1>3, <1>13, <1>14 DEF Follows
  <2> QED
    BY <1>1, <1>8, <2>1, SameAsBuilt
<1> QED
  BY <1>9, <1>12, <1>15 DEF S, x, Below

Distinct(t) ==
  \A i, j \in DOMAIN t : t[i].parent = t[j].parent /\ t[i].name = t[j].name => i = j

\* A child of that name is found if there is one.
LEMMA NoChild ==
  ASSUME NEW names, NEW data, NEW t \in Trees(names, data), NEW at, NEW name,
         FindChild(t, at, name) = {}
  PROVE  \A i \in DOMAIN t : ~(t[i].parent = at /\ t[i].name = name)
<1> DEFINE S == {i \in DOMAIN t : t[i].parent = at /\ t[i].name = name}
<1>1. S = {}
  <2> SUFFICES ASSUME S # {} PROVE FALSE
    OBVIOUS
  <2>1. S \in SUBSET Nat
    BY TreeHas
  <2>2. FindChild(t, at, name) = {i \in S : \A j \in S : i <= j}
    BY DEF FindChild, First
  <2> HIDE DEF S
  <2>3. PICK m \in S : \A j \in S : m <= j
    BY <2>1, LeastNat
  <2> QED
    BY <2>2, <2>3
<1> QED
  BY <1>1

LEMMA DistinctFind ==
  ASSUME NEW names, NEW data, NEW t \in Trees(names, data), Distinct(t), NEW at, NEW name
  PROVE  FindChild(t, at, name) = {i \in DOMAIN t : t[i].parent = at /\ t[i].name = name}
<1> DEFINE S == {i \in DOMAIN t : t[i].parent = at /\ t[i].name = name}
<1>1. FindChild(t, at, name) \subseteq S
  BY FindChildIn
<1>2. ASSUME NEW i \in S PROVE i \in FindChild(t, at, name)
  <2>1. \A j \in S : j = i
    BY DEF Distinct
  <2>2. i \in Nat
    BY TreeHas
  <2>3. FindChild(t, at, name) = {k \in S : \A j \in S : k <= j}
    BY DEF FindChild, First
  <2> HIDE DEF S
  <2> QED
    BY <2>1, <2>2, <2>3
<1> QED
  BY <1>1, <1>2

\* What there is above a node.
LEMMA NodeHas ==
  ASSUME NEW names, NEW data, NEW t \in Trees(names, data), NEW i \in DOMAIN t
  PROVE  /\ i \in 1 .. Len(t) /\ i \in 0 .. Len(t) /\ t[i].parent \in 0 .. i - 1
         /\ t[i].parent \in 0 .. Len(t) /\ t[i].parent \in Nat /\ t[i].parent < i /\ Len(t) \in Nat
         /\ t[i].name \in names
         /\ FullPath(t, i) \in Seq(names) /\ FullPath(t, t[i].parent) \in Seq(names)
         /\ FullPath(t, i) = Append(FullPath(t, t[i].parent), t[i].name)
         /\ FullPath(t, i) # <<>>
<1>1. i \in 1 .. Len(t) /\ t[i].parent \in 0 .. i - 1 /\ Len(t) \in Nat /\ t[i] \in Nodes(names, data)
  BY TreeHas
<1>2. i \in 0 .. Len(t) /\ t[i].parent \in 0 .. Len(t) /\ t[i].parent \in Nat /\ t[i].parent < i
  <2>1. PICK p \in Nat : p = t[i].parent /\ p \in 0 .. i - 1
    BY <1>1
  <2> QED
    BY <1>1, <2>1
<1>3. t[i].name \in names
  BY <1>1 DEF Nodes
<1>4. /\ FullPath(t, i) \in Seq(names) /\ FullPath(t, t[i].parent) \in Seq(names)
      /\ FullPath(t, i) = Append(FullPath(t, t[i].parent), t[i].name)
  BY <1>1, <1>2, FullPathIs
<1>5. FullPath(t, i) # <<>>
  <2>1. PICK p \in Seq(names) : p = FullPath(t, t[i].parent)
    BY <1>4
  <2> QED
    BY <1>3, <1>4, <2>1, AppendProperties
<1> QED
  BY <1>1, <1>2, <1>3, <1>4, <1>5

LEMMA OnePath ==
  ASSUME NEW names, NEW data, NEW t \in Trees(names, data), Distinct(t)
  PROVE  \A i, j \in 0 .. Len(t) : FullPath(t, i) = FullPath(t, j) => i = j
<1> DEFINE bad == {i \in 0 .. Len(t) : \E j \in 0 .. Len(t) : FullPath(t, i) = FullPath(t, j) /\ i # j}
<1> SUFFICES ASSUME bad # {} PROVE FALSE
  OBVIOUS
<1>1. Len(t) \in Nat /\ DOMAIN t = 1 .. Len(t)
  BY TreeHas
<1>2. PICK m \in bad : \A k \in bad : m <= k
  <2>1. bad \in SUBSET Nat
    BY <1>1
  <2> HIDE DEF bad
  <2> QED
    BY <2>1, LeastNat
<1>3. PICK n \in 0 .. Len(t) : FullPath(t, m) = FullPath(t, n) /\ m # n
  OBVIOUS
<1>4. m \in 0 .. Len(t) /\ n \in bad
  BY <1>3
<1>5. FullPath(t, 0) = <<>>
  BY FullPathIs DEF Root
<1>6. m \in DOMAIN t /\ n \in DOMAIN t
  <2>1. \A i \in 0 .. Len(t) : i # 0 => i \in DOMAIN t /\ FullPath(t, i) # <<>>
    <3>1. \A i \in 0 .. Len(t) : i # 0 => i \in DOMAIN t
      BY <1>1
    <3> QED
      BY <3>1, NodeHas
  <2> QED
    BY <1>3, <1>4, <1>5, <2>1
<1>7. PICK p, q : p = t[m].parent /\ q = t[n].parent
  OBVIOUS
<1>8. p \in 0 .. Len(t) /\ q \in 0 .. Len(t) /\ p < m /\ p \in Nat /\ m \in Nat
  <2>1. m \in DOMAIN t /\ n \in DOMAIN t /\ m \in Nat
    BY <1>1, <1>4, <1>6
  <2>2. t[m].parent \in 0 .. Len(t) /\ t[m].parent < m /\ t[m].parent \in Nat
    BY <2>1, NodeHas
  <2>3. t[n].parent \in 0 .. Len(t)
    BY <2>1, NodeHas
  <2> QED
    BY <1>7, <2>1, <2>2, <2>3, Zenon
<1>9. FullPath(t, p) = FullPath(t, q) /\ t[m].name = t[n].name
  <2> DEFINE Ends(i) == \E a \in Seq(names), x \in names :
                          a = FullPath(t, t[i].parent) /\ x = t[i].name /\ FullPath(t, i) = Append(a, x)
  <2>1. ASSUME NEW i \in DOMAIN t PROVE Ends(i)
    BY NodeHas
  <2>2. Ends(m) /\ Ends(n)
    <3> HIDE DEF Ends
    <3> QED
      BY <1>6, <2>1
  <2>3. PICK a \in Seq(names), x \in names : a = FullPath(t, p) /\ x = t[m].name /\ FullPath(t, m) = Append(a, x)
    BY <1>7, <2>2
  <2>4. PICK b \in Seq(names), y \in names : b = FullPath(t, q) /\ y = t[n].name /\ FullPath(t, n) = Append(b, y)
    BY <1>7, <2>2
  <2>5. Append(a, x) = Append(b, y)
    BY <1>3, <2>3, <2>4
  <2>6. a = b /\ x = y
    BY <2>5, AppendInjective
  <2> QED
    BY <2>3, <2>4, <2>6
<1>10. p = q
  <2>1. p \notin bad
    BY <1>2, <1>8
  <2> QED
    BY <1>8, <1>9, <2>1
<1> QED
  BY <1>3, <1>6, <1>7, <1>9, <1>10 DEF Distinct

LEMMA FindsPaths ==
  ASSUME NEW names, NEW data, NEW t \in Trees(names, data), Distinct(t), NEW path \in Seq(names)
  PROVE  FindPath(t, path) = {i \in 0 .. Len(t) : FullPath(t, i) = path}
<1> DEFINE At(n) == {i \in 0 .. Len(t) : FullPath(t, i) = SubSeq(path, 1, n)}
<1>1. PICK found \in [0 .. Len(path) -> SUBSET Nat] :
        /\ found[0] = {Root}
        /\ \A n \in 1 .. Len(path) :
             found[n] = UNION {FindChild(t, at, path[n]) : at \in found[n - 1]}
        /\ FindPath(t, path) = found[Len(path)]
  BY FindPathIs
<1>2. Len(path) \in Nat /\ Len(t) \in Nat /\ DOMAIN t = 1 .. Len(t)
  BY TreeHas
<1>3. At(0) = {0}
  <2>1. SubSeq(path, 1, 0) = <<>>
    BY SubSeqEmpty
  <2>2. FullPath(t, 0) = <<>>
    BY FullPathIs DEF Root
  <2>3. \A i \in 0 .. Len(t) : i # 0 => FullPath(t, i) # <<>>
    <3>1. \A i \in 0 .. Len(t) : i # 0 => i \in DOMAIN t
      BY <1>2
    <3> QED
      BY <3>1, NodeHas
  <2> QED
    BY <1>2, <2>1, <2>2, <2>3
<1>4. ASSUME NEW n \in 1 .. Len(path)
      PROVE  UNION {FindChild(t, at, path[n]) : at \in At(n - 1)} = At(n)
  <2>1. PICK a \in Seq(names), x \in names :
          a = SubSeq(path, 1, n - 1) /\ x = path[n] /\ SubSeq(path, 1, n) = Append(a, x)
    <3>1. n \in 0 .. Len(path) /\ n # 0 /\ n - 1 \in 0 .. Len(path)
      BY <1>2
    <3>2. SubSeq(path, 1, n - 1) \in Seq(names)
      BY <3>1, PrefixIs
    <3>3. SubSeq(path, 1, n) = Append(SubSeq(path, 1, n - 1), path[n])
      BY <3>1, PrefixIs
    <3> QED
      BY <3>2, <3>3
  <2>2. ASSUME NEW i \in DOMAIN t
        PROVE  FullPath(t, i) = Append(a, x) <=> FullPath(t, t[i].parent) = a /\ t[i].name = x
    <3>1. PICK b \in Seq(names), y \in names :
            b = FullPath(t, t[i].parent) /\ y = t[i].name /\ FullPath(t, i) = Append(b, y)
      BY NodeHas
    <3>2. Append(b, y) = Append(a, x) <=> b = a /\ y = x
      BY AppendInjective
    <3> QED
      BY <3>1, <3>2
  <2>3. FullPath(t, 0) # Append(a, x)
    BY FullPathIs, AppendProperties DEF Root
  <2>4. \A i : i \in At(n) <=> i \in DOMAIN t /\ FullPath(t, t[i].parent) = a /\ t[i].name = x
    <3>1. \A i \in 0 .. Len(t) : i = 0 \/ i \in DOMAIN t
      BY <1>2
    <3>2. \A i \in DOMAIN t : i \in 0 .. Len(t)
      BY <1>2
    <3> QED
      BY <2>1, <2>2, <2>3, <3>1, <3>2
  <2>5. \A at : at \in At(n - 1) <=> at \in 0 .. Len(t) /\ FullPath(t, at) = a
    BY <2>1
  <2>6. \A at : FindChild(t, at, x) = {i \in DOMAIN t : t[i].parent = at /\ t[i].name = x}
    BY DistinctFind
  <2>7. \A i \in DOMAIN t : t[i].parent \in 0 .. Len(t)
    BY NodeHas
  <2> HIDE DEF At
  <2>8. \A i : i \in UNION {FindChild(t, at, x) : at \in At(n - 1)}
               <=> \E at \in At(n - 1) : i \in DOMAIN t /\ t[i].parent = at /\ t[i].name = x
    BY <2>6
  <2>9. \A i : i \in UNION {FindChild(t, at, x) : at \in At(n - 1)} <=> i \in At(n)
    BY <2>4, <2>5, <2>7, <2>8
  <2> QED
    BY <2>1, <2>9
<1> HIDE DEF At
<1>5. \A n \in 0 .. Len(path) : found[n] = At(n)
  <2> DEFINE bad == {n \in 0 .. Len(path) : found[n] # At(n)}
  <2> SUFFICES ASSUME bad # {} PROVE FALSE
    OBVIOUS
  <2>1. PICK m \in bad : \A k \in bad : m <= k
    <3>1. bad \in SUBSET Nat
      OBVIOUS
    <3> HIDE DEF bad
    <3> QED
      BY <3>1, LeastNat
  <2>2. m \in 1 .. Len(path) /\ m - 1 \in 0 .. Len(path) /\ ~(m <= m - 1)
    <3>1. m \in 0 .. Len(path) /\ found[m] # At(m)
      OBVIOUS
    <3>2. m # 0
      BY <1>1, <1>3, <3>1 DEF Root
    <3> QED
      BY <1>2, <3>1, <3>2
  <2>3. found[m - 1] = At(m - 1)
    BY <2>1, <2>2
  <2>4. found[m] = At(m)
    BY <1>1, <1>4, <2>2, <2>3
  <2> QED
    BY <2>4
<1>6. SubSeq(path, 1, Len(path)) = path /\ Len(path) \in 0 .. Len(path)
  BY <1>2, SubSeqFull
<1> QED
  BY <1>1, <1>5, <1>6 DEF At

------------------------------------------------------------------------------
(* What becomes of paths when a tree grows. *)

LEMMA SamePaths ==
  ASSUME NEW names, NEW data, NEW t \in Trees(names, data), NEW u \in Trees(names, data),
         Len(t) <= Len(u),
         \A i \in DOMAIN t : u[i].parent = t[i].parent /\ u[i].name = t[i].name
  PROVE  \A i \in 0 .. Len(t) : FullPath(u, i) = FullPath(t, i)
<1> DEFINE bad == {i \in 0 .. Len(t) : FullPath(u, i) # FullPath(t, i)}
<1> SUFFICES ASSUME bad # {} PROVE FALSE
  OBVIOUS
<1>1. Len(t) \in Nat /\ DOMAIN t = 1 .. Len(t) /\ Len(u) \in Nat /\ DOMAIN u = 1 .. Len(u)
  BY TreeHas
<1>2. PICK m \in bad : \A k \in bad : m <= k
  <2>1. bad \in SUBSET Nat
    BY <1>1
  <2> HIDE DEF bad
  <2> QED
    BY <2>1, LeastNat
<1>3. m \in 0 .. Len(t) /\ FullPath(u, m) # FullPath(t, m)
  OBVIOUS
<1>4. m # 0
  BY <1>3, FullPathIs DEF Root
<1>5. m \in DOMAIN t /\ m \in DOMAIN u
  BY <1>1, <1>3, <1>4
<1>6. t[m].parent \in 0 .. Len(t) /\ ~(m <= t[m].parent)
  <2>1. t[m].parent \in 0 .. Len(t) /\ t[m].parent \in Nat /\ t[m].parent < m
    BY <1>5, NodeHas
  <2> QED
    BY <1>1, <1>3, <2>1
<1>7. FullPath(u, t[m].parent) = FullPath(t, t[m].parent)
  BY <1>2, <1>6
<1>8. /\ FullPath(t, m) = Append(FullPath(t, t[m].parent), t[m].name)
      /\ FullPath(u, m) = Append(FullPath(u, u[m].parent), u[m].name)
  <2>1. /\ \A i \in DOMAIN t : FullPath(t, i) = Append(FullPath(t, t[i].parent), t[i].name)
        /\ \A i \in DOMAIN u : FullPath(u, i) = Append(FullPath(u, u[i].parent), u[i].name)
    BY NodeHas
  <2> QED
    BY <1>5, <2>1
<1>9. u[m].parent = t[m].parent /\ u[m].name = t[m].name
  BY <1>5
<1> QED
  BY <1>3, <1>7, <1>8, <1>9

LEMMA NewChild ==
  ASSUME NEW names, NEW data, NEW t \in Trees(names, data), Distinct(t),
         NEW n \in Nodes(names, data), n.parent <= Len(t), FindChild(t, n.parent, n.name) = {}
  PROVE  LET u == Append(t, n)
         IN /\ u \in Trees(names, data) /\ Distinct(u) /\ Len(u) = Len(t) + 1 /\ Len(t) \in Nat
            /\ DOMAIN t = 1 .. Len(t) /\ DOMAIN u = 1 .. Len(t) + 1
            /\ u[Len(t) + 1] = n /\ \A i \in DOMAIN t : u[i] = t[i]
            /\ \A i \in 0 .. Len(t) : FullPath(u, i) = FullPath(t, i)
            /\ FullPath(u, Len(t) + 1) = Append(FullPath(t, n.parent), n.name)
<1>1. PICK u \in Trees(names, data) : u = Append(t, n) /\ Len(u) = Len(t) + 1
  BY GrownTree
<1>2. /\ t \in Seq(Nodes(names, data)) /\ Len(t) \in Nat /\ DOMAIN t = 1 .. Len(t)
      /\ DOMAIN u = 1 .. Len(u)
  BY TreeHas
<1>3. u[Len(t) + 1] = n /\ \A i \in DOMAIN t : u[i] = t[i]
  BY <1>1, <1>2, AppendProperties
<1>4. \A i \in DOMAIN t : ~(t[i].parent = n.parent /\ t[i].name = n.name)
  BY NoChild
<1>5. Distinct(u)
  <2>1. \A i \in DOMAIN u : i \in DOMAIN t \/ i = Len(t) + 1
    BY <1>1, <1>2
  <2>2. ASSUME NEW i \in DOMAIN u, NEW j \in DOMAIN u, u[i].parent = u[j].parent, u[i].name = u[j].name
        PROVE  i = j
    <3>1. CASE i \in DOMAIN t /\ j \in DOMAIN t
      BY <1>3, <2>2, <3>1 DEF Distinct
    <3>2. CASE i = Len(t) + 1 /\ j \in DOMAIN t
      BY <1>3, <1>4, <2>2, <3>2
    <3>3. CASE j = Len(t) + 1 /\ i \in DOMAIN t
      BY <1>3, <1>4, <2>2, <3>3
    <3> QED
      BY <2>1, <3>1, <3>2, <3>3
  <2> QED
    BY <2>2 DEF Distinct
<1>6. \A i \in 0 .. Len(t) : FullPath(u, i) = FullPath(t, i)
  <2>1. Len(t) <= Len(u)
    BY <1>1, <1>2
  <2>2. \A i \in DOMAIN t : u[i].parent = t[i].parent /\ u[i].name = t[i].name
    BY <1>3
  <2> QED
    BY <2>1, <2>2, SamePaths
<1>7. FullPath(u, Len(t) + 1) = Append(FullPath(t, n.parent), n.name)
  <2>1. Len(t) + 1 \in DOMAIN u
    BY <1>1, <1>2
  <2>2. PICK i \in DOMAIN u : i = Len(t) + 1
    BY <2>1
  <2>3. FullPath(u, i) = Append(FullPath(u, u[i].parent), u[i].name)
    BY NodeHas
  <2>4. n.parent \in 0 .. Len(t)
    <3>1. n.parent \in Nat
      BY DEF Nodes
    <3> QED
      BY <1>2, <3>1
  <2> QED
    BY <1>3, <1>6, <2>2, <2>3, <2>4
<1> QED
  BY <1>1, <1>2, <1>3, <1>5, <1>6, <1>7

\* A step on the way: the place is one name further, and a node that was not there is it.
Stepped(s, r, name) ==
  /\ Distinct(r.tree) /\ Len(s.tree) <= Len(r.tree)
  /\ \A i \in DOMAIN s.tree : r.tree[i] = s.tree[i]
  /\ \A i \in 0 .. Len(s.tree) : FullPath(r.tree, i) = FullPath(s.tree, i)
  /\ FullPath(r.tree, r.at) = Append(FullPath(s.tree, s.at), name)
  /\ \A i \in DOMAIN r.tree \ DOMAIN s.tree : i = r.at

LEMMA EnsureDirSteps ==
  ASSUME NEW names, NEW data, NEW s \in Spots(names, data), Distinct(s.tree), NEW name \in names,
         NoSource \in data
  PROVE  Stepped(s, EnsureDir(s, name), name)
<1>1. s \in [tree : Trees(names, data), at : Nat] /\ s.tree \in Trees(names, data)
      /\ s.at \in Nat /\ s.at <= Len(s.tree)
  BY DEF Spots
<1>2. PICK t \in Trees(names, data) : t = s.tree
  BY <1>1
<1> DEFINE found == FindChild(t, s.at, name)
<1>3. Len(t) \in Nat /\ DOMAIN t = 1 .. Len(t)
  BY TreeHas
<1>4. CASE found # {}
  <2> DEFINE i == CHOOSE i \in found : TRUE
  <2>1. i \in found
    BY <1>4
  <2>2. i \in DOMAIN t /\ t[i].parent = s.at /\ t[i].name = name
    BY <2>1, FindChildIn
  <2>3. EnsureDir(s, name) = [s EXCEPT !.at = i]
    BY <1>2, <1>4 DEF EnsureDir
  <2> HIDE DEF i
  <2>4. FullPath(t, i) = Append(FullPath(t, s.at), name)
    BY <2>2, NodeHas
  <2>5. PICK r : r = EnsureDir(s, name) /\ r.at = i /\ r.tree = t
    BY <1>1, <1>2, <2>3
  <2>6. Stepped(s, r, name)
    BY <1>2, <1>3, <2>4, <2>5 DEF Stepped
  <2> QED
    BY <2>5, <2>6
<1>5. CASE found = {}
  <2>1. PICK item \in Items(data) : item = Item(TRUE, FALSE, 0, NoSource)
    BY DEF Item, Items
  <2>2. PICK n \in Nodes(names, data) : n = NewNode(s.at, name, item) /\ n.parent = s.at /\ n.name = name
    <3>1. NewNode(s.at, name, item) \in Nodes(names, data) /\ NewNode(s.at, name, item).parent = s.at
      BY <1>1, NewNodeIn
    <3>2. NewNode(s.at, name, item).name = name
      BY DEF NewNode
    <3> QED
      BY <3>1, <3>2
  <2>3. EnsureDir(s, name) = [tree |-> Append(t, n), at |-> Len(t) + 1]
    BY <1>2, <1>5, <2>1, <2>2 DEF EnsureDir
  <2>4. PICK r : r = EnsureDir(s, name) /\ r.at = Len(t) + 1 /\ r.tree = Append(t, n)
    BY <2>3
  <2>5. /\ Distinct(r.tree) /\ Len(r.tree) = Len(t) + 1
        /\ DOMAIN r.tree = 1 .. Len(t) + 1
        /\ \A i \in DOMAIN t : r.tree[i] = t[i]
        /\ \A i \in 0 .. Len(t) : FullPath(r.tree, i) = FullPath(t, i)
        /\ FullPath(r.tree, Len(t) + 1) = Append(FullPath(t, s.at), name)
    <3>1. n.parent <= Len(t) /\ FindChild(t, n.parent, n.name) = {} /\ Distinct(t)
      BY <1>1, <1>2, <1>5, <2>2
    <3> QED
      BY <2>2, <2>4, <3>1, NewChild
  <2>6. Stepped(s, r, name)
    BY <1>2, <1>3, <2>4, <2>5 DEF Stepped
  <2> QED
    BY <2>4, <2>6
<1> QED
  BY <1>4, <1>5

\* New nodes are on the way to the path.
Grown(t, u, path) ==
  /\ Distinct(u) /\ Len(t) <= Len(u)
  /\ \A i \in DOMAIN t : u[i] = t[i]
  /\ \A i \in 0 .. Len(t) : FullPath(u, i) = FullPath(t, i)
  /\ \A i \in DOMAIN u \ DOMAIN t : \E k \in 1 .. Len(path) : FullPath(u, i) = SubSeq(path, 1, k)

LEMMA EnsureDirsGrow ==
  ASSUME NEW names, NEW data, NEW t \in Trees(names, data), Distinct(t), NEW path \in Seq(names),
         NoSource \in data
  PROVE  LET s == EnsureDirs(t, path)
         IN Grown(t, s.tree, path) /\ FullPath(s.tree, s.at) = path
<1> DEFINE L == Len(path)
<1>1. PICK made \in [0 .. L -> Spots(names, data)] :
        /\ made[0] = [tree |-> t, at |-> Root]
        /\ \A n \in 1 .. L : made[n] = EnsureDir(made[n - 1], path[n])
        /\ EnsureDirs(t, path) = made[L]
  BY EnsureDirsBuilt
<1> DEFINE OK(n) == /\ Grown(t, made[n].tree, path)
                    /\ FullPath(made[n].tree, made[n].at) = SubSeq(path, 1, n)
           bad == {n \in 0 .. L : ~OK(n)}
<1>2. L \in Nat
  OBVIOUS
<1>3. OK(0)
  <2>1. made[0].tree = t /\ made[0].at = 0
    BY <1>1 DEF Root
  <2>2. SubSeq(path, 1, 0) = <<>> /\ FullPath(t, 0) = <<>>
    BY SubSeqEmpty, FullPathIs DEF Root
  <2>3. Len(t) \in Nat
    BY TreeHas
  <2> QED
    BY <2>1, <2>2, <2>3 DEF Grown
<1>4. ASSUME NEW n \in 1 .. L, OK(n - 1) PROVE OK(n)
  <2>1. n \in 0 .. L /\ n # 0 /\ n - 1 \in 0 .. L
    BY <1>2
  <2>2. PICK s \in Spots(names, data) : s = made[n - 1]
    BY <1>1, <2>1
  <2>3. PICK name \in names : name = path[n] /\ SubSeq(path, 1, n) = Append(SubSeq(path, 1, n - 1), name)
    <3>1. path[n] \in names
      BY <1>2
    <3>2. SubSeq(path, 1, n) = Append(SubSeq(path, 1, n - 1), path[n])
      BY <2>1, PrefixIs
    <3> QED
      BY <3>1, <3>2
  <2>4. PICK r \in Spots(names, data) : r = made[n] /\ r = EnsureDir(s, name)
    BY <1>1, <2>1, <2>2, <2>3
  <2>5. Grown(t, s.tree, path) /\ FullPath(s.tree, s.at) = SubSeq(path, 1, n - 1)
    BY <1>4, <2>2
  <2>6. Stepped(s, r, name)
    <3>1. Distinct(s.tree)
      BY <2>5 DEF Grown
    <3> QED
      BY <2>4, <3>1, EnsureDirSteps
  <2>7. /\ Len(t) \in Nat /\ DOMAIN t = 1 .. Len(t)
        /\ Len(s.tree) \in Nat /\ DOMAIN s.tree = 1 .. Len(s.tree)
        /\ Len(r.tree) \in Nat /\ DOMAIN r.tree = 1 .. Len(r.tree)
    <3>1. s.tree \in Trees(names, data) /\ r.tree \in Trees(names, data)
      BY DEF Spots
    <3> QED
      BY <3>1, TreeHas
  <2>8. FullPath(r.tree, r.at) = SubSeq(path, 1, n)
    BY <2>3, <2>5, <2>6 DEF Stepped
  <2>9. Grown(t, r.tree, path)
    <3>1. Distinct(r.tree) /\ Len(t) <= Len(r.tree)
      BY <2>5, <2>6, <2>7 DEF Grown, Stepped
    <3>2. \A i \in DOMAIN t : r.tree[i] = t[i]
      <4>1. ASSUME NEW i \in DOMAIN t PROVE r.tree[i] = t[i]
        <5>1. Len(t) <= Len(s.tree) /\ s.tree[i] = t[i]
          BY <2>5 DEF Grown
        <5>2. i \in DOMAIN s.tree
          BY <2>7, <5>1
        <5>3. r.tree[i] = s.tree[i]
          BY <2>6, <5>2 DEF Stepped
        <5> QED
          BY <5>1, <5>3
      <4> QED
        BY <4>1
    <3>3. \A i \in 0 .. Len(t) : FullPath(r.tree, i) = FullPath(t, i)
      BY <2>5, <2>6, <2>7 DEF Grown, Stepped
    <3>4. ASSUME NEW i \in DOMAIN r.tree \ DOMAIN t
          PROVE  \E k \in 1 .. Len(path) : FullPath(r.tree, i) = SubSeq(path, 1, k)
      <4>1. CASE i \in DOMAIN s.tree
        <5>1. FullPath(r.tree, i) = FullPath(s.tree, i)
          BY <2>6, <2>7, <4>1 DEF Stepped
        <5> QED
          BY <2>5, <4>1, <5>1 DEF Grown
      <4>2. CASE i \notin DOMAIN s.tree
        <5>1. i = r.at
          BY <2>6, <4>2 DEF Stepped
        <5> QED
          BY <2>8, <5>1
      <4> QED
        BY <4>1, <4>2
    <3> QED
      BY <3>1, <3>2, <3>3, <3>4 DEF Grown
  <2> QED
    BY <2>4, <2>8, <2>9
<1> HIDE DEF OK
<1>5. bad = {}
  <2> SUFFICES ASSUME bad # {} PROVE FALSE
    OBVIOUS
  <2>1. PICK m \in bad : \A k \in bad : m <= k
    <3>1. bad \in SUBSET Nat
      OBVIOUS
    <3> HIDE DEF bad
    <3> QED
      BY <3>1, LeastNat
  <2>2. m \in 1 .. L /\ m - 1 \in 0 .. L /\ ~(m <= m - 1)
    <3>1. m \in 0 .. L /\ ~OK(m)
      OBVIOUS
    <3>2. m # 0
      BY <1>3, <3>1
    <3> QED
      BY <1>2, <3>1, <3>2
  <2>3. OK(m - 1)
    BY <2>1, <2>2
  <2> QED
    BY <1>4, <2>2, <2>3
<1>6. OK(L) /\ SubSeq(path, 1, L) = path
  <2>1. L \in 0 .. L
    BY <1>2
  <2> QED
    BY <1>5, <2>1, SubSeqFull
<1> QED
  BY <1>1, <1>6 DEF OK

\* What tree_add_path makes of a tree: the node of the path is listed again or is a new one,
\* the others are as they were, and what else is new is on the way.
Added(t, u, path, item) ==
  /\ Distinct(u) /\ Len(t) <= Len(u)
  /\ \A i \in 0 .. Len(t) : FullPath(u, i) = FullPath(t, i)
  /\ \A i \in DOMAIN t : u[i] = IF FullPath(t, i) = path THEN Relist(t[i], item) ELSE t[i]
  /\ \A i \in DOMAIN u \ DOMAIN t : \E k \in 1 .. Len(path) : FullPath(u, i) = SubSeq(path, 1, k)
  /\ \E v \in DOMAIN u :
       FullPath(u, v) = path /\ (v \in DOMAIN t \/ u[v] = NewNode(u[v].parent, Last(path), item))

LEMMA AddPathAdds ==
  ASSUME NEW names, NEW data, NEW t \in Trees(names, data), Distinct(t), NEW path \in Seq(names),
         path # <<>>, NEW item \in Items(data), NoSource \in data
  PROVE  Added(t, AddPath(t, path, item), path, item)
<1>1. PICK L \in Nat : L = Len(path) /\ L # 0 /\ L \in 0 .. Len(path) /\ L - 1 \in 0 .. Len(path) /\ L \in 1 .. L
  <2>1. Len(path) \in Nat \ {0}
    BY EmptySeq
  <2> QED
    BY <2>1
<1>2. PICK front \in Seq(names), last \in names :
        /\ front = Front(path) /\ last = Last(path) /\ path = Append(front, last)
        /\ front = SubSeq(path, 1, L - 1) /\ Len(front) = L - 1
  <2>1. Front(path) = SubSeq(path, 1, L - 1) /\ Last(path) = path[L]
    BY <1>1 DEF Front, Last
  <2>2. SubSeq(path, 1, L - 1) \in Seq(names) /\ Len(SubSeq(path, 1, L - 1)) = L - 1
    BY <1>1, PrefixIs
  <2>3. path[L] \in names
    BY <1>1
  <2>4. SubSeq(path, 1, L) = Append(SubSeq(path, 1, L - 1), path[L]) /\ SubSeq(path, 1, L) = path
    BY <1>1, PrefixIs
  <2> QED
    BY <2>1, <2>2, <2>3, <2>4
<1>3. PICK s \in Spots(names, data) : s = EnsureDirs(t, front)
  BY EnsureDirsIn
<1>4. PICK b \in Trees(names, data) : b = s.tree
  BY DEF Spots
<1>5. PICK at \in Nat : at = s.at /\ at <= Len(b)
  BY <1>4 DEF Spots
<1>6. Grown(t, b, front) /\ FullPath(b, at) = front
  BY <1>3, <1>4, <1>5, EnsureDirsGrow
<1>7. AddPath(t, path, item) = PutAt(b, at, last, item)
  <2>1. AddPath(t, path, item) = PutAt(EnsureDirs(t, Front(path)).tree, EnsureDirs(t, Front(path)).at, Last(path), item)
    BY AddPathIs
  <2>2. EnsureDirs(t, Front(path)).tree = b /\ EnsureDirs(t, Front(path)).at = at /\ Last(path) = last
    BY <1>2, <1>3, <1>4, <1>5
  <2> QED
    BY <2>1, <2>2, Zenon
<1>8. /\ Len(t) \in Nat /\ DOMAIN t = 1 .. Len(t) /\ Len(b) \in Nat /\ DOMAIN b = 1 .. Len(b)
      /\ Distinct(b) /\ Len(t) <= Len(b) /\ DOMAIN t \subseteq DOMAIN b /\ at \in 0 .. Len(b)
  <2>1. Len(t) \in Nat /\ DOMAIN t = 1 .. Len(t) /\ Len(b) \in Nat /\ DOMAIN b = 1 .. Len(b)
    BY TreeHas
  <2> QED
    BY <1>5, <1>6, <2>1 DEF Grown
<1> DEFINE old == FindChild(b, at, last)
<1>9. old = {i \in DOMAIN b : FullPath(b, i) = path}
  <2>1. old = {i \in DOMAIN b : b[i].parent = at /\ b[i].name = last}
    BY <1>8, DistinctFind
  <2>2. ASSUME NEW i \in DOMAIN b
        PROVE  FullPath(b, i) = path <=> b[i].parent = at /\ b[i].name = last
    <3>1. PICK p \in 0 .. Len(b) : p = b[i].parent
      BY NodeHas
    <3>2. PICK a \in Seq(names), x \in names :
            a = FullPath(b, p) /\ x = b[i].name /\ FullPath(b, i) = Append(a, x)
      BY <3>1, NodeHas
    <3>3. Append(a, x) = Append(front, last) <=> a = front /\ x = last
      BY AppendInjective
    <3>4. a = front <=> p = at
      BY <1>6, <1>8, <3>2, OnePath
    <3> QED
      BY <1>2, <3>1, <3>2, <3>3, <3>4
  <2> HIDE DEF old
  <2> QED
    BY <2>1, <2>2
<1>10. \A k \in 1 .. Len(front) : SubSeq(front, 1, k) = SubSeq(path, 1, k) /\ k \in 1 .. Len(path)
                                  /\ SubSeq(path, 1, k) # path
  <2>1. ASSUME NEW k \in 1 .. Len(front)
        PROVE  SubSeq(front, 1, k) = SubSeq(path, 1, k) /\ k \in 1 .. Len(path) /\ SubSeq(path, 1, k) # path
    <3>1. k \in 0 .. L - 1 /\ k \in 0 .. Len(path) /\ k \in 1 .. Len(path) /\ k # Len(path)
      BY <1>1, <1>2
    <3>2. SubSeq(SubSeq(path, 1, L - 1), 1, k) = SubSeq(path, 1, k)
      BY <1>1, <3>1, PrefixOfPrefix
    <3>3. Len(SubSeq(path, 1, k)) = k
      BY <3>1, PrefixIs
    <3> QED
      BY <1>2, <3>1, <3>2, <3>3
  <2> QED
    BY <2>1
<1>11. \A i \in DOMAIN b \ DOMAIN t :
         FullPath(b, i) # path /\ \E k \in 1 .. Len(path) : FullPath(b, i) = SubSeq(path, 1, k)
  BY <1>6, <1>10 DEF Grown
<1>12. \A i \in DOMAIN t : b[i] = t[i] /\ FullPath(b, i) = FullPath(t, i) /\ i \in DOMAIN b
  <2>1. \A i \in DOMAIN t : i \in 0 .. Len(t)
    BY <1>8
  <2> QED
    BY <1>6, <1>8, <2>1 DEF Grown
<1>13. \A i \in 0 .. Len(t) : FullPath(b, i) = FullPath(t, i) /\ i \in 0 .. Len(b)
  BY <1>6, <1>8 DEF Grown
<1> HIDE DEF old
<1>14. CASE old # {}
  <2> DEFINE u == [i \in DOMAIN b |-> IF i \in old THEN Relist(b[i], item) ELSE b[i]]
  <2>1. AddPath(t, path, item) = u
    BY <1>7, <1>14, PutAtIs DEF old
  <2>2. \A i \in DOMAIN b : b[i] \in Nodes(names, data)
    BY TreeHas
  <2>3. \A i \in DOMAIN b : /\ u[i] \in Nodes(names, data)
                           /\ u[i].parent = b[i].parent /\ u[i].name = b[i].name
    BY <2>2, RelistIn
  <2>4. u \in [DOMAIN b -> Nodes(names, data)]
    BY <2>3
  <2>5. \A i \in DOMAIN t : u[i] = IF FullPath(t, i) = path THEN Relist(t[i], item) ELSE t[i]
    BY <1>9, <1>12
  <2>6. DOMAIN u = DOMAIN b
    OBVIOUS
  <2> HIDE DEF u
  <2>7. u \in Trees(names, data) /\ Len(u) = Len(b)
    BY <2>3, <2>4, ChangedTree
  <2>8. \A i \in 0 .. Len(b) : FullPath(u, i) = FullPath(b, i)
    <3>1. PICK c \in Trees(names, data) : c = u
      BY <2>7
    <3>2. Len(b) <= Len(c)
      BY <1>8, <2>7, <3>1
    <3>3. \A i \in DOMAIN b : c[i].parent = b[i].parent /\ c[i].name = b[i].name
      BY <2>3, <3>1
    <3>4. \A i \in 0 .. Len(b) : FullPath(c, i) = FullPath(b, i)
      BY <3>2, <3>3, SamePaths
    <3> QED
      BY <3>1, <3>4
  <2>9. Distinct(u)
    BY <1>8, <2>3, <2>6 DEF Distinct
  <2>10. Len(t) <= Len(u) /\ \A i \in 0 .. Len(t) : FullPath(u, i) = FullPath(t, i)
    BY <1>8, <1>13, <2>7, <2>8
  <2>11. \A i \in DOMAIN b : i \in 0 .. Len(b)
    BY <1>8
  <2>12. \A i \in DOMAIN u \ DOMAIN t : \E k \in 1 .. Len(path) : FullPath(u, i) = SubSeq(path, 1, k)
    BY <1>11, <2>6, <2>8, <2>11
  <2>13. \E v \in DOMAIN u : FullPath(u, v) = path /\ v \in DOMAIN t
    <3>1. PICK v \in old : TRUE
      BY <1>14
    <3>2. v \in DOMAIN b /\ FullPath(b, v) = path
      BY <1>9, <3>1
    <3> QED
      BY <1>11, <2>6, <2>8, <2>11, <3>2
  <2> QED
    BY <2>1, <2>5, <2>9, <2>10, <2>12, <2>13 DEF Added
<1>15. CASE old = {}
  <2>1. PICK n \in Nodes(names, data) : n = NewNode(at, last, item) /\ n.parent = at /\ n.name = last
    <3>1. NewNode(at, last, item) \in Nodes(names, data) /\ NewNode(at, last, item).parent = at
      BY NewNodeIn
    <3>2. NewNode(at, last, item).name = last
      BY DEF NewNode
    <3> QED
      BY <3>1, <3>2
  <2>2. PICK u : u = Append(b, n) /\ u = AddPath(t, path, item)
    BY <1>7, <1>15, <2>1, PutAtIs DEF old
  <2>3. /\ u \in Trees(names, data) /\ Distinct(u) /\ Len(u) = Len(b) + 1
        /\ DOMAIN u = 1 .. Len(b) + 1
        /\ u[Len(b) + 1] = n /\ \A i \in DOMAIN b : u[i] = b[i]
        /\ \A i \in 0 .. Len(b) : FullPath(u, i) = FullPath(b, i)
        /\ FullPath(u, Len(b) + 1) = Append(FullPath(b, at), last)
    <3>1. n.parent <= Len(b) /\ FindChild(b, n.parent, n.name) = {} /\ Distinct(b)
      BY <1>5, <1>8, <1>15, <2>1 DEF old
    <3> DEFINE c == Append(b, n)
    <3>2. /\ c \in Trees(names, data) /\ Distinct(c) /\ Len(c) = Len(b) + 1
          /\ DOMAIN c = 1 .. Len(b) + 1
          /\ c[Len(b) + 1] = n /\ \A i \in DOMAIN b : c[i] = b[i]
          /\ \A i \in 0 .. Len(b) : FullPath(c, i) = FullPath(b, i)
          /\ FullPath(c, Len(b) + 1) = Append(FullPath(b, n.parent), n.name)
      BY <3>1, NewChild
    <3> HIDE DEF c
    <3>3. c = u
      BY <2>2 DEF c
    <3> QED
      BY <2>1, <3>2, <3>3
  <2>4. FullPath(u, Len(b) + 1) = path /\ Len(b) + 1 \in DOMAIN u /\ u[Len(b) + 1] = NewNode(at, last, item)
        /\ u[Len(b) + 1].parent = at
    <3>1. FullPath(u, Len(b) + 1) = path
      BY <1>2, <1>6, <2>3
    <3>2. Len(b) + 1 \in DOMAIN u
      BY <1>8, <2>3
    <3> QED
      BY <2>1, <2>3, <3>1, <3>2
  <2>5. \A i \in DOMAIN t : FullPath(t, i) # path
    BY <1>9, <1>12, <1>15
  <2>6. \A i \in DOMAIN t : u[i] = IF FullPath(t, i) = path THEN Relist(t[i], item) ELSE t[i]
    BY <1>12, <2>3, <2>5
  <2>7. Len(t) <= Len(u) /\ \A i \in 0 .. Len(t) : FullPath(u, i) = FullPath(t, i)
    BY <1>8, <1>13, <2>3
  <2>8. ASSUME NEW i \in DOMAIN u \ DOMAIN t
        PROVE  \E k \in 1 .. Len(path) : FullPath(u, i) = SubSeq(path, 1, k)
    <3>1. CASE i \in DOMAIN b
      <4>1. i \in 0 .. Len(b)
        BY <1>8, <3>1
      <4> QED
        BY <1>11, <2>3, <3>1, <4>1
    <3>2. CASE i \notin DOMAIN b
      <4>1. i = Len(b) + 1
        BY <1>8, <2>3, <3>2
      <4>2. SubSeq(path, 1, L) = path
        BY <1>1, SubSeqFull
      <4> QED
        BY <1>1, <2>4, <4>1, <4>2
    <3> QED
      BY <3>1, <3>2
  <2>9. \E v \in DOMAIN u : FullPath(u, v) = path /\ u[v] = NewNode(u[v].parent, Last(path), item)
    BY <1>2, <2>4
  <2> QED
    BY <2>2, <2>3, <2>6, <2>7, <2>8, <2>9 DEF Added
<1> QED
  BY <1>14, <1>15

\* What session_read_tree makes of a tree with one entry.
Read(t, w, e) ==
  /\ Distinct(w) /\ Len(t) <= Len(w)
  /\ \A i \in 0 .. Len(t) : FullPath(w, i) = FullPath(t, i)
  /\ \A i \in DOMAIN t :
       w[i] = IF FullPath(t, i) = e.path THEN LoadedNode(Relist(t[i], e.item), e) ELSE t[i]
  /\ \A i \in DOMAIN w \ DOMAIN t :
       \E k \in 1 .. Len(e.path) : FullPath(w, i) = SubSeq(e.path, 1, k)
  /\ \E v \in DOMAIN w :
       /\ FullPath(w, v) = e.path
       /\ v \in DOMAIN t \/ w[v] = LoadedNode(NewNode(w[v].parent, Last(e.path), e.item), e)

LEMMA LoadEntryReads ==
  ASSUME NEW names, NEW data, NEW t \in Trees(names, data), Distinct(t),
         NEW e \in SavedEntries(names, data), e.path # <<>>, NoSource \in data
  PROVE  Read(t, LoadEntry(t, e), e)
<1>1. e.path \in Seq(names) /\ e.orphan \in BOOLEAN /\ e.clusters \in data /\ e.item \in Items(data)
  BY DEF SavedEntries
<1>2. PICK path \in Seq(names), item \in Items(data) : path = e.path /\ item = e.item
  BY <1>1
<1>3. PICK u \in Trees(names, data) : u = AddPath(t, path, item)
  BY AddPathIn
<1>4. Added(t, u, path, item)
  BY <1>2, <1>3, AddPathAdds
<1>5. /\ Len(t) \in Nat /\ DOMAIN t = 1 .. Len(t) /\ Len(u) \in Nat /\ DOMAIN u = 1 .. Len(u)
  BY TreeHas
<1>6. Distinct(u) /\ Len(t) <= Len(u)
  BY <1>4 DEF Added
<1> DEFINE found == FindPath(u, path)
           w == [i \in DOMAIN u |-> IF i \in found THEN LoadedNode(u[i], e) ELSE u[i]]
<1>7. LoadEntry(t, e) = w
  BY <1>2, <1>3, LoadEntryIs
<1>8. found = {i \in 0 .. Len(u) : FullPath(u, i) = path}
  BY <1>6, FindsPaths
<1>9. \A n \in Nodes(names, data) :
        LoadedNode(n, e) \in Nodes(names, data) /\ LoadedNode(n, e).parent = n.parent
        /\ LoadedNode(n, e).name = n.name
  BY <1>1 DEF LoadedNode, Nodes
<1>10. \A i \in DOMAIN u : u[i] \in Nodes(names, data) /\ i \in 0 .. Len(u)
  BY <1>5, TreeHas
<1> HIDE DEF found
<1>11. \A i \in DOMAIN u : w[i] = IF FullPath(u, i) = path THEN LoadedNode(u[i], e) ELSE u[i]
  BY <1>8, <1>10
<1>12. w \in [DOMAIN u -> Nodes(names, data)]
       /\ \A i \in DOMAIN u : w[i].parent = u[i].parent /\ w[i].name = u[i].name
  BY <1>9, <1>10
<1> HIDE DEF w
<1>13. w \in Trees(names, data) /\ Len(w) = Len(u) /\ DOMAIN w = DOMAIN u
  BY <1>12, ChangedTree
<1>14. \A i \in 0 .. Len(u) : FullPath(w, i) = FullPath(u, i)
  <2>1. PICK c \in Trees(names, data) : c = w
    BY <1>13
  <2>2. Len(u) <= Len(c)
    BY <1>5, <1>13, <2>1
  <2>3. \A i \in DOMAIN u : c[i].parent = u[i].parent /\ c[i].name = u[i].name
    BY <1>12, <2>1
  <2>4. \A i \in 0 .. Len(u) : FullPath(c, i) = FullPath(u, i)
    BY <2>2, <2>3, SamePaths
  <2> QED
    BY <2>1, <2>4
<1>15. Distinct(w)
  BY <1>6, <1>12, <1>13 DEF Distinct
<1>16. Len(t) <= Len(w) /\ \A i \in 0 .. Len(t) : FullPath(w, i) = FullPath(t, i)
  <2>1. \A i \in 0 .. Len(t) : i \in 0 .. Len(u) /\ FullPath(u, i) = FullPath(t, i)
    BY <1>4, <1>5, <1>6 DEF Added
  <2> QED
    BY <1>6, <1>13, <1>14, <2>1
<1>17. ASSUME NEW i \in DOMAIN t
       PROVE  w[i] = IF FullPath(t, i) = e.path THEN LoadedNode(Relist(t[i], e.item), e) ELSE t[i]
  <2>1. i \in DOMAIN u /\ i \in 0 .. Len(t)
    BY <1>5, <1>6
  <2>2. FullPath(u, i) = FullPath(t, i) /\ u[i] = IF FullPath(t, i) = path THEN Relist(t[i], item) ELSE t[i]
    BY <1>4, <2>1 DEF Added
  <2> QED
    BY <1>2, <1>11, <2>1, <2>2
<1>18. \A i \in DOMAIN w \ DOMAIN t : \E k \in 1 .. Len(e.path) : FullPath(w, i) = SubSeq(e.path, 1, k)
  <2>1. \A i \in DOMAIN u \ DOMAIN t : \E k \in 1 .. Len(path) : FullPath(u, i) = SubSeq(path, 1, k)
    BY <1>4 DEF Added
  <2> QED
    BY <1>2, <1>10, <1>13, <1>14, <2>1
<1>19. \E v \in DOMAIN w :
         /\ FullPath(w, v) = e.path
         /\ v \in DOMAIN t \/ w[v] = LoadedNode(NewNode(w[v].parent, Last(e.path), e.item), e)
  <2>1. PICK v \in DOMAIN u :
          FullPath(u, v) = path /\ (v \in DOMAIN t \/ u[v] = NewNode(u[v].parent, Last(path), item))
    BY <1>4 DEF Added
  <2>2. FullPath(w, v) = e.path /\ v \in DOMAIN w
    BY <1>2, <1>10, <1>13, <1>14, <2>1
  <2>3. v \in DOMAIN t \/ w[v] = LoadedNode(NewNode(w[v].parent, Last(e.path), e.item), e)
    BY <1>2, <1>11, <1>12, <2>1
  <2> QED
    BY <2>2, <2>3
<1> QED
  BY <1>7, <1>15, <1>16, <1>17, <1>18, <1>19 DEF Read

------------------------------------------------------------------------------
(* The order of the entries: a parent is written before what is below it, and *)
(* nothing below a directory is left out.                                     *)

Seen(x) == {x[k] : k \in 1 .. Len(x)}

\* The parent of each node is in A, or is earlier in x.
ParentsFirst(t, x, A) ==
  \A k \in 1 .. Len(x) : t[x[k]].parent \in A \/ \E j \in 1 .. k - 1 : x[j] = t[x[k]].parent

Entries(t, x) == [k \in 1 .. Len(x) |-> Entry(t, x[k])]

LEMMA SeenConcat ==
  ASSUME NEW D, NEW y \in Seq(D), NEW z \in Seq(D)
  PROVE  Seen(y \o z) = Seen(y) \cup Seen(z)
<1>1. PICK x \in Seq(D) : x = y \o z
  BY ConcatProperties
<1>2. PICK m \in Nat : m = Len(y)
  OBVIOUS
<1>3. PICK n \in Nat : n = Len(z)
  OBVIOUS
<1>4. Len(x) = m + n /\ \A i \in 1 .. m + n : x[i] = IF i <= m THEN y[i] ELSE z[i - m]
  BY <1>1, <1>2, <1>3, ConcatProperties
<1>5. ASSUME NEW i \in 1 .. Len(x) PROVE x[i] \in Seen(y) \cup Seen(z)
  <2>1. CASE i <= m
    BY <1>2, <1>4, <2>1 DEF Seen
  <2>2. CASE ~(i <= m)
    <3>1. i - m \in 1 .. n
      BY <1>4, <2>2
    <3> QED
      BY <1>3, <1>4, <2>2, <3>1 DEF Seen
  <2> QED
    BY <2>1, <2>2
<1>6. ASSUME NEW i \in 1 .. Len(y) PROVE y[i] \in Seen(x)
  <2>1. i \in 1 .. m + n /\ i <= m
    BY <1>2
  <2> QED
    BY <1>4, <2>1 DEF Seen
<1>7. ASSUME NEW i \in 1 .. Len(z) PROVE z[i] \in Seen(x)
  <2>1. i + m \in 1 .. m + n /\ ~(i + m <= m) /\ i + m - m = i
    BY <1>3
  <2>2. x[i + m] = z[i]
    BY <1>4, <2>1
  <2> QED
    BY <1>4, <2>1, <2>2 DEF Seen
<1>8. Seen(x) \subseteq Seen(y) \cup Seen(z)
  BY <1>5 DEF Seen
<1>9. Seen(y) \subseteq Seen(x) /\ Seen(z) \subseteq Seen(x)
  BY <1>6, <1>7 DEF Seen
<1> QED
  BY <1>1, <1>8, <1>9

LEMMA ParentsFirstConcat ==
  ASSUME NEW D, NEW t, NEW A, NEW y \in Seq(D), NEW z \in Seq(D),
         ParentsFirst(t, y, A), ParentsFirst(t, z, A \cup Seen(y))
  PROVE  ParentsFirst(t, y \o z, A)
<1>1. PICK x \in Seq(D) : x = y \o z
  BY ConcatProperties
<1>2. PICK m \in Nat : m = Len(y)
  OBVIOUS
<1>3. PICK n \in Nat : n = Len(z)
  OBVIOUS
<1>4. Len(x) = m + n /\ \A i \in 1 .. m + n : x[i] = IF i <= m THEN y[i] ELSE z[i - m]
  BY <1>1, <1>2, <1>3, ConcatProperties
<1>5. ASSUME NEW k \in 1 .. Len(x)
      PROVE  t[x[k]].parent \in A \/ \E j \in 1 .. k - 1 : x[j] = t[x[k]].parent
  <2>1. CASE k <= m
    <3>1. k \in 1 .. Len(y) /\ x[k] = y[k] /\ \A j \in 1 .. k - 1 : x[j] = y[j]
      BY <1>2, <1>4, <2>1
    <3>2. t[y[k]].parent \in A \/ \E j \in 1 .. k - 1 : y[j] = t[y[k]].parent
      BY <3>1 DEF ParentsFirst
    <3> QED
      BY <3>1, <3>2
  <2>2. CASE ~(k <= m)
    <3>1. k - m \in 1 .. Len(z) /\ x[k] = z[k - m]
      BY <1>3, <1>4, <2>2
    <3>2. t[z[k - m]].parent \in A \cup Seen(y)
          \/ \E j \in 1 .. k - m - 1 : z[j] = t[z[k - m]].parent
      BY <3>1 DEF ParentsFirst
    <3>3. CASE t[x[k]].parent \in Seen(y)
      <4>1. PICK j \in 1 .. Len(y) : y[j] = t[x[k]].parent
        BY <3>3 DEF Seen
      <4>2. j \in 1 .. k - 1 /\ j \in 1 .. m + n /\ j <= m
        BY <1>2, <2>2
      <4>3. x[j] = y[j]
        BY <1>4, <4>2
      <4> QED
        BY <4>1, <4>2, <4>3
    <3>4. CASE \E j \in 1 .. k - m - 1 : z[j] = t[x[k]].parent
      <4>1. PICK j \in 1 .. k - m - 1 : z[j] = t[x[k]].parent
        BY <3>4
      <4>2. j + m \in 1 .. k - 1 /\ j + m \in 1 .. m + n /\ ~(j + m <= m) /\ j + m - m = j
        BY <1>4, <3>1
      <4>3. x[j + m] = z[j]
        BY <1>4, <4>2
      <4> QED
        BY <4>1, <4>2, <4>3
    <3> QED
      BY <3>1, <3>2, <3>3, <3>4
  <2> QED
    BY <2>1, <2>2
<1> QED
  BY <1>1, <1>5 DEF ParentsFirst

LEMMA EntriesConcat ==
  ASSUME NEW D, NEW t
  PROVE  \A y, z \in Seq(D) : Entries(t, y \o z) = Entries(t, y) \o Entries(t, z)
<1> SUFFICES ASSUME NEW y \in Seq(D), NEW z \in Seq(D)
             PROVE  Entries(t, y \o z) = Entries(t, y) \o Entries(t, z)
  OBVIOUS
<1> DEFINE E == {Entry(t, i) : i \in D}
<1>0. \A i \in D : Entry(t, i) \in E
  OBVIOUS
<1> HIDE DEF E
<1>1. PICK x \in Seq(D) : x = y \o z
  BY ConcatProperties
<1>2. PICK m \in Nat : m = Len(y)
  OBVIOUS
<1>3. PICK n \in Nat : n = Len(z)
  OBVIOUS
<1>4. Len(x) = m + n /\ \A i \in 1 .. m + n : x[i] = IF i <= m THEN y[i] ELSE z[i - m]
  BY <1>1, <1>2, <1>3, ConcatProperties
<1>5. \A s \in Seq(D) : /\ Entries(t, s) \in Seq(E) /\ Len(Entries(t, s)) = Len(s)
                        /\ \A k \in 1 .. Len(s) : Entries(t, s)[k] = Entry(t, s[k])
  <2> SUFFICES ASSUME NEW s \in Seq(D)
               PROVE  /\ Entries(t, s) \in Seq(E) /\ Len(Entries(t, s)) = Len(s)
                      /\ \A k \in 1 .. Len(s) : Entries(t, s)[k] = Entry(t, s[k])
    OBVIOUS
  <2>1. PICK l \in Nat : l = Len(s)
    OBVIOUS
  <2>2. \A k \in 1 .. l : Entry(t, s[k]) \in E
    BY <1>0, <2>1
  <2>3. Entries(t, s) = [k \in 1 .. l |-> Entry(t, s[k])]
    BY <2>1 DEF Entries
  <2>4. Entries(t, s) \in [1 .. l -> E]
    BY <2>2, <2>3
  <2>5. Entries(t, s) \in Seq(E) /\ DOMAIN Entries(t, s) = 1 .. l
    BY <2>4
  <2>6. Len(Entries(t, s)) = l
    BY <2>5, LenProperties
  <2> QED
    BY <2>1, <2>3, <2>5, <2>6
<1>6. PICK a \in Seq(E) : a = Entries(t, y)
  BY <1>5
<1>7. PICK b \in Seq(E) : b = Entries(t, z)
  BY <1>5
<1>8. PICK c \in Seq(E) : c = Entries(t, x)
  BY <1>5
<1>9. /\ Len(a) = m /\ Len(b) = n /\ Len(c) = m + n
      /\ \A k \in 1 .. m : a[k] = Entry(t, y[k])
      /\ \A k \in 1 .. n : b[k] = Entry(t, z[k])
      /\ \A k \in 1 .. m + n : c[k] = Entry(t, x[k])
  BY <1>2, <1>3, <1>4, <1>5, <1>6, <1>7, <1>8
<1>10. a \o b \in Seq(E) /\ Len(a \o b) = m + n
       /\ \A i \in 1 .. m + n : (a \o b)[i] = IF i <= m THEN a[i] ELSE b[i - m]
  BY <1>9, ConcatProperties
<1>11. ASSUME NEW i \in 1 .. m + n PROVE c[i] = (a \o b)[i]
  <2>1. CASE i <= m
    <3>1. i \in 1 .. m
      BY <2>1
    <3>2. c[i] = Entry(t, y[i]) /\ a[i] = Entry(t, y[i])
      BY <1>4, <1>9, <2>1, <3>1
    <3> QED
      BY <1>10, <2>1, <3>2
  <2>2. CASE ~(i <= m)
    <3>1. i - m \in 1 .. n
      BY <2>2
    <3>2. c[i] = Entry(t, z[i - m]) /\ b[i - m] = Entry(t, z[i - m])
      BY <1>4, <1>9, <2>2, <3>1
    <3> QED
      BY <1>10, <2>2, <3>2
  <2> QED
    BY <2>1, <2>2
<1>12. c = a \o b
  BY <1>9, <1>10, <1>11, SeqEqual
<1> QED
  BY <1>1, <1>6, <1>7, <1>8, <1>12

\* What the nodes from i on give below "at": parents first, and with each of them everything
\* below it.
Order(t, i, at, x) ==
  /\ ParentsFirst(t, x, {at})
  /\ \A j \in DOMAIN t : j >= i /\ t[j].parent = at => j \in Seen(x)
  /\ \A j \in DOMAIN t : t[j].parent \in Seen(x) /\ t[t[j].parent].dir => j \in Seen(x)

Ordered(t, i, row) ==
  \A at \in 0 .. Len(t) : \E x \in Seq(DOMAIN t) : row[at] = Entries(t, x) /\ Order(t, i, at, x)

LEMMA RowOrdered ==
  ASSUME NEW names, NEW data, NEW t \in Trees(names, data), NEW i \in DOMAIN t,
         NEW row \in [0 .. Len(t) -> Seq(SavedEntries(names, data))], Ordered(t, i + 1, row)
  PROVE  Ordered(t, i, Row(t, i, row))
<1>domain. PICK D : D = DOMAIN t
  OBVIOUS
<1>split. \A a, b \in Seq(D) : Entries(t, a \o b) = Entries(t, a) \o Entries(t, b)
  BY EntriesConcat
<1>1. /\ Len(t) \in Nat /\ D = 1 .. Len(t) /\ i \in 0 .. Len(t) /\ i \in Nat
      /\ t[i].parent \in 0 .. Len(t) /\ \A j \in D : j \in Nat /\ t[j].parent < j /\ t[j].parent \in Nat
  <2>1. Len(t) \in Nat /\ D = 1 .. Len(t) /\ \A j \in D : t[j].parent \in 0 .. j - 1
    BY <1>domain, TreeHas
  <2> QED
    BY <1>domain, <2>1
<1>3. PICK p \in 0 .. Len(t) : p = t[i].parent
  BY <1>1
<1>4. PICK below \in Seq(D) : row[i] = Entries(t, below) /\ Order(t, i + 1, i, below)
  BY <1>1, <1>domain DEF Ordered
<1>5. PICK later \in Seq(D) : row[p] = Entries(t, later) /\ Order(t, i + 1, p, later)
  BY <1>domain DEF Ordered
<1>6. PICK y \in Seq(D) : y = IF t[i].dir THEN below ELSE <<>>
  <2>1. <<>> \in Seq(D)
    OBVIOUS
  <2> QED
    BY <2>1
<1>7. PICK one \in Seq(D) : one = <<i>>
  <2>1. i \in D
    BY <1>domain
  <2>2. <<i>> \in Seq(D)
    BY <2>1
  <2> QED
    BY <2>2
<1>8. PICK head \in Seq(D) : head = one \o y
  BY ConcatProperties
<1>9. PICK x \in Seq(D) : x = head \o later
  BY ConcatProperties
<1>10. Len(one) = 1 /\ one[1] = i
  BY <1>7
<1>11. Seen(one) = {i}
  BY <1>10 DEF Seen
<1>12. /\ Seen(x) = {i} \cup Seen(y) \cup Seen(later)
       /\ Seen(head) = {i} \cup Seen(y)
  <2>1. Seen(one \o y) = Seen(one) \cup Seen(y)
    BY SeenConcat
  <2>2. Seen(head \o later) = Seen(head) \cup Seen(later)
    BY SeenConcat
  <2> QED
    BY <1>8, <1>9, <1>11, <2>1, <2>2
<1>13. Seen(<<>>) = {} /\ Entries(t, <<>>) = <<>>
  BY DEF Seen, Entries
<1>14. Row(t, i, row)[p] = Entries(t, x)
  <2>1. Row(t, i, row)[p] = <<Entry(t, i)>> \o (IF t[i].dir THEN row[i] ELSE <<>>) \o row[p]
    BY <1>3 DEF Row
  <2>2. (IF t[i].dir THEN row[i] ELSE <<>>) = Entries(t, y)
    BY <1>4, <1>6, <1>13
  <2>3. Entries(t, one) = <<Entry(t, i)>>
    BY <1>10 DEF Entries
  <2>4. Entries(t, one \o y) = Entries(t, one) \o Entries(t, y)
    BY <1>split, Zenon
  <2>5. Entries(t, head \o later) = Entries(t, head) \o Entries(t, later)
    BY <1>split, Zenon
  <2> QED
    BY <1>5, <1>8, <1>9, <2>1, <2>2, <2>3, <2>4, <2>5
<1>15. ParentsFirst(t, x, {p})
  <2>1. ParentsFirst(t, one, {p})
    BY <1>3, <1>10 DEF ParentsFirst
  <2>2. ParentsFirst(t, y, {p} \cup Seen(one))
    <3>1. ParentsFirst(t, below, {i})
      BY <1>4 DEF Order
    <3>2. ParentsFirst(t, <<>>, {i})
      BY DEF ParentsFirst
    <3>3. ParentsFirst(t, y, {i})
      BY <1>6, <3>1, <3>2
    <3> QED
      BY <1>11, <3>3 DEF ParentsFirst
  <2>3. ParentsFirst(t, head, {p})
    BY <1>8, <2>1, <2>2, ParentsFirstConcat
  <2>4. ParentsFirst(t, later, {p} \cup Seen(head))
    BY <1>5 DEF Order, ParentsFirst
  <2> QED
    BY <1>9, <2>3, <2>4, ParentsFirstConcat
<1>16. ASSUME NEW j \in D, j >= i, t[j].parent = p PROVE j \in Seen(x)
  <2>1. CASE j = i
    BY <1>12, <2>1
  <2>2. CASE j # i
    <3>1. j >= i + 1
      BY <1>1, <1>16, <2>2
    <3> QED
      BY <1>5, <1>12, <1>16, <3>1, <1>domain DEF Order
  <2> QED
    BY <2>1, <2>2
<1>17. ASSUME NEW j \in D, t[j].parent \in Seen(x), t[t[j].parent].dir PROVE j \in Seen(x)
  <2>1. CASE t[j].parent = i
    <3>1. j >= i + 1 /\ y = below
      BY <1>1, <1>6, <1>17, <2>1
    <3>2. j \in Seen(below)
      BY <1>4, <2>1, <3>1, <1>domain DEF Order
    <3> QED
      BY <1>12, <3>1, <3>2
  <2>2. CASE t[j].parent \in Seen(y)
    <3>1. y = below
      BY <1>6, <1>13, <2>2
    <3>2. j \in Seen(below)
      BY <1>4, <1>17, <2>2, <3>1, <1>domain DEF Order
    <3> QED
      BY <1>12, <3>1, <3>2
  <2>3. CASE t[j].parent \in Seen(later)
    BY <1>5, <1>12, <1>17, <2>3, <1>domain DEF Order
  <2> QED
    BY <1>12, <1>17, <2>1, <2>2, <2>3
<1>18. Order(t, i, p, x)
  BY <1>15, <1>16, <1>17, <1>domain DEF Order
<1>19. ASSUME NEW at \in 0 .. Len(t)
       PROVE  \E z \in Seq(D) : Row(t, i, row)[at] = Entries(t, z) /\ Order(t, i, at, z)
  <2>1. CASE at = p
    BY <1>14, <1>18, <2>1
  <2>2. CASE at # p
    <3>1. PICK z \in Seq(D) : row[at] = Entries(t, z) /\ Order(t, i + 1, at, z)
      BY <1>domain DEF Ordered
    <3>2. Row(t, i, row)[at] = row[at]
      BY <1>3, <2>2 DEF Row
    <3>3. \A j \in D : j >= i /\ t[j].parent = at => j >= i + 1
      BY <1>1, <1>3, <2>2
    <3>4. Order(t, i, at, z)
      BY <3>1, <3>3, <1>domain DEF Order
    <3> QED
      BY <3>1, <3>2, <3>4
  <2> QED
    BY <2>1, <2>2
<1> QED
  BY <1>19, <1>domain DEF Ordered

LEMMA SavedInOrder ==
  ASSUME NEW names, NEW data, NEW t \in Trees(names, data)
  PROVE  \E x \in Seq(DOMAIN t) : Serialize(t) = Entries(t, x) /\ Order(t, 1, Root, x)
<1> DEFINE E == SavedEntries(names, data)
<1>1. PICK rows : Rows(rows, t, E)
  BY SerializeBuilt
<1>2. PICK L \in Nat : L = Len(t)
  BY TreeHas
<1>3. /\ rows \in [0 .. L -> [0 .. L -> Seq(E)]] /\ rows[0] = [at \in 0 .. L |-> <<>>]
      /\ \A n \in 1 .. L : rows[n] = Row(t, L + 1 - n, rows[n - 1])
      /\ Serialize(t) = rows[L][0]
  BY <1>1, <1>2 DEF Rows
<1> HIDE DEF E
<1> DEFINE bad == {n \in 0 .. L : ~Ordered(t, L + 1 - n, rows[n])}
<1>4. bad = {}
  <2> SUFFICES ASSUME bad # {} PROVE FALSE
    OBVIOUS
  <2>1. PICK m \in bad : \A k \in bad : m <= k
    <3>1. bad \in SUBSET Nat
      OBVIOUS
    <3> HIDE DEF bad
    <3> QED
      BY <3>1, LeastNat
  <2>2. m \in 0 .. L /\ ~Ordered(t, L + 1 - m, rows[m])
    OBVIOUS
  <2>3. CASE m = 0
    <3>1. \A j \in DOMAIN t : j \in Nat /\ ~(j >= L + 1 - m)
      BY <1>2, <2>3, TreeHas
    <3>2. PICK none \in Seq(DOMAIN t) : none = <<>>
      <4>1. <<>> \in Seq(DOMAIN t)
        OBVIOUS
      <4> QED
        BY <4>1
    <3>3. Entries(t, none) = <<>> /\ Seen(none) = {}
      BY <3>2 DEF Entries, Seen
    <3>4. \A at : Order(t, L + 1 - m, at, none)
      BY <3>1, <3>2, <3>3 DEF Order, ParentsFirst
    <3>5. \A at \in 0 .. Len(t) : rows[m][at] = <<>>
      BY <1>2, <1>3, <2>3
    <3>6. Ordered(t, L + 1 - m, rows[m])
      BY <3>3, <3>4, <3>5 DEF Ordered
    <3> QED
      BY <2>2, <3>6
  <2>4. CASE m # 0
    <3>1. m - 1 \in 0 .. L /\ ~(m <= m - 1) /\ m \in 1 .. L
      BY <2>2, <2>4
    <3>2. Ordered(t, L + 1 - (m - 1), rows[m - 1])
      BY <2>1, <3>1
    <3>3. PICK i \in DOMAIN t : i = L + 1 - m
      BY <1>2, <3>1, TreeHas
    <3>4. PICK row \in [0 .. L -> Seq(E)] : row = rows[m - 1]
      BY <1>3, <3>1
    <3>5. L + 1 - (m - 1) = i + 1
      BY <3>1, <3>3
    <3>6. Ordered(t, i + 1, row)
      BY <3>2, <3>4, <3>5
    <3>7. Ordered(t, i, Row(t, i, row))
      BY <1>2, <3>6, RowOrdered DEF E
    <3>8. rows[m] = Row(t, i, row)
      BY <1>3, <3>1, <3>3, <3>4
    <3> QED
      BY <2>2, <3>3, <3>7, <3>8
  <2> QED
    BY <2>3, <2>4
<1>5. Ordered(t, L + 1 - L, rows[L])
  BY <1>4
<1>6. L + 1 - L = 1 /\ Root \in 0 .. Len(t)
  BY <1>2 DEF Root
<1> QED
  BY <1>3, <1>5, <1>6 DEF Ordered, Root

------------------------------------------------------------------------------
(* A node that is Alone is read back as it was saved. *)

LEMMA LineageHas ==
  ASSUME NEW names, NEW data, NEW t \in Trees(names, data)
  PROVE  \A i \in DOMAIN t : \A j \in Lineage(t, i) :
           j \in 1 .. i /\ (t[j].parent = Root \/ t[j].parent \in Lineage(t, i))
<1> DEFINE Fine(i) == \A j \in Lineage(t, i) :
                        j \in 1 .. i /\ (t[j].parent = Root \/ t[j].parent \in Lineage(t, i))
           bad == {i \in DOMAIN t : ~Fine(i)}
<1> SUFFICES ASSUME bad # {} PROVE FALSE
  OBVIOUS
<1>1. /\ Len(t) \in Nat /\ DOMAIN t = 1 .. Len(t)
      /\ \A i \in DOMAIN t : t[i].parent \in 0 .. i - 1
  BY TreeHas
<1>2. /\ Lineage(t, Root) = {}
      /\ \A i \in 1 .. Len(t) : Lineage(t, i) = {i} \cup Lineage(t, t[i].parent)
  BY LineageIs
<1>3. PICK m \in bad : \A k \in bad : m <= k
  <2>1. bad \in SUBSET Nat
    BY <1>1
  <2> HIDE DEF bad
  <2> QED
    BY <2>1, LeastNat
<1>4. m \in 1 .. Len(t) /\ ~Fine(m) /\ \A i \in DOMAIN t : i < m => Fine(i)
  <2> HIDE DEF Fine
  <2>1. m \in DOMAIN t /\ ~Fine(m)
    OBVIOUS
  <2>2. ASSUME NEW i \in DOMAIN t, i < m PROVE Fine(i)
    <3>1. ~(m <= i)
      BY <1>1, <2>1, <2>2
    <3> QED
      BY <1>3, <3>1
  <2> QED
    BY <1>1, <2>1, <2>2
<1>5. PICK p \in 0 .. m - 1 : p = t[m].parent
  BY <1>1, <1>4
<1>6. Lineage(t, m) = {m} \cup Lineage(t, p)
  BY <1>2, <1>4, <1>5
<1>7. CASE p = Root
  <2>1. Lineage(t, m) = {m} /\ m \in 1 .. m
    BY <1>2, <1>4, <1>6, <1>7
  <2>2. Fine(m)
    BY <1>5, <1>7, <2>1
  <2> QED
    BY <1>4, <2>2
<1>8. CASE p # Root
  <2>1. p \in 1 .. Len(t) /\ p < m
    BY <1>1, <1>4, <1>5, <1>8 DEF Root
  <2>2. Fine(p)
    BY <1>1, <1>4, <2>1
  <2>3. p \in Lineage(t, p)
    BY <1>2, <2>1
  <2>4. ASSUME NEW j \in Lineage(t, m)
        PROVE  j \in 1 .. m /\ (t[j].parent = Root \/ t[j].parent \in Lineage(t, m))
    <3>1. CASE j = m
      BY <1>4, <1>5, <1>6, <2>3, <3>1
    <3>2. CASE j \in Lineage(t, p)
      <4>1. j \in 1 .. p /\ (t[j].parent = Root \/ t[j].parent \in Lineage(t, p))
        BY <2>2, <3>2
      <4>2. j \in 1 .. m
        BY <2>1, <4>1
      <4> QED
        BY <1>6, <4>1, <4>2
    <3> QED
      BY <1>6, <3>1, <3>2
  <2> QED
    BY <1>4, <2>4
<1> QED
  BY <1>7, <1>8

\* Of each name on its path there is a node above.
LEMMA AncestorAt ==
  ASSUME NEW names, NEW data, NEW t \in Trees(names, data)
  PROVE  \A i \in DOMAIN t : \A n \in 1 .. Len(FullPath(t, i)) :
           \E j \in Lineage(t, i) : FullPath(t, j) = SubSeq(FullPath(t, i), 1, n)
<1> DEFINE Fine(i) == \A n \in 1 .. Len(FullPath(t, i)) :
                        \E j \in Lineage(t, i) : FullPath(t, j) = SubSeq(FullPath(t, i), 1, n)
           bad == {i \in DOMAIN t : ~Fine(i)}
<1> SUFFICES ASSUME bad # {} PROVE FALSE
  OBVIOUS
<1>1. /\ Len(t) \in Nat /\ DOMAIN t = 1 .. Len(t)
      /\ \A i \in DOMAIN t : t[i].parent \in 0 .. i - 1
  BY TreeHas
<1>2. \A i \in 1 .. Len(t) : Lineage(t, i) = {i} \cup Lineage(t, t[i].parent)
  BY LineageIs
<1>3. PICK m \in bad : \A k \in bad : m <= k
  <2>1. bad \in SUBSET Nat
    BY <1>1
  <2> HIDE DEF bad
  <2> QED
    BY <2>1, LeastNat
<1>4. m \in 1 .. Len(t) /\ ~Fine(m) /\ \A i \in DOMAIN t : i < m => Fine(i)
  <2> HIDE DEF Fine
  <2>1. m \in DOMAIN t /\ ~Fine(m)
    OBVIOUS
  <2>2. ASSUME NEW i \in DOMAIN t, i < m PROVE Fine(i)
    <3>1. ~(m <= i)
      BY <1>1, <2>1, <2>2
    <3> QED
      BY <1>3, <3>1
  <2> QED
    BY <1>1, <2>1, <2>2
<1>5. PICK p \in 0 .. m - 1 : p = t[m].parent
  BY <1>1, <1>4
<1>6. Lineage(t, m) = {m} \cup Lineage(t, p)
  BY <1>2, <1>4, <1>5
<1>7. /\ FullPath(t, m) \in Seq(names) /\ FullPath(t, p) \in Seq(names) /\ t[m].name \in names
      /\ FullPath(t, m) = Append(FullPath(t, p), t[m].name)
  <2>1. m \in DOMAIN t
    BY <1>1, <1>4
  <2>2. /\ t[m].name \in names
        /\ FullPath(t, m) \in Seq(names) /\ FullPath(t, t[m].parent) \in Seq(names)
        /\ FullPath(t, m) = Append(FullPath(t, t[m].parent), t[m].name)
    BY <2>1, NodeHas
  <2> QED
    BY <1>5, <2>2, Zenon
<1>8. PICK q \in Seq(names) : q = FullPath(t, m)
  BY <1>7
<1>9. PICK r \in Seq(names) : r = FullPath(t, p)
  BY <1>7
<1>10. PICK l \in Nat : l = Len(r)
  OBVIOUS
<1>11. Len(q) = l + 1 /\ SubSeq(q, 1, l) = r
  <2>1. q = Append(r, t[m].name) /\ t[m].name \in names
    BY <1>7, <1>8, <1>9
  <2>2. Len(q) = l + 1 /\ \A k \in 1 .. l : q[k] = r[k]
    BY <1>10, <2>1, AppendProperties
  <2>3. l \in 0 .. Len(q)
    BY <2>2
  <2>4. SubSeq(q, 1, l) \in Seq(names) /\ Len(SubSeq(q, 1, l)) = l
        /\ \A k \in 1 .. l : SubSeq(q, 1, l)[k] = q[k]
    BY <2>3, PrefixIs
  <2>5. SubSeq(q, 1, l) = r
    BY <1>10, <2>2, <2>4, SeqEqual
  <2> QED
    BY <2>2, <2>5
<1>12. ASSUME NEW n \in 1 .. Len(q) PROVE \E j \in Lineage(t, m) : FullPath(t, j) = SubSeq(q, 1, n)
  <2>1. CASE n = l + 1
    <3>1. SubSeq(q, 1, n) = q
      BY <1>11, <2>1, SubSeqFull
    <3> QED
      BY <1>6, <1>8, <3>1
  <2>2. CASE n # l + 1
    <3>1. n \in 1 .. l /\ l \in 0 .. Len(q) /\ n \in 0 .. l
      BY <1>11, <2>2
    <3>2. SubSeq(r, 1, n) = SubSeq(q, 1, n)
      BY <1>11, <3>1, PrefixOfPrefix
    <3>3. p # Root
      <4>1. SUFFICES ASSUME p = Root PROVE FALSE
        OBVIOUS
      <4>2. r = <<>>
        BY <1>9, <4>1, FullPathIs
      <4> QED
        BY <1>10, <3>1, <4>2
    <3>4. p \in DOMAIN t /\ p < m
      BY <1>1, <1>4, <3>3 DEF Root
    <3>5. Fine(p)
      BY <1>4, <3>4
    <3>6. PICK j \in Lineage(t, p) : FullPath(t, j) = SubSeq(r, 1, n)
      BY <1>9, <1>10, <3>1, <3>5
    <3> QED
      BY <1>6, <3>2, <3>6
  <2> QED
    BY <2>1, <2>2
<1>13. Fine(m)
  BY <1>8, <1>12
<1> QED
  BY <1>4, <1>13

\* What is above the k-th node is no later.
Above(t, x, k) == \A i \in Lineage(t, x[k]) : \E j \in 1 .. k : x[j] = i

LEMMA AboveBefore ==
  ASSUME NEW names, NEW data, NEW t \in Trees(names, data), NEW x \in Seq(DOMAIN t),
         ParentsFirst(t, x, {Root})
  PROVE  \A k \in 1 .. Len(x) : Above(t, x, k)
<1> USE DEF Above
<1> DEFINE Fine(k) == \A i \in Lineage(t, x[k]) : \E j \in 1 .. k : x[j] = i
           bad == {k \in 1 .. Len(x) : ~Fine(k)}
<1> SUFFICES ASSUME bad # {} PROVE FALSE
  OBVIOUS
<1>1. Len(t) \in Nat /\ DOMAIN t = 1 .. Len(t)
  BY TreeHas
<1>2. /\ Lineage(t, Root) = {}
      /\ \A i \in 1 .. Len(t) : Lineage(t, i) = {i} \cup Lineage(t, t[i].parent)
  BY LineageIs
<1>3. PICK m \in bad : \A k \in bad : m <= k
  <2>1. bad \in SUBSET Nat
    OBVIOUS
  <2> HIDE DEF bad
  <2> QED
    BY <2>1, LeastNat
<1>4. m \in 1 .. Len(x) /\ ~Fine(m) /\ \A k \in 1 .. Len(x) : k < m => Fine(k)
  BY <1>3
<1>5. x[m] \in 1 .. Len(t)
  BY <1>1, <1>4
<1>6. Lineage(t, x[m]) = {x[m]} \cup Lineage(t, t[x[m]].parent)
  BY <1>2, <1>5
<1>7. CASE t[x[m]].parent = Root
  BY <1>2, <1>4, <1>6, <1>7
<1>8. CASE \E j \in 1 .. m - 1 : x[j] = t[x[m]].parent
  <2>1. PICK j \in 1 .. m - 1 : x[j] = t[x[m]].parent
    BY <1>8
  <2>2. j \in 1 .. Len(x) /\ j < m
    BY <1>4, <2>1
  <2>3. Fine(j)
    BY <1>4, <2>2
  <2>4. ASSUME NEW i \in Lineage(t, x[m]) PROVE \E k \in 1 .. m : x[k] = i
    <3>1. CASE i = x[m]
      BY <1>4, <3>1
    <3>2. CASE i # x[m]
      <4>1. PICK k \in 1 .. j : x[k] = i
        BY <1>6, <2>1, <2>3, <3>2
      <4>2. k \in 1 .. m
        BY <1>4, <2>2, <4>1
      <4> QED
        BY <4>1, <4>2
    <3> QED
      BY <3>1, <3>2
  <2> QED
    BY <1>4, <2>4
<1> QED
  BY <1>4, <1>7, <1>8 DEF ParentsFirst

LEMMA AloneSeen ==
  ASSUME NEW names, NEW data, NEW t \in Trees(names, data), NEW i \in DOMAIN t, Alone(t, i),
         NEW x \in Seq(DOMAIN t), Order(t, 1, Root, x)
  PROVE  i \in Seen(x)
<1> DEFINE bad == {j \in Lineage(t, i) : j \notin Seen(x)}
<1>1. /\ Len(t) \in Nat /\ DOMAIN t = 1 .. Len(t) /\ i \in Nat
      /\ \A j \in DOMAIN t : j >= 1 /\ t[j].parent \in 0 .. j - 1
  BY TreeHas
<1>2. \A j \in Lineage(t, i) :
        j \in 1 .. i /\ (t[j].parent = Root \/ t[j].parent \in Lineage(t, i))
  BY LineageHas
<1>3. bad = {}
  <2> SUFFICES ASSUME bad # {} PROVE FALSE
    OBVIOUS
  <2>1. PICK m \in bad : \A k \in bad : m <= k
    <3>1. ASSUME NEW j \in Lineage(t, i) PROVE j \in Nat
      <4>1. j \in 1 .. i
        BY <1>2
      <4>2. i \in Int
        BY <1>1
      <4> QED
        BY <4>1, <4>2
    <3>2. bad \in SUBSET Nat
      BY <3>1
    <3> HIDE DEF bad
    <3> QED
      BY <3>2, LeastNat
  <2>2. m \in Lineage(t, i) /\ m \notin Seen(x) /\ m \in 1 .. i /\ m \in DOMAIN t
    BY <1>1, <1>2
  <2>3. PICK p \in 0 .. m - 1 : p = t[m].parent
    BY <1>1, <2>2
  <2>4. CASE p = Root
    BY <1>1, <2>2, <2>3, <2>4 DEF Order
  <2>5. CASE p # Root
    <3>1. p \in Lineage(t, i) /\ p < m /\ p # i /\ ~(m <= p)
      BY <1>2, <2>2, <2>3, <2>5
    <3>2. p \in Seen(x)
      BY <2>1, <3>1
    <3>3. t[p].dir
      BY <3>1 DEF Alone
    <3> QED
      BY <2>2, <2>3, <3>2, <3>3 DEF Order
  <2> QED
    BY <2>4, <2>5
<1>4. i \in Lineage(t, i)
  BY <1>1, LineageIs
<1> QED
  BY <1>3, <1>4

\* Only the node itself has a path that begins with its own among the nodes not below it.
LEMMA AlonePrefix ==
  ASSUME NEW names, NEW data, NEW t \in Trees(names, data), NEW i \in DOMAIN t, Alone(t, i),
         NEW j \in DOMAIN t, NEW n \in 1 .. Len(GetPath(t, j)),
         SubSeq(GetPath(t, j), 1, n) = FullPath(t, i)
  PROVE  i \in Lineage(t, j)
<1>1. PICK q \in Seq(names) : q = FullPath(t, i)
  BY NodeHas
<1>2. PICK g \in Seq(names) : g = GetPath(t, j)
  BY GetPathIn, NodeHas
<1>3. n \in 0 .. Len(g) /\ SubSeq(g, 1, n) = q
  BY <1>1, <1>2
<1>4. ~(Len(FullPath(t, i)) > MaxChain) /\ ~(Len(FullPath(t, j)) > MaxChain)
  <2>1. IsPrefix(q, g)
    <3>1. Len(q) = n /\ n <= Len(g)
      BY <1>3, PrefixIs
    <3>2. SubSeq(q, 1, Len(q)) = q
      BY SubSeqFull
    <3> QED
      BY <1>3, <3>1, <3>2 DEF IsPrefix
  <2> QED
    BY <1>1, <1>2, <2>1 DEF Alone
<1>5. g = FullPath(t, j)
  BY <1>2, <1>4, GetPathIs
<1>6. PICK a \in Lineage(t, j) : FullPath(t, a) = q
  BY <1>2, <1>3, <1>5, AncestorAt
<1>7. a \in DOMAIN t
  BY <1>6, LineageHas, TreeHas, NodeHas
<1>8. GetPath(t, a) = FullPath(t, i)
  BY <1>1, <1>4, <1>6, GetPathIs
<1>9. a = i
  BY <1>7, <1>8 DEF Alone
<1> QED
  BY <1>6, <1>9

LEMMA SameFields ==
  ASSUME NEW names, NEW data, NEW a \in Nodes(names, data), NEW b \in Nodes(names, data),
         a.parent = b.parent, a.name = b.name, a.dir = b.dir, a.deleted = b.deleted,
         a.orphan = b.orphan, a.size = b.size, a.src = b.src, a.clusters = b.clusters
  PROVE  a = b
<1>1. \A n \in Nodes(names, data) :
        n = [parent |-> n.parent, name |-> n.name, dir |-> n.dir, deleted |-> n.deleted,
             orphan |-> n.orphan, size |-> n.size, src |-> n.src, clusters |-> n.clusters]
  BY DEF Nodes
<1>2. a = [parent |-> a.parent, name |-> a.name, dir |-> a.dir, deleted |-> a.deleted,
           orphan |-> a.orphan, size |-> a.size, src |-> a.src, clusters |-> a.clusters]
  BY <1>1
<1>3. b = [parent |-> b.parent, name |-> b.name, dir |-> b.dir, deleted |-> b.deleted,
           orphan |-> b.orphan, size |-> b.size, src |-> b.src, clusters |-> b.clusters]
  BY <1>1
<1> QED
  BY <1>2, <1>3

LEMMA FactsHave ==
  ASSUME NEW names, NEW data, NEW n \in Nodes(names, data), NoSource \in data
  PROVE  /\ Facts(n) \in Nodes(names, data) /\ Facts(n).parent = Root
         /\ Facts(n).name = n.name /\ Facts(n).dir = n.dir /\ Facts(n).deleted = n.deleted
         /\ Facts(n).orphan = n.orphan /\ Facts(n).size = n.size /\ Facts(n).src = n.src
         /\ Facts(n).clusters = IF n.dir THEN NoSource ELSE n.clusters
<1>1. Facts(n) = [n EXCEPT !.parent = Root, !.clusters = IF n.dir THEN NoSource ELSE @]
  BY DEF Facts
<1>2. Root \in Nat /\ (IF n.dir THEN NoSource ELSE n.clusters) \in data
  BY DEF Nodes, Root
<1> QED
  BY <1>1, <1>2 DEF Nodes

\* A node made of an entry, and a node made of it that meets it again.
LEMMA FactsOfNew ==
  ASSUME NEW names, NEW data, NEW node \in Nodes(names, data), NEW at \in Nat, NEW e,
         e.orphan = node.orphan, e.clusters = node.clusters,
         e.item = Item(node.dir, node.deleted, node.size, node.src), NoSource \in data
  PROVE  Facts(LoadedNode(NewNode(at, node.name, e.item), e)) = Facts(node)
<1>1. /\ e.item.dir = node.dir /\ e.item.deleted = node.deleted /\ e.item.size = node.size
      /\ e.item.src = node.src
  BY DEF Item
<1>2. /\ node.name \in names /\ e.item \in Items(data) /\ e.orphan \in BOOLEAN
      /\ e.clusters \in data
  BY DEF Nodes, Items, Item
<1>3. PICK new \in Nodes(names, data) : new = NewNode(at, node.name, e.item)
  BY <1>2, NewNodeIn
<1>4. /\ new.name = node.name /\ new.dir = node.dir /\ new.deleted = node.deleted
      /\ new.size = node.size /\ new.src = node.src /\ new.clusters = NoSource
  BY <1>1, <1>3 DEF NewNode
<1>5. PICK loaded \in Nodes(names, data) : loaded = LoadedNode(new, e)
  BY <1>2 DEF LoadedNode, Nodes
<1>6. /\ loaded.name = new.name /\ loaded.dir = new.dir /\ loaded.deleted = new.deleted
      /\ loaded.size = new.size /\ loaded.src = new.src /\ loaded.orphan = e.orphan
      /\ loaded.clusters = IF e.clusters = NoSource \/ e.item.dir THEN new.clusters ELSE e.clusters
  BY <1>2, <1>5 DEF LoadedNode, Nodes
<1>7. PICK f \in Nodes(names, data) : f = Facts(loaded)
  BY FactsHave
<1>8. PICK g \in Nodes(names, data) : g = Facts(node)
  BY FactsHave
<1>9. /\ f.parent = g.parent /\ f.name = g.name /\ f.dir = g.dir /\ f.deleted = g.deleted
      /\ f.orphan = g.orphan /\ f.size = g.size /\ f.src = g.src
  BY <1>4, <1>6, <1>7, <1>8, FactsHave
<1>10. f.clusters = g.clusters
  <2>1. /\ f.clusters = IF loaded.dir THEN NoSource ELSE loaded.clusters
        /\ g.clusters = IF node.dir THEN NoSource ELSE node.clusters
    BY <1>7, <1>8, FactsHave
  <2> QED
    BY <1>1, <1>4, <1>6, <2>1
<1>11. f = g
  BY <1>9, <1>10, SameFields
<1> QED
  BY <1>3, <1>5, <1>7, <1>8, <1>11

LEMMA FactsOfOld ==
  ASSUME NEW names, NEW data, NEW node \in Nodes(names, data), NEW old \in Nodes(names, data), NEW e,
         e.orphan = node.orphan, e.clusters = node.clusters,
         e.item = Item(node.dir, node.deleted, node.size, node.src), NoSource \in data,
         Facts(old) = Facts(node)
  PROVE  Facts(LoadedNode(Relist(old, e.item), e)) = Facts(node)
<1>1. old.deleted = node.deleted /\ old.dir = node.dir
  BY DEF Facts, Nodes
<1>2. Relist(old, e.item) = old
  BY <1>1 DEF Relist, Item
<1>3. old.orphan = node.orphan /\ (~node.dir => old.clusters = node.clusters)
  <2>1. Facts(old).orphan = old.orphan /\ Facts(node).orphan = node.orphan
    BY FactsHave
  <2>2. /\ Facts(old).clusters = IF old.dir THEN NoSource ELSE old.clusters
        /\ Facts(node).clusters = IF node.dir THEN NoSource ELSE node.clusters
    BY FactsHave
  <2> QED
    BY <1>1, <2>1, <2>2
<1>4. LoadedNode(old, e) = old
  <2>1. e.item.dir = node.dir
    BY DEF Item
  <2>2. (IF e.clusters = NoSource \/ e.item.dir THEN old.clusters ELSE e.clusters) = old.clusters
    BY <1>3, <2>1
  <2>3. LoadedNode(old, e) = [old EXCEPT !.orphan = old.orphan, !.clusters = old.clusters]
    BY <1>3, <2>2 DEF LoadedNode
  <2> QED
    BY <2>3 DEF Nodes
<1> QED
  BY <1>2, <1>4

\* After the first k entries: nothing has the node's path before its own entry is read, and
\* then something has its facts.
Reading(t, i, x, w, k) ==
  /\ Distinct(w)
  /\ \A v \in DOMAIN w : FullPath(w, v) = FullPath(t, i) => \E j \in 1 .. k : x[j] = i
  /\ (\E j \in 1 .. k : x[j] = i)
     => \E v \in DOMAIN w : FullPath(w, v) = FullPath(t, i) /\ Facts(w[v]) = Facts(t[i])

LEMMA ReadsOn ==
  ASSUME NEW names, NEW data, NEW t \in Trees(names, data), NoSource \in data,
         NEW i \in DOMAIN t, Alone(t, i),
         NEW x \in Seq(DOMAIN t), Order(t, 1, Root, x), NEW k \in 1 .. Len(x),
         NEW w \in Trees(names, data), Reading(t, i, x, w, k - 1)
  PROVE  Reading(t, i, x, LoadEntry(w, Entry(t, x[k])), k)
<1>above. \A a \in Lineage(t, x[k]) : \E j \in 1 .. k : x[j] = a
  <2>1. ParentsFirst(t, x, {Root})
    BY DEF Order
  <2>2. Above(t, x, k)
    BY <2>1, AboveBefore
  <2> QED
    BY <2>2 DEF Above
<1>1. PICK n \in DOMAIN t : n = x[k]
  OBVIOUS
<1>2. PICK e \in SavedEntries(names, data) : e = Entry(t, n)
  BY EntryIn
<1>3. /\ e.path = GetPath(t, n) /\ e.orphan = t[n].orphan /\ e.clusters = t[n].clusters
      /\ e.item = Item(t[n].dir, t[n].deleted, t[n].size, t[n].src)
      /\ e.item \in Items(data) /\ e.path \in Seq(names)
  BY <1>2 DEF Entry, SavedEntries
<1>4. e.path # <<>>
  <2>1. PICK g \in Seq(names) : g = FullPath(t, n) /\ g # <<>>
    BY NodeHas
  <2>2. PICK l \in Nat : l = Len(g) /\ l # 0
    BY <2>1, EmptySeq
  <2>3. MaxChain \in Nat /\ MaxChain # 0
    BY ChainAssumption
  <2>4. CASE l > MaxChain
    <3>1. GetPath(t, n) = SubSeq(g, l - MaxChain + 1, l)
      BY <2>1, <2>2, <2>4, GetPathIs
    <3>2. l - MaxChain + 1 \in 1 .. l
      BY <2>2, <2>3, <2>4
    <3>3. Len(SubSeq(g, l - MaxChain + 1, l)) = MaxChain
      BY <2>2, <2>3, <2>4, <3>2, SubSeqProperties
    <3>4. Len(e.path) = MaxChain /\ Len(<<>>) = 0
      BY <1>3, <3>1, <3>3, EmptySeq
    <3> QED
      BY <2>3, <3>4
  <2>5. CASE ~(l > MaxChain)
    BY <1>3, <2>1, <2>2, <2>5, GetPathIs
  <2> QED
    BY <2>4, <2>5
<1>5. PICK u \in Trees(names, data) : u = LoadEntry(w, e)
  BY LoadEntryIn
<1>6. Read(w, u, e)
  BY <1>4, <1>5, LoadEntryReads DEF Reading
<1>7. /\ Len(w) \in Nat /\ DOMAIN w = 1 .. Len(w) /\ Len(u) \in Nat /\ DOMAIN u = 1 .. Len(u)
      /\ Len(w) <= Len(u) /\ DOMAIN w \subseteq DOMAIN u /\ DOMAIN w \subseteq 0 .. Len(w)
  <2>1. Len(w) \in Nat /\ DOMAIN w = 1 .. Len(w) /\ Len(u) \in Nat /\ DOMAIN u = 1 .. Len(u)
    BY TreeHas
  <2> QED
    BY <1>6, <2>1 DEF Read
<1>8. PICK q \in Seq(names) : q = FullPath(t, i)
  BY NodeHas
<1>9. \A j \in 1 .. k - 1 : j \in 1 .. k
  OBVIOUS
<1>10. ASSUME NEW v \in DOMAIN u, FullPath(u, v) = q PROVE \E j \in 1 .. k : x[j] = i
  <2>1. CASE v \in DOMAIN w
    <3>1. FullPath(w, v) = q
      BY <1>6, <1>7, <1>10, <2>1 DEF Read
    <3>2. PICK j \in 1 .. k - 1 : x[j] = i
      BY <1>8, <2>1, <3>1 DEF Reading
    <3> QED
      BY <1>9, <3>2
  <2>2. CASE v \notin DOMAIN w
    <3>1. PICK m \in 1 .. Len(e.path) : FullPath(u, v) = SubSeq(e.path, 1, m)
      BY <1>6, <2>2 DEF Read
    <3>2. i \in Lineage(t, n)
      BY <1>3, <1>8, <1>10, <3>1, AlonePrefix
    <3> QED
      BY <1>1, <1>above, <3>2
  <2> QED
    BY <2>1, <2>2
<1>11. ASSUME \E j \in 1 .. k : x[j] = i
       PROVE  \E v \in DOMAIN u : FullPath(u, v) = q /\ Facts(u[v]) = Facts(t[i])
  <2>1. ASSUME \E j \in 1 .. k - 1 : x[j] = i
        PROVE  \E v \in DOMAIN u : FullPath(u, v) = q /\ Facts(u[v]) = Facts(t[i])
    <3>1. PICK v \in DOMAIN w : FullPath(w, v) = q /\ Facts(w[v]) = Facts(t[i])
      BY <1>8, <2>1 DEF Reading
    <3>2. v \in DOMAIN u /\ FullPath(u, v) = q
      BY <1>6, <1>7, <3>1 DEF Read
    <3>3. u[v] = IF e.path = q THEN LoadedNode(Relist(w[v], e.item), e) ELSE w[v]
      BY <1>6, <3>1 DEF Read
    <3>4. CASE n = i
      <4>1. PICK old \in Nodes(names, data) : old = w[v]
        BY TreeHas
      <4>2. PICK node \in Nodes(names, data) : node = t[i]
        BY TreeHas
      <4>3. Facts(LoadedNode(Relist(old, e.item), e)) = Facts(node)
        BY <1>3, <3>1, <3>4, <4>1, <4>2, FactsOfOld
      <4> QED
        BY <3>1, <3>2, <3>3, <4>1, <4>2, <4>3
    <3>5. CASE n # i
      <4>1. e.path # q
        BY <1>3, <1>8, <3>5 DEF Alone
      <4> QED
        BY <3>1, <3>2, <3>3, <4>1
    <3> QED
      BY <3>4, <3>5
  <2>2. CASE ~\E j \in 1 .. k - 1 : x[j] = i
    <3>1. n = i
      <4>1. PICK j \in 1 .. k : x[j] = i
        BY <1>11
      <4>2. j \notin 1 .. k - 1
        BY <2>2, <4>1
      <4>3. j = k
        BY <4>2
      <4> QED
        BY <1>1, <4>1, <4>3
    <3>2. GetPath(t, i) = q
      BY <1>8, GetPathIs DEF Alone
    <3>3. PICK v \in DOMAIN u :
            /\ FullPath(u, v) = e.path
            /\ v \in DOMAIN w \/ u[v] = LoadedNode(NewNode(u[v].parent, Last(e.path), e.item), e)
      BY <1>6 DEF Read
    <3>4. e.path = q
      BY <1>3, <3>1, <3>2
    <3>5. v \notin DOMAIN w
      <4>1. SUFFICES ASSUME v \in DOMAIN w PROVE FALSE
        OBVIOUS
      <4>2. FullPath(w, v) = q
        BY <1>6, <1>7, <3>3, <3>4, <4>1 DEF Read
      <4> QED
        BY <1>8, <2>2, <4>1, <4>2 DEF Reading
    <3>6. PICK node \in Nodes(names, data) : node = t[i]
      BY TreeHas
    <3>7. Last(q) = node.name
      <4>1. PICK r \in Seq(names) : r = FullPath(t, t[i].parent)
        BY NodeHas
      <4>2. q = Append(r, node.name) /\ node.name \in names
        BY <1>8, <3>6, <4>1, NodeHas
      <4>3. Len(q) = Len(r) + 1 /\ q[Len(r) + 1] = node.name
        BY <4>2, AppendProperties
      <4> QED
        BY <4>3 DEF Last
    <3>8. PICK at \in Nat : at = u[v].parent
      BY NodeHas
    <3>9. u[v] = LoadedNode(NewNode(at, node.name, e.item), e)
      BY <3>3, <3>4, <3>5, <3>7, <3>8
    <3>10. Facts(LoadedNode(NewNode(at, node.name, e.item), e)) = Facts(node)
      BY <1>3, <3>1, <3>6, FactsOfNew
    <3> QED
      BY <3>3, <3>4, <3>6, <3>9, <3>10
  <2> QED
    BY <2>1, <2>2
<1>12. Reading(t, i, x, u, k)
  BY <1>6, <1>8, <1>10, <1>11 DEF Reading, Read
<1> QED
  BY <1>1, <1>2, <1>5, <1>12

\* Loaded entry by entry, the file has every node that is Alone.
LEMMA LoadsAlone ==
  ASSUME NEW names, NEW data, NEW t \in Trees(names, data), NoSource \in data,
         NEW i \in DOMAIN t, Alone(t, i)
  PROVE  ReadBack(t, Load(Serialize(t)), i)
<1>1. PICK x \in Seq(DOMAIN t) : Serialize(t) = Entries(t, x) /\ Order(t, 1, Root, x)
  BY SavedInOrder
<1>2. PICK s \in Seq(SavedEntries(names, data)) : s = Serialize(t)
  BY SerializeIn
<1>3. PICK L \in Nat : L = Len(x)
  OBVIOUS
<1>4. Len(s) = L /\ \A k \in 1 .. L : s[k] = Entry(t, x[k])
  <2>1. s = [k \in 1 .. L |-> Entry(t, x[k])]
    BY <1>1, <1>2, <1>3 DEF Entries
  <2>2. DOMAIN s = 1 .. L
    BY <2>1
  <2> QED
    BY <1>3, <2>1, <2>2, LenProperties
<1>5. PICK read \in [0 .. L -> Trees(names, data)] :
        /\ read[0] = <<>>
        /\ \A k \in 1 .. L : read[k] = LoadEntry(read[k - 1], s[k])
        /\ Load(s) = read[L]
  <2>1. \E read \in [0 .. Len(s) -> Trees(names, data)] :
          /\ read[0] = <<>>
          /\ \A n \in 1 .. Len(s) : read[n] = LoadEntry(read[n - 1], s[n])
          /\ Load(s) = read[Len(s)]
    BY LoadBuilt
  <2> QED
    BY <1>4, <2>1
<1> DEFINE bad == {k \in 0 .. L : ~Reading(t, i, x, read[k], k)}
<1>6. bad = {}
  <2> SUFFICES ASSUME bad # {} PROVE FALSE
    OBVIOUS
  <2>1. PICK m \in bad : \A k \in bad : m <= k
    <3>1. bad \in SUBSET Nat
      OBVIOUS
    <3> HIDE DEF bad
    <3> QED
      BY <3>1, LeastNat
  <2>2. m \in 0 .. L /\ ~Reading(t, i, x, read[m], m)
    OBVIOUS
  <2>3. CASE m = 0
    <3>1. DOMAIN read[m] = {} /\ 1 .. m = {}
      BY <1>5, <2>3
    <3>2. Reading(t, i, x, read[m], m)
      BY <3>1 DEF Reading, Distinct
    <3> QED
      BY <2>2, <3>2
  <2>4. CASE m # 0
    <3>1. m - 1 \in 0 .. L /\ ~(m <= m - 1) /\ m \in 1 .. L
      BY <2>2, <2>4
    <3>2. Reading(t, i, x, read[m - 1], m - 1)
      BY <2>1, <3>1
    <3>3. PICK w \in Trees(names, data) : w = read[m - 1]
      BY <3>1
    <3>4. read[m] = LoadEntry(w, Entry(t, x[m]))
      BY <1>4, <1>5, <3>1, <3>3
    <3>5. Reading(t, i, x, LoadEntry(w, Entry(t, x[m])), m)
      BY <1>1, <1>3, <3>1, <3>2, <3>3, ReadsOn
    <3> QED
      BY <2>2, <3>4, <3>5
  <2> QED
    BY <2>3, <2>4
<1>7. PICK w \in Trees(names, data) : w = Load(Serialize(t))
  BY <1>2, LoadIn
<1>8. Reading(t, i, x, w, L)
  <2>1. L \in 0 .. L
    OBVIOUS
  <2> QED
    BY <1>2, <1>5, <1>6, <1>7, <2>1
<1>9. \E j \in 1 .. L : x[j] = i
  <2>1. i \in Seen(x)
    BY <1>1, AloneSeen
  <2> QED
    BY <1>3, <2>1 DEF Seen
<1>10. PICK v \in DOMAIN w : FullPath(w, v) = FullPath(t, i) /\ Facts(w[v]) = Facts(t[i])
  BY <1>8, <1>9 DEF Reading
<1>11. v \in FindPath(w, FullPath(t, i)) /\ v # Root
  <2>1. PICK q \in Seq(names) : q = FullPath(t, i)
    BY NodeHas
  <2>2. FindPath(w, q) = {j \in 0 .. Len(w) : FullPath(w, j) = q}
    BY <1>8, FindsPaths DEF Reading
  <2>3. v \in 0 .. Len(w) /\ v # Root
    BY NodeHas DEF Root
  <2> QED
    BY <1>10, <2>1, <2>2, <2>3
<1> QED
  BY <1>7, <1>10, <1>11 DEF ReadBack

\* A directory that has clusters is one that an entry of it slips at.
Slipping(t) == \E i \in DOMAIN t : t[i].dir /\ t[i].clusters # NoSource

LEMMA NoSlips ==
  ASSUME NEW names, NEW data, NEW t \in Trees(names, data), ~Slipping(t)
  PROVE  \A k \in DOMAIN Serialize(t) : ~Slips(Serialize(t)[k])
<1>1. PICK x \in Seq(DOMAIN t) : Serialize(t) = Entries(t, x)
  BY SavedInOrder
<1>2. ASSUME NEW k \in 1 .. Len(x) PROVE ~Slips(Entry(t, x[k]))
  <2>1. PICK i \in DOMAIN t : i = x[k]
    OBVIOUS
  <2>2. ~(t[i].dir /\ t[i].clusters # NoSource)
    BY DEF Slipping
  <2> QED
    BY <2>1, <2>2 DEF Slips, Entry, Item
<1>3. DOMAIN Entries(t, x) = 1 .. Len(x) /\ \A k \in 1 .. Len(x) : Entries(t, x)[k] = Entry(t, x[k])
  BY DEF Entries
<1> QED
  BY <1>1, <1>2, <1>3

LEMMA LoadsOfTree ==
  ASSUME NEW entries, NEW junks, \A k \in DOMAIN entries : ~Slips(entries[k])
  PROVE  Loads(entries, junks) = {Load(entries)}
<1>1. {k \in DOMAIN entries : Slips(entries[k])} = {}
  OBVIOUS
<1> QED
  BY <1>1 DEF Loads

\* What is saved of a node that is Alone is read back, whatever the tree around it, if no
\* directory of the tree has clusters: session_write_node_rec writes those as well, and
\* session_read_tree would take them for the next entries.
THEOREM RoundTrip ==
  ASSUME NEW names, NEW data, NEW t \in Trees(names, data), NoSource \in data,
         ~Slipping(t), NEW junks, NEW loaded \in Loads(Serialize(t), junks),
         NEW i \in DOMAIN t, Alone(t, i)
  PROVE  ReadBack(t, loaded, i)
<1>1. Loads(Serialize(t), junks) = {Load(Serialize(t))}
  BY NoSlips, LoadsOfTree
<1>2. loaded = Load(Serialize(t))
  BY <1>1
<1> QED
  BY <1>2, LoadsAlone

------------------------------------------------------------------------------
(* What becomes of every node, in any tree: one with namesakes, or with directories in *)
(* the place of files.                                                               *)

\* A node put at the end, under any parent: the paths of the others stay.
LEMMA NewLeaf ==
  ASSUME NEW names, NEW data, NEW t \in Trees(names, data), NEW n \in Nodes(names, data),
         n.parent <= Len(t)
  PROVE  LET u == Append(t, n)
         IN /\ u \in Trees(names, data) /\ Len(u) = Len(t) + 1 /\ Len(t) \in Nat
            /\ DOMAIN t = 1 .. Len(t) /\ DOMAIN u = 1 .. Len(t) + 1
            /\ u[Len(t) + 1] = n /\ \A i \in DOMAIN t : u[i] = t[i]
            /\ \A i \in 0 .. Len(t) : FullPath(u, i) = FullPath(t, i)
            /\ FullPath(u, Len(t) + 1) = Append(FullPath(t, n.parent), n.name)
<1>1. PICK u \in Trees(names, data) : u = Append(t, n) /\ Len(u) = Len(t) + 1
  BY GrownTree
<1>2. /\ t \in Seq(Nodes(names, data)) /\ Len(t) \in Nat /\ DOMAIN t = 1 .. Len(t)
      /\ DOMAIN u = 1 .. Len(u)
  BY TreeHas
<1>3. u[Len(t) + 1] = n /\ \A i \in DOMAIN t : u[i] = t[i]
  BY <1>1, <1>2, AppendProperties
<1>4. \A i \in 0 .. Len(t) : FullPath(u, i) = FullPath(t, i)
  <2>1. Len(t) <= Len(u)
    BY <1>1, <1>2
  <2>2. \A i \in DOMAIN t : u[i].parent = t[i].parent /\ u[i].name = t[i].name
    BY <1>3
  <2> QED
    BY <2>1, <2>2, SamePaths
<1>5. FullPath(u, Len(t) + 1) = Append(FullPath(t, n.parent), n.name)
  <2>1. Len(t) + 1 \in DOMAIN u
    BY <1>1, <1>2
  <2>2. PICK i \in DOMAIN u : i = Len(t) + 1
    BY <2>1
  <2>3. FullPath(u, i) = Append(FullPath(u, u[i].parent), u[i].name)
    BY NodeHas
  <2>4. n.parent \in 0 .. Len(t)
    <3>1. n.parent \in Nat
      BY DEF Nodes
    <3> QED
      BY <1>2, <3>1
  <2> QED
    BY <1>3, <1>4, <2>2, <2>3, <2>4
<1> QED
  BY <1>1, <1>2, <1>3, <1>4, <1>5

\* A directory nobody listed.
Unlisted(n) == n = NewNode(n.parent, n.name, Item(TRUE, FALSE, 0, NoSource))

LEMMA UnlistedIs ==
  ASSUME NEW at, NEW name, NEW n, n = NewNode(at, name, Item(TRUE, FALSE, 0, NoSource))
  PROVE  Unlisted(n)
  BY DEF NewNode, Unlisted

\* A step on the way, whatever the names: the node that is new is an unlisted directory.
OnTheWay(s, r, name) ==
  /\ Len(s.tree) <= Len(r.tree)
  /\ \A i \in DOMAIN s.tree : r.tree[i] = s.tree[i]
  /\ \A i \in 0 .. Len(s.tree) : FullPath(r.tree, i) = FullPath(s.tree, i)
  /\ FullPath(r.tree, r.at) = Append(FullPath(s.tree, s.at), name)
  /\ \A i \in DOMAIN r.tree \ DOMAIN s.tree : i = r.at /\ Unlisted(r.tree[i])

LEMMA EnsureDirWalks ==
  ASSUME NEW names, NEW data, NEW s \in Spots(names, data), NEW name \in names, NoSource \in data
  PROVE  OnTheWay(s, EnsureDir(s, name), name)
<1>1. s \in [tree : Trees(names, data), at : Nat] /\ s.tree \in Trees(names, data)
      /\ s.at \in Nat /\ s.at <= Len(s.tree)
  BY DEF Spots
<1>2. PICK t \in Trees(names, data) : t = s.tree
  BY <1>1
<1> DEFINE found == FindChild(t, s.at, name)
<1>3. Len(t) \in Nat /\ DOMAIN t = 1 .. Len(t)
  BY TreeHas
<1>4. CASE found # {}
  <2> DEFINE i == CHOOSE i \in found : TRUE
  <2>1. i \in found
    BY <1>4
  <2>2. i \in DOMAIN t /\ t[i].parent = s.at /\ t[i].name = name
    BY <2>1, FindChildIn
  <2>3. EnsureDir(s, name) = [s EXCEPT !.at = i]
    BY <1>2, <1>4 DEF EnsureDir
  <2> HIDE DEF i
  <2>4. FullPath(t, i) = Append(FullPath(t, s.at), name)
    BY <2>2, NodeHas
  <2>5. PICK r : r = EnsureDir(s, name) /\ r.at = i /\ r.tree = t
    BY <1>1, <1>2, <2>3
  <2>6. OnTheWay(s, r, name)
    BY <1>2, <1>3, <2>4, <2>5 DEF OnTheWay
  <2> QED
    BY <2>5, <2>6
<1>5. CASE found = {}
  <2>1. PICK item \in Items(data) : item = Item(TRUE, FALSE, 0, NoSource)
    BY DEF Item, Items
  <2>2. PICK n \in Nodes(names, data) : n = NewNode(s.at, name, item) /\ n.parent = s.at /\ n.name = name
    <3>1. NewNode(s.at, name, item) \in Nodes(names, data) /\ NewNode(s.at, name, item).parent = s.at
      BY <1>1, NewNodeIn
    <3>2. NewNode(s.at, name, item).name = name
      BY DEF NewNode
    <3> QED
      BY <3>1, <3>2
  <2>3. EnsureDir(s, name) = [tree |-> Append(t, n), at |-> Len(t) + 1]
    BY <1>2, <1>5, <2>1, <2>2 DEF EnsureDir
  <2>4. PICK r : r = EnsureDir(s, name) /\ r.at = Len(t) + 1 /\ r.tree = Append(t, n)
    BY <2>3
  <2>5. /\ Len(r.tree) = Len(t) + 1
        /\ DOMAIN r.tree = 1 .. Len(t) + 1
        /\ r.tree[Len(t) + 1] = n
        /\ \A i \in DOMAIN t : r.tree[i] = t[i]
        /\ \A i \in 0 .. Len(t) : FullPath(r.tree, i) = FullPath(t, i)
        /\ FullPath(r.tree, Len(t) + 1) = Append(FullPath(t, s.at), name)
    <3>1. n.parent <= Len(t)
      BY <1>1, <1>2, <2>2
    <3> QED
      BY <2>2, <2>4, <3>1, NewLeaf
  <2>6. Unlisted(n)
    BY <2>1, <2>2, UnlistedIs
  <2>7. OnTheWay(s, r, name)
    BY <1>2, <1>3, <2>4, <2>5, <2>6 DEF OnTheWay
  <2> QED
    BY <2>4, <2>7
<1> QED
  BY <1>4, <1>5

Sprouted(t, u, path) ==
  /\ Len(t) <= Len(u)
  /\ \A i \in DOMAIN t : u[i] = t[i]
  /\ \A i \in 0 .. Len(t) : FullPath(u, i) = FullPath(t, i)
  /\ \A i \in DOMAIN u \ DOMAIN t :
       Unlisted(u[i]) /\ \E k \in 1 .. Len(path) : FullPath(u, i) = SubSeq(path, 1, k)

LEMMA EnsureDirsSprout ==
  ASSUME NEW names, NEW data, NEW t \in Trees(names, data), NEW path \in Seq(names), NoSource \in data
  PROVE  LET s == EnsureDirs(t, path)
         IN Sprouted(t, s.tree, path) /\ FullPath(s.tree, s.at) = path
<1> DEFINE L == Len(path)
<1>1. PICK made \in [0 .. L -> Spots(names, data)] :
        /\ made[0] = [tree |-> t, at |-> Root]
        /\ \A n \in 1 .. L : made[n] = EnsureDir(made[n - 1], path[n])
        /\ EnsureDirs(t, path) = made[L]
  BY EnsureDirsBuilt
<1> DEFINE OK(n) == /\ Sprouted(t, made[n].tree, path)
                    /\ FullPath(made[n].tree, made[n].at) = SubSeq(path, 1, n)
           bad == {n \in 0 .. L : ~OK(n)}
<1>2. L \in Nat
  OBVIOUS
<1>3. OK(0)
  <2>1. made[0].tree = t /\ made[0].at = 0
    BY <1>1 DEF Root
  <2>2. SubSeq(path, 1, 0) = <<>> /\ FullPath(t, 0) = <<>>
    BY SubSeqEmpty, FullPathIs DEF Root
  <2>3. Len(t) \in Nat
    BY TreeHas
  <2>4. Sprouted(t, t, path)
    BY <2>3 DEF Sprouted
  <2> QED
    BY <2>1, <2>2, <2>4
<1>4. ASSUME NEW n \in 1 .. L, OK(n - 1) PROVE OK(n)
  <2>1. n \in 0 .. L /\ n # 0 /\ n - 1 \in 0 .. L
    BY <1>2
  <2>2. PICK s \in Spots(names, data) : s = made[n - 1]
    BY <1>1, <2>1
  <2>3. PICK name \in names : name = path[n] /\ SubSeq(path, 1, n) = Append(SubSeq(path, 1, n - 1), name)
    <3>1. path[n] \in names
      BY <1>2
    <3>2. SubSeq(path, 1, n) = Append(SubSeq(path, 1, n - 1), path[n])
      BY <2>1, PrefixIs
    <3> QED
      BY <3>1, <3>2
  <2>4. PICK r \in Spots(names, data) : r = made[n] /\ r = EnsureDir(s, name)
    BY <1>1, <2>1, <2>2, <2>3
  <2>5. Sprouted(t, s.tree, path) /\ FullPath(s.tree, s.at) = SubSeq(path, 1, n - 1)
    BY <1>4, <2>2
  <2>6. OnTheWay(s, r, name)
    BY <2>4, EnsureDirWalks
  <2>7. /\ Len(t) \in Nat /\ DOMAIN t = 1 .. Len(t)
        /\ Len(s.tree) \in Nat /\ DOMAIN s.tree = 1 .. Len(s.tree)
        /\ Len(r.tree) \in Nat /\ DOMAIN r.tree = 1 .. Len(r.tree)
    <3>1. s.tree \in Trees(names, data) /\ r.tree \in Trees(names, data)
      BY DEF Spots
    <3> QED
      BY <3>1, TreeHas
  <2>8. FullPath(r.tree, r.at) = SubSeq(path, 1, n)
    BY <2>3, <2>5, <2>6 DEF OnTheWay
  <2>9. Sprouted(t, r.tree, path)
    <3>1. Len(t) <= Len(r.tree)
      BY <2>5, <2>6, <2>7 DEF Sprouted, OnTheWay
    <3>2. \A i \in DOMAIN t : r.tree[i] = t[i]
      <4>1. ASSUME NEW i \in DOMAIN t PROVE r.tree[i] = t[i]
        <5>1. Len(t) <= Len(s.tree) /\ s.tree[i] = t[i]
          BY <2>5 DEF Sprouted
        <5>2. i \in DOMAIN s.tree
          BY <2>7, <5>1
        <5>3. r.tree[i] = s.tree[i]
          BY <2>6, <5>2 DEF OnTheWay
        <5> QED
          BY <5>1, <5>3
      <4> QED
        BY <4>1
    <3>3. \A i \in 0 .. Len(t) : FullPath(r.tree, i) = FullPath(t, i)
      BY <2>5, <2>6, <2>7 DEF Sprouted, OnTheWay
    <3>4. ASSUME NEW i \in DOMAIN r.tree \ DOMAIN t
          PROVE  Unlisted(r.tree[i]) /\ \E k \in 1 .. Len(path) : FullPath(r.tree, i) = SubSeq(path, 1, k)
      <4>1. CASE i \in DOMAIN s.tree
        <5>1. FullPath(r.tree, i) = FullPath(s.tree, i) /\ r.tree[i] = s.tree[i]
          BY <2>6, <2>7, <4>1 DEF OnTheWay
        <5> QED
          BY <2>5, <4>1, <5>1 DEF Sprouted
      <4>2. CASE i \notin DOMAIN s.tree
        <5>1. i = r.at /\ Unlisted(r.tree[i])
          BY <2>6, <4>2 DEF OnTheWay
        <5> QED
          BY <2>8, <5>1
      <4> QED
        BY <4>1, <4>2
    <3> QED
      BY <3>1, <3>2, <3>3, <3>4 DEF Sprouted
  <2> QED
    BY <2>4, <2>8, <2>9
<1> HIDE DEF OK
<1>5. bad = {}
  <2> SUFFICES ASSUME bad # {} PROVE FALSE
    OBVIOUS
  <2>1. PICK m \in bad : \A k \in bad : m <= k
    <3>1. bad \in SUBSET Nat
      OBVIOUS
    <3> HIDE DEF bad
    <3> QED
      BY <3>1, LeastNat
  <2>2. m \in 1 .. L /\ m - 1 \in 0 .. L /\ ~(m <= m - 1)
    <3>1. m \in 0 .. L /\ ~OK(m)
      OBVIOUS
    <3>2. m # 0
      BY <1>3, <3>1
    <3> QED
      BY <1>2, <3>1, <3>2
  <2>3. OK(m - 1)
    BY <2>1, <2>2
  <2> QED
    BY <1>4, <2>2, <2>3
<1>6. OK(L) /\ SubSeq(path, 1, L) = path
  <2>1. L \in 0 .. L
    BY <1>2
  <2> QED
    BY <1>5, <2>1, SubSeqFull
<1> QED
  BY <1>1, <1>6 DEF OK

\* What tree_add_path makes of any tree, one with namesakes as well.
PutInTree(t, u, path, item) ==
  /\ Len(t) <= Len(u)
  /\ \A i \in 0 .. Len(t) : FullPath(u, i) = FullPath(t, i)
  /\ \A i \in DOMAIN t : u[i] = t[i] \/ (FullPath(t, i) = path /\ u[i] = Relist(t[i], item))
  /\ \A i \in DOMAIN u \ DOMAIN t :
       \/ Unlisted(u[i]) /\ \E k \in 1 .. Len(path) - 1 : FullPath(u, i) = SubSeq(path, 1, k)
       \/ FullPath(u, i) = path /\ \E at \in Nat : u[i] = NewNode(at, Last(path), item)

LEMMA AddPathPuts ==
  ASSUME NEW names, NEW data, NEW t \in Trees(names, data), NEW path \in Seq(names),
         path # <<>>, NEW item \in Items(data), NoSource \in data
  PROVE  PutInTree(t, AddPath(t, path, item), path, item)
<1>1. PICK L \in Nat : L = Len(path) /\ L # 0 /\ L \in 0 .. Len(path) /\ L - 1 \in 0 .. Len(path) /\ L \in 1 .. L
  <2>1. Len(path) \in Nat \ {0}
    BY EmptySeq
  <2> QED
    BY <2>1
<1>2. PICK front \in Seq(names), last \in names :
        /\ front = Front(path) /\ last = Last(path) /\ path = Append(front, last)
        /\ front = SubSeq(path, 1, L - 1) /\ Len(front) = L - 1
  <2>1. Front(path) = SubSeq(path, 1, L - 1) /\ Last(path) = path[L]
    BY <1>1 DEF Front, Last
  <2>2. SubSeq(path, 1, L - 1) \in Seq(names) /\ Len(SubSeq(path, 1, L - 1)) = L - 1
    BY <1>1, PrefixIs
  <2>3. path[L] \in names
    BY <1>1
  <2>4. SubSeq(path, 1, L) = Append(SubSeq(path, 1, L - 1), path[L]) /\ SubSeq(path, 1, L) = path
    BY <1>1, PrefixIs
  <2> QED
    BY <2>1, <2>2, <2>3, <2>4
<1>3. PICK s \in Spots(names, data) : s = EnsureDirs(t, front)
  BY EnsureDirsIn
<1>4. PICK b \in Trees(names, data) : b = s.tree
  BY DEF Spots
<1>5. PICK at \in Nat : at = s.at /\ at <= Len(b)
  BY <1>4 DEF Spots
<1>6. Sprouted(t, b, front) /\ FullPath(b, at) = front
  BY <1>3, <1>4, <1>5, EnsureDirsSprout
<1>7. AddPath(t, path, item) = PutAt(b, at, last, item)
  <2>1. AddPath(t, path, item) = PutAt(EnsureDirs(t, Front(path)).tree, EnsureDirs(t, Front(path)).at, Last(path), item)
    BY AddPathIs
  <2>2. EnsureDirs(t, Front(path)).tree = b /\ EnsureDirs(t, Front(path)).at = at /\ Last(path) = last
    BY <1>2, <1>3, <1>4, <1>5
  <2> QED
    BY <2>1, <2>2, Zenon
<1>8. /\ Len(t) \in Nat /\ DOMAIN t = 1 .. Len(t) /\ Len(b) \in Nat /\ DOMAIN b = 1 .. Len(b)
      /\ Len(t) <= Len(b) /\ DOMAIN t \subseteq DOMAIN b /\ at \in 0 .. Len(b)
  <2>1. Len(t) \in Nat /\ DOMAIN t = 1 .. Len(t) /\ Len(b) \in Nat /\ DOMAIN b = 1 .. Len(b)
    BY TreeHas
  <2> QED
    BY <1>5, <1>6, <2>1 DEF Sprouted
<1> DEFINE old == FindChild(b, at, last)
<1>9. \A i \in old : i \in DOMAIN b /\ FullPath(b, i) = path
  <2>1. ASSUME NEW i \in old PROVE i \in DOMAIN b /\ FullPath(b, i) = path
    <3>1. i \in DOMAIN b /\ b[i].parent = at /\ b[i].name = last
      BY FindChildIn
    <3>2. FullPath(b, i) = Append(FullPath(b, b[i].parent), b[i].name)
      BY <3>1, NodeHas
    <3> QED
      BY <1>2, <1>6, <3>1, <3>2
  <2> QED
    BY <2>1
<1>10. \A k \in 1 .. Len(front) : SubSeq(front, 1, k) = SubSeq(path, 1, k) /\ k \in 1 .. Len(path) - 1
                                  /\ SubSeq(path, 1, k) # path
  <2>1. ASSUME NEW k \in 1 .. Len(front)
        PROVE  SubSeq(front, 1, k) = SubSeq(path, 1, k) /\ k \in 1 .. Len(path) - 1 /\ SubSeq(path, 1, k) # path
    <3>1. k \in 0 .. L - 1 /\ k \in 0 .. Len(path) /\ k \in 1 .. Len(path) - 1 /\ k # Len(path)
      BY <1>1, <1>2
    <3>2. SubSeq(SubSeq(path, 1, L - 1), 1, k) = SubSeq(path, 1, k)
      BY <1>1, <3>1, PrefixOfPrefix
    <3>3. Len(SubSeq(path, 1, k)) = k
      BY <3>1, PrefixIs
    <3> QED
      BY <1>2, <3>1, <3>2, <3>3
  <2> QED
    BY <2>1
<1>11. \A i \in DOMAIN b \ DOMAIN t :
         /\ FullPath(b, i) # path /\ Unlisted(b[i])
         /\ \E k \in 1 .. Len(path) - 1 : FullPath(b, i) = SubSeq(path, 1, k)
  BY <1>6, <1>10 DEF Sprouted
<1>12. \A i \in DOMAIN t : b[i] = t[i] /\ FullPath(b, i) = FullPath(t, i) /\ i \in DOMAIN b
  <2>1. \A i \in DOMAIN t : i \in 0 .. Len(t)
    BY <1>8
  <2> QED
    BY <1>6, <1>8, <2>1 DEF Sprouted
<1>13. \A i \in 0 .. Len(t) : FullPath(b, i) = FullPath(t, i) /\ i \in 0 .. Len(b)
  BY <1>6, <1>8 DEF Sprouted
<1> HIDE DEF old
<1>14. CASE old # {}
  <2> DEFINE u == [i \in DOMAIN b |-> IF i \in old THEN Relist(b[i], item) ELSE b[i]]
  <2>1. AddPath(t, path, item) = u
    BY <1>7, <1>14, PutAtIs DEF old
  <2>2. \A i \in DOMAIN b : b[i] \in Nodes(names, data)
    BY TreeHas
  <2>3. \A i \in DOMAIN b : /\ u[i] \in Nodes(names, data)
                           /\ u[i].parent = b[i].parent /\ u[i].name = b[i].name
    BY <2>2, RelistIn
  <2>4. u \in [DOMAIN b -> Nodes(names, data)]
    BY <2>3
  <2>5. \A i \in DOMAIN t : u[i] = t[i] \/ (FullPath(t, i) = path /\ u[i] = Relist(t[i], item))
    BY <1>9, <1>12
  <2>6. DOMAIN u = DOMAIN b
    OBVIOUS
  <2>7. \A i \in DOMAIN b \ DOMAIN t : u[i] = b[i]
    BY <1>9, <1>11
  <2> HIDE DEF u
  <2>8. u \in Trees(names, data) /\ Len(u) = Len(b)
    BY <2>3, <2>4, ChangedTree
  <2>9. \A i \in 0 .. Len(b) : FullPath(u, i) = FullPath(b, i)
    <3>1. PICK c \in Trees(names, data) : c = u
      BY <2>8
    <3>2. Len(b) <= Len(c)
      BY <1>8, <2>8, <3>1
    <3>3. \A i \in DOMAIN b : c[i].parent = b[i].parent /\ c[i].name = b[i].name
      BY <2>3, <3>1
    <3>4. \A i \in 0 .. Len(b) : FullPath(c, i) = FullPath(b, i)
      BY <3>2, <3>3, SamePaths
    <3> QED
      BY <3>1, <3>4
  <2>10. Len(t) <= Len(u) /\ \A i \in 0 .. Len(t) : FullPath(u, i) = FullPath(t, i)
    BY <1>8, <1>13, <2>8, <2>9
  <2>11. \A i \in DOMAIN b : i \in 0 .. Len(b)
    BY <1>8
  <2>12. \A i \in DOMAIN u \ DOMAIN t :
           Unlisted(u[i]) /\ \E k \in 1 .. Len(path) - 1 : FullPath(u, i) = SubSeq(path, 1, k)
    BY <1>11, <2>6, <2>7, <2>9, <2>11
  <2> QED
    BY <2>1, <2>5, <2>10, <2>12 DEF PutInTree
<1>15. CASE old = {}
  <2>1. AddPath(t, path, item) = Append(b, NewNode(at, last, item))
    BY <1>7, <1>15, PutAtIs DEF old
  <2>2. PICK n \in Nodes(names, data) : n = NewNode(at, last, item) /\ n.parent = at /\ n.name = last
    <3>1. NewNode(at, last, item) \in Nodes(names, data) /\ NewNode(at, last, item).parent = at
      BY NewNodeIn
    <3>2. NewNode(at, last, item).name = last
      BY DEF NewNode
    <3> QED
      BY <3>1, <3>2
  <2>3. PICK u : u = Append(b, n)
    OBVIOUS
  <2>4. /\ Len(u) = Len(b) + 1 /\ DOMAIN u = 1 .. Len(b) + 1
        /\ u[Len(b) + 1] = n /\ \A i \in DOMAIN b : u[i] = b[i]
        /\ \A i \in 0 .. Len(b) : FullPath(u, i) = FullPath(b, i)
        /\ FullPath(u, Len(b) + 1) = Append(FullPath(b, n.parent), n.name)
    <3>1. n.parent <= Len(b)
      BY <1>5, <2>2
    <3> QED
      BY <2>3, <3>1, NewLeaf
  <2>5. FullPath(u, Len(b) + 1) = path
    BY <1>2, <1>6, <2>2, <2>4
  <2>6. Len(t) <= Len(u) /\ \A i \in 0 .. Len(t) : FullPath(u, i) = FullPath(t, i)
    BY <1>8, <1>13, <2>4
  <2>7. \A i \in DOMAIN t : u[i] = t[i]
    BY <1>12, <2>4
  <2>8. ASSUME NEW i \in DOMAIN u \ DOMAIN t
        PROVE  \/ Unlisted(u[i]) /\ \E k \in 1 .. Len(path) - 1 : FullPath(u, i) = SubSeq(path, 1, k)
               \/ FullPath(u, i) = path /\ \E a \in Nat : u[i] = NewNode(a, Last(path), item)
    <3>1. CASE i \in DOMAIN b
      <4>1. u[i] = b[i] /\ FullPath(u, i) = FullPath(b, i)
        BY <1>8, <2>4, <3>1
      <4> QED
        BY <1>11, <3>1, <4>1
    <3>2. CASE i \notin DOMAIN b
      <4>1. i = Len(b) + 1
        BY <1>8, <2>4, <3>2
      <4> QED
        BY <1>2, <2>2, <2>4, <2>5, <4>1
    <3> QED
      BY <3>1, <3>2
  <2> QED
    BY <2>1, <2>2, <2>3, <2>6, <2>7, <2>8 DEF PutInTree
<1> QED
  BY <1>14, <1>15

\* tree_find_path finds no node of another path.
LEMMA FoundThere ==
  ASSUME NEW names, NEW data, NEW t \in Trees(names, data), NEW path \in Seq(names)
  PROVE  \A i \in FindPath(t, path) : i \in 0 .. Len(t) /\ FullPath(t, i) = path
<1> DEFINE There(n) == {i \in 0 .. Len(t) : FullPath(t, i) = SubSeq(path, 1, n)}
<1>1. PICK found \in [0 .. Len(path) -> SUBSET Nat] :
        /\ found[0] = {Root}
        /\ \A n \in 1 .. Len(path) :
             found[n] = UNION {FindChild(t, at, path[n]) : at \in found[n - 1]}
        /\ FindPath(t, path) = found[Len(path)]
  BY FindPathIs
<1>2. Len(path) \in Nat /\ Len(t) \in Nat /\ DOMAIN t = 1 .. Len(t)
  BY TreeHas
<1>3. 0 \in There(0)
  <2>1. SubSeq(path, 1, 0) = <<>>
    BY SubSeqEmpty
  <2>2. FullPath(t, 0) = <<>>
    BY FullPathIs DEF Root
  <2> QED
    BY <1>2, <2>1, <2>2
<1>4. ASSUME NEW n \in 1 .. Len(path), found[n - 1] \subseteq There(n - 1)
      PROVE  found[n] \subseteq There(n)
  <2>1. SubSeq(path, 1, n) = Append(SubSeq(path, 1, n - 1), path[n])
    <3>1. n \in 0 .. Len(path) /\ n # 0
      BY <1>2
    <3> QED
      BY <3>1, PrefixIs
  <2>2. ASSUME NEW at \in found[n - 1], NEW i \in FindChild(t, at, path[n])
        PROVE  i \in There(n)
    <3>1. i \in DOMAIN t /\ t[i].parent = at /\ t[i].name = path[n]
      BY FindChildIn
    <3>2. FullPath(t, i) = Append(FullPath(t, t[i].parent), t[i].name) /\ i \in 0 .. Len(t)
      BY <3>1, NodeHas
    <3>3. FullPath(t, at) = SubSeq(path, 1, n - 1)
      BY <1>4
    <3> QED
      BY <2>1, <3>1, <3>2, <3>3
  <2>3. found[n] = UNION {FindChild(t, at, path[n]) : at \in found[n - 1]}
    BY <1>1
  <2> HIDE DEF There
  <2> QED
    BY <2>2, <2>3
<1> HIDE DEF There
<1>5. \A n \in 0 .. Len(path) : found[n] \subseteq There(n)
  <2> DEFINE bad == {n \in 0 .. Len(path) : ~(found[n] \subseteq There(n))}
  <2> SUFFICES ASSUME bad # {} PROVE FALSE
    OBVIOUS
  <2>1. PICK m \in bad : \A k \in bad : m <= k
    <3>1. bad \in SUBSET Nat
      OBVIOUS
    <3> HIDE DEF bad
    <3> QED
      BY <3>1, LeastNat
  <2>2. m \in 1 .. Len(path) /\ m - 1 \in 0 .. Len(path) /\ ~(m <= m - 1)
    <3>1. m \in 0 .. Len(path) /\ ~(found[m] \subseteq There(m))
      OBVIOUS
    <3>2. m # 0
      BY <1>1, <1>3, <3>1 DEF Root
    <3> QED
      BY <1>2, <3>1, <3>2
  <2>3. found[m - 1] \subseteq There(m - 1)
    BY <2>1, <2>2
  <2>4. found[m] \subseteq There(m)
    BY <1>4, <2>2, <2>3
  <2> QED
    BY <2>4
<1>6. SubSeq(path, 1, Len(path)) = path /\ Len(path) \in 0 .. Len(path)
  BY <1>2, SubSeqFull
<1> QED
  BY <1>1, <1>5, <1>6 DEF There

\* Nodes of S may have a new name, and have nothing below them.
Retitled(t, u, S) ==
  /\ Len(u) = Len(t)
  /\ \A i \in DOMAIN t : u[i].parent = t[i].parent /\ t[i].parent \notin S
  /\ \A i \in DOMAIN t : i \notin S => u[i].name = t[i].name

LEMMA OthersKeepPaths ==
  ASSUME NEW names, NEW data, NEW t \in Trees(names, data), NEW u \in Trees(names, data), NEW S,
         Retitled(t, u, S)
  PROVE  /\ \A i \in 0 .. Len(t) : i \notin S => FullPath(u, i) = FullPath(t, i)
         /\ \A i \in DOMAIN t : FullPath(u, i) = Append(FullPath(t, t[i].parent), u[i].name)
<1>1. Len(t) \in Nat /\ DOMAIN t = 1 .. Len(t) /\ DOMAIN u = 1 .. Len(t)
  BY TreeHas DEF Retitled
<1>4. /\ \A i \in DOMAIN t : u[i].parent = t[i].parent /\ t[i].parent \notin S
      /\ \A i \in DOMAIN t : i \notin S => u[i].name = t[i].name
  BY DEF Retitled
<1> DEFINE bad == {i \in 0 .. Len(t) : i \notin S /\ FullPath(u, i) # FullPath(t, i)}
<1>2. bad = {}
  <2> SUFFICES ASSUME bad # {} PROVE FALSE
    OBVIOUS
  <2>1. PICK m \in bad : \A k \in bad : m <= k
    <3>1. bad \in SUBSET Nat
      BY <1>1
    <3> HIDE DEF bad
    <3> QED
      BY <3>1, LeastNat
  <2>2. m \in 0 .. Len(t) /\ m \notin S /\ FullPath(u, m) # FullPath(t, m)
    OBVIOUS
  <2>3. m # 0
    BY <2>2, FullPathIs DEF Root
  <2>4. m \in DOMAIN t /\ m \in DOMAIN u
    BY <1>1, <2>2, <2>3
  <2>5. PICK p : p = t[m].parent /\ p = u[m].parent /\ p \in 0 .. Len(t) /\ p < m /\ p \notin S
    BY <1>4, <2>4, NodeHas
  <2>6. FullPath(u, p) = FullPath(t, p)
    <3>1. p \notin bad
      BY <1>1, <2>1, <2>2, <2>5
    <3> QED
      BY <2>5, <3>1
  <2>7. u[m].name = t[m].name
    BY <1>4, <2>2, <2>4
  <2>8. FullPath(u, m) = Append(FullPath(u, p), u[m].name)
    BY <2>4, <2>5, NodeHas
  <2>9. FullPath(t, m) = Append(FullPath(t, p), t[m].name)
    <3>1. FullPath(t, m) = Append(FullPath(t, t[m].parent), t[m].name)
      BY <2>4, NodeHas
    <3> QED
      BY <2>5, <3>1
  <2> QED
    BY <2>2, <2>6, <2>7, <2>8, <2>9
<1>3. ASSUME NEW i \in DOMAIN t
      PROVE  FullPath(u, i) = Append(FullPath(t, t[i].parent), u[i].name)
  <2>1. t[i].parent \in 0 .. Len(t) /\ t[i].parent \notin S
    BY <1>4, NodeHas
  <2>2. FullPath(u, t[i].parent) = FullPath(t, t[i].parent)
    BY <1>2, <2>1
  <2>3. i \in DOMAIN u
    BY <1>1
  <2>4. FullPath(u, i) = Append(FullPath(u, u[i].parent), u[i].name)
    BY <2>3, NodeHas
  <2> QED
    BY <1>4, <2>2, <2>4
<1> QED
  BY <1>2, <1>3
=============================================================================
