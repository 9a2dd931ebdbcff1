---------------------------- MODULE MerkleProofs ----------------------------
(***************************************************************************)
(* Proof that ComputeRoot tells lists of chunks apart: lists of the same   *)
(* length always, and lists of different lengths if no chunk is itself the *)
(* concatenation of two hashes.                                            *)
(***************************************************************************)
EXTENDS Merkle, WellFoundedInduction, TLAPS

\* A non-empty set of numbers has a least one: the form in which the proofs
\* below use induction.
LEMMA LeastNumber ==
  ASSUME NEW T, T \subseteq Nat, T # {}
  PROVE  \E n \in T : \A m \in T : ~(m < n)
<1>1. PICK n \in T : \A m \in T : <<m, n>> \notin OpToRel(<, Nat)
  BY WFMin, NatLessThanWellFounded, Zenon
<1>2. \A m \in T : ~(m < n)
  BY <1>1, Zenon DEF OpToRel
<1> QED
  BY <1>2, Zenon

\* The lists of all passes over hs, as many as n.
IsPasses(f, hs, n) == f = [k \in 0..n |-> IF k = 0 THEN hs ELSE Level(f[k - 1])]

\* The recursive definition of the passes has a solution.
LEMMA PassesExist ==
  ASSUME NEW hs, NEW n \in Nat
  PROVE  \E f : IsPasses(f, hs, n)
<1> DEFINE T == {k \in Nat : ~\E f : IsPasses(f, hs, k)}
<1> SUFFICES ASSUME T # {} PROVE FALSE
  OBVIOUS
<1>1. PICK k \in T : \A m \in T : ~(m < k)
  BY LeastNumber
<1>2. CASE k = 0
  <2>1. IsPasses([j \in 0..0 |-> hs], hs, 0)
    BY DEF IsPasses
  <2> QED
    BY <1>1, <1>2, <2>1
<1>3. CASE k # 0
  <2>1. k - 1 \in Nat /\ k - 1 \notin T /\ k \in Nat
    BY <1>1, <1>3
  <2>2. PICK g : IsPasses(g, hs, k - 1)
    BY <2>1
  <2> DEFINE f == [j \in 0..k |-> IF j = k THEN Level(g[k - 1]) ELSE g[j]]
  <2>3. \A j \in 0..k : f[j] = IF j = 0 THEN hs ELSE Level(f[j - 1])
    BY <1>3, <2>1, <2>2 DEF IsPasses
  <2>4. f = [j \in 0..k |-> f[j]]
    OBVIOUS
  <2>5. IsPasses(f, hs, k)
    BY <2>3, <2>4 DEF IsPasses
  <2> QED
    BY <1>1, <2>5
<1> QED
  BY <1>2, <1>3

\* So the root of a list is the first hash of the last pass.
LEMMA RootOfPasses ==
  ASSUME NEW hs, Len(hs) \in Nat, hs # <<>>
  PROVE  \E f : IsPasses(f, hs, Len(hs)) /\ ComputeRoot(hs) = f[Len(hs)][1]
<1> DEFINE pass == CHOOSE f : f = [k \in 0..Len(hs) |-> IF k = 0 THEN hs ELSE Level(f[k - 1])]
<1>1. IsPasses(pass, hs, Len(hs))
  BY PassesExist DEF IsPasses
<1>2. ComputeRoot(hs) = pass[Len(hs)][1]
  BY DEF ComputeRoot
<1> QED
  BY <1>1, <1>2

-----------------------------------------------------------------------------
IsList(hs) == Len(hs) \in Nat /\ hs = [i \in 1..Len(hs) |-> hs[i]]

\* A pass halves the list.
LEMMA LevelList ==
  ASSUME NEW hs, Len(hs) \in Nat
  PROVE  IsList(Level(hs)) /\ Len(Level(hs)) = (Len(hs) + 1) \div 2
<1> DEFINE n == (Len(hs) + 1) \div 2
<1>1. n \in Nat
  OBVIOUS
<1>2. DOMAIN Level(hs) = 1..n /\ Level(hs) = [i \in 1..n |-> Level(hs)[i]]
  BY DEF Level
<1> HIDE DEF n
<1>3. Level(hs) \in Seq({Level(hs)[i] : i \in 1..n})
  BY <1>1, <1>2
<1>4. Len(Level(hs)) = n
  BY <1>1, <1>2, <1>3
<1> QED
  BY <1>1, <1>2, <1>4 DEF IsList, n

\* A pass tells lists of the same length apart.
LEMMA LevelTells ==
  ASSUME NEW hs, NEW gs, IsList(hs), IsList(gs), Len(hs) = Len(gs), Level(hs) = Level(gs)
  PROVE  hs = gs
<1> DEFINE n == Len(hs)
<1>0. n \in Nat /\ Len(gs) = n
  BY DEF IsList
<1> HIDE DEF n
<1>1. \A j \in 1..((n + 1) \div 2) :
        Level(hs)[j] = IF 2 * j > n THEN hs[2 * j - 1] ELSE <<hs[2 * j - 1], hs[2 * j]>>
  BY <1>0 DEF Level, n
<1>2. \A j \in 1..((n + 1) \div 2) :
        Level(gs)[j] = IF 2 * j > n THEN gs[2 * j - 1] ELSE <<gs[2 * j - 1], gs[2 * j]>>
  BY <1>0 DEF Level
<1>3. \A j \in 1..((n + 1) \div 2) :
        hs[2 * j - 1] = gs[2 * j - 1] /\ (2 * j <= n => hs[2 * j] = gs[2 * j])
  <2> TAKE j \in 1..((n + 1) \div 2)
  <2>1. CASE 2 * j > n
    <3>1. hs[2 * j - 1] = gs[2 * j - 1]
      BY <1>1, <1>2, <2>1, Zenon
    <3> QED
      BY <1>0, <2>1, <3>1
  <2>2. CASE ~(2 * j > n)
    <3>1. <<hs[2 * j - 1], hs[2 * j]>> = <<gs[2 * j - 1], gs[2 * j]>>
      BY <1>1, <1>2, <2>2, Zenon
    <3> QED
      BY <3>1
  <2> QED
    BY <2>1, <2>2
<1>4. ASSUME NEW i \in 1..n
      PROVE  hs[i] = gs[i]
  <2>1. (i + 1) \div 2 \in 1..((n + 1) \div 2)
    BY <1>0
  <2>2. i = 2 * ((i + 1) \div 2) - 1 \/ (i = 2 * ((i + 1) \div 2) /\ i <= n)
    BY <1>0
  <2> QED
    BY <1>3, <2>1, <2>2
<1> QED
  BY <1>0, <1>4 DEF IsList, n

\* The length of a list that is halved goes down by one at least.
LEMMA Halved ==
  ASSUME NEW p \in Nat, NEW n \in Nat, NEW k \in 1..n, NEW l \in Nat,
         p >= 1, p = 1 \/ p + (k - 1) <= l
  PROVE  (p + 1) \div 2 >= 1 /\ ((p + 1) \div 2 = 1 \/ (p + 1) \div 2 + k <= l)
OBVIOUS

\* The place of the first hash of a pair.
LEMMA FirstOfPair ==
  ASSUME NEW p \in Nat, NEW i \in 1..((p + 1) \div 2)
  PROVE  2 * i - 1 \in 1..p
OBVIOUS

\* Passes give lists, and after as many passes as there were hashes one is left.
LEMMA PassLengths ==
  ASSUME NEW hs, IsList(hs), hs # <<>>, NEW n \in Nat, NEW f, IsPasses(f, hs, n)
  PROVE  \A k \in 0..n :
           /\ IsList(f[k]) /\ Len(f[k]) \in Nat /\ Len(f[k]) >= 1
           /\ Len(f[k]) = 1 \/ Len(f[k]) + k <= Len(hs)
<1> DEFINE P(k) == /\ IsList(f[k]) /\ Len(f[k]) \in Nat /\ Len(f[k]) >= 1
                   /\ Len(f[k]) = 1 \/ Len(f[k]) + k <= Len(hs)
           T == {k \in 0..n : ~P(k)}
<1> SUFFICES ASSUME T # {} PROVE FALSE
  OBVIOUS
<1>0. T \subseteq Nat
  OBVIOUS
<1>1. PICK k \in T : \A m \in T : ~(m < k)
  BY <1>0, LeastNumber, Zenon
<1>2. CASE k = 0
  <2>1. f[0] = hs
    BY DEF IsPasses
  <2>2. Len(hs) >= 1
    BY DEF IsList
  <2>3. Len(hs) \in Nat /\ Len(hs) + 0 <= Len(hs)
    BY DEF IsList
  <2>4. P(0)
    BY <2>1, <2>2, <2>3, Zenon
  <2> QED
    BY <1>1, <1>2, <2>4, Zenon
<1>3. CASE k # 0
  <2>1. k \in 1..n /\ k - 1 \in 0..n /\ k - 1 \notin T
    BY <1>1, <1>3
  <2>2. P(k - 1)
    BY <2>1
  <2>3. f[k] = Level(f[k - 1])
    BY <2>1 DEF IsPasses
  <2>4. IsList(f[k]) /\ Len(f[k]) = (Len(f[k - 1]) + 1) \div 2
    BY <2>2, <2>3, LevelList DEF IsList
  <2>5. Len(f[k - 1]) \in Nat /\ Len(hs) \in Nat /\ Len(f[k]) \in Nat
    BY <2>2, <2>4 DEF IsList
  <2>6. P(k)
    BY <2>1, <2>2, <2>4, <2>5, Halved, Zenon
  <2> QED
    BY <1>1, <2>6
<1> QED
  BY <1>2, <1>3

\* Once one hash is left, passes change nothing, so that the root may be read
\* off any later pass.
LEMMA RootOfMorePasses ==
  ASSUME NEW hs, IsList(hs), hs # <<>>, NEW n \in Nat, Len(hs) <= n,
         NEW f, IsPasses(f, hs, n)
  PROVE  ComputeRoot(hs) = f[n][1]
<1> DEFINE l == Len(hs)
<1>l. l \in 0..n
  BY DEF IsList
<1>g. PICK g : IsPasses(g, hs, l) /\ ComputeRoot(hs) = g[l][1]
  BY <1>l, RootOfPasses
<1> HIDE DEF l
<1>1. f[l] = g[l]
  <2> DEFINE T == {k \in 0..l : f[k] # g[k]}
  <2> SUFFICES ASSUME T # {} PROVE FALSE
    BY <1>l
  <2>1. PICK k \in T : \A m \in T : ~(m < k)
    BY LeastNumber, T \subseteq Nat, Zenon
  <2>2. f[0] = hs /\ g[0] = hs
    BY <1>l, <1>g DEF IsPasses
  <2>3. k \in 1..l /\ k - 1 \in 0..l /\ k - 1 \notin T
    BY <1>l, <2>1, <2>2
  <2>4. f[k] = Level(f[k - 1]) /\ g[k] = Level(g[k - 1])
    BY <1>l, <1>g, <2>3 DEF IsPasses
  <2> QED
    BY <2>1, <2>3, <2>4
<1>2. \A k \in l..n : f[k] = f[l]
  <2> DEFINE T == {k \in l..n : f[k] # f[l]}
  <2> SUFFICES ASSUME T # {} PROVE FALSE
    OBVIOUS
  <2>1. PICK k \in T : \A m \in T : ~(m < k)
    BY <1>l, LeastNumber, T \subseteq Nat, Zenon
  <2>2. k # l /\ k \in l..n /\ k \in 1..n /\ k - 1 \in l..n /\ k - 1 \in 0..n /\ k - 1 \notin T
    BY <1>l, <2>1
  <2>3. f[k] = Level(f[l])
    BY <1>l, <2>2 DEF IsPasses
  <2>4. IsList(f[l]) /\ Len(f[l]) = 1
    BY <1>l, PassLengths DEF IsList, l
  <2>5. Level(f[l]) = f[l]
    BY <2>4 DEF Level, IsList
  <2> QED
    BY <2>1, <2>3, <2>5
<1> QED
  BY <1>l, <1>g, <1>1, <1>2

\* Equal roots are equal last passes.
LEMMA LastPasses ==
  ASSUME NEW hs, IsList(hs), hs # <<>>, NEW gs, IsList(gs), gs # <<>>,
         NEW n \in Nat, Len(hs) <= n, Len(gs) <= n,
         NEW f, IsPasses(f, hs, n), NEW g, IsPasses(g, gs, n),
         ComputeRoot(hs) = ComputeRoot(gs)
  PROVE  f[n] = g[n]
<1>0. n \in 0..n /\ Len(hs) \in Nat /\ Len(gs) \in Nat
  BY DEF IsList
<1>1. f[n][1] = g[n][1]
  BY RootOfMorePasses
<1>2. /\ IsList(f[n]) /\ Len(f[n]) \in Nat /\ Len(f[n]) >= 1
      /\ Len(f[n]) = 1 \/ Len(f[n]) + n <= Len(hs)
  BY <1>0, PassLengths, Zenon
<1>3. /\ IsList(g[n]) /\ Len(g[n]) \in Nat /\ Len(g[n]) >= 1
      /\ Len(g[n]) = 1 \/ Len(g[n]) + n <= Len(gs)
  BY <1>0, PassLengths, Zenon
<1>4. Len(f[n]) = 1 /\ Len(g[n]) = 1
  BY <1>0, <1>2, <1>3
<1> QED
  BY <1>1, <1>2, <1>3, <1>4 DEF IsList

\* Passes over two lists that end in the same and have the same lengths all the
\* way began with the same.
LEMMA PassesBack ==
  ASSUME NEW hs, NEW gs, NEW n \in Nat,
         NEW f, IsPasses(f, hs, n), NEW g, IsPasses(g, gs, n),
         \A k \in 0..n : IsList(f[k]) /\ IsList(g[k]), f[n] = g[n],
         \A k \in 1..n : f[k] = g[k] => Len(f[k - 1]) = Len(g[k - 1])
  PROVE  hs = gs
<1> DEFINE T == {k \in 0..n : f[k] = g[k]}
<1>1. T # {} /\ T \subseteq Nat
  OBVIOUS
<1>2. PICK k \in T : \A m \in T : ~(m < k)
  BY <1>1, LeastNumber, Zenon
<1>3. CASE k # 0
  <2>1. k \in 1..n /\ k - 1 \in 0..n /\ f[k] = g[k] /\ k - 1 \notin T
    BY <1>2, <1>3
  <2>2. f[k] = Level(f[k - 1]) /\ g[k] = Level(g[k - 1])
    BY <2>1 DEF IsPasses
  <2>3. f[k - 1] = g[k - 1]
    BY <2>1, <2>2, LevelTells
  <2> QED
    BY <2>1, <2>3
<1>4. CASE k = 0
  BY <1>2, <1>4 DEF IsPasses
<1> QED
  BY <1>3, <1>4

\* Two files with as many chunks, of which one differs or is in another place,
\* have different roots, whatever the chunks are: the root by which
\* HandleFileChange and the Merkle diff compare versions stands for the whole
\* list, although the odd hash of a level moves up unhashed.
THEOREM RootTellsPlaces ==
  ASSUME NEW Leaf, NEW hs \in Seq(Leaf), NEW gs \in Seq(Leaf),
         Len(hs) = Len(gs), ComputeRoot(hs) = ComputeRoot(gs)
  PROVE  hs = gs
<1>1. CASE hs = <<>>
  BY <1>1
<1>2. CASE hs # <<>>
  <2> DEFINE n == Len(hs)
  <2>0. IsList(hs) /\ IsList(gs) /\ n \in Nat /\ Len(gs) = n /\ gs # <<>> /\ n <= n
    BY <1>2 DEF IsList
  <2>f. PICK f : IsPasses(f, hs, n)
    BY <2>0, PassesExist
  <2>g. PICK g : IsPasses(g, gs, n)
    BY <2>0, PassesExist
  <2>l. \A k \in 0..n : /\ IsList(f[k]) /\ Len(f[k]) \in Nat
                        /\ IsList(g[k]) /\ Len(g[k]) \in Nat
    BY <1>2, <2>0, <2>f, <2>g, PassLengths, Zenon
  <2>1. f[n] = g[n]
    BY <1>2, <2>0, <2>f, <2>g, LastPasses
  <2>2. \A k \in 0..n : Len(f[k]) = Len(g[k])
    <3> DEFINE T == {k \in 0..n : Len(f[k]) # Len(g[k])}
    <3> SUFFICES ASSUME T # {} PROVE FALSE
      OBVIOUS
    <3>1. T \subseteq Nat
      BY <2>0
    <3>2. PICK k \in T : \A m \in T : ~(m < k)
      BY <3>1, LeastNumber, Zenon
    <3>3. f[0] = hs /\ g[0] = gs
      BY <2>0, <2>f, <2>g DEF IsPasses
    <3>4. k \in 1..n /\ k - 1 \in 0..n /\ k - 1 \notin T
      BY <2>0, <3>2, <3>3
    <3>5. f[k] = Level(f[k - 1]) /\ g[k] = Level(g[k - 1])
      BY <2>f, <2>g, <3>4 DEF IsPasses
    <3>6. Len(f[k]) = (Len(f[k - 1]) + 1) \div 2 /\ Len(g[k]) = (Len(g[k - 1]) + 1) \div 2
      BY <2>l, <3>4, <3>5, LevelList
    <3> QED
      BY <3>2, <3>4, <3>6
  <2>3. \A k \in 1..n : Len(f[k - 1]) = Len(g[k - 1])
    BY <2>0, <2>2
  <2> HIDE DEF n
  <2> QED
    BY <2>0, <2>f, <2>g, <2>l, <2>1, <2>3, PassesBack
<1> QED
  BY <1>1, <1>2

-----------------------------------------------------------------------------
\* The way from a hash t down to a chunk's, always to the left, has k steps.
IsStem(f, t, k, Leaf) ==
  /\ f[0] = t
  /\ \A j \in 0..(k - 1) : \E b : f[j] = <<f[j + 1], b>>
  /\ f[k] \in Leaf
Depth(t, k, Leaf) == \E f : IsStem(f, t, k, Leaf)

\* A chunk's hash is at depth 0.
LEMMA DepthOfLeaf ==
  ASSUME NEW Leaf, NEW t \in Leaf
  PROVE  Depth(t, 0, Leaf)
<1>1. IsStem([j \in 0..0 |-> t], t, 0, Leaf)
  BY DEF IsStem
<1> QED
  BY <1>1 DEF Depth

\* The hash of two hashes is one deeper than the first of them.
LEMMA DepthOfPair ==
  ASSUME NEW Leaf, NEW a, NEW b, NEW k \in Nat, Depth(a, k, Leaf)
  PROVE  Depth(<<a, b>>, k + 1, Leaf)
<1>1. PICK g : IsStem(g, a, k, Leaf)
  BY DEF Depth
<1> DEFINE f == [j \in 0..(k + 1) |-> IF j = 0 THEN <<a, b>> ELSE g[j - 1]]
<1>2. f[0] = <<a, b>> /\ \A j \in 1..(k + 1) : f[j] = g[j - 1]
  OBVIOUS
<1> HIDE DEF f
<1>3. ASSUME NEW j \in 0..((k + 1) - 1)
      PROVE  \E c : f[j] = <<f[j + 1], c>>
  <2>0. f[j + 1] = g[j]
    BY <1>2
  <2>1. CASE j = 0
    <3>1. f[j] = <<f[j + 1], b>>
      BY <1>1, <1>2, <2>0, <2>1 DEF IsStem
    <3> QED
      BY <3>1
  <2>2. CASE j # 0
    <3>1. j - 1 \in 0..(k - 1) /\ f[j] = g[j - 1] /\ (j - 1) + 1 = j
      BY <1>2, <2>2
    <3>2. PICK c : g[j - 1] = <<g[(j - 1) + 1], c>>
      BY <1>1, <3>1, Zenon DEF IsStem
    <3>3. f[j] = <<f[j + 1], c>>
      BY <2>0, <3>1, <3>2, Zenon
    <3> QED
      BY <3>3
  <2> QED
    BY <2>1, <2>2
<1>4. f[k + 1] \in Leaf
  <2>1. f[k + 1] = g[k]
    BY <1>2
  <2> QED
    BY <1>1, <2>1, Zenon DEF IsStem
<1>5. IsStem(f, <<a, b>>, k + 1, Leaf)
  BY <1>2, <1>3, <1>4, Zenon DEF IsStem
<1> QED
  BY <1>5, Zenon DEF Depth

\* No hash is at two depths, if no chunk's hash is the hash of two hashes.
LEMMA DepthUnique ==
  ASSUME NEW Leaf, \A s \in Leaf : \A a, b : s # <<a, b>>,
         NEW t, NEW k \in Nat, NEW m \in Nat, k < m, Depth(t, k, Leaf), Depth(t, m, Leaf)
  PROVE  FALSE
<1>f. PICK f : IsStem(f, t, k, Leaf)
  BY DEF Depth
<1>g. PICK g : IsStem(g, t, m, Leaf)
  BY DEF Depth
<1> DEFINE T == {j \in 0..k : f[j] # g[j]}
<1>1. CASE T = {}
  <2>1. f[k] = g[k] /\ k \in 0..(m - 1)
    BY <1>1
  <2>2. PICK b : g[k] = <<g[k + 1], b>>
    BY <1>g, <2>1, Zenon DEF IsStem
  <2> QED
    BY <1>f, <2>1, <2>2, Zenon DEF IsStem
<1>2. CASE T # {}
  <2>1. PICK j \in T : \A i \in T : ~(i < j)
    BY <1>2, LeastNumber, T \subseteq Nat, Zenon
  <2>2. f[0] = g[0]
    BY <1>f, <1>g, Zenon DEF IsStem
  <2>3. j - 1 \in 0..(k - 1) /\ j - 1 \in 0..(m - 1) /\ j - 1 \notin T /\ (j - 1) + 1 = j
    BY <2>1, <2>2
  <2>4. f[j - 1] = g[j - 1]
    BY <2>3
  <2>5. PICK b : f[j - 1] = <<f[(j - 1) + 1], b>>
    BY <1>f, <2>3, Zenon DEF IsStem
  <2>6. PICK c : g[j - 1] = <<g[(j - 1) + 1], c>>
    BY <1>g, <2>3, Zenon DEF IsStem
  <2>7. f[(j - 1) + 1] = g[(j - 1) + 1]
    <3>1. <<f[(j - 1) + 1], b>> = <<g[(j - 1) + 1], c>>
      BY <2>4, <2>5, <2>6, Zenon
    <3> QED
      BY <3>1
  <2> QED
    BY <2>1, <2>3, <2>7
<1> QED
  BY <1>1, <1>2

\* After k passes every hash but the last is at depth k, and the last, which may
\* have moved up as it was, is at no greater one.
LEMMA PassDepths ==
  ASSUME NEW Leaf, NEW hs \in Seq(Leaf), hs # <<>>, NEW n \in Nat,
         NEW f, IsPasses(f, hs, n)
  PROVE  \A k \in 0..n : \A i \in 1..Len(f[k]) :
           /\ i < Len(f[k]) => Depth(f[k][i], k, Leaf)
           /\ \E d \in 0..k : Depth(f[k][i], d, Leaf)
<1> DEFINE P(k) == \A i \in 1..Len(f[k]) :
                     /\ i < Len(f[k]) => Depth(f[k][i], k, Leaf)
                     /\ \E d \in 0..k : Depth(f[k][i], d, Leaf)
           T == {k \in 0..n : ~P(k)}
<1> SUFFICES ASSUME T # {} PROVE FALSE
  OBVIOUS
<1>0. T \subseteq Nat
  OBVIOUS
<1>1. PICK k \in T : \A m \in T : ~(m < k)
  BY <1>0, LeastNumber, Zenon
<1>l. IsList(hs)
  BY DEF IsList
<1>2. CASE k = 0
  <2>1. f[0] = hs
    BY DEF IsPasses
  <2>2. \A i \in 1..Len(hs) : Depth(hs[i], 0, Leaf)
    BY DepthOfLeaf
  <2>3. 0 \in 0..0
    OBVIOUS
  <2>4. P(0)
    BY <2>1, <2>2, <2>3, Zenon
  <2> QED
    BY <1>1, <1>2, <2>4, Zenon
<1>3. CASE k # 0
  <2>1. k \in 1..n /\ k - 1 \in 0..n /\ k - 1 \notin T
    BY <1>1, <1>3
  <2> DEFINE gs == f[k - 1]  p == Len(f[k - 1])
  <2>2. \A i \in 1..p :
          /\ i < p => Depth(gs[i], k - 1, Leaf)
          /\ \E d \in 0..(k - 1) : Depth(gs[i], d, Leaf)
    BY <2>1, Zenon
  <2>3. p \in Nat
    BY <1>l, <2>1, PassLengths DEF IsList
  <2>4. f[k] = Level(gs) /\ Len(f[k]) = (p + 1) \div 2
    <3>1. f[k] = Level(gs)
      BY <2>1 DEF IsPasses
    <3> QED
      BY <2>3, <3>1, LevelList, Zenon
  <2> HIDE DEF gs, p
  <2>5. ASSUME NEW i \in 1..Len(f[k])
        PROVE  /\ i < Len(f[k]) => Depth(f[k][i], k, Leaf)
               /\ \E d \in 0..k : Depth(f[k][i], d, Leaf)
    <3>i. i \in 1..((p + 1) \div 2)
      BY <2>4, Zenon
    <3>0. i \in 1..((p + 1) \div 2) /\ 2 * i - 1 \in 1..p
      BY <2>3, <3>i, FirstOfPair, Zenon
    <3>1. f[k][i] = IF 2 * i > p THEN gs[2 * i - 1] ELSE <<gs[2 * i - 1], gs[2 * i]>>
      BY <2>3, <2>4, <3>0 DEF Level, gs, p
    <3>2. CASE 2 * i > p
      <4>1. ~(i < Len(f[k]))
        BY <2>3, <2>4, <3>0, <3>2
      <4>2. PICK d \in 0..(k - 1) : Depth(gs[2 * i - 1], d, Leaf)
        BY <2>2, <3>0
      <4>3. d \in 0..k
        BY <2>1
      <4> QED
        BY <3>1, <3>2, <4>1, <4>2, <4>3, Zenon
    <3>3. CASE ~(2 * i > p)
      <4>1. 2 * i - 1 < p /\ k - 1 \in Nat /\ (k - 1) + 1 = k /\ k \in 0..k
        BY <2>1, <2>3, <3>0, <3>3
      <4>2. Depth(gs[2 * i - 1], k - 1, Leaf)
        BY <2>2, <3>0, <4>1
      <4>3. Depth(<<gs[2 * i - 1], gs[2 * i]>>, (k - 1) + 1, Leaf)
        BY <4>1, <4>2, DepthOfPair
      <4>4. Depth(f[k][i], k, Leaf)
        BY <3>1, <3>3, <4>1, <4>3, Zenon
      <4> QED
        BY <4>1, <4>4, Zenon
    <3> QED
      BY <3>2, <3>3
  <2>6. P(k)
    BY <2>5, Zenon
  <2> QED
    BY <1>1, <2>6
<1> QED
  BY <1>2, <1>3

\* One hash of the next level: the parent of a pair, or the odd hash itself.
LEMMA LevelAt ==
  ASSUME NEW hs, Len(hs) \in Nat, NEW i \in 1..((Len(hs) + 1) \div 2)
  PROVE  /\ 2 * i > Len(hs) => Level(hs)[i] = hs[2 * i - 1]
         /\ ~(2 * i > Len(hs)) => Level(hs)[i] = <<hs[2 * i - 1], hs[2 * i]>>
<1> DEFINE parent(j) == IF 2 * j > Len(hs) THEN hs[2 * j - 1]
                        ELSE <<hs[2 * j - 1], hs[2 * j]>>
<1>1. Level(hs) = [j \in 1..((Len(hs) + 1) \div 2) |-> parent(j)]
  BY Zenon DEF Level
<1>2. Level(hs)[i] = parent(i)
  <2> HIDE DEF parent
  <2> QED
    BY <1>1, Zenon
<1> QED
  BY <1>2, Zenon

\* Two lists of chunks that become the same in a pass were the same before it:
\* if one were longer by one, the last of the hashes would be at two depths.
LEMMA PassTells ==
  ASSUME NEW Leaf, \A s \in Leaf : \A a, b : s # <<a, b>>,
         NEW hs \in Seq(Leaf), hs # <<>>, NEW gs \in Seq(Leaf), gs # <<>>,
         NEW n \in Nat, NEW k \in 1..n,
         NEW f, IsPasses(f, hs, n), NEW g, IsPasses(g, gs, n), f[k] = g[k]
  PROVE  Len(f[k - 1]) <= Len(g[k - 1])
<1> DEFINE p == Len(f[k - 1])  q == Len(g[k - 1])  r == Len(f[k])
<1>0. IsList(hs) /\ IsList(gs) /\ k - 1 \in 0..n /\ k \in 0..n
  BY DEF IsList
<1>1. p \in Nat /\ q \in Nat /\ p >= 1 /\ q >= 1
  BY <1>0, PassLengths DEF IsList
<1>2. f[k] = Level(f[k - 1]) /\ g[k] = Level(g[k - 1])
  BY <1>0 DEF IsPasses
<1>3. r = (p + 1) \div 2 /\ r = (q + 1) \div 2
  BY <1>1, <1>2, LevelList
<1> SUFFICES ASSUME q < p PROVE FALSE
  BY <1>1
<1> HIDE DEF p, q, r
<1>4. p = 2 * r /\ q = 2 * r - 1 /\ r \in 1..((p + 1) \div 2) /\ r \in 1..((q + 1) \div 2)
  BY <1>1, <1>3
<1>5. f[k][r] = <<f[k - 1][2 * r - 1], f[k - 1][2 * r]>>
  <2>1. p \in Nat /\ r \in 1..((p + 1) \div 2) /\ ~(2 * r > p)
    BY <1>1, <1>4
  <2>2. Level(f[k - 1])[r] = <<f[k - 1][2 * r - 1], f[k - 1][2 * r]>>
    BY <2>1, LevelAt, Zenon DEF p
  <2> QED
    BY <1>2, <2>2, Zenon
<1>6. g[k][r] = g[k - 1][2 * r - 1]
  <2>1. q \in Nat /\ r \in 1..((q + 1) \div 2) /\ 2 * r > q
    BY <1>1, <1>4
  <2>2. Level(g[k - 1])[r] = g[k - 1][2 * r - 1]
    BY <2>1, LevelAt, Zenon DEF q
  <2> QED
    BY <1>2, <2>2, Zenon
<1>7. Depth(f[k][r], k, Leaf)
  <2>1. 2 * r - 1 \in 1..p /\ 2 * r - 1 < p /\ k - 1 \in Nat /\ (k - 1) + 1 = k
    BY <1>1, <1>4
  <2>2. Depth(f[k - 1][2 * r - 1], k - 1, Leaf)
    BY <1>0, <2>1, PassDepths DEF p
  <2>3. Depth(f[k][r], (k - 1) + 1, Leaf)
    BY <1>5, <2>1, <2>2, DepthOfPair
  <2> QED
    BY <2>1, <2>3
<1>8. PICK d \in 0..(k - 1) : Depth(g[k][r], d, Leaf)
  <2>1. 2 * r - 1 \in 1..q
    BY <1>1, <1>4
  <2> QED
    BY <1>0, <1>6, <2>1, PassDepths DEF q
<1> QED
  BY <1>7, <1>8, DepthUnique

\* The root of a list of chunks, which is not empty, is at some depth.
LEMMA RootDepth ==
  ASSUME NEW Leaf, NEW hs \in Seq(Leaf), hs # <<>>
  PROVE  \E d \in Nat : Depth(ComputeRoot(hs), d, Leaf)
<1>1. Len(hs) \in Nat /\ IsList(hs)
  BY DEF IsList
<1>2. PICK f : IsPasses(f, hs, Len(hs)) /\ ComputeRoot(hs) = f[Len(hs)][1]
  BY <1>1, RootOfPasses
<1>0. Len(hs) \in 0..Len(hs)
  BY <1>1
<1>3. Len(f[Len(hs)]) >= 1 /\ Len(f[Len(hs)]) \in Nat
  BY <1>0, <1>1, <1>2, PassLengths, Zenon
<1>4. 1 \in 1..Len(f[Len(hs)])
  BY <1>3
<1>5. \E d \in 0..Len(hs) : Depth(f[Len(hs)][1], d, Leaf)
  BY <1>0, <1>1, <1>2, <1>4, PassDepths
<1> QED
  BY <1>1, <1>2, <1>5

\* No chunk is itself two hashes, put together, and none hashes to zeros.  This
\* is a condition on the contents, and not on the hash function: ComputeRoot does
\* not mark whether what it hashes is a chunk or a pair.
PlainLeaves(Leaf) ==
  /\ Zero \notin Leaf
  /\ \A s \in Leaf \cup {Zero} : \A a, b : s # <<a, b>>

\* Among files none of whose chunks is itself two hashes, put together, the root
\* of ComputeRoot tells also lists of different lengths apart, the empty one
\* included.
THEOREM RootTellsLists ==
  ASSUME NEW Leaf, PlainLeaves(Leaf),
         NEW hs \in Seq(Leaf), NEW gs \in Seq(Leaf), ComputeRoot(hs) = ComputeRoot(gs)
  PROVE  hs = gs
<1>q. Zero \notin Leaf /\ \A s \in Leaf \cup {Zero} : \A a, b : s # <<a, b>>
  BY DEF PlainLeaves
<1>p. \A s \in Leaf : \A a, b : s # <<a, b>>
  BY <1>q
<1>z. ASSUME NEW ls \in Seq(Leaf), ls # <<>>, ComputeRoot(ls) = Zero
      PROVE  FALSE
  <2>1. PICK d \in Nat : Depth(Zero, d, Leaf)
    BY <1>z, RootDepth
  <2>2. PICK f : IsStem(f, Zero, d, Leaf)
    BY <2>1 DEF Depth
  <2>3. CASE d = 0
    BY <1>q, <2>2, <2>3 DEF IsStem
  <2>4. CASE d # 0
    <3>1. 0 \in 0..(d - 1)
      BY <2>4
    <3>2. \E b : Zero = <<f[0 + 1], b>>
      BY <2>2, <3>1, Zenon DEF IsStem
    <3> QED
      BY <1>q, <3>2, Zenon
  <2> QED
    BY <2>3, <2>4
<1>1. CASE hs = <<>> \/ gs = <<>>
  BY <1>1, <1>z DEF ComputeRoot
<1>2. CASE hs # <<>> /\ gs # <<>>
  <2>0. IsList(hs) /\ IsList(gs) /\ Len(hs) \in Nat /\ Len(gs) \in Nat
    BY DEF IsList
  <2>n. PICK n \in Nat : Len(hs) <= n /\ Len(gs) <= n
    BY <2>0
  <2>f. PICK f : IsPasses(f, hs, n)
    BY PassesExist
  <2>g. PICK g : IsPasses(g, gs, n)
    BY PassesExist
  <2>l. \A k \in 0..n : /\ IsList(f[k]) /\ Len(f[k]) \in Nat
                        /\ IsList(g[k]) /\ Len(g[k]) \in Nat
    BY <1>2, <2>0, <2>f, <2>g, PassLengths, Zenon
  <2>1. f[n] = g[n]
    BY <1>2, <2>0, <2>n, <2>f, <2>g, LastPasses
  <2>2. ASSUME NEW k \in 1..n, f[k] = g[k]
        PROVE  Len(f[k - 1]) = Len(g[k - 1])
    <3>1. Len(f[k - 1]) <= Len(g[k - 1]) /\ Len(g[k - 1]) <= Len(f[k - 1])
      BY <1>p, <1>2, <2>f, <2>g, <2>2, PassTells
    <3>2. k - 1 \in 0..n
      OBVIOUS
    <3> QED
      BY <2>l, <3>1, <3>2
  <2> QED
    BY <2>f, <2>g, <2>l, <2>1, <2>2, PassesBack
<1> QED
  BY <1>1, <1>2

=============================================================================
