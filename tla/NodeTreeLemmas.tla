---------------------------- MODULE NodeTreeLemmas ----------------------------
(***************************************************************************)
(* Lemmas about NodeTree: what a path leads to, the path go-fuse gives for *)
(* an Inode, how the calls of the satellite change the container's tree,   *)
(* the container at the start, and what each handler does: every step is   *)
(* one of the five of NodeTreeSteps, and the lemmas of the later modules   *)
(* argue about these, not about the actions.                               *)
(***************************************************************************)
EXTENDS NodeTreeSteps, TLAPS, WellFoundedInduction

\* A leaf of first-order logic and sets names no prover; the others go to SMT and, should it
\* run out of time, to Z3.
USE ZenonT(30)

-------------------------------------------------------------------------------
(* Induction over a bounded range                                           *)

\* A set of numbers has a least one.
LEMMA LeastNat ==
  ASSUME NEW T \in SUBSET Nat, T # {}
  PROVE  \E n \in T : \A m \in T : n <= m
<1> DEFINE R == OpToRel(<, Nat)
<1>1. \E n \in T : \A m \in T : ~(<<m, n>> \in R)
  <2>1. IsWellFoundedOn(R, Nat)
    BY NatLessThanWellFounded
  <2> HIDE DEF R
  <2> QED
    BY <2>1, WFMin
<1>2. ASSUME NEW n \in T, NEW m \in T, ~(<<m, n>> \in R)
      PROVE  n <= m
  BY <1>2, SMT, Z3T(30) DEF OpToRel
<1> QED
  BY <1>1, <1>2

\* A set with 0 and with the successors of its elements below L has all numbers up to L.
LEMMA UpTo ==
  ASSUME NEW L \in Nat, NEW T, 0 \in T, \A k \in 1 .. L : k - 1 \in T => k \in T
  PROVE  \A k \in 0 .. L : k \in T
<1> DEFINE Bad == {k \in 0 .. L : k \notin T}
<1> SUFFICES ASSUME Bad # {} PROVE FALSE
  OBVIOUS
<1>1. PICK n \in Bad : \A m \in Bad : n <= m
  <2>1. Bad \in SUBSET Nat
    BY SMT, Z3T(30)
  <2> HIDE DEF Bad
  <2> QED
    BY <2>1, LeastNat
<1>2. n # 0 /\ n \in 1 .. L /\ n - 1 \in 0 .. L /\ n - 1 < n
  BY SMT, Z3T(30)
<1>3. n - 1 \notin Bad
  BY <1>1, <1>2, SMT, Z3T(30)
<1>4. n - 1 \in T
  BY <1>2, <1>3
<1> QED
  BY <1>2, <1>4

-------------------------------------------------------------------------------
(* Paths                                                                    *)

\* What Getattr and the calls of the client resolve, in terms of the two variables it reads.
LEMMA ResolveIs ==
  ASSUME NEW s
  PROVE  Resolve(s) = ResolveIn(ent, kind, s) /\ Resolve(s)' = ResolveIn(ent', kind', s)
BY DEF Resolve, ResolveIn, IsDir, DirIn

\* A path has a walk, and leads to its last inode.
LEMMA WalkExists ==
  ASSUME NEW e, NEW k, NEW s, Len(s) \in Nat
  PROVE  \E w : Walk(e, k, s, Len(s), w) /\ ResolveIn(e, k, s) = w[Len(s)]
<1> DEFINE T == {n \in Nat : \E w : Walk(e, k, s, n, w)}
<1>1. 0 \in T
  <2> DEFINE v == [j \in 0 .. 0 |-> RootIno]
  <2>1. Walk(e, k, s, 0, v)
    BY SMT, Z3T(30) DEF Walk, Next1
  <2> QED
    BY <2>1
<1>2. ASSUME NEW n \in 1 .. Len(s), n - 1 \in T
      PROVE  n \in T
  <2>1. PICK w : Walk(e, k, s, n - 1, w)
    BY <1>2
  <2> DEFINE v == [j \in 0 .. n |-> IF j = n THEN Next1(e, k, w, s, n) ELSE w[j]]
  <2>2. ASSUME NEW j \in 0 .. n
        PROVE  v[j] = Next1(e, k, v, s, j)
    <3>1. CASE j = n
      <4>1. v[n - 1] = w[n - 1] /\ v[n] = Next1(e, k, w, s, n)
        BY SMT, Z3T(30)
      <4> QED
        BY <3>1, <4>1 DEF Next1
    <3>2. CASE j # n
      <4>1. j \in 0 .. (n - 1) /\ (j # 0 => j - 1 \in 0 .. (n - 1))
        BY <3>2, SMT, Z3T(30)
      <4>2. w[j] = Next1(e, k, w, s, j)
        <5>1. w = [l \in 0 .. (n - 1) |-> Next1(e, k, w, s, l)]
          BY <2>1 DEF Walk
        <5> QED
          BY <4>1, <5>1
      <4>3. v[j] = w[j] /\ (j # 0 => v[j - 1] = w[j - 1])
        BY <4>1, <3>2, SMT, Z3T(30)
      <4> HIDE DEF v
      <4> QED
        BY <4>2, <4>3 DEF Next1
    <3> QED
      BY <3>1, <3>2
  <2>3. v = [j \in 0 .. n |-> v[j]]
    OBVIOUS
  <2> HIDE DEF v
  <2>4. Walk(e, k, s, n, v)
    BY <2>2, <2>3 DEF Walk
  <2> QED
    BY <2>4, SMT, Z3T(30)
<1>3. Len(s) \in T
  <2> HIDE DEF T
  <2>1. \A j \in 0 .. Len(s) : j \in T
    BY <1>1, <1>2, UpTo
  <2> QED
    BY <2>1, SMT, Z3T(30)
<1>4. \E w : Walk(e, k, s, Len(s), w)
  BY <1>3
<1> DEFINE at == CHOOSE w : Walk(e, k, s, Len(s), w)
<1>5. Walk(e, k, s, Len(s), at)
  BY <1>4
<1>6. ResolveIn(e, k, s) = at[Len(s)]
  BY DEF ResolveIn, Walk, Next1
<1> QED
  BY <1>5, <1>6

\* A walk starts at the root and goes through one directory per name.
LEMMA WalkSteps ==
  ASSUME NEW e, NEW k, NEW s, NEW n \in Nat, NEW w, Walk(e, k, s, n, w)
  PROVE  Steps(e, k, s, n, w)
<1>1. w = [j \in 0 .. n |-> Next1(e, k, w, s, j)]
  BY DEF Walk
<1>2. ASSUME NEW j \in 0 .. n
      PROVE  w[j] = Next1(e, k, w, s, j)
  BY <1>1
<1>3. w[0] = RootIno
  BY <1>2, SMT, Z3T(30) DEF Next1
<1>4. ASSUME NEW j \in 1 .. n
      PROVE  w[j] = IF DirIn(k, w[j - 1]) /\ s[j] \in Names THEN e[w[j - 1]][s[j]] ELSE None
  BY <1>2, SMT, Z3T(30) DEF Next1
<1> QED
  BY <1>3, <1>4 DEF Steps

\* A path leads to an inode or nowhere.
LEMMA ResolveType ==
  ASSUME NEW e \in [Inodes -> [Names -> Inodes \cup {None}]], NEW k, NEW s, Len(s) \in Nat
  PROVE  ResolveIn(e, k, s) \in Inodes \cup {None}
<1>1. PICK w : Walk(e, k, s, Len(s), w) /\ ResolveIn(e, k, s) = w[Len(s)]
  BY WalkExists
<1>2. Steps(e, k, s, Len(s), w)
  BY <1>1, WalkSteps
<1> DEFINE T == {j \in 0 .. Len(s) : w[j] \in Inodes \cup {None}}
<1>3. 0 \in T
  BY <1>2, TreeAssumption, SMT, Z3T(30) DEF Steps
<1>4. ASSUME NEW j \in 1 .. Len(s), j - 1 \in T
      PROVE  j \in T
  <2>1. w[j - 1] \in Inodes \cup {None} /\ j \in 0 .. Len(s)
    BY <1>4, SMT, Z3T(30)
  <2>2. w[j] \in Inodes \cup {None}
    BY <1>2, <2>1, SMT, Z3T(30) DEF DirIn, Steps
  <2> QED
    BY <2>1, <2>2
<1>5. \A j \in 0 .. Len(s) : j \in T
  <2> HIDE DEF T
  <2> QED
    BY <1>3, <1>4, UpTo
<1> QED
  BY <1>1, <1>5, SMT, Z3T(30)

\* The path with no names leads to the root.
LEMMA ResolveRoot ==
  ASSUME NEW e, NEW k
  PROVE  ResolveIn(e, k, <<>>) = RootIno
<1>1. Len(<<>>) = 0
  OBVIOUS
<1>2. PICK w : Walk(e, k, <<>>, 0, w) /\ ResolveIn(e, k, <<>>) = w[0]
  BY <1>1, WalkExists
<1>3. Steps(e, k, <<>>, 0, w)
  BY <1>2, WalkSteps
<1> QED
  BY <1>2, <1>3 DEF Steps

\* Two walks agree as far as their paths do.
LEMMA WalksAgree ==
  ASSUME NEW e, NEW k, NEW s, NEW t, NEW n \in Nat, NEW l \in Nat, n <= l,
         \A j \in 1 .. n : s[j] = t[j],
         NEW v, Walk(e, k, s, n, v), NEW w, Walk(e, k, t, l, w)
  PROVE  v[n] = w[n]
<1>1. Steps(e, k, s, n, v) /\ Steps(e, k, t, l, w)
  BY WalkSteps
<1> DEFINE T == {j \in 0 .. n : v[j] = w[j]}
<1>2. 0 \in T
  BY <1>1, SMT, Z3T(30) DEF Steps
<1>3. ASSUME NEW j \in 1 .. n, j - 1 \in T
      PROVE  j \in T
  <2>1. v[j - 1] = w[j - 1] /\ s[j] = t[j] /\ j \in 1 .. l /\ j \in 0 .. n
    BY <1>3, SMT, Z3T(30)
  <2>2. v[j] = w[j]
    BY <1>1, <2>1 DEF Steps
  <2> QED
    BY <2>1, <2>2
<1>4. \A j \in 0 .. n : j \in T
  <2> HIDE DEF T
  <2> QED
    BY <1>2, <1>3, UpTo
<1> QED
  BY <1>4, SMT, Z3T(30)

\* One more name leads one directory further.
LEMMA ResolveAppend ==
  ASSUME NEW e, NEW k, NEW S, NEW s \in Seq(S), NEW x \in S
  PROVE  ResolveIn(e, k, Append(s, x)) =
           LET d == ResolveIn(e, k, s)
           IN  IF DirIn(k, d) /\ x \in Names THEN e[d][x] ELSE None
<1>1. PICK n \in Nat : n = Len(s)
  BY SMT, Z3T(30)
<1>2. PICK t : t = Append(s, x)
  OBVIOUS
<1>3. Len(t) = n + 1 /\ t[n + 1] = x /\ \A j \in 1 .. n : s[j] = t[j]
  BY <1>1, <1>2, SMT, Z3T(30)
<1>4. PICK v : Walk(e, k, s, n, v) /\ ResolveIn(e, k, s) = v[n]
  BY <1>1, WalkExists
<1>5. PICK w : Walk(e, k, t, n + 1, w) /\ ResolveIn(e, k, t) = w[n + 1]
  BY <1>3, WalkExists, SMT, Z3T(30)
<1>6. v[n] = w[n]
  <2>1. n + 1 \in Nat /\ n <= n + 1
    BY SMT, Z3T(30)
  <2> QED
    BY <1>3, <1>4, <1>5, <2>1, WalksAgree, SMT, Z3T(30)
<1>7. w[n + 1] = IF DirIn(k, w[n]) /\ t[n + 1] \in Names THEN e[w[n]][t[n + 1]] ELSE None
  <2>1. n + 1 \in 1 .. n + 1 /\ (n + 1) - 1 = n /\ n + 1 \in Nat
    BY SMT, Z3T(30)
  <2>2. Steps(e, k, t, n + 1, w)
    BY <1>5, <2>1, WalkSteps
  <2> QED
    BY <2>1, <2>2 DEF Steps
<1> QED
  BY <1>2, <1>3, <1>4, <1>5, <1>6, <1>7

\* A path that leads into K still does, to the same inode, when K has every directory with a
\* name for something in K, and these names and directories stay.
LEMMA PathKept ==
  ASSUME NEW e \in [Inodes -> [Names -> Inodes \cup {None}]], NEW k, NEW f, NEW l,
         NEW s, Len(s) \in Nat, NEW K \in SUBSET Inodes,
         \A d \in Inodes, x \in Names : DirIn(k, d) /\ e[d][x] \in K =>
           d \in K /\ DirIn(l, d) /\ f[d][x] = e[d][x],
         ResolveIn(e, k, s) \in K
  PROVE  ResolveIn(f, l, s) = ResolveIn(e, k, s)
<1>1. PICK n \in Nat : n = Len(s)
  OBVIOUS
<1>2. PICK w : Walk(e, k, s, n, w) /\ ResolveIn(e, k, s) = w[n]
  BY <1>1, WalkExists, SMT, Z3T(30)
<1>3. PICK v : Walk(f, l, s, n, v) /\ ResolveIn(f, l, s) = v[n]
  BY <1>1, WalkExists, SMT, Z3T(30)
<1>4. Steps(e, k, s, n, w) /\ Steps(f, l, s, n, v)
  BY <1>2, <1>3, WalkSteps
<1>5. ASSUME NEW j \in 1 .. n, w[j - 1] \in Inodes \cup {None}
      PROVE  w[j] \in Inodes \cup {None}
  BY <1>4, <1>5, SMT, Z3T(30) DEF Steps, DirIn
<1>6. \A j \in 0 .. n : w[j] \in Inodes \cup {None}
  <2> DEFINE T == {j \in 0 .. n : w[j] \in Inodes \cup {None}}
  <2>1. 0 \in T
    BY <1>4, TreeAssumption, SMT, Z3T(30) DEF Steps
  <2>2. \A j \in 1 .. n : j - 1 \in T => j \in T
    BY <1>5, SMT, Z3T(30)
  <2>3. \A j \in 0 .. n : j \in T
    <3> HIDE DEF T
    <3> QED
      BY <2>1, <2>2, UpTo
  <2> QED
    BY <2>3
<1>7. ASSUME NEW j \in 1 .. n, w[j] \in K
      PROVE  /\ w[j - 1] \in K /\ DirIn(l, w[j - 1]) /\ s[j] \in Names
             /\ w[j] = f[w[j - 1]][s[j]]
  <2>1. w[j] # None /\ j - 1 \in 0 .. n
    BY <1>7, TreeAssumption, SMT, Z3T(30)
  <2>2. DirIn(k, w[j - 1]) /\ s[j] \in Names /\ w[j] = e[w[j - 1]][s[j]]
    BY <1>4, <2>1 DEF Steps
  <2>3. w[j - 1] \in Inodes
    BY <1>6, <2>1, <2>2 DEF DirIn
  <2> QED
    BY <1>7, <2>2, <2>3
<1>8. \A j \in 0 .. n : w[j] \in K
  <2> DEFINE T == {j \in 0 .. n : w[n - j] \in K}
  <2>1. 0 \in T
    BY <1>2, SMT, Z3T(30)
  <2>2. ASSUME NEW j \in 1 .. n, j - 1 \in T
        PROVE  j \in T
    <3>1. PICK m : m = n - (j - 1)
      OBVIOUS
    <3>2. m \in 1 .. n /\ m - 1 = n - j /\ j \in 0 .. n
      BY <3>1, SMT, Z3T(30)
    <3>3. w[m] \in K
      BY <2>2, <3>1
    <3>4. w[n - j] \in K
      BY <1>7, <3>2, <3>3
    <3> QED
      BY <3>2, <3>4
  <2>3. \A j \in 0 .. n : j \in T
    <3> HIDE DEF T
    <3> QED
      BY <2>1, <2>2, UpTo
  <2>4. ASSUME NEW j \in 0 .. n
        PROVE  w[j] \in K
    <3>1. n - j \in 0 .. n /\ n - (n - j) = j
      BY SMT, Z3T(30)
    <3>2. n - j \in T
      <4> HIDE DEF T
      <4> QED
        BY <2>3, <3>1
    <3>3. w[n - (n - j)] \in K
      BY <3>2
    <3> QED
      BY <3>1, <3>3
  <2> QED
    BY <2>4
<1>9. \A j \in 0 .. n : v[j] = w[j]
  <2> DEFINE T == {j \in 0 .. n : v[j] = w[j]}
  <2>1. 0 \in T
    BY <1>4, SMT, Z3T(30) DEF Steps
  <2>2. ASSUME NEW j \in 1 .. n, j - 1 \in T
        PROVE  j \in T
    <3>1. v[j - 1] = w[j - 1] /\ j \in 0 .. n
      BY <2>2, SMT, Z3T(30)
    <3>2. w[j] \in K
      BY <1>8, <3>1
    <3>3. v[j] = IF DirIn(l, v[j - 1]) /\ s[j] \in Names THEN f[v[j - 1]][s[j]] ELSE None
      BY <1>4 DEF Steps
    <3>4. v[j] = w[j]
      BY <1>7, <3>1, <3>2, <3>3
    <3> QED
      BY <3>1, <3>4
  <2>3. \A j \in 0 .. n : j \in T
    <3> HIDE DEF T
    <3> QED
      BY <2>1, <2>2, UpTo
  <2> QED
    BY <2>3
<1> QED
  BY <1>2, <1>3, <1>9, SMT, Z3T(30)

-------------------------------------------------------------------------------
(* Inode.Path                                                               *)

\* The path go-fuse gives is a sequence of names.
LEMMA TreePathType ==
  ASSUME NewestOK, NEW n \in NodeIds
  PROVE  TreePath(n) \in Seq(Names \cup {None})
<1> DEFINE Paths == Seq(Names \cup {None})
           G(u, k) == [m \in NodeIds |->
                         IF m = RootNode \/ newest[m] = None THEN <<>>
                         ELSE IF k = 0 THEN <<None>>
                         ELSE Append(u[k - 1][newest[m][1]], newest[m][2])]
           U(l, u) == u = [k \in 0 .. l |-> G(u, k)]
           Good(l) == \E u : U(l, u) /\ \A k \in 0 .. l : u[k] \in [NodeIds -> Paths]
           T == {l \in Nat : Good(l)}
           C == Cardinality(NodeIds)
<1>1. C \in Nat
  BY TreeAssumption
<1>2. <<>> \in Paths /\ <<None>> \in Paths
  BY SMT, Z3T(30)
<1>3. ASSUME NEW u, NEW k, k = 0 \/ u[k - 1] \in [NodeIds -> Paths]
      PROVE  G(u, k) \in [NodeIds -> Paths]
  <2>1. ASSUME NEW m \in NodeIds, k # 0, newest[m] # None
        PROVE  Append(u[k - 1][newest[m][1]], newest[m][2]) \in Paths
    <3>1. newest[m][1] \in NodeIds /\ newest[m][2] \in Names
      BY <2>1, SMT, Z3T(30) DEF NewestOK
    <3>2. u[k - 1][newest[m][1]] \in Paths
      BY <1>3, <2>1, <3>1
    <3> QED
      BY <3>1, <3>2, SMT, Z3T(30)
  <2> QED
    BY <1>2, <2>1
<1>4. 0 \in T
  <2> DEFINE u == [k \in 0 .. 0 |-> [m \in NodeIds |->
                     IF m = RootNode \/ newest[m] = None THEN <<>> ELSE <<None>>]]
  <2>1. u[0] = G(u, 0)
    BY SMT, Z3T(30)
  <2>2. G(u, 0) \in [NodeIds -> Paths]
    BY <1>3
  <2>3. u = [k \in 0 .. 0 |-> u[k]] /\ \A k \in 0 .. 0 : k = 0
    BY SMT, Z3T(30)
  <2>4. U(0, u) /\ \A k \in 0 .. 0 : u[k] \in [NodeIds -> Paths]
    <3> HIDE DEF u, G, Paths
    <3> QED
      BY <2>1, <2>2, <2>3
  <2> QED
    BY <2>4
<1>5. ASSUME NEW l \in 1 .. C, l - 1 \in T
      PROVE  l \in T
  <2>1. PICK u : U(l - 1, u) /\ \A k \in 0 .. (l - 1) : u[k] \in [NodeIds -> Paths]
    BY <1>5
  <2>2. ASSUME NEW k \in 0 .. (l - 1)
        PROVE  u[k] = G(u, k)
    BY <2>1
  <2>3. G(u, l) \in [NodeIds -> Paths]
    <3>1. u[l - 1] \in [NodeIds -> Paths]
      <4> HIDE DEF G, Paths
      <4> QED
        BY <2>1, SMT, Z3T(30)
    <3> HIDE DEF G, Paths
    <3> QED
      BY <1>3, <3>1
  <2> DEFINE v == [k \in 0 .. l |-> IF k = l THEN G(u, l) ELSE u[k]]
  <2>4. ASSUME NEW k \in 0 .. l
        PROVE  v[k] = G(v, k) /\ v[k] \in [NodeIds -> Paths]
    <3>1. CASE k = l
      <4>1. v[l - 1] = u[l - 1] /\ v[l] = G(u, l)
        BY SMT, Z3T(30)
      <4>2. G(u, l) = G(v, l)
        BY <4>1
      <4> QED
        BY <2>3, <3>1, <4>1, <4>2
    <3>2. CASE k # l
      <4>1. k \in 0 .. (l - 1) /\ (k # 0 => k - 1 \in 0 .. (l - 1))
        BY <3>2, SMT, Z3T(30)
      <4>2. v[k] = u[k] /\ (k # 0 => v[k - 1] = u[k - 1])
        BY <3>2, <4>1, SMT, Z3T(30)
      <4>3. G(u, k) = G(v, k)
        BY <4>2
      <4> HIDE DEF G, U, v, Paths
      <4> QED
        BY <2>1, <2>2, <4>1, <4>2, <4>3
    <3> QED
      BY <3>1, <3>2
  <2>5. v = [k \in 0 .. l |-> v[k]]
    OBVIOUS
  <2>6. U(l, v)
    <3> HIDE DEF v, G
    <3> QED
      BY <2>4, <2>5
  <2>7. Good(l)
    <3> HIDE DEF v, G, U
    <3> QED
      BY <2>4, <2>6
  <2> HIDE DEF Good
  <2> QED
    BY <2>7, SMT, Z3T(30)
<1>6. C \in T
  <2> HIDE DEF T, C
  <2>1. \A l \in 0 .. C : l \in T
    BY <1>1, <1>4, <1>5, UpTo
  <2> QED
    BY <1>1, <2>1, SMT, Z3T(30)
<1> DEFINE up == CHOOSE u : U(C, u)
<1>7. TreePath(n) = up[C][n]
  BY DEF TreePath
<1>8. PICK u : U(C, u) /\ \A k \in 0 .. C : u[k] \in [NodeIds -> Paths]
  BY <1>6
<1>9. U(C, up)
  <2> HIDE DEF U
  <2> QED
    BY <1>8
<1>10. up[C] \in [NodeIds -> Paths]
  <2> DEFINE S == {k \in 0 .. C : up[k] = u[k]}
  <2>1. \A k \in 0 .. C : up[k] = G(up, k) /\ u[k] = G(u, k)
    <3> HIDE DEF G, up
    <3> QED
      BY <1>8, <1>9
  <2>2. 0 \in S
    <3>1. G(up, 0) = G(u, 0)
      OBVIOUS
    <3> HIDE DEF G, up
    <3> QED
      BY <1>1, <2>1, <3>1, SMT, Z3T(30)
  <2>3. ASSUME NEW k \in 1 .. C, k - 1 \in S
        PROVE  k \in S
    <3>1. up[k - 1] = u[k - 1]
      BY <2>3
    <3>2. G(up, k) = G(u, k)
      <4> HIDE DEF up
      <4> QED
        BY <3>1
    <3> HIDE DEF G, up
    <3> QED
      BY <1>1, <2>1, <3>2, SMT, Z3T(30)
  <2>4. C \in S
    <3> HIDE DEF S, C, up
    <3>1. \A k \in 0 .. C : k \in S
      BY <1>1, <2>2, <2>3, UpTo
    <3> QED
      BY <1>1, <3>1, SMT, Z3T(30)
  <2> HIDE DEF up, G, U
  <2> QED
    BY <1>1, <1>8, <2>4
<1> HIDE DEF up
<1> QED
  BY <1>7, <1>10

-------------------------------------------------------------------------------
(* Changes of the container's tree                                          *)

\* An inode whose names a step leaves alone.
LEMMA NotChanged ==
  ASSUME NEW j \in Inodes
  PROVE  j \notin Changed <=> \A d \in Inodes, x \in Names : ent'[d][x] = j <=> ent[d][x] = j
<1>1. ASSUME j \notin Changed, NEW d \in Inodes, NEW x \in Names
      PROVE  ent'[d][x] = j <=> ent[d][x] = j
  <2>1. <<d, x>> \in NamesOf(j)' <=> <<d, x>> \in NamesOf(j)
    BY <1>1 DEF Changed
  <2> QED
    BY <2>1 DEF NamesOf
<1>2. ASSUME \A d \in Inodes, x \in Names : ent'[d][x] = j <=> ent[d][x] = j
      PROVE  j \notin Changed
  <2>1. NamesOf(j)' = NamesOf(j)
    BY <1>2, SMT, Z3T(30) DEF NamesOf
  <2> QED
    BY <2>1 DEF Changed
<1> QED
  BY <1>1, <1>2

\* What a path leads to is the root or has a name.
LEMMA ResolveNamed ==
  ASSUME ContainerType, NEW s, Len(s) \in Nat, Resolve(s) # None
  PROVE  Resolve(s) \in Inodes /\ (Resolve(s) = RootIno \/ HasName(Resolve(s)))
<1>1. PICK n \in Nat : n = Len(s)
  OBVIOUS
<1>2. PICK w : Walk(ent, kind, s, n, w) /\ ResolveIn(ent, kind, s) = w[n]
  BY <1>1, WalkExists
<1>3. Steps(ent, kind, s, n, w)
  BY <1>2, WalkSteps
<1>4. Resolve(s) = w[n]
  BY <1>2, ResolveIs
<1>5. CASE n = 0
  BY <1>3, <1>4, <1>5, TreeAssumption DEF Steps
<1>6. CASE n # 0
  <2>1. n \in 1 .. n
    BY <1>6, SMT, Z3T(30)
  <2>2. DirIn(kind, w[n - 1]) /\ s[n] \in Names /\ w[n] = ent[w[n - 1]][s[n]]
    BY <1>3, <1>4, <2>1 DEF Steps
  <2>3. w[n - 1] \in Inodes
    <3> DEFINE T == {j \in 0 .. n : w[j] \in Inodes \cup {None}}
    <3>1. 0 \in T
      BY <1>3, TreeAssumption, SMT, Z3T(30) DEF Steps
    <3>2. ASSUME NEW j \in 1 .. n, j - 1 \in T
          PROVE  j \in T
      <4>1. w[j - 1] \in Inodes \cup {None} /\ j \in 0 .. n
        BY <3>2, SMT, Z3T(30)
      <4>2. w[j] \in Inodes \cup {None}
        BY <1>3, <4>1, SMT, Z3T(30) DEF DirIn, Steps, ContainerType
      <4> QED
        BY <4>1, <4>2
    <3>3. \A j \in 0 .. n : j \in T
      <4> HIDE DEF T
      <4> QED
        BY <3>1, <3>2, UpTo
    <3>4. w[n - 1] \in Inodes \cup {None}
      BY <2>1, <3>3, SMT, Z3T(30)
    <3> QED
      BY <2>2, <3>4 DEF DirIn
  <2> QED
    BY <1>4, <2>2, <2>3, SMT, Z3T(30) DEF HasName, ContainerType
<1> QED
  BY <1>5, <1>6

\* open with O_CREAT, mkdir and symlink.
LEMMA Makes ==
  ASSUME ContainerType, ContainerOK,
         NEW d \in Inodes \cup {None}, NEW x \in Names, NEW i \in Inodes, NEW k \in Kinds,
         Make(d, x, i, k)
  PROVE  Rebinds(d, x, i, i) /\ ent[d][x] = None /\ kind[i] = "free" /\ kind'[i] = k
<1>1. /\ IsDir(d) /\ d \in Inodes /\ ent[d][x] = None /\ kind[i] = "free" /\ i # RootIno
      /\ ~HasName(i) /\ ~IsDir(i) /\ d # i
  BY DEF Make, IsDir, ContainerOK
<1>2. /\ ent' = [ent EXCEPT ![d][x] = i]
      /\ kind' = [j \in Inodes |->
                    IF j = RootIno \/ \E c \in Inodes, y \in Names : ent'[c][y] = j
                      THEN [kind EXCEPT ![i] = k][j] ELSE "free"]
  BY SMT, Z3T(30) DEF Make, Become, Bind
<1>3. /\ ent' \in [Inodes -> [Names -> Inodes \cup {None}]]
      /\ \A c \in Inodes, y \in Names : ent'[c][y] = IF c = d /\ y = x THEN i ELSE ent[c][y]
  BY <1>1, <1>2 DEF ContainerType
<1>4. \A c \in Inodes, y \in Names, j \in Inodes \ {i} : ent'[c][y] = j <=> ent[c][y] = j
  BY <1>1, <1>3, TreeAssumption, SMT, Z3T(30)
<1>5. ASSUME NEW j \in Inodes
      PROVE  j \in Changed <=> j = i
  <2>1. CASE j = i
    BY <1>1, <1>3, <2>1, NotChanged, SMT, Z3T(30) DEF HasName
  <2>2. CASE j # i
    BY <1>4, <2>2, NotChanged, SMT, Z3T(30)
  <2> QED
    BY <2>1, <2>2
<1>6. \A j \in Inodes \ {i} : HasName(j)' <=> HasName(j)
  BY <1>4, SMT, Z3T(30) DEF HasName
<1>7. HasName(i)'
  BY <1>1, <1>3 DEF HasName
<1>8. /\ \A j \in Inodes \ {i} : kind'[j] = kind[j]
      /\ kind'[i] = k
  <2>1. ASSUME NEW j \in Inodes
        PROVE  kind'[j] = IF j = RootIno \/ HasName(j)' THEN [kind EXCEPT ![i] = k][j] ELSE "free"
    BY <1>2 DEF HasName
  <2>2. \A j \in Inodes \ {i} : [kind EXCEPT ![i] = k][j] = kind[j]
    BY DEF ContainerType
  <2>3. [kind EXCEPT ![i] = k][i] = k
    BY DEF ContainerType
  <2> QED
    BY <1>6, <1>7, <2>1, <2>2, <2>3 DEF ContainerOK
<1>9. ContainerType'
  <2>1. kind' \in [Inodes -> Kinds \cup {"free"}]
    BY <1>2, <1>8 DEF ContainerType
  <2> QED
    BY <1>3, <2>1 DEF ContainerType
<1>10. \A j \in Inodes \ {i} : IsDir(j)' <=> IsDir(j)
  BY <1>8 DEF IsDir
<1>11. ContainerOK'
  <2>1. IsDir(RootIno)' /\ ~HasName(RootIno)'
    BY <1>1, <1>6, <1>10, TreeAssumption DEF ContainerOK
  <2>2. ASSUME NEW j \in Inodes
        PROVE  kind'[j] = "free" <=> j # RootIno /\ ~HasName(j)'
    <3>1. k # "free"
      BY DEF Kinds, Type
    <3> QED
      BY <1>1, <1>6, <1>7, <1>8, <3>1 DEF ContainerOK
  <2>3. ASSUME NEW j \in Inodes, ~IsDir(j)', NEW y \in Names
        PROVE  ent'[j][y] = None
    BY <1>1, <1>3, <1>10, <2>3, SMT, Z3T(30) DEF ContainerOK
  <2>4. ASSUME NEW j \in Inodes, IsDir(j)'
        PROVE  OneName(j)'
    <3>1. CASE j = i
      BY <1>1, <1>3, <3>1, SMT, Z3T(30) DEF HasName, OneName
    <3>2. CASE j # i
      <4>1. OneName(j)
        BY <1>10, <2>4, <3>2 DEF ContainerOK
      <4> QED
        BY <1>4, <3>2, <4>1, SMT, Z3T(30) DEF OneName
    <3> QED
      BY <3>1, <3>2
  <2> QED
    BY <2>1, <2>2, <2>3, <2>4 DEF ContainerOK
<1>12. Changed = {i}
  BY <1>5 DEF Changed
<1> QED
  BY <1>1, <1>3, <1>8, <1>9, <1>11, <1>12 DEF ContainerStep, Rebinds, Entries

\* link: a file that exists gets another name.
LEMMA Links ==
  ASSUME ContainerType, ContainerOK, \A m \in NodeIds : path[m] \in Seq(Names),
         NEW n \in NodeIds, NEW t \in NodeIds, NEW x \in Names, link(n, x, Getattr(t))
  PROVE  /\ Getattr(t) \in Inodes /\ ~IsDir(Getattr(t))
         /\ Rebinds(Getattr(n), x, Getattr(t), Getattr(t)) /\ ent[Getattr(n)][x] = None
         /\ kind'[Getattr(t)] # "dir"
<1>1. PICK i : i = Getattr(t)
  OBVIOUS
<1>2. PICK d : d = Getattr(n)
  OBVIOUS
<1>3. i \in Inodes /\ (i = RootIno \/ HasName(i)) /\ ~IsDir(i) /\ d \in Inodes
  <2>1. i # None /\ ~IsDir(i) /\ IsDir(d)
    BY <1>1, <1>2 DEF link
  <2>2. Len(path[t]) \in Nat /\ Len(path[n]) \in Nat
    BY SMT, Z3T(30)
  <2> QED
    BY <1>1, <1>2, <2>1, <2>2, ResolveNamed DEF Getattr, IsDir
<1>4. /\ IsDir(d) /\ ent[d][x] = None /\ i # RootIno /\ HasName(i) /\ d # i
      /\ kind[i] # "free"
  BY <1>1, <1>2, <1>3 DEF link, stat, At, ContainerOK
<1>5. /\ ent' = [ent EXCEPT ![d][x] = i]
      /\ kind' = [j \in Inodes |->
                    IF j = RootIno \/ \E c \in Inodes, y \in Names : ent'[c][y] = j
                      THEN kind[j] ELSE "free"]
  BY <1>1, <1>2 DEF link, Become, Bind
<1>6. /\ ent' \in [Inodes -> [Names -> Inodes \cup {None}]]
      /\ \A c \in Inodes, y \in Names : ent'[c][y] = IF c = d /\ y = x THEN i ELSE ent[c][y]
  BY <1>3, <1>5 DEF ContainerType
<1>7. \A c \in Inodes, y \in Names, j \in Inodes \ {i} : ent'[c][y] = j <=> ent[c][y] = j
  BY <1>4, <1>6, TreeAssumption, SMT, Z3T(30)
<1>8. ASSUME NEW j \in Inodes
      PROVE  j \in Changed <=> j = i
  <2>1. CASE j = i
    <3>1. ent'[d][x] = i /\ ent[d][x] # i
      BY <1>3, <1>4, <1>6, TreeAssumption
    <3> QED
      BY <1>3, <2>1, <3>1, NotChanged, SMT, Z3T(30)
  <2>2. CASE j # i
    BY <1>7, <2>2, NotChanged, SMT, Z3T(30)
  <2> QED
    BY <2>1, <2>2
<1>9. \A j \in Inodes : HasName(j)' <=> HasName(j)
  <2>1. HasName(i)'
    BY <1>3, <1>6 DEF HasName
  <2> QED
    BY <1>4, <1>7, <2>1, SMT, Z3T(30) DEF HasName
<1>10. ASSUME NEW j \in Inodes
       PROVE  kind'[j] = kind[j]
  <2>1. kind'[j] = IF j = RootIno \/ HasName(j)' THEN kind[j] ELSE "free"
    BY <1>5 DEF HasName
  <2> QED
    BY <1>9, <2>1 DEF ContainerOK
<1>11. ContainerType'
  <2>1. kind' \in [Inodes -> Kinds \cup {"free"}]
    BY <1>5, <1>10 DEF ContainerType
  <2> QED
    BY <1>6, <2>1 DEF ContainerType
<1>12. \A j \in Inodes : IsDir(j)' <=> IsDir(j)
  BY <1>10 DEF IsDir
<1>13. ContainerOK'
  <2>1. IsDir(RootIno)' /\ ~HasName(RootIno)'
    BY <1>9, <1>12, TreeAssumption DEF ContainerOK
  <2>2. ASSUME NEW j \in Inodes
        PROVE  kind'[j] = "free" <=> j # RootIno /\ ~HasName(j)'
    BY <1>9, <1>10 DEF ContainerOK
  <2>3. ASSUME NEW j \in Inodes, ~IsDir(j)', NEW y \in Names
        PROVE  ent'[j][y] = None
    BY <1>4, <1>6, <1>12, <2>3, SMT, Z3T(30) DEF ContainerOK
  <2>4. ASSUME NEW j \in Inodes, IsDir(j)'
        PROVE  OneName(j)'
    <3>1. OneName(j) /\ j # i
      BY <1>3, <1>12, <2>4 DEF ContainerOK
    <3> QED
      BY <1>7, <3>1, SMT, Z3T(30) DEF OneName
  <2> QED
    BY <2>1, <2>2, <2>3, <2>4 DEF ContainerOK
<1>14. Changed = {i}
  BY <1>3, <1>8 DEF Changed
<1>15. Entries(i) = {}
  BY <1>3 DEF Entries
<1>16. ContainerStep
  BY <1>10, <1>11, <1>13 DEF ContainerStep
<1>17. kind'[i] # "dir"
  BY <1>3, <1>10, TreeAssumption DEF IsDir
<1> QED
  BY <1>1, <1>2, <1>3, <1>4, <1>6, <1>14, <1>15, <1>16, <1>17 DEF Rebinds

\* An inode without entries.
LEMMA NoEntries ==
  ASSUME ContainerOK, NEW i \in Inodes, Entries(i) = {}, NEW x \in Names
  PROVE  ent[i][x] = None
<1> SUFFICES ASSUME ent[i][x] # None PROVE FALSE
  OBVIOUS
<1>1. IsDir(i)
  BY DEF ContainerOK
<1>2. x \in {y \in Names : ent[i][y] # None}
  OBVIOUS
<1>3. <<x, ent[i][x]>> \in Entries(i)
  BY <1>1, <1>2 DEF Entries
<1> QED
  BY <1>3

\* os.Remove.
LEMMA Removes ==
  ASSUME ContainerType, ContainerOK,
         NEW d \in Inodes \cup {None}, NEW x \in Names, Remove(d, x)
  PROVE  /\ ent[d][x] \in Inodes \ {RootIno}
         /\ Rebinds(d, x, None, ent[d][x]) /\ kind'[ent[d][x]] # "dir"
<1>1. PICK t : t = ent[d][x]
  OBVIOUS
<1>2. /\ IsDir(d) /\ d \in Inodes /\ t \in Inodes /\ HasName(t) /\ t # RootIno
      /\ Entries(t) = {}
  BY <1>1, SMT, Z3T(30) DEF Remove, IsDir, ContainerOK, ContainerType, HasName
<1>3. \A y \in Names : ent[t][y] = None
  BY <1>2, NoEntries
<1>4. /\ ent' = [ent EXCEPT ![d][x] = None]
      /\ kind' = [j \in Inodes |->
                    IF j = RootIno \/ \E c \in Inodes, y \in Names : ent'[c][y] = j
                      THEN kind[j] ELSE "free"]
  BY DEF Remove, Become, Bind
<1>5. /\ ent' \in [Inodes -> [Names -> Inodes \cup {None}]]
      /\ \A c \in Inodes, y \in Names : ent'[c][y] = IF c = d /\ y = x THEN None ELSE ent[c][y]
  BY <1>2, <1>4 DEF ContainerType
<1>6. d # t
  BY <1>1, <1>2, <1>3, TreeAssumption
<1>7. \A c \in Inodes, y \in Names, j \in Inodes \ {t} : ent'[c][y] = j <=> ent[c][y] = j
  BY <1>1, <1>5, TreeAssumption, SMT, Z3T(30)
<1>8. ASSUME NEW j \in Inodes
      PROVE  j \in Changed <=> j = t
  <2>1. CASE j = t
    <3>1. ent'[d][x] # t /\ ent[d][x] = t
      BY <1>1, <1>2, <1>5, TreeAssumption, SMT, Z3T(30)
    <3> QED
      BY <1>2, <2>1, <3>1, NotChanged, SMT, Z3T(30)
  <2>2. CASE j # t
    BY <1>7, <2>2, NotChanged, SMT, Z3T(30)
  <2> QED
    BY <2>1, <2>2
<1>9. \A j \in Inodes \ {t} : HasName(j)' <=> HasName(j)
  BY <1>7, SMT, Z3T(30) DEF HasName
<1>10. ASSUME NEW j \in Inodes
       PROVE  kind'[j] = IF j = RootIno \/ HasName(j)' THEN kind[j] ELSE "free"
  BY <1>4 DEF HasName
<1>11. \A j \in Inodes \ {t} : kind'[j] = kind[j]
  BY <1>9, <1>10 DEF ContainerOK
<1>12. ContainerType'
  <2>1. kind' \in [Inodes -> Kinds \cup {"free"}]
    BY <1>4, <1>10 DEF ContainerType
  <2> QED
    BY <1>5, <2>1 DEF ContainerType
<1>13. ContainerOK'
  <2>1. IsDir(RootIno)' /\ ~HasName(RootIno)'
    BY <1>2, <1>9, <1>11, TreeAssumption DEF ContainerOK, IsDir
  <2>2. ASSUME NEW j \in Inodes
        PROVE  kind'[j] = "free" <=> j # RootIno /\ ~HasName(j)'
    <3>1. kind[t] # "free"
      BY <1>2 DEF ContainerOK
    <3> QED
      BY <1>9, <1>10, <1>11, <3>1 DEF ContainerOK
  <2>3. ASSUME NEW j \in Inodes, ~IsDir(j)', NEW y \in Names
        PROVE  ent'[j][y] = None
    <3>1. CASE j = t
      BY <1>3, <1>5, <3>1
    <3>2. CASE j # t
      <4>1. ~IsDir(j)
        BY <1>11, <2>3, <3>2 DEF IsDir
      <4> QED
        BY <1>5, <4>1, SMT, Z3T(30) DEF ContainerOK
    <3> QED
      BY <3>1, <3>2
  <2>4. ASSUME NEW j \in Inodes, IsDir(j)'
        PROVE  OneName(j)'
    <3>1. IsDir(j)
      <4>1. kind'[j] = "dir" /\ j # None
        BY <2>4 DEF IsDir
      <4> QED
        BY <1>10, <4>1 DEF IsDir
    <3>2. OneName(j)
      BY <3>1 DEF ContainerOK
    <3>3. \A c \in Inodes, y \in Names : ent'[c][y] = j => ent[c][y] = j
      BY <1>5, TreeAssumption, SMT, Z3T(30)
    <3> QED
      BY <3>2, <3>3, SMT, Z3T(30) DEF OneName
  <2> QED
    BY <2>1, <2>2, <2>3, <2>4 DEF ContainerOK
<1>14. Changed = {t}
  BY <1>2, <1>8 DEF Changed
<1>15. ContainerStep
  BY <1>11, <1>12, <1>13, <1>14 DEF ContainerStep
<1>16. ASSUME kind'[t] = "dir"
       PROVE  FALSE
  <2>1. HasName(t)' /\ IsDir(t)
    BY <1>2, <1>10, <1>16, TreeAssumption DEF IsDir
  <2>2. PICK c \in Inodes, y \in Names : ent'[c][y] = t
    BY <2>1 DEF HasName
  <2>3. ent[c][y] = t /\ ~(c = d /\ y = x)
    BY <1>2, <1>5, <2>2, TreeAssumption
  <2>4. OneName(t)
    BY <1>2, <2>1 DEF ContainerOK
  <2> QED
    BY <1>1, <1>2, <2>3, <2>4, SMT, Z3T(30) DEF OneName
<1> QED
  BY <1>1, <1>2, <1>5, <1>6, <1>14, <1>15, <1>16 DEF Rebinds

\* os.Rename.
LEMMA Moves ==
  ASSUME ContainerType, ContainerOK,
         NEW d \in Inodes \cup {None}, NEW x \in Names, NEW c \in Inodes \cup {None},
         NEW y \in Names,
         Movable(d, x, c, y), Move(d, x, c, y)
  PROVE  ContainerStep /\ c \in Inodes /\ ent[d][x] \in Inodes /\ ent'[c][y] = ent[d][x]
<1>1. PICK i : i = ent[d][x]
  OBVIOUS
<1>2. PICK o : o = ent[c][y]
  OBVIOUS
<1>3. /\ d \in Inodes /\ c \in Inodes /\ IsDir(d) /\ IsDir(c) /\ i \in Inodes /\ o \in Inodes \cup {None}
      /\ i # RootIno
  BY <1>1, <1>2, SMT, Z3T(30) DEF Movable, IsDir, ContainerOK, ContainerType, HasName
<1>4. CASE i = o
  <2>1. ent' = ent /\ kind' = kind
    BY <1>1, <1>2, <1>4 DEF Move, container
  <2>2. ContainerType' /\ ContainerOK'
    BY <2>1, SMT, Z3T(30) DEF ContainerType, ContainerOK, IsDir, HasName, OneName
  <2>3. ContainerStep
    BY <2>1, <2>2 DEF ContainerStep
  <2>4. ent'[c][y] = ent[d][x]
    BY <1>1, <1>2, <1>4, <2>1
  <2> QED
    BY <1>1, <1>3, <2>3, <2>4
<1>5. CASE i # o
  <2>1. o # None => Entries(o) = {}
    BY <1>1, <1>2, <1>5 DEF Movable, Entries
  <2>2. o # None => o # c /\ \A z \in Names : ent[o][z] = None
    BY <1>2, <1>3, <2>1, NoEntries, TreeAssumption
  <2>3. /\ ent' = [[ent EXCEPT ![d][x] = None] EXCEPT ![c][y] = i]
        /\ kind' = [j \in Inodes |->
                      IF j = RootIno \/ \E a \in Inodes, z \in Names : ent'[a][z] = j
                        THEN kind[j] ELSE "free"]
    <3>1. PICK e : e = [Bind(d, x, None) EXCEPT ![c][y] = ent[d][x]]
      OBVIOUS
    <3>2. Become(e, kind)
      BY <1>1, <1>2, <1>5, <3>1 DEF Move
    <3>3. ent' = e
      BY <3>2 DEF Become
    <3>4. e = [[ent EXCEPT ![d][x] = None] EXCEPT ![c][y] = i]
      BY <1>1, <3>1 DEF Bind
    <3>5. kind' = [j \in Inodes |->
                     IF j = RootIno \/ \E a \in Inodes, z \in Names : e[a][z] = j
                       THEN kind[j] ELSE "free"]
      BY <3>2 DEF Become
    <3>6. kind' = [j \in Inodes |->
                     IF j = RootIno \/ \E a \in Inodes, z \in Names : ent'[a][z] = j
                       THEN kind[j] ELSE "free"]
      BY <3>3, <3>5
    <3> QED
      BY <3>3, <3>4, <3>6
  <2>4. /\ ent' \in [Inodes -> [Names -> Inodes \cup {None}]]
        /\ \A a \in Inodes, z \in Names :
             ent'[a][z] = IF a = c /\ z = y THEN i ELSE IF a = d /\ z = x THEN None ELSE ent[a][z]
    BY <1>3, <2>3 DEF ContainerType
  <2>5. \A a \in Inodes, z \in Names, j \in Inodes \ {i, o} : ent'[a][z] = j <=> ent[a][z] = j
    BY <1>1, <1>2, <2>4, TreeAssumption, SMT, Z3T(30)
  <2>6. \A j \in Inodes \ {o} : HasName(j)' <=> HasName(j)
    <3>1. HasName(i)' /\ HasName(i)
      BY <1>1, <1>3, <2>4 DEF HasName
    <3> QED
      BY <2>5, <3>1, SMT, Z3T(30) DEF HasName
  <2>7. ASSUME NEW j \in Inodes
        PROVE  kind'[j] = IF j = RootIno \/ HasName(j)' THEN kind[j] ELSE "free"
    BY <2>3 DEF HasName
  <2>8. \A j \in Inodes \ {o} : kind'[j] = kind[j]
    BY <2>6, <2>7 DEF ContainerOK
  <2>9. ContainerType'
    <3>1. kind' \in [Inodes -> Kinds \cup {"free"}]
      BY <2>3, <2>7 DEF ContainerType
    <3> QED
      BY <2>4, <3>1 DEF ContainerType
  <2>10. o # RootIno
    BY <1>2, <1>3, SMT, Z3T(30) DEF HasName, ContainerOK
  <2>11. ContainerOK'
    <3>1. IsDir(RootIno)' /\ ~HasName(RootIno)'
      BY <2>6, <2>8, <2>10, TreeAssumption DEF ContainerOK, IsDir
    <3>2. ASSUME NEW j \in Inodes
          PROVE  kind'[j] = "free" <=> j # RootIno /\ ~HasName(j)'
      <4>1. j = o => kind[j] # "free"
        BY <1>2, <1>3, SMT, Z3T(30) DEF HasName, ContainerOK
      <4> QED
        BY <2>6, <2>7, <2>8, <4>1 DEF ContainerOK
    <3>3. ASSUME NEW j \in Inodes, ~IsDir(j)', NEW z \in Names
          PROVE  ent'[j][z] = None
      <4>1. CASE j = o
        BY <2>2, <2>4, <4>1, TreeAssumption, SMT, Z3T(30)
      <4>2. CASE j # o
        <5>1. ~IsDir(j)
          BY <2>8, <3>3, <4>2 DEF IsDir
        <5> QED
          BY <1>3, <2>4, <5>1, SMT, Z3T(30) DEF ContainerOK
      <4> QED
        BY <4>1, <4>2
    <3>4. ASSUME NEW j \in Inodes, IsDir(j)'
          PROVE  OneName(j)'
      <4>1. IsDir(j)
        <5>1. kind'[j] = "dir" /\ j # None
          BY <3>4 DEF IsDir
        <5> QED
          BY <2>7, <5>1 DEF IsDir
      <4>2. OneName(j)
        BY <4>1 DEF ContainerOK
      <4>3. CASE j = i
        <5>1. ASSUME NEW a \in Inodes, NEW z \in Names, ent'[a][z] = i
              PROVE  a = c /\ z = y
          <6>1. SUFFICES ASSUME ~(a = c /\ z = y)
                         PROVE  FALSE
            OBVIOUS
          <6>2. ent[a][z] = i /\ ~(a = d /\ z = x)
            BY <1>3, <2>4, <5>1, <6>1, TreeAssumption
          <6> QED
            BY <1>1, <1>3, <4>2, <4>3, <6>2, SMT, Z3T(30) DEF OneName
        <5> QED
          BY <4>3, <5>1 DEF OneName
      <4>4. CASE j # i
        <5>1. \A a \in Inodes, z \in Names : ent'[a][z] = j => ent[a][z] = j
          BY <2>4, <4>4, TreeAssumption, SMT, Z3T(30)
        <5> QED
          BY <4>2, <5>1, SMT, Z3T(30) DEF OneName
      <4> QED
        BY <4>3, <4>4
    <3> QED
      BY <3>1, <3>2, <3>3, <3>4 DEF ContainerOK
  <2>12. o # None => o \in Changed
    <3>1. ent[c][y] = o /\ ent'[c][y] # o
      BY <1>2, <1>3, <1>5, <2>4
    <3> QED
      BY <1>3, <3>1, NotChanged, SMT, Z3T(30)
  <2>13. ContainerStep
    <3>1. \A j \in Inodes \ Changed : kind'[j] = kind[j]
      BY <1>3, <2>8, <2>12, TreeAssumption
    <3> QED
      BY <2>9, <2>11, <3>1 DEF ContainerStep
  <2> QED
    BY <1>1, <1>3, <2>4, <2>13
<1> QED
  BY <1>4, <1>5

\* A name for something that is kept stays, and its directory is kept too.
LEMMA KeptName ==
  ASSUME ContainerType, ContainerStep, NEW d \in Inodes, NEW x \in Names,
         IsDir(d), ent[d][x] \in Kept
  PROVE  d \in Kept /\ IsDir(d)' /\ ent'[d][x] = ent[d][x]
<1>1. PICK j : j = ent[d][x]
  OBVIOUS
<1>2. j \in Inodes /\ j # None /\ \A r \in Changed : ~Within(j, r)
  BY <1>1, TreeAssumption DEF Kept
<1>3. ASSUME NEW r \in Changed, Within(d, r)
      PROVE  FALSE
  <2>1. ASSUME NEW S \in SUBSET Inodes, r \in S,
               \A a \in S, z \in Names : IsDir(a) => ent[a][z] \in S \cup {None}
        PROVE  j \in S
    <3>1. d \in S
      BY <1>3, <2>1 DEF Within
    <3> QED
      BY <1>1, <1>2, <2>1, <3>1
  <2>2. Within(j, r)
    BY <2>1 DEF Within
  <2> QED
    BY <1>2, <2>2
<1>4. Within(j, j) /\ Within(d, d)
  BY DEF Within
<1>5. j \notin Changed /\ d \notin Changed
  BY <1>2, <1>3, <1>4
<1>6. ent'[d][x] = j
  BY <1>1, <1>2, <1>5, NotChanged, SMT, Z3T(30)
<1>7. kind'[d] = kind[d]
  BY <1>5 DEF ContainerStep
<1> QED
  BY <1>1, <1>3, <1>6, <1>7 DEF Kept, IsDir

\* What is kept stays a file, a directory or a link.
LEMMA KeptKind ==
  ASSUME ContainerStep, NEW j \in Kept
  PROVE  j \in Inodes \ Changed /\ kind'[j] = kind[j]
<1>1. Within(j, j)
  BY DEF Within
<1> QED
  BY <1>1 DEF Kept, ContainerStep

\* A path to an inode that is not below a changed name stays right.
LEMMA KeptPath ==
  ASSUME ContainerType, ContainerStep, NEW s, Len(s) \in Nat, Resolve(s) \in Kept
  PROVE  Resolve(s)' = Resolve(s)
<1>1. ent \in [Inodes -> [Names -> Inodes \cup {None}]] /\ Kept \in SUBSET Inodes
  BY DEF ContainerType, Kept
<1>2. \A d \in Inodes, x \in Names : DirIn(kind, d) /\ ent[d][x] \in Kept =>
        d \in Kept /\ DirIn(kind', d) /\ ent'[d][x] = ent[d][x]
  BY KeptName DEF DirIn, IsDir
<1>3. ResolveIn(ent, kind, s) \in Kept
  BY ResolveIs
<1>4. ResolveIn(ent', kind', s) = ResolveIn(ent, kind, s)
  BY <1>1, <1>2, <1>3, PathKept, SMT, Z3T(30)
<1> QED
  BY <1>4, ResolveIs

\* Nothing is below an inode without entries.
LEMMA KeptAll ==
  ASSUME ContainerOK, NEW t \in Inodes, Entries(t) = {}, Changed \subseteq {t},
         NEW j \in Inodes \ {t}
  PROVE  j \in Kept
<1>1. ASSUME Within(j, t)
      PROVE  FALSE
  <2>1. {t} \in SUBSET Inodes /\ \A x \in Names : ent[t][x] \in {t} \cup {None}
    BY NoEntries
  <2>2. j \in {t}
    BY <1>1, <2>1 DEF Within
  <2> QED
    BY <2>2
<1> QED
  BY <1>1 DEF Kept

-------------------------------------------------------------------------------
(* The initial container                                                    *)

\* A path of the initial container is the empty one or has one name more than another.
LEMMA PrefixParts ==
  ASSUME NEW q \in Prefixes
  PROVE  /\ q \in Seq(Names)
         /\ q # <<>> => \E r \in Prefixes, x \in Names : q = Append(r, x)
<1>1. PICK m \in {Mount, Cwd} : \E k \in 0 .. Len(m) : q = SubSeq(m, 1, k)
  BY DEF Prefixes
<1>2. PICK k \in 0 .. Len(m) : q = SubSeq(m, 1, k)
  BY <1>1
<1>3. m \in Seq(Names) /\ Len(m) \in Nat
  BY TreeAssumption, SMT, Z3T(30)
<1>4. q \in Seq(Names)
  BY <1>2, <1>3, SMT, Z3T(30)
<1>5. ASSUME q # <<>>
      PROVE  \E r \in Prefixes, x \in Names : q = Append(r, x)
  <2>1. k # 0
    BY <1>2, <1>3, <1>5, SMT, Z3T(30)
  <2>2. k - 1 \in 0 .. Len(m) /\ k \in 1 .. Len(m) /\ m[k] \in Names
    BY <1>3, <2>1, SMT, Z3T(30)
  <2>3. SubSeq(m, 1, k - 1) \in Prefixes
    <3>1. SubSeq(m, 1, k - 1) \in {SubSeq(m, 1, l) : l \in 0 .. Len(m)}
      BY <2>2
    <3> QED
      BY <1>1, <3>1, SMT, Z3T(30) DEF Prefixes
  <2>4. q = Append(SubSeq(m, 1, k - 1), m[k])
    BY <1>2, <1>3, <2>2, SMT, Z3T(30)
  <2> QED
    BY <2>2, <2>3, <2>4
<1> QED
  BY <1>4, <1>5

\* The paths along the mount are directories of the initial container.
LEMMA MountPrefixes ==
  /\ <<>> \in Prefixes /\ Mount \in Prefixes
  /\ \A k \in 0 .. Len(Mount) : SubSeq(Mount, 1, k) \in Prefixes
<1>1. Mount \in Seq(Names) /\ Len(Mount) \in Nat
  BY TreeAssumption, SMT, Z3T(30)
<1>2. \A k \in 0 .. Len(Mount) : SubSeq(Mount, 1, k) \in Prefixes
  BY DEF Prefixes
<1>3. 0 \in 0 .. Len(Mount) /\ Len(Mount) \in 0 .. Len(Mount)
  BY <1>1, SMT, Z3T(30)
<1>4. SubSeq(Mount, 1, 0) = <<>> /\ SubSeq(Mount, 1, Len(Mount)) = Mount
  BY <1>1, SMT, Z3T(30)
<1> QED
  BY <1>2, <1>3, <1>4

\* The container at the start is a tree in which the path of the root Node is right.
LEMMA InitialContainer ==
  ASSUME TreeInit
  PROVE  /\ ContainerType /\ ContainerOK /\ \A i \in Inodes : OneName(i)
         /\ stable[RootNode].ino \in Inodes /\ kind[stable[RootNode].ino] = "dir"
         /\ Resolve(Mount) = stable[RootNode].ino
<1>1. PICK at \in [Prefixes -> Inodes] :
        /\ at[<<>>] = RootIno /\ \A q, r \in Prefixes : at[q] = at[r] => q = r
        /\ ent = [d \in Inodes |-> [x \in Names |->
                    LET here == {at[Append(q, x)] : q \in {r \in Prefixes : at[r] = d /\ Append(r, x) \in Prefixes}}
                    IN  IF here = {} THEN None ELSE CHOOSE i \in here : TRUE]]
        /\ kind = [i \in Inodes |-> IF \E q \in Prefixes : at[q] = i THEN "dir" ELSE "free"]
        /\ stable = [m \in NodeIds |->
                       IF m = RootNode THEN [ino |-> at[Mount], mode |-> "dir"] ELSE None]
  BY DEF TreeInit
<1>2. ASSUME NEW q \in Prefixes, NEW x \in Names, Append(q, x) \in Prefixes
      PROVE  ent[at[q]][x] = at[Append(q, x)]
  <2> DEFINE here == {at[Append(r, x)] : r \in {r \in Prefixes : at[r] = at[q] /\ Append(r, x) \in Prefixes}}
  <2>1. here = {at[Append(q, x)]}
    BY <1>1, <1>2
  <2>2. ent[at[q]][x] = IF here = {} THEN None ELSE CHOOSE i \in here : TRUE
    BY <1>1
  <2>3. (CHOOSE i \in here : TRUE) \in here
    BY <2>1
  <2> QED
    BY <2>1, <2>2, <2>3
<1>3. ASSUME NEW d \in Inodes, NEW x \in Names, ent[d][x] # None
      PROVE  \E q \in Prefixes : at[q] = d /\ Append(q, x) \in Prefixes /\ ent[d][x] = at[Append(q, x)]
  <2> DEFINE here == {at[Append(r, x)] : r \in {r \in Prefixes : at[r] = d /\ Append(r, x) \in Prefixes}}
  <2>1. ent[d][x] = IF here = {} THEN None ELSE CHOOSE i \in here : TRUE
    BY <1>1
  <2>2. here # {}
    BY <1>3, <2>1
  <2> QED
    BY <1>2, <2>2
<1>4. ContainerType
  <2>1. \A d \in Inodes, x \in Names : ent[d][x] \in Inodes \cup {None}
    BY <1>1, <1>3, SMT, Z3T(30)
  <2>2. ent \in [Inodes -> [Names -> Inodes \cup {None}]]
    BY <1>1, <2>1
  <2>3. "dir" \in Kinds
    BY DEF Kinds, Type
  <2>4. kind \in [Inodes -> Kinds \cup {"free"}]
    BY <1>1, <2>3
  <2> QED
    BY <2>2, <2>4 DEF ContainerType
<1>5. \A i \in Inodes : IsDir(i) <=> \E q \in Prefixes : at[q] = i
  BY <1>1, TreeAssumption DEF IsDir
<1>6. ASSUME NEW q \in Prefixes, NEW x \in Names, NEW r \in Prefixes, NEW y \in Names,
             Append(q, x) = Append(r, y)
      PROVE  q = r /\ x = y
  <2>1. q \in Seq(Names) /\ r \in Seq(Names)
    BY PrefixParts
  <2> QED
    BY <1>6, <2>1, SMT, Z3T(30)
<1>7. ASSUME NEW i \in Inodes
      PROVE  OneName(i)
  <2>1. ASSUME NEW d \in Inodes, NEW c \in Inodes, NEW x \in Names, NEW y \in Names,
               ent[d][x] = i, ent[c][y] = i
        PROVE  d = c /\ x = y
    <3>1. i # None
      BY TreeAssumption
    <3>2. PICK q \in Prefixes : at[q] = d /\ Append(q, x) \in Prefixes /\ i = at[Append(q, x)]
      BY <1>3, <2>1, <3>1, SMT, Z3T(30)
    <3>3. PICK r \in Prefixes : at[r] = c /\ Append(r, y) \in Prefixes /\ i = at[Append(r, y)]
      BY <1>3, <2>1, <3>1, SMT, Z3T(30)
    <3>4. Append(q, x) = Append(r, y)
      BY <1>1, <3>2, <3>3
    <3> QED
      BY <1>6, <3>2, <3>3, <3>4, SMT, Z3T(30)
  <2> QED
    BY <2>1, SMT, Z3T(30) DEF OneName
<1>8. ASSUME NEW i \in Inodes
      PROVE  HasName(i) <=> i # RootIno /\ IsDir(i)
  <2>1. ASSUME HasName(i)
        PROVE  i # RootIno /\ IsDir(i)
    <3>1. PICK d \in Inodes, x \in Names : ent[d][x] = i
      BY <2>1 DEF HasName
    <3>2. PICK q \in Prefixes : Append(q, x) \in Prefixes /\ i = at[Append(q, x)]
      BY <1>3, <3>1, TreeAssumption, SMT, Z3T(30)
    <3>3. q \in Seq(Names)
      BY PrefixParts
    <3>4. Append(q, x) # <<>>
      BY <3>3, SMT, Z3T(30)
    <3> QED
      BY <1>1, <1>5, <3>2, <3>4, MountPrefixes
  <2>2. ASSUME i # RootIno, IsDir(i)
        PROVE  HasName(i)
    <3>1. PICK q \in Prefixes : at[q] = i
      BY <1>5, <2>2
    <3>2. PICK r \in Prefixes, x \in Names : q = Append(r, x)
      BY <1>1, <2>2, <3>1, PrefixParts
    <3>3. ent[at[r]][x] = i
      BY <1>2, <3>1, <3>2
    <3> QED
      BY <1>1, <3>3 DEF HasName
  <2> QED
    BY <2>1, <2>2
<1>9. ContainerOK
  <2>1. IsDir(RootIno) /\ ~HasName(RootIno)
    BY <1>1, <1>5, <1>8, MountPrefixes, TreeAssumption
  <2>2. ASSUME NEW i \in Inodes
        PROVE  kind[i] = "free" <=> i # RootIno /\ ~HasName(i)
    <3>1. kind[i] = "free" <=> ~IsDir(i)
      BY <1>1, TreeAssumption DEF IsDir
    <3> QED
      BY <1>8, <2>1, <3>1
  <2>3. ASSUME NEW i \in Inodes, ~IsDir(i), NEW x \in Names
        PROVE  ent[i][x] = None
    BY <1>3, <1>5, <2>3, SMT, Z3T(30)
  <2> QED
    BY <1>7, <2>1, <2>2, <2>3 DEF ContainerOK
<1>10. Resolve(Mount) = at[Mount]
  <2>1. PICK n \in Nat : n = Len(Mount)
    BY TreeAssumption, SMT, Z3T(30)
  <2> DEFINE P(k) == SubSeq(Mount, 1, k)
             T == {k \in 0 .. n : ResolveIn(ent, kind, P(k)) = at[P(k)]}
  <2>2. 0 \in T
    <3>1. P(0) = <<>>
      BY TreeAssumption, SMT, Z3T(30)
    <3>2. ResolveIn(ent, kind, P(0)) = at[P(0)]
      BY <1>1, <3>1, ResolveRoot
    <3> QED
      BY <3>2, SMT, Z3T(30)
  <2>3. ASSUME NEW k \in 1 .. n, k - 1 \in T
        PROVE  k \in T
    <3>1. P(k - 1) \in Prefixes /\ P(k) \in Prefixes /\ k \in 0 .. n
      BY <2>1, <2>3, MountPrefixes, SMT, Z3T(30)
    <3>2. Mount[k] \in Names /\ P(k) = Append(P(k - 1), Mount[k]) /\ P(k - 1) \in Seq(Names)
      BY <2>1, TreeAssumption, SMT, Z3T(30)
    <3>3. ResolveIn(ent, kind, P(k - 1)) = at[P(k - 1)]
      BY <2>3
    <3> HIDE DEF P
    <3>4. PICK d \in Inodes : d = at[P(k - 1)]
      BY <3>1
    <3>5. DirIn(kind, d)
      BY <1>5, <3>1, <3>4 DEF DirIn, IsDir
    <3>6. ResolveIn(ent, kind, P(k)) = ent[d][Mount[k]]
      BY <3>2, <3>3, <3>4, <3>5, ResolveAppend, SMT, Z3T(30)
    <3>7. ent[d][Mount[k]] = at[P(k)]
      BY <1>2, <3>1, <3>2, <3>4
    <3> QED
      BY <3>1, <3>6, <3>7
  <2>4. n \in T
    <3> HIDE DEF T
    <3>1. \A k \in 0 .. n : k \in T
      BY <2>2, <2>3, UpTo
    <3> QED
      BY <3>1, SMT, Z3T(30)
  <2>5. P(n) = Mount
    BY <2>1, TreeAssumption, SMT, Z3T(30)
  <2> HIDE DEF P
  <2> QED
    BY <2>4, <2>5, ResolveIs
<1>11. stable[RootNode].ino = at[Mount] /\ at[Mount] \in Inodes /\ kind[at[Mount]] = "dir"
  BY <1>1, MountPrefixes, TreeAssumption
<1> QED
  BY <1>4, <1>7, <1>9, <1>10, <1>11

-------------------------------------------------------------------------------
(* Types, and the calls in flight                                           *)

\* The record of a call tells its operation.
LEMMA CallKinds ==
  ASSUME NEW c \in CallSet
  PROVE  /\ c.op \in Adding => c \in AddCalls
         /\ c.op = "remove" => c \in RemoveCalls
         /\ c.op = "rename" => c \in RenameCalls
         /\ c.op = "readdir" => c \in ReadCalls
         /\ c.op = "none" => c = Idle
         /\ c # Idle => c.n \in NodeIds /\ c.op # "none"
         /\ c.op \in Adding \cup {"remove", "rename", "readdir", "none"}
BY SMT, Z3T(30) DEF CallSet, AddCalls, RemoveCalls, RenameCalls, ReadCalls, Idle, Adding, Making

\* The directories a process works on are those of its call.
LEMMA DirsAre ==
  ASSUME NEW p
  PROVE  Dirs(p) = DirsOf(call[p])
BY DEF Dirs, DirsOf

\* A step of one call.
LEMMA CallsKept ==
  ASSUME CallsOK, NEW p \in Procs, NEW c, GoodCall(p, c), call' = [call EXCEPT ![p] = c],
         \A n \in NodeIds : DirNode(n) => DirNode(n)'
  PROVE  CallsOK'
<1>1. call \in [Procs -> CallSet]
  BY DEF CallsOK, CallSet
<1>2. call' \in [Procs -> CallSet] /\ \A q \in Procs : call'[q] = IF q = p THEN c ELSE call[q]
  BY <1>1 DEF GoodCall
<1>3. \A q \in Procs : Dirs(q)' = IF q = p THEN DirsOf(c) ELSE Dirs(q)
  BY <1>2 DEF Dirs, DirsOf
<1>4. \A q \in Procs : Dirs(q) \subseteq NodeIds
  <2>1. ASSUME NEW q \in Procs
        PROVE  Dirs(q) \subseteq NodeIds
    <3>1. call[q] \in CallSet
      BY <1>1
    <3>2. call[q].op = "rename" => call[q].to \in NodeIds
      BY <3>1, CallKinds DEF RenameCalls
    <3>3. call[q] # Idle => call[q].n \in NodeIds
      BY <3>1, CallKinds
    <3> QED
      BY <3>2, <3>3 DEF Dirs
  <2> QED
    BY <2>1
<1>5. DirsOf(c) \subseteq NodeIds
  <2>1. c \in CallSet
    BY DEF GoodCall
  <2>2. c.op = "rename" => c.to \in NodeIds
    BY <2>1, CallKinds DEF RenameCalls
  <2> QED
    BY <2>1, <2>2, CallKinds DEF DirsOf
<1>6. ASSUME NEW q \in Procs, NEW n \in Dirs(q)'
      PROVE  /\ DirNode(n)'
             /\ \A r \in Procs \ {q} : n \in Dirs(r)' => call'[r].op \in {"lookup", "readdir"}
  <2>1. CASE q = p
    BY <1>2, <1>3, <1>5, <1>6, <2>1, SMT, Z3T(30) DEF GoodCall, Sharing
  <2>2. CASE q # p
    <3>1. n \in Dirs(q) /\ n \in NodeIds
      BY <1>3, <1>4, <1>6, <2>2
    <3>2. DirNode(n)'
      BY <3>1 DEF CallsOK
    <3>3. ASSUME NEW r \in Procs \ {q}, n \in Dirs(r)'
          PROVE  call'[r].op \in {"lookup", "readdir"}
      <4>1. CASE r = p
        BY <1>2, <1>3, <2>2, <3>1, <3>3, <4>1 DEF GoodCall, Sharing
      <4>2. CASE r # p
        BY <1>2, <1>3, <3>1, <3>3, <4>2, SMT, Z3T(30) DEF CallsOK
      <4> QED
        BY <4>1, <4>2
    <3> QED
      BY <3>2, <3>3
  <2> QED
    BY <2>1, <2>2
<1>7. ASSUME NEW q \in Procs, call'[q].op \in Adding
      PROVE  /\ call'[q].step = "failed" => call'[q].got = None
             /\ call'[q].step = "reply" /\ call'[q].mode = "dir" => call'[q].got # None
             /\ call'[q].op \in {"create", "symlink"} => call'[q].mode # "dir"
  BY <1>2, <1>7 DEF GoodCall, CallsOK
<1> QED
  BY <1>2, <1>6, <1>7 DEF CallsOK, CallSet

\* Nothing in flight.
LEMMA IdleIsGood ==
  ASSUME NEW p
  PROVE  GoodCall(p, Idle)
<1>1. Idle.op = "none" /\ Idle \in CallSet
  BY DEF Idle, CallSet
<1>2. DirsOf(Idle) = {}
  BY DEF DirsOf
<1>3. Idle.op \notin Adding
  BY <1>1 DEF Adding, Making
<1> QED
  BY <1>1, <1>2, <1>3 DEF GoodCall

\* The call of p goes on.
LEMMA NextIsGood ==
  ASSUME CallsOK, NEW p \in Procs, NEW c \in CallSet, call[p] # Idle, c # Idle, c.op = call[p].op,
         c.n = call[p].n, c.op = "rename" => c.to = call[p].to,
         c.op \in Adding => /\ c.step = "failed" => c.got = None
                            /\ c.step = "reply" /\ c.mode = "dir" => c.got # None
                            /\ c.mode = call[p].mode
  PROVE  GoodCall(p, c)
<1>1. DirsOf(c) = Dirs(p)
  BY DEF DirsOf, Dirs
<1>2. ASSUME NEW n \in Dirs(p)
      PROVE  /\ DirNode(n)
             /\ \A q \in Procs \ {p} : n \in Dirs(q) => c.op \in Sharing /\ call[q].op \in Sharing
  BY <1>2 DEF CallsOK, Sharing
<1>3. c.op \in Adding /\ c.op \in {"create", "symlink"} => c.mode # "dir"
  BY DEF CallsOK
<1> QED
  BY <1>1, <1>2, <1>3 DEF GoodCall

-------------------------------------------------------------------------------

\* The types the other lemmas need.
LEMMA BaseTypes ==
  ASSUME BaseInv
  PROVE  /\ ContainerType /\ NewestOK /\ call \in [Procs -> CallSet]
         /\ path \in [NodeIds -> Seq(Names)] /\ \A n \in NodeIds : Len(path[n]) \in Nat
<1>1. path \in [NodeIds -> Seq(Names)]
  BY DEF BaseInv, NodeTypeOK
<1>2. \A n \in NodeIds : Len(path[n]) \in Nat
  BY <1>1, SMT, Z3T(30)
<1> QED
  BY <1>1, <1>2 DEF BaseInv, NodeTypeOK, CallsOK, ContainerType, NewestOK, CallSet

\* Getattr and stat return an inode or fail.
LEMMA GetattrType ==
  ASSUME BaseInv, NEW n \in NodeIds
  PROVE  Getattr(n) \in Inodes \cup {None} /\ \A x \in Names : stat(n, x) \in Inodes \cup {None}
<1>1. ent \in [Inodes -> [Names -> Inodes \cup {None}]] /\ Len(path[n]) \in Nat
  BY BaseTypes DEF ContainerType
<1>2. Getattr(n) \in Inodes \cup {None}
  BY <1>1, ResolveType, ResolveIs, SMT, Z3T(30) DEF Getattr
<1> QED
  BY <1>1, <1>2 DEF stat, At, IsDir

\* A directory lists inodes by name.
LEMMA EntriesType ==
  ASSUME ContainerType, NEW d \in Inodes \cup {None}
  PROVE  Entries(d) \subseteq Names \X Inodes
BY SMT, Z3T(30) DEF Entries, ContainerType, IsDir

\* A step that leaves the container alone.
LEMMA Still ==
  ASSUME ContainerType, ContainerOK, UNCHANGED container
  PROVE  ContainerStep /\ Changed = {}
<1>1. ent' = ent /\ kind' = kind
  BY DEF container
<1>2. ContainerType' /\ ContainerOK'
  BY <1>1, SMT, Z3T(30) DEF ContainerType, ContainerOK, IsDir, HasName, OneName
<1>3. ContainerStep
  BY <1>1, <1>2 DEF ContainerStep
<1>4. Changed = {}
  BY <1>1 DEF Changed, NamesOf
<1> QED
  BY <1>3, <1>4

-------------------------------------------------------------------------------
(* What a request does                                                      *)

\* A Lookup or a Readdir may begin while others look into the same directory.
LEMMA SharedIsGood ==
  ASSUME NEW p, NEW n, DirNode(n), Shared(n), NEW c \in CallSet, c.op \in Sharing, c.n = n,
         c.op \in Adding => c.step = "reply" /\ c.got # None
  PROVE  GoodCall(p, c)
<1>1. DirsOf(c) \subseteq {n}
  BY DEF DirsOf, Sharing
<1>2. \A q \in Procs : n \in Dirs(q) => call[q].op \in Sharing
  BY DEF Shared, Sharing
<1>3. c.op \notin {"create", "symlink"}
  BY DEF Sharing
<1> QED
  BY <1>1, <1>2, <1>3 DEF GoodCall

\* A call that changes a directory may begin when nobody else is in it.
LEMMA ExclusiveIsGood ==
  ASSUME NEW p, NEW n, DirNode(n), Exclusive(n), NEW c \in CallSet, c.n = n,
         c.op = "rename" => DirNode(c.to) /\ Exclusive(c.to),
         c.op \in Adding => /\ c.step # "failed"
                            /\ (c.op \in {"mkdir", "link"} /\ c.step = "stat") \/ c.mode # "dir"
  PROVE  GoodCall(p, c)
<1>1. ASSUME NEW m \in DirsOf(c)
      PROVE  DirNode(m) /\ Exclusive(m)
  BY <1>1 DEF DirsOf
<1>2. ASSUME NEW m \in DirsOf(c), NEW q \in Procs, m \in Dirs(q)
      PROVE  FALSE
  BY <1>1, <1>2 DEF Exclusive
<1> QED
  BY <1>1, <1>2 DEF GoodCall

\* A call that adds a Node.
LEMMA AddIsCall ==
  ASSUME NEW o \in Adding, NEW n \in NodeIds, NEW x \in Names,
         NEW s \in {"stat", "failed", "reply"},
         NEW g \in Inodes \cup {None}, NEW m \in Modes
  PROVE  LET c == Add(o, n, x, s, g, m)
         IN  /\ c \in CallSet /\ c # Idle /\ c.op = o /\ c.n = n /\ c.x = x /\ c.step = s
             /\ c.got = g /\ c.made = g /\ c.mode = m
<1>1. PICK c : c = Add(o, n, x, s, g, m)
  OBVIOUS
<1>2. c \in AddCalls
  BY <1>1 DEF Add, AddCalls
<1>3. c \in CallSet
  BY <1>2 DEF CallSet
<1>4. c.op = o /\ c.n = n /\ c.x = x /\ c.step = s /\ c.got = g /\ c.made = g /\ c.mode = m
  BY <1>1 DEF Add
<1>5. c # Idle
  <2>1. Idle.op = "none"
    BY DEF Idle
  <2> QED
    BY <1>4, <2>1 DEF Adding, Making
<1> QED
  BY <1>1, <1>3, <1>4, <1>5

\* Lookup: the container is left alone.
LEMMA LookupBegins ==
  ASSUME BaseInv, NEW p \in Procs, NEW n \in NodeIds, DirNode(n), NEW x \in Names, Lookup(p, n, x)
  PROVE  \E c : Begins(p, n, c)
<1>1. PICK i : i = stat(n, x)
  OBVIOUS
<1>2. i \in Inodes
  BY <1>1, GetattrType DEF Lookup
<1>3. LookupMode(kind[i]) \in Modes
  BY DEF LookupMode, Modes
<1>4. PICK c : c = Add("lookup", n, x, "reply", i, LookupMode(kind[i]))
  OBVIOUS
<1>5. "lookup" \in Adding /\ "lookup" \in Sharing /\ i # None
  BY <1>2, TreeAssumption DEF Adding, Sharing
<1>6. /\ c \in CallSet /\ c # Idle /\ c.op = "lookup" /\ c.n = n /\ c.step = "reply"
      /\ c.got = i
  BY <1>2, <1>3, <1>4, <1>5, AddIsCall, SMT, Z3T(30)
<1>7. Start(p, c) /\ UNCHANGED container /\ Shared(n)
  BY <1>1, <1>4 DEF Lookup
<1>8. GoodCall(p, c)
  BY <1>5, <1>6, <1>7, SharedIsGood
<1> QED
  BY <1>6, <1>7, <1>8 DEF Begins

\* Create: the file is made, or it was there and is opened.
LEMMA CreateBegins ==
  ASSUME BaseInv, NEW p \in Procs, NEW n \in NodeIds, DirNode(n), NEW x \in Names, Create(p, n, x)
  PROVE  \E c : Begins(p, n, c)
<1>1. PICK i \in Inodes :
        /\ \/ Make(Getattr(n), x, i, "reg")
           \/ UNCHANGED container
        /\ Start(p, Add("create", n, x, "reply", i, "reg"))
  BY DEF Create
<1>2. PICK c : c = Add("create", n, x, "reply", i, "reg")
  OBVIOUS
<1>3. "create" \in Adding /\ "reg" \in Modes /\ "reg" \in Kinds
  BY DEF Adding, Making, Modes, Kinds, Type
<1>4. /\ c \in CallSet /\ c # Idle /\ c.op = "create" /\ c.n = n /\ c.x = x /\ c.step = "reply"
      /\ c.mode = "reg"
  BY <1>2, <1>3, AddIsCall, SMT, Z3T(30)
<1>5. Exclusive(n)
  BY DEF Create
<1>6. GoodCall(p, c)
  BY <1>4, <1>5, ExclusiveIsGood
<1>7. UNCHANGED container \/ Adds(n, c)
  <2>1. CASE Make(Getattr(n), x, i, "reg")
    <3>1. Rebinds(Getattr(n), x, i, i) /\ ent[Getattr(n)][x] = None /\ kind'[i] = "reg"
      BY <1>3, <2>1, Makes, BaseTypes, GetattrType DEF BaseInv
    <3> QED
      BY <1>4, <3>1 DEF Adds
  <2> QED
    BY <1>1, <2>1
<1> QED
  BY <1>1, <1>2, <1>4, <1>6, <1>7 DEF Begins

\* Mkdir: the directory is made; its attributes are asked for in a second call.
LEMMA MkdirBegins ==
  ASSUME BaseInv, NEW p \in Procs, NEW n \in NodeIds, DirNode(n), NEW x \in Names, Mkdir(p, n, x)
  PROVE  \E c : Begins(p, n, c)
<1>1. PICK i \in Inodes :
        Make(Getattr(n), x, i, "dir") /\ Start(p, Add("mkdir", n, x, "stat", i, "dir"))
  BY DEF Mkdir, mkdir
<1>2. PICK c : c = Add("mkdir", n, x, "stat", i, "dir")
  OBVIOUS
<1>3. "mkdir" \in Adding /\ "dir" \in Modes /\ "dir" \in Kinds
  BY DEF Adding, Making, Modes, Kinds, Type
<1>4. /\ c \in CallSet /\ c # Idle /\ c.op = "mkdir" /\ c.n = n /\ c.x = x /\ c.step = "stat"
      /\ c.made = i
  BY <1>2, <1>3, AddIsCall, SMT, Z3T(30)
<1>5. Exclusive(n)
  BY DEF Mkdir
<1>6. GoodCall(p, c)
  BY <1>4, <1>5, ExclusiveIsGood
<1>7. Rebinds(Getattr(n), x, i, i) /\ ent[Getattr(n)][x] = None /\ kind[i] = "free"
  BY <1>1, <1>3, Makes, BaseTypes, GetattrType, SMT, Z3T(30) DEF BaseInv
<1>8. Adds(n, c)
  BY <1>4, <1>7 DEF Adds
<1> QED
  BY <1>1, <1>2, <1>4, <1>6, <1>8 DEF Begins

\* Symlink: the link is made.
LEMMA SymlinkBegins ==
  ASSUME BaseInv, NEW p \in Procs, NEW n \in NodeIds, DirNode(n), NEW x \in Names, Symlink(p, n, x)
  PROVE  \E c : Begins(p, n, c)
<1>1. PICK i \in Inodes : Make(Getattr(n), x, i, "lnk")
  BY DEF Symlink, symlink
<1>2. PICK c : c = Add("symlink", n, x, "reply", None, "lnk")
  OBVIOUS
<1>3. "symlink" \in Adding /\ "lnk" \in Modes /\ "lnk" \in Kinds
  BY DEF Adding, Making, Modes, Kinds, Type
<1>4. /\ c \in CallSet /\ c # Idle /\ c.op = "symlink" /\ c.n = n /\ c.x = x /\ c.step = "reply"
      /\ c.mode = "lnk"
  BY <1>2, <1>3, AddIsCall, SMT, Z3T(30)
<1>5. Exclusive(n) /\ Start(p, c)
  BY <1>2 DEF Symlink
<1>6. GoodCall(p, c)
  BY <1>4, <1>5, ExclusiveIsGood
<1>7. Rebinds(Getattr(n), x, i, i) /\ ent[Getattr(n)][x] = None /\ kind'[i] = "lnk"
  BY <1>1, <1>3, Makes, BaseTypes, GetattrType DEF BaseInv
<1>8. Adds(n, c)
  BY <1>4, <1>7 DEF Adds
<1> QED
  BY <1>4, <1>5, <1>6, <1>8 DEF Begins

\* Link: the file gets the name; its attributes are asked for in a second call.
LEMMA LinkBegins ==
  ASSUME BaseInv, NEW p \in Procs, NEW n \in NodeIds, DirNode(n), NEW x \in Names,
         NEW t \in NodeIds, Link(p, n, x, t)
  PROVE  \E c : Begins(p, n, c)
<1>1. /\ Getattr(t) \in Inodes /\ Rebinds(Getattr(n), x, Getattr(t), Getattr(t))
      /\ ent[Getattr(n)][x] = None /\ kind'[Getattr(t)] # "dir"
  BY Links, BaseTypes DEF Link, BaseInv
<1>2. PICK i \in Inodes : i = Getattr(t)
  BY <1>1
<1>3. stable[t].mode \in Modes
  BY DEF Link, BaseInv, NodeTypeOK, NodesOK, StableAttrs
<1>4. PICK c : c = Add("link", n, x, "stat", i, stable[t].mode)
  OBVIOUS
<1>5. "link" \in Adding
  BY DEF Adding
<1>6. /\ c \in CallSet /\ c # Idle /\ c.op = "link" /\ c.n = n /\ c.x = x /\ c.step = "stat"
      /\ c.made = i
  BY <1>3, <1>4, <1>5, AddIsCall, SMT, Z3T(30)
<1>7. Exclusive(n) /\ Start(p, c)
  BY <1>2, <1>4 DEF Link
<1>8. GoodCall(p, c)
  BY <1>6, <1>7, ExclusiveIsGood
<1>9. Adds(n, c)
  BY <1>1, <1>2, <1>6 DEF Adds
<1> QED
  BY <1>6, <1>7, <1>8, <1>9 DEF Begins

\* Unlink and Rmdir: the satellite removes the name.
LEMMA RemoveBegins ==
  ASSUME BaseInv, NEW p \in Procs, NEW n \in NodeIds, DirNode(n), NEW x \in Names,
         Unlink(p, n, x) \/ Rmdir(p, n, x)
  PROVE  \E c : Begins(p, n, c)
<1>1. PICK c : c = [op |-> "remove", n |-> n, x |-> x, step |-> "reply"]
  OBVIOUS
<1>2. c \in CallSet /\ c.op = "remove" /\ c.n = n /\ c.x = x
  BY <1>1 DEF CallSet, RemoveCalls
<1>3. c # Idle /\ c.op \notin Adding
  BY <1>2, SMT, Z3T(30) DEF Idle, Adding, Making
<1>4. Exclusive(n) /\ Start(p, c) /\ Remove(Getattr(n), x)
  BY <1>1 DEF Unlink, Rmdir, unlink
<1>5. GoodCall(p, c)
  BY <1>2, <1>3, <1>4, ExclusiveIsGood
<1>6. Drops(n, c)
  BY <1>2, <1>4, Removes, BaseTypes, GetattrType DEF BaseInv, Drops
<1> QED
  BY <1>2, <1>3, <1>4, <1>5, <1>6 DEF Begins

\* Rename: the directories are locked, nothing has happened yet.
LEMMA RenameBegins ==
  ASSUME BaseInv, NEW p \in Procs, NEW n \in NodeIds, DirNode(n), NEW x \in Names,
         NEW to \in NodeIds, NEW y \in Names, DirNode(to), Rename(p, n, x, to, y)
  PROVE  \E c : Begins(p, n, c)
<1>1. PICK d : d = Cwd \o TreePath(to)
  OBVIOUS
<1>2. d \in Seq(Names \cup {None})
  <2>1. TreePath(to) \in Seq(Names \cup {None})
    BY TreePathType, BaseTypes
  <2>2. Cwd \in Seq(Names \cup {None})
    BY TreeAssumption, SMT, Z3T(30)
  <2> QED
    BY <1>1, <2>1, <2>2, SMT, Z3T(30)
<1>3. PICK c : c = [op |-> "rename", n |-> n, x |-> x, to |-> to, y |-> y, step |-> "call",
                    dst |-> d, got |-> None]
  OBVIOUS
<1>4. /\ c \in CallSet /\ c.op = "rename" /\ c.n = n /\ c.to = to /\ c.step = "call"
      /\ c.dst = d
  BY <1>2, <1>3 DEF CallSet, RenameCalls
<1>5. c # Idle /\ c.op \notin Adding
  BY <1>4, SMT, Z3T(30) DEF Idle, Adding, Making
<1>6. Exclusive(n) /\ Exclusive(to) /\ Start(p, c) /\ UNCHANGED container
  BY <1>1, <1>3 DEF Rename
<1>7. GoodCall(p, c)
  BY <1>4, <1>5, <1>6, ExclusiveIsGood
<1> QED
  BY <1>1, <1>4, <1>5, <1>6, <1>7 DEF Begins

\* Readdir: the names are read.
LEMMA ReaddirBegins ==
  ASSUME BaseInv, NEW p \in Procs, NEW n \in NodeIds, DirNode(n), Readdir(p, n)
  PROVE  \E c : Begins(p, n, c)
<1>1. PICK t : t = {e[1] : e \in Entries(Getattr(n))}
  OBVIOUS
<1>2. t \subseteq Names
  BY <1>1, EntriesType, GetattrType, BaseTypes
<1>3. PICK c : c = [op |-> "readdir", n |-> n, step |-> "info", todo |-> t, list |-> {}]
  OBVIOUS
<1>4. c \in CallSet /\ c.op = "readdir" /\ c.n = n
  BY <1>2, <1>3 DEF CallSet, ReadCalls
<1>5. c # Idle /\ c.op \notin Adding /\ c.op \in Sharing
  BY <1>4, SMT, Z3T(30) DEF Idle, Adding, Making, Sharing
<1>6. Shared(n) /\ Start(p, c) /\ UNCHANGED container
  BY <1>1, <1>3 DEF Readdir
<1>7. GoodCall(p, c)
  BY <1>4, <1>5, <1>6, SharedIsGood
<1> QED
  BY <1>4, <1>5, <1>6, <1>7 DEF Begins

\* Every request that go-fuse hands to a Node.
LEMMA RequestBegins ==
  ASSUME BaseInv, NEW p \in Procs, NEW n \in NodeIds, DirNode(n), Request(p, n)
  PROVE  \E c : Begins(p, n, c)
BY LookupBegins, CreateBegins, MkdirBegins, SymlinkBegins, LinkBegins, RemoveBegins, RenameBegins,
   ReaddirBegins DEF Request

-------------------------------------------------------------------------------
(* What the later steps of a call do                                        *)

\* Mkdir and Link ask for the attributes of what they made.
LEMMA StatProceeds ==
  ASSUME BaseInv, NEW p \in Procs, StatNew(p)
  PROVE  \E c : Proceeds(p, c)
<1>1. call[p] \in CallSet /\ call[p] # Idle /\ call[p].step = "stat"
  BY BaseTypes DEF StatNew
<1>2. call[p] \in AddCalls
  BY <1>1 DEF CallSet, RemoveCalls, RenameCalls, ReadCalls
<1>3. PICK i : i = stat(call[p].n, call[p].x)
  OBVIOUS
<1>4. i \in Inodes \cup {None}
  BY <1>2, <1>3, GetattrType DEF AddCalls
<1>5. PICK s : s = IF i = None THEN "failed" ELSE "reply"
  OBVIOUS
<1>6. PICK c : c = [call[p] EXCEPT !.step = s, !.got = i]
  OBVIOUS
<1>7. call' = [call EXCEPT ![p] = c]
  BY <1>3, <1>5, <1>6 DEF StatNew
<1>8. /\ c \in AddCalls /\ c.op = call[p].op /\ c.n = call[p].n /\ c.x = call[p].x
      /\ c.made = call[p].made /\ c.mode = call[p].mode /\ c.got = i /\ c.step = s
  BY <1>2, <1>4, <1>5, <1>6 DEF AddCalls
<1>9. c \in CallSet /\ c # Idle /\ c.op \in Adding /\ c.op # "rename"
  BY <1>8, SMT, Z3T(30) DEF CallSet, AddCalls, Adding, Making, Idle
<1>10. GoodCall(p, c)
  BY <1>1, <1>5, <1>8, <1>9, NextIsGood DEF BaseInv
<1>11. Stats(p, c)
  BY <1>1, <1>3, <1>5, <1>8, <1>9 DEF Stats, StatNew
<1> QED
  BY <1>1, <1>7, <1>10, <1>11 DEF Proceeds

\* The satellite has served a Rename.
LEMMA RenameProceeds ==
  ASSUME BaseInv, NEW p \in Procs, RenameServed(p)
  PROVE  \E c : Proceeds(p, c)
<1>1. call[p] \in RenameCalls /\ call[p] # Idle /\ call[p].op = "rename" /\ call[p].step = "call"
  BY BaseTypes, CallKinds, SMT, Z3T(30) DEF RenameServed, Idle
<1>2. PICK d : d = Getattr(call[p].n)
  OBVIOUS
<1>3. PICK e : e = Resolve(call[p].dst)
  OBVIOUS
<1>4. PICK x, y : x = call[p].x /\ y = call[p].y
  OBVIOUS
<1>5. x \in Names /\ y \in Names /\ d \in Inodes \cup {None} /\ e \in Inodes \cup {None}
  <2>1. call[p].dst \in Seq(Names \cup {None}) /\ call[p].n \in NodeIds
    BY <1>1 DEF RenameCalls
  <2>2. Len(call[p].dst) \in Nat
    BY <2>1, SMT, Z3T(30)
  <2>3. e \in Inodes \cup {None}
    BY <1>3, <2>2, ResolveType, ResolveIs, BaseTypes, SMT, Z3T(30) DEF ContainerType
  <2> QED
    BY <1>1, <1>2, <1>4, <2>1, <2>3, GetattrType DEF RenameCalls
<1>6. CASE /\ Movable(d, x, e, y) /\ Move(d, x, e, y)
           /\ call' = [call EXCEPT ![p].step = "reply", ![p].got = ent[d][x]]
  <2>1. ContainerStep /\ e \in Inodes /\ ent[d][x] \in Inodes /\ ent'[e][y] = ent[d][x]
    BY <1>5, <1>6, Moves, BaseTypes, SMT, Z3T(30) DEF BaseInv
  <2>2. PICK g \in Inodes : g = ent[d][x]
    BY <2>1
  <2>3. PICK c : c = [call[p] EXCEPT !.step = "reply", !.got = g]
    OBVIOUS
  <2>4. call' = [call EXCEPT ![p] = c]
    BY <1>6, <2>2, <2>3
  <2>5. /\ c \in RenameCalls /\ c.op = call[p].op /\ c.n = call[p].n /\ c.x = call[p].x
        /\ c.to = call[p].to /\ c.y = call[p].y /\ c.got = g /\ c.step = "reply"
    BY <1>1, <2>3 DEF RenameCalls
  <2>6. c \in CallSet /\ c # Idle /\ c.op \notin Adding
    BY <1>1, <2>5, SMT, Z3T(30) DEF CallSet, Adding, Making, Idle
  <2>7. GoodCall(p, c)
    BY <1>1, <2>5, <2>6, NextIsGood DEF BaseInv
  <2>8. IsDir(d)
    BY <1>6 DEF Movable
  <2>9. Renames(p, c)
    BY <1>1, <1>2, <1>3, <1>4, <2>1, <2>2, <2>5, <2>8 DEF Renames
  <2> QED
    BY <1>1, <2>4, <2>7, <2>9 DEF Proceeds
<1>7. CASE End(p) /\ UNCHANGED container
  <2>1. Quiet(p, Idle)
    BY <1>1, <1>7 DEF Quiet, Adding, Making
  <2> QED
    BY <1>1, <1>7, <2>1, IdleIsGood DEF Proceeds, End
<1> QED
  BY <1>2, <1>3, <1>4, <1>6, <1>7 DEF RenameServed

\* Readdir asks for the attributes of a name, or has asked for all.
LEMMA ReadProceeds ==
  ASSUME BaseInv, NEW p \in Procs, Info(p) \/ Listed(p)
  PROVE  \E c : Proceeds(p, c)
<1>1. call[p] \in ReadCalls /\ call[p] # Idle /\ call[p].op = "readdir" /\ UNCHANGED container
  BY BaseTypes, CallKinds, SMT, Z3T(30) DEF Info, Listed, Idle
<1>2. \E s \in {"info", "reply"}, t \in SUBSET Names, l \in SUBSET (Names \X Inodes) :
        call' = [call EXCEPT ![p] = [call[p] EXCEPT !.step = s, !.todo = t, !.list = l]]
  <2>1. CASE Info(p)
    <3>1. PICK x \in call[p].todo :
            LET i == stat(call[p].n, x)
            IN  call' = [call EXCEPT ![p].todo = @ \ {x},
                                     ![p].list = IF i = None THEN @ ELSE @ \cup {<<x, i>>}]
      BY <2>1 DEF Info
    <3>2. PICK i : i = stat(call[p].n, x)
      OBVIOUS
    <3>3. x \in Names /\ i \in Inodes \cup {None}
      BY <1>1, <3>2, GetattrType DEF ReadCalls
    <3>4. PICK l : l = IF i = None THEN call[p].list ELSE call[p].list \cup {<<x, i>>}
      OBVIOUS
    <3>5. l \in SUBSET (Names \X Inodes) /\ call[p].todo \ {x} \in SUBSET Names
      BY <1>1, <3>3, <3>4, SMT, Z3T(30) DEF ReadCalls
    <3>6. call' = [call EXCEPT ![p] = [call[p] EXCEPT !.todo = @ \ {x}, !.list = l]]
      BY <3>1, <3>2, <3>4
    <3>7. call[p].step \in {"info", "reply"}
      BY <1>1 DEF ReadCalls
    <3>8. [call[p] EXCEPT !.todo = @ \ {x}, !.list = l]
            = [call[p] EXCEPT !.step = call[p].step, !.todo = call[p].todo \ {x}, !.list = l]
      BY <1>1 DEF ReadCalls
    <3> QED
      BY <3>5, <3>6, <3>7, <3>8
  <2>2. CASE Listed(p)
    <3>1. PICK l : l = {e \in call[p].list : e[2] \notin LowInodes}
      OBVIOUS
    <3>2. l \in SUBSET (Names \X Inodes) /\ call[p].todo \in SUBSET Names
      BY <1>1, <3>1 DEF ReadCalls
    <3>3. call' = [call EXCEPT ![p] = [call[p] EXCEPT !.step = "reply", !.list = l]]
      BY <2>2, <3>1 DEF Listed
    <3>4. [call[p] EXCEPT !.step = "reply", !.list = l]
            = [call[p] EXCEPT !.step = "reply", !.todo = call[p].todo, !.list = l]
      BY <1>1 DEF ReadCalls
    <3> QED
      BY <3>2, <3>3, <3>4
  <2> QED
    BY <2>1, <2>2
<1>3. PICK s \in {"info", "reply"}, t \in SUBSET Names, l \in SUBSET (Names \X Inodes) :
        call' = [call EXCEPT ![p] = [call[p] EXCEPT !.step = s, !.todo = t, !.list = l]]
  BY <1>2
<1>4. PICK c : c = [call[p] EXCEPT !.step = s, !.todo = t, !.list = l]
  OBVIOUS
<1>5. c \in ReadCalls /\ c.op = "readdir" /\ c.n = call[p].n
  BY <1>1, <1>4 DEF ReadCalls
<1>6. c \in CallSet /\ c # Idle /\ c.op \notin Adding
  BY <1>5, SMT, Z3T(30) DEF CallSet, Idle, Adding, Making
<1>7. GoodCall(p, c)
  BY <1>1, <1>5, <1>6, NextIsGood DEF BaseInv
<1>8. Quiet(p, c)
  BY <1>1, <1>5 DEF Quiet
<1> QED
  BY <1>1, <1>3, <1>4, <1>7, <1>8 DEF Proceeds

\* Every later step of a call before its reply.
LEMMA ServeProceeds ==
  ASSUME BaseInv, NEW p \in Procs, Serve(p)
  PROVE  \E c : Proceeds(p, c)
<1>1. CASE StatFails(p) \/ AddFailed(p)
  <2>1. /\ call[p] \in CallSet /\ call[p] # Idle /\ call[p].step \in {"stat", "failed"}
        /\ End(p) /\ UNCHANGED container
    BY <1>1, BaseTypes DEF StatFails, AddFailed
  <2>2. call[p] \in AddCalls
    BY <2>1 DEF CallSet, RemoveCalls, RenameCalls, ReadCalls
  <2>3. call[p].op \in Adding /\ call[p].step # "reply"
    BY <2>1, <2>2 DEF AddCalls
  <2>4. Quiet(p, Idle)
    BY <2>1, <2>3 DEF Quiet, Adding, Making
  <2> QED
    BY <2>1, <2>4, IdleIsGood DEF Proceeds, End
<1>2. CASE InfoFails(p) \/ ReaddirReturns(p)
  <2>1. call[p].op = "readdir" /\ End(p) /\ UNCHANGED container /\ call[p] # Idle
    BY <1>2, SMT, Z3T(30) DEF InfoFails, ReaddirReturns, Idle
  <2>2. Quiet(p, Idle)
    BY <2>1 DEF Quiet, Adding, Making
  <2> QED
    BY <2>1, <2>2, IdleIsGood DEF Proceeds, End
<1> QED
  BY <1>1, <1>2, StatProceeds, RenameProceeds, ReadProceeds DEF Serve

-------------------------------------------------------------------------------
(* What a reply does to go-fuse's tree                                      *)

\* The Inodes get new places.
LEMMA Reparents ==
  ASSUME NEW P \in [NodeIds -> SUBSET (NodeIds \X Names)],
         NEW last \in [NodeIds -> (NodeIds \X Names) \cup {None}], Reparent(P, last)
  PROVE  /\ parents' = P /\ NewestOK'
         /\ newest' \in [NodeIds -> (NodeIds \X Names) \cup {None}]
<1>1. PICK next \in [{m \in NodeIds : P[m] # {} /\ last[m] \notin P[m]} -> UNION {P[m] : m \in NodeIds}] :
        /\ \A m \in DOMAIN next : next[m] \in P[m]
        /\ parents' = P
        /\ newest' = [m \in NodeIds |-> IF P[m] = {} THEN None
                                       ELSE IF m \in DOMAIN next THEN next[m] ELSE last[m]]
  BY DEF Reparent
<1>2. ASSUME NEW m \in NodeIds
      PROVE  IF P[m] = {} THEN newest'[m] = None ELSE newest'[m] \in P[m]
  BY <1>1
<1>3. ASSUME NEW m \in NodeIds
      PROVE  newest'[m] \in (NodeIds \X Names) \cup {None}
  BY <1>2
<1>4. newest' \in [NodeIds -> (NodeIds \X Names) \cup {None}]
  BY <1>1, <1>3
<1> QED
  BY <1>1, <1>2, <1>4 DEF NewestOK

\* NewInode and AddChild: the reply finds the Node of the file or makes one.
LEMMA AddedJoins ==
  ASSUME BaseInv, NEW p \in Procs, Added(p)
  PROVE  \E c, m : Joins(p, c, m) /\ (FindsNode(c, m) \/ MakesNode(c, m))
<1>1. PICK c : c = call[p]
  OBVIOUS
<1>2. c \in AddCalls /\ c.step = "reply" /\ call' = [call EXCEPT ![p] = Idle] /\ UNCHANGED container
  BY <1>1, BaseTypes, CallKinds DEF Added, End
<1>3. PICK st : st = [ino |-> c.got, mode |-> c.mode]
  OBVIOUS
<1>4. Same(c) = {l \in known : stable[l] = st /\ st.ino # None}
  BY <1>3 DEF Same
<1>5. AddChild(c.n, c.x, Append(path[c.n], c.x), st, c.op \in Making)
  BY <1>1, <1>3 DEF Added
<1>6. PICK m \in NodeIds : SetEntry(c.n, c.x, m) /\ (FindsNode(c, m) \/ MakesNode(c, m))
  <2>1. CASE c.op \notin Making /\ Same(c) # {}
    <3>1. \E m \in Same(c) : SetEntry(c.n, c.x, m)
      BY <1>4, <1>5, <2>1 DEF AddChild
    <3>2. UNCHANGED <<path, stable, known>>
      BY <1>4, <1>5, <2>1 DEF AddChild
    <3>3. Same(c) \subseteq NodeIds
      BY DEF Same, BaseInv, NodeTypeOK
    <3> QED
      BY <2>1, <3>1, <3>2, <3>3 DEF FindsNode
  <2>2. CASE ~(c.op \notin Making /\ Same(c) # {})
    <3>1. PICK m \in NodeIds :
            /\ stable[m] = None
            /\ stable' = [stable EXCEPT ![m] = st]
            /\ path' = [path EXCEPT ![m] = Append(path[c.n], c.x)]
            /\ SetEntry(c.n, c.x, m)
            /\ known' = (known \ Same(c)) \cup {m}
      BY <1>4, <1>5, <2>2 DEF AddChild
    <3> QED
      BY <1>3, <2>2, <3>1 DEF MakesNode
  <2> QED
    BY <2>1, <2>2
<1>7. PICK e : e = <<c.n, c.x>>
  OBVIOUS
<1>8. e \in NodeIds \X Names
  BY <1>2, <1>7 DEF AddCalls
<1>9. PICK P : P = [l \in NodeIds |-> IF l = m THEN parents[l] \cup {e} ELSE parents[l] \ {e}]
  OBVIOUS
<1>10. P \in [NodeIds -> SUBSET (NodeIds \X Names)]
  BY <1>8, <1>9, BaseTypes DEF NewestOK
<1>11. [newest EXCEPT ![m] = e] \in [NodeIds -> (NodeIds \X Names) \cup {None}]
  BY <1>8 DEF BaseInv, NodeTypeOK
<1>12. Reparent(P, [newest EXCEPT ![m] = e])
  BY <1>6, <1>7, <1>9 DEF SetEntry
<1>13. parents' = P /\ NewestOK' /\ newest' \in [NodeIds -> (NodeIds \X Names) \cup {None}]
  BY <1>10, <1>11, <1>12, Reparents
<1>14. Joins(p, c, m)
  BY <1>1, <1>2, <1>7, <1>9, <1>13 DEF Joins
<1> QED
  BY <1>6, <1>14

\* RmChild after a removal.
LEMMA RemovedLeaves ==
  ASSUME BaseInv, NEW p \in Procs, Removed(p)
  PROVE  Replaces(p) /\ \E c : Leaves(p, c)
<1>1. PICK c : c = call[p]
  OBVIOUS
<1>2. c \in RemoveCalls
  BY <1>1, BaseTypes, CallKinds DEF Removed
<1>3. PICK P : P = [m \in NodeIds |-> parents[m] \ {<<c.n, c.x>>}]
  OBVIOUS
<1>4. P \in [NodeIds -> SUBSET (NodeIds \X Names)]
  BY <1>3, BaseTypes DEF NewestOK
<1>5. newest \in [NodeIds -> (NodeIds \X Names) \cup {None}]
  BY DEF BaseInv, NodeTypeOK
<1>6. parents' = P /\ NewestOK' /\ newest' \in [NodeIds -> (NodeIds \X Names) \cup {None}]
  BY <1>1, <1>3, <1>4, <1>5, Reparents DEF Removed
<1>7. call' = [call EXCEPT ![p] = Idle] /\ UNCHANGED <<container, path, stable, known>>
  BY DEF Removed, End
<1> QED
  BY <1>1, <1>2, <1>3, <1>6, <1>7 DEF Replaces, Leaves

\* MvChild after a Rename.
LEMMA RenamedShifts ==
  ASSUME BaseInv, NEW p \in Procs, Renamed(p)
  PROVE  Replaces(p) /\ \E c : Shifts(p, c)
<1>1. PICK c : c = call[p]
  OBVIOUS
<1>2. c \in RenameCalls /\ c.step = "reply"
  BY <1>1, BaseTypes, CallKinds DEF Renamed
<1>3. PICK e, f : e = <<c.n, c.x>> /\ f = <<c.to, c.y>>
  OBVIOUS
<1>4. e \in NodeIds \X Names /\ f \in NodeIds \X Names
  BY <1>2, <1>3 DEF RenameCalls
<1>5. PICK m \in Child(c.n, c.x) :
        Reparent([l \in NodeIds |-> IF l = m THEN (parents[l] \ {e}) \cup {f} ELSE parents[l] \ {f}],
                 [newest EXCEPT ![m] = f])
  BY <1>1, <1>3 DEF Renamed
<1>6. m \in NodeIds /\ e \in parents[m]
  BY <1>3, <1>5 DEF Child
<1>7. PICK P : P = [l \in NodeIds |-> IF l = m THEN (parents[l] \ {e}) \cup {f} ELSE parents[l] \ {f}]
  OBVIOUS
<1>8. P \in [NodeIds -> SUBSET (NodeIds \X Names)]
  BY <1>4, <1>7, BaseTypes DEF NewestOK
<1>9. [newest EXCEPT ![m] = f] \in [NodeIds -> (NodeIds \X Names) \cup {None}]
  BY <1>4 DEF BaseInv, NodeTypeOK
<1>10. parents' = P /\ NewestOK' /\ newest' \in [NodeIds -> (NodeIds \X Names) \cup {None}]
  BY <1>5, <1>7, <1>8, <1>9, Reparents
<1>11. call' = [call EXCEPT ![p] = Idle] /\ UNCHANGED <<container, path, stable, known>>
  BY DEF Renamed, End
<1>12. Shifts(p, c)
  BY <1>1, <1>2, <1>3, <1>6, <1>7, <1>10 DEF Shifts
<1> QED
  BY <1>10, <1>11, <1>12 DEF Replaces

-------------------------------------------------------------------------------
(* The steps, and what all of them keep                                     *)

\* Every step of the mount is one of five.
LEMMA StepCases ==
  ASSUME BaseInv, TreeNext
  PROVE  /\ RequestStep \/ ServeStep \/ JoinStep \/ ReplaceStep \/ OutsideStep
         /\ Watch /\ Blame
<1>1. ASSUME NEW p \in Procs, NEW n \in NodeIds, DirNode(n), Request(p, n), UNCHANGED <<nodes, outside>>
      PROVE  RequestStep
  BY <1>1, RequestBegins DEF RequestStep
<1>2. ASSUME NEW p \in Procs, Serve(p), UNCHANGED <<nodes, outside>>
      PROVE  ServeStep
  BY <1>2, ServeProceeds DEF ServeStep
<1>3. ASSUME NEW p \in Procs, Reply(p), UNCHANGED outside
      PROVE  JoinStep \/ ReplaceStep
  <2>1. CASE Added(p)
    BY <1>3, <2>1, AddedJoins DEF JoinStep
  <2>2. CASE Removed(p)
    BY <1>3, <2>2, RemovedLeaves DEF ReplaceStep
  <2>3. CASE Renamed(p)
    BY <1>3, <2>3, RenamedShifts DEF ReplaceStep
  <2> QED
    BY <1>3, <2>1, <2>2, <2>3 DEF Reply
<1>4. ASSUME OutsideMake
      PROVE  OutsideStep
  <2>1. PICK d, i \in Inodes, x \in Names, k \in OutsideKinds : Make(d, x, i, k)
    BY <1>4 DEF OutsideMake
  <2>2. k \in Kinds
    BY OutsideAssumption
  <2>3. Rebinds(d, x, i, i)
    BY <2>1, <2>2, Makes, BaseTypes DEF BaseInv
  <2> QED
    BY <1>4, <2>3 DEF OutsideMake, OutsideStep, Rebinds
<1>5. ASSUME OutsideRemove
      PROVE  OutsideStep
  <2>1. PICK d \in Inodes, x \in Names : Remove(d, x)
    BY <1>5 DEF OutsideRemove
  <2>2. Rebinds(d, x, None, ent[d][x])
    BY <2>1, Removes, BaseTypes DEF BaseInv
  <2> QED
    BY <1>5, <2>2 DEF OutsideRemove, OutsideStep, Rebinds
<1> QED
  BY <1>1, <1>2, <1>3, <1>4, <1>5 DEF TreeNext

\* The container stays a tree whose inodes in use are those with a name.
LEMMA StepContainer ==
  ASSUME BaseInv, RequestStep \/ ServeStep \/ JoinStep \/ ReplaceStep \/ OutsideStep
  PROVE  ContainerStep
<1>1. UNCHANGED container => ContainerStep
  BY Still, BaseTypes DEF BaseInv
<1>2. CASE RequestStep
  <2>1. PICK p \in Procs, n \in NodeIds : \E c : Begins(p, n, c)
    BY <1>2 DEF RequestStep
  <2>2. PICK c : UNCHANGED container \/ Adds(n, c) \/ Drops(n, c)
    BY <2>1 DEF Begins
  <2>3. CASE Adds(n, c)
    BY <2>3 DEF Adds, Rebinds
  <2>4. CASE Drops(n, c)
    BY <2>4 DEF Drops, Rebinds
  <2> QED
    BY <1>1, <2>2, <2>3, <2>4
<1>3. CASE ServeStep
  BY <1>1, <1>3 DEF ServeStep, Proceeds, Stats, Renames, Quiet
<1>4. CASE JoinStep
  BY <1>1, <1>4 DEF JoinStep, Joins
<1>5. CASE ReplaceStep
  BY <1>1, <1>5 DEF ReplaceStep, Replaces
<1>6. CASE OutsideStep
  BY <1>6 DEF OutsideStep
<1> QED
  BY <1>2, <1>3, <1>4, <1>5, <1>6

\* The Nodes stay typed, and none ever changes its path or its stable attributes.
LEMMA StepNodes ==
  ASSUME BaseInv, RequestStep \/ ServeStep \/ JoinStep \/ ReplaceStep \/ OutsideStep
  PROVE  /\ NodesType' /\ NodesOK'
         /\ \A m \in NodeIds : stable[m] # None => stable'[m] = stable[m] /\ path'[m] = path[m]
<1>1. NodesType /\ NodesOK
  BY DEF BaseInv, NodeTypeOK, NodesType, NewestOK
<1>2. CASE UNCHANGED nodes
  <2>1. path' = path /\ stable' = stable /\ parents' = parents /\ newest' = newest /\ known' = known
    BY <1>2 DEF nodes
  <2>2. NodesType'
    BY <1>1, <2>1 DEF NodesType, NewestOK
  <2>3. NodesOK'
    BY <1>1, <2>1 DEF NodesOK, DirNode
  <2> QED
    BY <2>1, <2>2, <2>3
<1>3. CASE ReplaceStep
  <2>0. PICK p \in Procs : \E c : Replaces(p) /\ (Leaves(p, c) \/ Shifts(p, c))
    BY <1>3 DEF ReplaceStep
  <2>1. PICK c : Replaces(p) /\ (Leaves(p, c) \/ Shifts(p, c))
    BY <2>0
  <2>2. path' = path /\ stable' = stable /\ known' = known
    BY <2>1 DEF Replaces
  <2>3. NodesType'
    BY <1>1, <2>1, <2>2 DEF NodesType, Replaces
  <2>4. ASSUME NEW m \in NodeIds, parents'[m] # {}
        PROVE  stable'[m] # None
    <3>1. parents[m] # {}
      BY <2>1, <2>4 DEF Leaves, Shifts
    <3> QED
      BY <1>1, <2>2, <3>1 DEF NodesOK
  <2>5. NodesOK'
    BY <1>1, <2>2, <2>4 DEF NodesOK, DirNode
  <2> QED
    BY <2>2, <2>3, <2>5
<1>4. CASE JoinStep
  <2>0. PICK p \in Procs : \E c, m : Joins(p, c, m) /\ (FindsNode(c, m) \/ MakesNode(c, m))
    BY <1>4 DEF JoinStep
  <2>1. PICK c, m : Joins(p, c, m) /\ (FindsNode(c, m) \/ MakesNode(c, m))
    BY <2>0
  <2>2. m \in NodeIds /\ c \in AddCalls /\ NewestOK' /\ c = call[p]
    BY <2>1 DEF Joins
  <2>3. \A l \in NodeIds : l # m /\ parents'[l] # {} => parents[l] # {}
    BY <2>1 DEF Joins
  <2>4. newest' \in [NodeIds -> (NodeIds \X Names) \cup {None}]
    BY <2>1 DEF Joins
  <2>5. CASE FindsNode(c, m)
    <3>1. path' = path /\ stable' = stable /\ known' = known /\ m \in known
      BY <2>5 DEF FindsNode, Same
    <3>2. NodesType'
      BY <1>1, <2>2, <2>4, <3>1 DEF NodesType
    <3>3. stable[m] # None
      BY <1>1, <3>1 DEF NodesType
    <3>4. NodesOK'
      BY <1>1, <2>3, <3>1, <3>3 DEF NodesOK, DirNode
    <3> QED
      BY <3>1, <3>2, <3>4
  <2>6. CASE MakesNode(c, m)
    <3>1. PICK st : st = [ino |-> c.got, mode |-> c.mode]
      OBVIOUS
    <3>2. /\ stable[m] = None /\ stable' = [stable EXCEPT ![m] = st]
          /\ path' = [path EXCEPT ![m] = Append(path[c.n], c.x)]
          /\ known' = (known \ Same(c)) \cup {m}
      BY <2>6, <3>1 DEF MakesNode
    <3>3. st \in StableAttrs /\ st # None
      BY <2>2, <3>1, NoneAssumption, SMT, Z3T(30) DEF AddCalls, StableAttrs
    <3>4. path' \in [NodeIds -> Seq(Names)]
      BY <1>1, <2>2, <3>2, SMT, Z3T(30) DEF NodesType, AddCalls
    <3>5. stable' \in [NodeIds -> StableAttrs \cup {None}]
      BY <1>1, <3>2, <3>3 DEF NodesType
    <3>6. \A l \in NodeIds : stable'[l] = IF l = m THEN st ELSE stable[l]
      BY <1>1, <2>2, <3>2 DEF NodesType
    <3>7. known' \subseteq {l \in NodeIds : stable'[l] # None} /\ m \notin known
      BY <1>1, <2>2, <3>2, <3>3, <3>6 DEF NodesType
    <3>8. NodesType'
      BY <2>2, <2>4, <3>4, <3>5, <3>7 DEF NodesType
    <3>9. \A l \in NodeIds : stable[l] # None => stable'[l] = stable[l] /\ path'[l] = path[l]
      BY <1>1, <2>2, <3>2, <3>6 DEF NodesType
    <3>10. \A l \in NodeIds : parents'[l] # {} => stable'[l] # None
      BY <1>1, <2>3, <3>3, <3>6 DEF NodesOK
    <3>11. ASSUME NEW l \in NodeIds, DirNode(l)'
           PROVE  stable'[l].ino \in Inodes
      <4>1. CASE l = m
        <5>1. st.mode = "dir" /\ stable'[l] = st
          BY <3>6, <3>11, <4>1 DEF DirNode
        <5>2. c.mode = "dir" /\ c.op \in Adding /\ c.step = "reply" /\ c.got \in Inodes \cup {None}
          BY <2>1, <2>2, <3>1, <5>1, SMT, Z3T(30) DEF Joins, AddCalls
        <5>3. c.got # None
          BY <2>2, <5>2 DEF BaseInv, CallsOK
        <5> QED
          BY <3>1, <5>1, <5>2, <5>3, SMT, Z3T(30)
      <4>2. CASE l # m
        BY <1>1, <3>6, <3>11, <4>2 DEF NodesOK, DirNode
      <4> QED
        BY <4>1, <4>2
    <3>12. ASSUME NEW l \in known', NEW k \in known', stable'[l] = stable'[k], stable'[l].ino # None
           PROVE  l = k
      <4>1. ASSUME NEW j \in known \ Same(c), stable[j] = st, st.ino # None
            PROVE  FALSE
        BY <3>1, <4>1, SMT, Z3T(30) DEF Same
      <4>2. l \in NodeIds /\ k \in NodeIds
        BY <3>7
      <4>3. CASE l = m
        BY <3>2, <3>6, <3>12, <4>1, <4>2, <4>3
      <4>4. CASE k = m
        BY <3>2, <3>6, <3>12, <4>1, <4>2, <4>4
      <4>5. CASE l # m /\ k # m
        BY <1>1, <3>2, <3>6, <3>12, <4>2, <4>5, SMT, Z3T(30) DEF NodesOK
      <4> QED
        BY <4>3, <4>4, <4>5
    <3>13. ASSUME NEW l \in NodeIds, DirNode(l)'
           PROVE  \E k \in known' : stable'[k] = stable'[l]
      <4>1. m \in known' /\ stable'[m] = st
        BY <2>2, <3>2, <3>6
      <4>2. CASE l = m
        BY <4>1, <4>2
      <4>3. CASE l # m
        <5>1. stable'[l] = stable[l] /\ DirNode(l)
          BY <3>6, <3>13, <4>3 DEF DirNode
        <5>2. PICK k \in known : stable[k] = stable[l]
          BY <1>1, <5>1 DEF NodesOK
        <5>3. CASE k \in Same(c)
          BY <3>1, <4>1, <5>1, <5>2, <5>3 DEF Same
        <5>4. CASE k \notin Same(c)
          BY <1>1, <3>2, <3>6, <3>7, <5>1, <5>2, <5>4 DEF NodesType
        <5> QED
          BY <5>3, <5>4
      <4> QED
        BY <4>2, <4>3
    <3>14. NodesOK'
      BY <3>10, <3>11, <3>12, <3>13 DEF NodesOK
    <3> QED
      BY <3>8, <3>9, <3>14
  <2> QED
    BY <2>1, <2>5, <2>6
<1> QED
  BY <1>2, <1>3, <1>4 DEF RequestStep, ServeStep, OutsideStep
===============================================================================
