---------------------------- MODULE NodeTreeCalls -----------------------------
(***************************************************************************)
(* The calls of NodeTree, for any tree, mount, number of calls and of      *)
(* changes by other processes: the types and the locks are kept, a call    *)
(* that nothing disturbs finds what it relies on, and a listing is         *)
(* faithful.                                                               *)
(***************************************************************************)
EXTENDS NodeTreeLemmas

\* A leaf of first-order logic and sets names no prover; the others go to SMT and, should it
\* run out of time, to Z3.
USE ZenonT(30)

\* Getattr before and after a step.
LEMMA GetattrIs ==
  ASSUME NEW n
  PROVE  /\ Getattr(n) = ResolveIn(ent, kind, path[n])
         /\ Getattr(n)' = ResolveIn(ent', kind', path'[n])
BY DEF Getattr, Resolve, ResolveIn, IsDir, DirIn

\* The calls in flight stay typed, and the locks of go-fuse keep them apart.
LEMMA StepCalls ==
  ASSUME BaseInv, RequestStep \/ ServeStep \/ JoinStep \/ ReplaceStep \/ OutsideStep
  PROVE  CallsOK'
<1>1. \A n \in NodeIds : DirNode(n) => DirNode(n)'
  BY StepNodes DEF DirNode
<1>2. CallsOK
  BY DEF BaseInv
<1>3. ASSUME NEW p \in Procs, NEW c, GoodCall(p, c), call' = [call EXCEPT ![p] = c]
      PROVE  CallsOK'
  BY <1>1, <1>2, <1>3, CallsKept
<1>4. CASE RequestStep
  BY <1>3, <1>4 DEF RequestStep, Begins, Start
<1>5. CASE ServeStep
  BY <1>3, <1>5 DEF ServeStep, Proceeds
<1>6. ASSUME NEW p \in Procs, call' = [call EXCEPT ![p] = Idle]
      PROVE  CallsOK'
  BY <1>3, <1>6, IdleIsGood
<1>7. CASE JoinStep \/ ReplaceStep
  BY <1>6, <1>7 DEF JoinStep, ReplaceStep, Joins, Replaces
<1>8. CASE OutsideStep
  <2>1. call' = call
    BY <1>8 DEF OutsideStep
  <2>2. \A p \in Procs : Dirs(p)' = Dirs(p) /\ Dirs(p) \subseteq NodeIds
    <3>1. ASSUME NEW p \in Procs
          PROVE  Dirs(p) \subseteq NodeIds
      <4>1. call[p] \in CallSet
        BY BaseTypes
      <4>2. call[p].op = "rename" => call[p].to \in NodeIds
        BY <4>1, CallKinds DEF RenameCalls
      <4> QED
        BY <4>1, <4>2, CallKinds DEF Dirs
    <3> QED
      BY <2>1, <3>1 DEF Dirs
  <2> QED
    BY <1>1, <1>2, <2>1, <2>2, SMT, Z3T(30) DEF CallsOK
<1> QED
  BY <1>4, <1>5, <1>7, <1>8

\* What the properties remember is typed too.
LEMMA StepMoved ==
  ASSUME BaseInv, Blame
  PROVE  moved' \subseteq Inodes
<1>1. ASSUME NEW r \in Returned
      PROVE  r.got \in Inodes \cup {None}
  <2>1. PICK p \in Procs : r = call[p] /\ call[p].op \in Adding
    BY <1>1 DEF Returned
  <2>2. call[p] \in AddCalls
    BY <2>1, BaseTypes, CallKinds
  <2> QED
    BY <2>1, <2>2 DEF AddCalls
<1> DEFINE renamed == Taken \cup IF Proper \/ ent' = ent THEN {}
                                 ELSE {i \in Inodes : NamesOf(i)' # NamesOf(i)}
           changed == {i \in Inodes : \E j \in renamed : Within(i, j)}
           missed == {c.got : c \in {r \in Returned : ~Found(r)}}
           renewed == {c.got : c \in {r \in Returned : Renewed(r)}}
<1>2. moved' = ((moved \cup changed \cup missed) \ renewed) \ {None}
  BY DEF Blame
<1>3. missed \subseteq Inodes \cup {None}
  BY <1>1
<1>4. changed \subseteq Inodes
  OBVIOUS
<1>5. moved \subseteq Inodes
  BY DEF BaseInv, NodeTypeOK
<1> HIDE DEF changed, missed, renewed
<1> QED
  BY <1>2, <1>3, <1>4, <1>5

\* What a call has seen is typed.
LEMMA StepSeen ==
  ASSUME BaseInv, Watch, ContainerType', CallsOK', path' \in [NodeIds -> Seq(Names)]
  PROVE  seen' \in [Procs -> [calm : BOOLEAN, stay : SUBSET (Names \X Inodes),
                              ever : SUBSET (Names \X Inodes)]]
<1> DEFINE Lists == SUBSET (Names \X Inodes)
           Seens == [calm : BOOLEAN, stay : Lists, ever : Lists]
<1>1. ASSUME NEW p \in Procs
      PROVE  Listing(p)' \in Lists
  <2>1. CASE call'[p].op = "readdir"
    <3>1. call'[p] \in CallSet
      BY DEF CallsOK, CallSet
    <3>2. call'[p].n \in NodeIds
      BY <2>1, <3>1, CallKinds DEF ReadCalls
    <3>3. PICK d : d = ResolveIn(ent', kind', path'[call'[p].n])
      OBVIOUS
    <3>4. path'[call'[p].n] \in Seq(Names)
      BY <3>2
    <3>5. Len(path'[call'[p].n]) \in Nat
      BY <3>4, SMT, Z3T(30)
    <3>6. d \in Inodes \cup {None}
      BY <3>3, <3>5, ResolveType DEF ContainerType
    <3>7. Getattr(call[p].n)' = d
      BY <3>3 DEF Getattr, Resolve, ResolveIn, IsDir, DirIn
    <3>8. Listing(p)' = Entries(d)'
      BY <2>1, <3>7 DEF Listing, Entries, IsDir
    <3>9. Entries(d)' \subseteq Names \X Inodes
      BY <3>6, SMT, Z3T(30) DEF Entries, ContainerType, IsDir
    <3> QED
      BY <3>8, <3>9
  <2>2. CASE call'[p].op # "readdir"
    BY <2>2 DEF Listing
  <2> QED
    BY <2>1, <2>2
<1>2. \A p \in Procs : seen[p] \in Seens
  BY DEF BaseInv, NodeTypeOK
<1>3. Unseen \in Seens
  BY DEF Unseen
<1>4. ASSUME NEW p \in Procs
      PROVE  /\ [calm |-> Placed(p)', stay |-> Listing(p)', ever |-> Listing(p)'] \in Seens
             /\ [calm |-> seen[p].calm /\ ~Disturbed(p), stay |-> seen[p].stay \cap Listing(p)',
                 ever |-> seen[p].ever \cup Listing(p)'] \in Seens
  <2>1. Placed(p)' \in BOOLEAN
    BY DEF Placed
  <2>2. (seen[p].calm /\ ~Disturbed(p)) \in BOOLEAN
    OBVIOUS
  <2>3. seen[p].stay \cap Listing(p)' \in Lists /\ seen[p].ever \cup Listing(p)' \in Lists
    BY <1>1, <1>2
  <2> QED
    BY <1>1, <2>1, <2>2, <2>3
<1>5. ASSUME NEW p \in Procs
      PROVE  (IF call'[p] = Idle THEN Unseen
              ELSE IF call[p] = Idle
                THEN [calm |-> Placed(p)', stay |-> Listing(p)', ever |-> Listing(p)']
                ELSE [calm |-> seen[p].calm /\ ~Disturbed(p), stay |-> seen[p].stay \cap Listing(p)',
                      ever |-> seen[p].ever \cup Listing(p)']) \in Seens
  <2> HIDE DEF Seens
  <2> QED
    BY <1>3, <1>4
<1>6. seen' \in [Procs -> Seens]
  <2> HIDE DEF Seens
  <2> QED
    BY <1>5 DEF Watch
<1> QED
  BY <1>6

\* The base of the invariant is inductive.
LEMMA BaseInit ==
  ASSUME TreeInit
  PROVE  BaseInv
<1>1. /\ ContainerType /\ ContainerOK /\ stable[RootNode].ino \in Inodes
  BY InitialContainer
<1>2. PICK r : stable = [m \in NodeIds |-> IF m = RootNode THEN [ino |-> r, mode |-> "dir"] ELSE None]
  BY DEF TreeInit
<1>3. r \in Inodes
  BY <1>1, <1>2, TreeAssumption
<1>4. stable \in [NodeIds -> StableAttrs \cup {None}]
  BY <1>2, <1>3 DEF StableAttrs, Modes
<1>5. stable[RootNode] # None
  BY <1>2, <1>3, NoneAssumption, TreeAssumption, SMT, Z3T(30) DEF StableAttrs, Modes
<1>6. path \in [NodeIds -> Seq(Names)]
  BY TreeAssumption, SMT, Z3T(30) DEF TreeInit
<1>7. parents = [m \in NodeIds |-> {}] /\ newest = [m \in NodeIds |-> None] /\ known = {RootNode}
  BY DEF TreeInit
<1>8. moved = {} /\ outside = 0 /\ call = [p \in Procs |-> Idle] /\ seen = [p \in Procs |-> Unseen]
  BY DEF TreeInit
<1>9. outside \in 0 .. MaxOutside
  BY <1>8, TreeAssumption, SMT, Z3T(30)
<1>10. seen \in [Procs -> [calm : BOOLEAN, stay : SUBSET (Names \X Inodes),
                           ever : SUBSET (Names \X Inodes)]]
  BY <1>8 DEF Unseen
<1>11. NodeTypeOK
  BY <1>1, <1>4, <1>5, <1>6, <1>7, <1>8, <1>9, <1>10, TreeAssumption DEF NodeTypeOK, ContainerType
<1>12. CallsOK
  <2>1. call \in [Procs -> CallSet]
    BY <1>8 DEF CallSet
  <2>2. \A p \in Procs : Dirs(p) = {} /\ call[p].op \notin Adding
    BY <1>8 DEF Dirs, Idle, Adding, Making
  <2> QED
    BY <2>1, <2>2 DEF CallsOK, CallSet
<1>13. NodesOK
  BY <1>2, <1>3, <1>7 DEF NodesOK, DirNode
<1> QED
  BY <1>1, <1>11, <1>12, <1>13 DEF BaseInv

\* Every step keeps the base of the invariant.
LEMMA BaseStep ==
  ASSUME BaseInv, [TreeNext]_treeVars
  PROVE  BaseInv'
<1>1. CASE TreeNext
  <2>1. RequestStep \/ ServeStep \/ JoinStep \/ ReplaceStep \/ OutsideStep
    BY <1>1, StepCases
  <2>2. Watch /\ Blame
    BY <1>1, StepCases
  <2>3. ContainerType' /\ ContainerOK'
    BY <2>1, StepContainer DEF ContainerStep
  <2>4. NodesType' /\ NodesOK'
    BY <2>1, StepNodes
  <2>5. CallsOK'
    BY <2>1, StepCalls
  <2>6. moved' \subseteq Inodes
    BY <2>2, StepMoved
  <2>7. seen' \in [Procs -> [calm : BOOLEAN, stay : SUBSET (Names \X Inodes),
                             ever : SUBSET (Names \X Inodes)]]
    BY <2>2, <2>3, <2>4, <2>5, StepSeen DEF NodesType
  <2>8. outside' \in 0 .. MaxOutside
    <3>1. outside \in 0 .. MaxOutside /\ MaxOutside \in Nat
      BY TreeAssumption DEF BaseInv, NodeTypeOK
    <3>2. outside' = outside \/ (outside < MaxOutside /\ outside' = outside + 1)
      BY <2>1 DEF RequestStep, ServeStep, JoinStep, ReplaceStep, OutsideStep
    <3> QED
      BY <3>1, <3>2, SMT, Z3T(30)
  <2>9. NodeTypeOK'
    BY <2>3, <2>4, <2>6, <2>7, <2>8 DEF NodeTypeOK, ContainerType, NodesType, NewestOK
  <2> QED
    BY <2>3, <2>4, <2>5, <2>9 DEF BaseInv
<1>2. CASE UNCHANGED treeVars
  <2>1. /\ ent' = ent /\ kind' = kind /\ path' = path /\ stable' = stable /\ parents' = parents
        /\ newest' = newest /\ known' = known /\ call' = call /\ outside' = outside
        /\ moved' = moved /\ seen' = seen
    BY <1>2 DEF treeVars, container, nodes
  <2>2. NodeTypeOK'
    BY <2>1 DEF BaseInv, NodeTypeOK
  <2>3. CallsOK'
    BY <2>1, SMT, Z3T(30) DEF BaseInv, CallsOK, Dirs, DirNode
  <2>4. NodesOK'
    BY <2>1 DEF BaseInv, NodesOK, DirNode
  <2>5. ContainerOK'
    BY <2>1, SMT, Z3T(30) DEF BaseInv, ContainerOK, IsDir, HasName, OneName
  <2> QED
    BY <2>2, <2>3, <2>4, <2>5 DEF BaseInv
<1> QED
  BY <1>1, <1>2

-------------------------------------------------------------------------------
(* Calm calls                                                               *)

\* The call changed by a step is one.
LEMMA OneCall ==
  ASSUME BaseInv, AnyStep, NEW p \in Procs, call'[p] # call[p]
  PROVE  /\ call' = [call EXCEPT ![p] = call'[p]]
         /\ \/ \E n \in NodeIds : Begins(p, n, call'[p]) /\ UNCHANGED <<nodes, outside>>
            \/ Proceeds(p, call'[p]) /\ UNCHANGED <<nodes, outside>>
            \/ call[p] # Idle /\ call'[p] = Idle
<1>1. call \in [Procs -> CallSet]
  BY BaseTypes
<1>2. ASSUME NEW q \in Procs, NEW c, call' = [call EXCEPT ![q] = c]
      PROVE  q = p /\ c = call'[p]
  BY <1>1, <1>2
<1>3. CASE RequestStep
  <2>1. PICK q \in Procs, n \in NodeIds : \E c : Begins(q, n, c) /\ UNCHANGED <<nodes, outside>>
    BY <1>3 DEF RequestStep
  <2>2. PICK c : Begins(q, n, c) /\ UNCHANGED <<nodes, outside>>
    BY <2>1
  <2>3. call' = [call EXCEPT ![q] = c]
    BY <2>2 DEF Begins, Start
  <2>4. q = p /\ c = call'[p]
    BY <1>2, <2>3
  <2> QED
    BY <2>2, <2>3, <2>4
<1>4. CASE ServeStep
  <2>1. PICK q \in Procs : \E c : Proceeds(q, c) /\ UNCHANGED <<nodes, outside>>
    BY <1>4 DEF ServeStep
  <2>2. PICK c : Proceeds(q, c) /\ UNCHANGED <<nodes, outside>>
    BY <2>1
  <2>3. call' = [call EXCEPT ![q] = c]
    BY <2>2 DEF Proceeds
  <2>4. q = p /\ c = call'[p]
    BY <1>2, <2>3
  <2> QED
    BY <2>2, <2>3, <2>4
<1>5. CASE JoinStep
  <2>1. PICK q \in Procs : \E c, m : Joins(q, c, m)
    BY <1>5 DEF JoinStep
  <2>2. call' = [call EXCEPT ![q] = Idle] /\ call[q] \in AddCalls
    BY <2>1 DEF Joins
  <2>3. q = p /\ Idle = call'[p]
    BY <1>2, <2>2
  <2> QED
    BY <2>2, <2>3
<1>6. CASE ReplaceStep
  <2>1. PICK q \in Procs : Replaces(q)
    BY <1>6 DEF ReplaceStep
  <2>2. call' = [call EXCEPT ![q] = Idle]
    BY <2>1 DEF Replaces
  <2>3. q = p /\ Idle = call'[p]
    BY <1>2, <2>2
  <2> QED
    BY <2>2, <2>3
<1>7. CASE OutsideStep
  BY <1>7 DEF OutsideStep
<1> QED
  BY <1>3, <1>4, <1>5, <1>6, <1>7 DEF AnyStep

\* A step changes the container by a request, by the call of a Rename, or from outside.
LEMMA ContainerCases ==
  ASSUME BaseInv, AnyStep
  PROVE  \/ UNCHANGED container
         \/ \E q \in Procs, n \in NodeIds : \E c :
              Begins(q, n, c) /\ (Adds(n, c) \/ Drops(n, c)) /\ UNCHANGED <<nodes, outside>>
         \/ \E q \in Procs : \E c : Proceeds(q, c) /\ Renames(q, c) /\ UNCHANGED <<nodes, outside>>
         \/ OutsideStep
<1>3. CASE RequestStep
  BY <1>3 DEF RequestStep, Begins
<1>4. CASE ServeStep
  BY <1>4 DEF ServeStep, Proceeds, Stats, Quiet
<1>5. CASE JoinStep
  BY <1>5 DEF JoinStep, Joins
<1>6. CASE ReplaceStep
  BY <1>6 DEF ReplaceStep, Replaces
<1> QED
  BY <1>3, <1>4, <1>5, <1>6 DEF AnyStep

\* go-fuse finds one Node for a directory, and a call that changes it has it alone.
LEMMA OneDirNode ==
  ASSUME BaseInv, NEW m \in known, NEW n \in known, DirNode(m), DirNode(n),
         stable[m].ino = stable[n].ino
  PROVE  m = n
<1>1. m \in NodeIds /\ n \in NodeIds /\ stable[m] # None /\ stable[n] # None
  BY DEF BaseInv, NodeTypeOK
<1>2. stable[m] \in StableAttrs /\ stable[n] \in StableAttrs
  BY <1>1 DEF BaseInv, NodeTypeOK
<1>3. stable[m] = stable[n]
  BY <1>2, SMT, Z3T(30) DEF StableAttrs, DirNode
<1>4. stable[m].ino \in Inodes /\ None \notin Inodes
  BY <1>1, TreeAssumption DEF BaseInv, NodesOK
<1> QED
  BY <1>3, <1>4 DEF BaseInv, NodesOK

\* stat before and after a step.
LEMMA StatIs ==
  ASSUME NEW n, NEW x
  PROVE  stat(n, x) = StatIn(ent, kind, path[n], x) /\ stat(n, x)' = StatIn(ent', kind', path'[n], x)
BY DEF stat, StatIn, At, Getattr, Resolve, ResolveIn, IsDir, DirIn

\* Inode.Path before a step.
LEMMA TreePathIs ==
  ASSUME NEW n
  PROVE  TreePath(n) = TreePathIn(newest, n)
BY DEF TreePath, TreePathIn

\* The promise to calm calls before and after a step.
LEMMA CalmIs ==
  /\ CalmOK <=> \A p \in Procs : seen[p].calm => CalmCall(p)
  /\ CalmOK' <=> \A p \in Procs : seen'[p].calm => CalmIn(call'[p], known', stable', path', ent', kind')
<1>1. ASSUME NEW p
      PROVE  /\ Getattr(call[p].n) = ResolveIn(ent, kind, path[call[p].n])
             /\ Getattr(call[p].n)' = ResolveIn(ent', kind', path'[call'[p].n])
             /\ stat(call[p].n, call[p].x) = StatIn(ent, kind, path[call[p].n], call[p].x)
             /\ stat(call[p].n, call[p].x)' = StatIn(ent', kind', path'[call'[p].n], call'[p].x)
             /\ Resolve(call[p].dst) = ResolveIn(ent, kind, call[p].dst)
             /\ Resolve(call[p].dst)' = ResolveIn(ent', kind', call'[p].dst)
  BY DEF stat, StatIn, At, Getattr, Resolve, ResolveIn, IsDir, DirIn
<1>2. ASSUME NEW p
      PROVE  (InPlace(call[p].n) <=> call[p].n \in known /\ ResolveIn(ent, kind, path[call[p].n]) = stable[call[p].n].ino)
  BY <1>1 DEF InPlace
<1>3. ASSUME NEW p
      PROVE  (InPlace(call[p].n)' <=> call'[p].n \in known' /\ ResolveIn(ent', kind', path'[call'[p].n]) = stable'[call'[p].n].ino)
  BY <1>1 DEF InPlace
<1>4. CalmOK <=> \A p \in Procs : seen[p].calm => CalmCall(p)
  BY <1>1, <1>2, SMT, Z3T(30) DEF CalmOK, CalmCall, CalmIn
<1>5. CalmOK' <=> \A p \in Procs : seen'[p].calm => CalmIn(call'[p], known', stable', path', ent', kind')
  BY <1>1, <1>3, SMT, Z3T(30) DEF CalmOK, CalmIn
<1> QED
  BY <1>4, <1>5

\* A call is placed when it begins.
LEMMA PlacedIs ==
  ASSUME NEW p, Placed(p)'
  PROVE  /\ call'[p].op \in {"mkdir", "link"} =>
              call'[p].n \in known' /\ ResolveIn(ent', kind', path'[call'[p].n]) = stable'[call'[p].n].ino
         /\ call'[p].op = "rename" =>
              /\ call'[p].to \in known'
              /\ ResolveIn(ent', kind', Mount \o TreePathIn(newest', call'[p].to)) = stable'[call'[p].to].ino
<1>1. /\ Getattr(call[p].n)' = ResolveIn(ent', kind', path'[call'[p].n])
      /\ TreePath(call[p].to)' = TreePathIn(newest', call'[p].to)
      /\ Resolve(Mount \o TreePath(call[p].to))' = ResolveIn(ent', kind', Mount \o TreePath(call[p].to)')
  <2>1. Getattr(call[p].n)' = ResolveIn(ent', kind', path'[call'[p].n])
    BY DEF Getattr, Resolve, ResolveIn, IsDir, DirIn
  <2>2. TreePath(call[p].to)' = TreePathIn(newest', call'[p].to)
    BY DEF TreePath, TreePathIn
  <2>3. Resolve(Mount \o TreePath(call[p].to))' = ResolveIn(ent', kind', Mount \o TreePath(call[p].to)')
    BY DEF Resolve, ResolveIn, IsDir, DirIn
  <2> QED
    BY <2>1, <2>2, <2>3
<1>2. call'[p].op \in {"mkdir", "link"} => InPlace(call[p].n)'
  BY DEF Placed
<1>3. call'[p].op = "rename" =>
        call'[p].to \in known' /\ Resolve(Mount \o TreePath(call[p].to))' = stable'[call'[p].to].ino
  BY DEF Placed
<1> QED
  BY <1>1, <1>2, <1>3 DEF InPlace

\* The directory a request changes through is reached by the same path afterwards.
LEMMA SamePlace ==
  ASSUME BaseInv, ContainerStep, NEW d \in Inodes, NEW t \in Inodes,
         d # t, Changed \subseteq {t}, Entries(t) = {}
  PROVE  /\ kind'[d] = kind[d]
         /\ \A s : Len(s) \in Nat /\ ResolveIn(ent, kind, s) = d => ResolveIn(ent', kind', s) = d
<1>1. ContainerType /\ ContainerOK
  BY BaseTypes DEF BaseInv
<1>2. d \in Kept
  BY <1>1, KeptAll
<1>3. kind'[d] = kind[d]
  BY <1>2, KeptKind
<1>4. ASSUME NEW s, Len(s) \in Nat, ResolveIn(ent, kind, s) = d
      PROVE  ResolveIn(ent', kind', s) = d
  <2>1. Resolve(s) = d
    BY <1>4, ResolveIs
  <2>2. Resolve(s)' = d
    BY <1>1, <1>2, <1>4, <2>1, KeptPath
  <2> QED
    BY <2>2, ResolveIs
<1> QED
  BY <1>3, <1>4

\* A call begins.
LEMMA CalmBegins ==
  ASSUME BaseInv, NEW p \in Procs, NEW n \in NodeIds, NEW c, Begins(p, n, c), c = call'[p],
         UNCHANGED <<nodes, outside>>, Placed(p)'
  PROVE  CalmIn(call'[p], known', stable', path', ent', kind')
<1>1. path' = path /\ stable' = stable /\ newest' = newest /\ known' = known
  BY DEF nodes
<1>2. CASE c.op \in {"mkdir", "link"}
  <2>1. Adds(n, c) /\ c.n = n
    BY <1>2 DEF Begins
  <2>2. PICK i \in Inodes : /\ Rebinds(Getattr(n), c.x, i, i)
                            /\ c.made = i /\ c.step = "stat"
    BY <1>2, <2>1 DEF Adds
  <2>3. PICK d : d = Getattr(n)
    OBVIOUS
  <2>4. /\ ContainerStep /\ Changed = {i} /\ Entries(i) = {} /\ d \in Inodes \ {i} /\ IsDir(d)
        /\ c.x \in Names => ent'[d][c.x] = i
    BY <2>2, <2>3 DEF Rebinds
  <2>5. c.x \in Names
    <3>1. c \in AddCalls
      BY <1>2, CallKinds DEF Begins, GoodCall, Adding, Making
    <3> QED
      BY <3>1 DEF AddCalls
  <2>6. Len(path[n]) \in Nat
    BY BaseTypes
  <2>7. ResolveIn(ent', kind', path[n]) = d /\ kind'[d] = kind[d]
    BY <2>3, <2>4, <2>6, SamePlace, GetattrIs, SMT, Z3T(30)
  <2>8. StatIn(ent', kind', path[n], c.x) = i
    BY <2>4, <2>5, <2>7 DEF StatIn, DirIn, IsDir
  <2>9. c.n \in known' /\ ResolveIn(ent', kind', path'[c.n]) = stable'[c.n].ino
    BY <1>2, PlacedIs
  <2>10. i # None
    BY TreeAssumption
  <2> QED
    BY <1>1, <1>2, <2>1, <2>2, <2>8, <2>9, <2>10 DEF CalmIn
<1>3. CASE c.op = "rename"
  <2>1. c.step = "call" /\ c.dst = Cwd \o TreePathIn(newest, c.to)
    BY <1>3, TreePathIs DEF Begins
  <2>2. /\ c.to \in known'
        /\ ResolveIn(ent', kind', Mount \o TreePathIn(newest', c.to)) = stable'[c.to].ino
    BY <1>3, PlacedIs
  <2> QED
    BY <1>1, <1>3, <2>1, <2>2 DEF CalmIn
<1> QED
  BY <1>2, <1>3 DEF CalmIn

\* A calm call takes its second step.
LEMMA CalmProceeds ==
  ASSUME BaseInv, NEW p \in Procs, NEW c, Proceeds(p, c), c = call'[p], c # Idle,
         UNCHANGED <<nodes, outside>>, CalmCall(p)
  PROVE  CalmIn(call'[p], known', stable', path', ent', kind')
<1>1. stable' = stable /\ known' = known
  BY DEF nodes
<1>2. CASE Stats(p, c)
  <2>1. c.op \in {"mkdir", "link"} => c.got = c.made /\ c.step = "reply"
    BY <1>2, StatIs DEF Stats, CalmCall, CalmIn
  <2>2. c.step \in {"failed", "reply"} /\ c.op # "rename"
    BY <1>2 DEF Stats, Adding, Making
  <2> QED
    BY <2>1, <2>2 DEF CalmIn
<1>3. CASE Renames(p, c)
  <2>1. Mount = Cwd => Resolve(call[p].dst) = stable[c.to].ino /\ c.to \in known
    BY <1>3, ResolveIs DEF Renames, CalmCall, CalmIn
  <2>2. c.op = "rename" /\ c.step = "reply" /\ c.got # None /\ ent'[Resolve(call[p].dst)][c.y] = c.got
    BY <1>3, TreeAssumption DEF Renames
  <2> QED
    BY <1>1, <2>1, <2>2 DEF CalmIn
<1>4. CASE Quiet(p, c)
  BY <1>4 DEF Quiet, CalmIn
<1> QED
  BY <1>2, <1>3, <1>4 DEF Proceeds

\* Another call changes the container through a Node in place: the name that p relies on in
\* the directory of D is another one.
LEMMA OtherName ==
  ASSUME BaseInv, NEW p \in Procs, NEW q \in Procs \ {p}, NEW n \in NodeIds, NEW c, Begins(q, n, c),
         InPlace(n), NEW D \in known, D \in Dirs(p), call[p].op \notin Sharing,
         Getattr(n) = stable[D].ino
  PROVE  FALSE
<1>1. GoodCall(q, c) /\ c # Idle /\ c.n = n /\ n \in DirsOf(c)
  BY DEF Begins, DirsOf
<1>2. DirNode(n) /\ DirNode(D)
  BY <1>1 DEF GoodCall, BaseInv, CallsOK
<1>3. n = D
  BY <1>2, OneDirNode DEF InPlace
<1> QED
  BY <1>1, <1>3 DEF GoodCall

\* Another call begins.
LEMMA CalmWaits ==
  ASSUME BaseInv, NEW p \in Procs, NEW q \in Procs \ {p}, NEW n \in NodeIds, NEW c, Begins(q, n, c),
         Adds(n, c) \/ Drops(n, c), UNCHANGED <<nodes, outside>>, InPlace(n), call'[p] = call[p],
         CalmCall(p), call[p].op = "rename" => kind'[stable[call[p].to].ino] = "dir"
  PROVE  CalmIn(call'[p], known', stable', path', ent', kind')
<1>1. path' = path /\ stable' = stable /\ known' = known
  BY DEF nodes
<1>2. PICK d, v, t : /\ Rebinds(d, c.x, v, t) /\ d = Getattr(n) /\ t \in Inodes
                     /\ kind[t] = "free" \/ kind'[t] # "dir"
  <2>1. CASE Adds(n, c)
    <3>1. PICK i \in Inodes : Rebinds(Getattr(n), c.x, i, i) /\ (kind[i] = "free" \/ kind'[i] # "dir")
      BY <2>1 DEF Adds
    <3> QED
      BY <3>1
  <2>2. CASE Drops(n, c)
    <3>1. PICK i \in Inodes : Rebinds(Getattr(n), c.x, None, i) /\ kind'[i] # "dir"
      BY <2>2 DEF Drops
    <3> QED
      BY <3>1
  <2> QED
    BY <2>1, <2>2
<1>3. /\ ContainerStep /\ Changed = {t} /\ Entries(t) = {} /\ d \in Inodes \ {t}
      /\ \A b \in Inodes, y \in Names : ~(b = d /\ y = c.x) => ent'[b][y] = ent[b][y]
  BY <1>2 DEF Rebinds
<1>4. ContainerOK
  BY DEF BaseInv
<1>5. call[p] \in CallSet
  BY BaseTypes
<1>6. CASE call[p].op \in {"mkdir", "link"} /\ call[p].step = "stat"
  <2>1. call[p] \in AddCalls
    BY <1>5, <1>6, CallKinds DEF Adding, Making
  <2>2. PICK m, x : m = call[p].n /\ x = call[p].x
    OBVIOUS
  <2>3. m \in NodeIds /\ x \in Names /\ m \in known /\ call[p].made # None
    BY <1>6, <2>1, <2>2 DEF AddCalls, CalmCall, CalmIn
  <2>4. PICK D : D = ResolveIn(ent, kind, path[m])
    OBVIOUS
  <2>5. D = stable[m].ino /\ StatIn(ent, kind, path[m], x) = call[p].made
    BY <1>6, <2>2, <2>4 DEF CalmCall, CalmIn
  <2>6. IsDir(D) /\ ent[D][x] = call[p].made
    BY <2>3, <2>4, <2>5 DEF StatIn, DirIn, IsDir
  <2>7. D \in Inodes
    BY <2>3, <2>4, <2>6, GetattrType, GetattrIs DEF IsDir
  <2>8. D # t
    BY <1>3, <1>4, <2>3, <2>6, <2>7, NoEntries
  <2>9. Len(path[m]) \in Nat
    BY <2>3, BaseTypes
  <2>11. ResolveIn(ent', kind', path[m]) = D /\ kind'[D] = kind[D]
    BY <1>2, <1>3, <2>4, <2>7, <2>8, <2>9, SamePlace
  <2>12. m \in Dirs(p) /\ call[p].op \notin Sharing
    BY <1>6, <2>2, SMT, Z3T(30) DEF Dirs, Idle, Sharing
  <2>13. d # D
    BY <1>2, <2>3, <2>5, <2>12, OtherName
  <2>14. ent'[D][x] = call[p].made
    BY <1>3, <2>3, <2>6, <2>7, <2>13
  <2>15. StatIn(ent', kind', path[m], x) = call[p].made
    BY <2>6, <2>11, <2>14 DEF StatIn, DirIn, IsDir
  <2> QED
    BY <1>1, <1>6, <2>2, <2>3, <2>5, <2>11, <2>15 DEF CalmIn
<1>7. CASE call[p].op = "rename"
  <2>1. call[p] \in RenameCalls
    BY <1>5, <1>7, CallKinds
  <2>2. PICK m, y : m = call[p].to /\ y = call[p].y
    OBVIOUS
  <2>3. m \in Dirs(p) /\ call[p].op \notin Sharing /\ m \in NodeIds /\ y \in Names
    BY <1>7, <2>1, <2>2, SMT, Z3T(30) DEF Dirs, Idle, Sharing, RenameCalls
  <2>4. PICK D : D = stable[m].ino
    OBVIOUS
  <2>5. D \in Inodes
    BY <2>3, <2>4 DEF BaseInv, CallsOK, NodesOK
  <2>6. SUFFICES ASSUME Mount = Cwd
                 PROVE  CalmIn(call'[p], known', stable', path', ent', kind')
    BY <1>7 DEF CalmCall, CalmIn
  <2>7. m \in known
    BY <1>7, <2>2, <2>6 DEF CalmCall, CalmIn
  <2>8. CASE call[p].step = "call"
    <3>1. PICK s : s = call[p].dst
      OBVIOUS
    <3>2. ResolveIn(ent, kind, s) = D /\ Len(s) \in Nat
      <4>1. s \in Seq(Names \cup {None})
        BY <2>1, <3>1 DEF RenameCalls
      <4>2. Len(s) \in Nat
        BY <4>1, SMT, Z3T(30)
      <4> QED
        BY <1>7, <2>2, <2>4, <2>6, <2>8, <3>1, <4>2 DEF CalmCall, CalmIn
    <3>3. kind[D] # "free"
      <4>1. D = RootIno \/ HasName(D)
        BY <2>5, <3>2, TreeAssumption, BaseTypes, ResolveNamed, ResolveIs
      <4> QED
        BY <1>4, <2>5, <4>1 DEF ContainerOK
    <3>4. D # t
      BY <1>2, <1>7, <2>2, <2>4, <3>3
    <3>5. ResolveIn(ent', kind', s) = D
      BY <1>3, <1>2, <2>5, <3>2, <3>4, SamePlace
    <3> QED
      BY <1>1, <1>7, <2>2, <2>4, <2>7, <2>8, <3>1, <3>5 DEF CalmIn
  <2>9. CASE call[p].step # "call"
    <3>1. call[p].got # None /\ ent[D][y] = call[p].got
      BY <1>7, <2>2, <2>4, <2>6, <2>9 DEF CalmCall, CalmIn
    <3>2. d # D
      BY <1>2, <2>3, <2>4, <2>7, OtherName
    <3>3. ent'[D][y] = call[p].got
      BY <1>3, <2>3, <2>5, <3>1, <3>2
    <3> QED
      BY <1>1, <1>7, <2>2, <2>4, <2>7, <2>9, <3>1, <3>3 DEF CalmIn
  <2> QED
    BY <2>8, <2>9
<1>8. CASE call[p].op \in {"mkdir", "link"} /\ call[p].step # "stat"
  BY <1>8 DEF CalmCall, CalmIn
<1> QED
  BY <1>6, <1>7, <1>8 DEF CalmCall, CalmIn

\* A step of another call that leaves the container alone.
LEMMA CalmStays ==
  ASSUME BaseInv, AnyStep, NEW p \in Procs, call[p] # Idle, call'[p] = call[p],
         UNCHANGED container, Target(call[p]) \in known', CalmCall(p)
  PROVE  CalmIn(call'[p], known', stable', path', ent', kind')
<1>1. ent' = ent /\ kind' = kind
  BY DEF container
<1>2. call[p] \in CallSet
  BY BaseTypes
<1>3. \A m \in NodeIds : stable[m] # None => stable'[m] = stable[m] /\ path'[m] = path[m]
  BY StepNodes DEF AnyStep
<1>4. \A m \in Dirs(p) : DirNode(m)
  BY DEF BaseInv, CallsOK
<1>5. call[p].n \in NodeIds /\ stable'[call[p].n] = stable[call[p].n] /\ path'[call[p].n] = path[call[p].n]
  BY <1>2, <1>3, <1>4, CallKinds DEF Dirs, DirNode
<1>6. call[p].op = "rename" => stable'[call[p].to] = stable[call[p].to]
  <2>1. SUFFICES ASSUME call[p].op = "rename"
                 PROVE  stable'[call[p].to] = stable[call[p].to]
    OBVIOUS
  <2>2. call[p].to \in NodeIds /\ call[p].to \in Dirs(p)
    BY <1>2, <2>1, CallKinds DEF Dirs, RenameCalls
  <2> QED
    BY <1>3, <1>4, <2>2 DEF DirNode
<1> QED
  BY <1>1, <1>5, <1>6 DEF CalmCall, CalmIn, Target

\* The promises to calm calls are kept.
LEMMA CalmStep ==
  ASSUME BaseInv, CalmOK, AnyStep, Watch
  PROVE  CalmOK'
<1>1. SUFFICES ASSUME NEW p \in Procs, seen'[p].calm
               PROVE  CalmIn(call'[p], known', stable', path', ent', kind')
  BY CalmIs
<1>2. call \in [Procs -> CallSet]
  BY BaseTypes
<1>3. Idle.op = "none"
  BY DEF Idle
<1>4. CASE call'[p] = Idle
  BY <1>3, <1>4 DEF CalmIn
<1>5. CASE call'[p] # Idle /\ call[p] = Idle
  <2>1. seen'[p] = [calm |-> Placed(p)', stay |-> Listing(p)', ever |-> Listing(p)']
    BY <1>5 DEF Watch
  <2>2. Placed(p)'
    BY <1>1, <2>1, SMT, Z3T(30)
  <2>3. PICK n \in NodeIds : Begins(p, n, call'[p]) /\ UNCHANGED <<nodes, outside>>
    BY <1>5, OneCall DEF Proceeds
  <2> QED
    BY <2>2, <2>3, CalmBegins
<1>6. CASE call'[p] # Idle /\ call[p] # Idle
  <2>1. seen'[p] = [calm |-> seen[p].calm /\ ~Disturbed(p), stay |-> seen[p].stay \cap Listing(p)',
                    ever |-> seen[p].ever \cup Listing(p)']
    BY <1>6 DEF Watch
  <2>2. seen[p].calm /\ ~Disturbed(p)
    <3>1. seen'[p].calm = (seen[p].calm /\ ~Disturbed(p))
      BY <2>1, SMT, Z3T(30)
    <3> QED
      BY <1>1, <3>1
  <2>3. CalmCall(p)
    BY <2>2, CalmIs
  <2>4. CASE call'[p] # call[p]
    <3>1. Proceeds(p, call'[p]) /\ UNCHANGED <<nodes, outside>>
      BY <1>6, <2>4, OneCall DEF Begins, Start
    <3> QED
      BY <1>6, <2>3, <3>1, CalmProceeds
  <2>5. CASE call'[p] = call[p]
    <3>1. outside' = outside /\ Target(call[p]) \in known'
      BY <2>2 DEF Disturbed
    <3>2. call[p].op = "rename" => kind'[stable'[call[p].to].ino] = "dir"
      BY <2>2, <2>5 DEF Disturbed, IsDir
    <3>3. ASSUME NEW q \in Procs \ {p}, call'[q] # call[q], call'[q] # Idle
          PROVE  /\ ~(call'[q].op = "rename" /\ call'[q].step = "reply")
                 /\ call[q] = Idle => InPlace(call'[q].n)
      BY <2>2, <3>3 DEF Disturbed
    <3>4. CASE UNCHANGED container
      BY <1>6, <2>3, <2>5, <3>1, <3>4, CalmStays
    <3>5. ASSUME NEW q \in Procs, NEW n \in NodeIds, NEW c,
                 Begins(q, n, c), Adds(n, c) \/ Drops(n, c), UNCHANGED <<nodes, outside>>
          PROVE  CalmIn(call'[p], known', stable', path', ent', kind')
      <4>1. call[q] = Idle /\ call' = [call EXCEPT ![q] = c] /\ c # Idle /\ c.n = n
        BY <3>5 DEF Begins, Start
      <4>2. call'[q] = c /\ q # p
        BY <1>2, <1>6, <4>1
      <4>3. InPlace(n)
        BY <3>3, <4>1, <4>2
      <4>4. stable' = stable
        BY <3>5 DEF nodes
      <4> QED
        BY <2>3, <2>5, <3>2, <3>5, <4>2, <4>3, <4>4, CalmWaits
    <3>6. ASSUME NEW q \in Procs, NEW c, Proceeds(q, c), Renames(q, c)
          PROVE  FALSE
      <4>1. call' = [call EXCEPT ![q] = c] /\ call[q].step = "call" /\ c.step = "reply" /\ c.op = "rename"
        BY <3>6 DEF Proceeds, Renames
      <4>2. call'[q] = c /\ q # p
        BY <1>2, <2>5, <4>1
      <4> QED
        BY <1>3, <3>3, <4>1, <4>2
    <3>7. ~OutsideStep
      <4>1. outside \in Nat
        BY SMT, Z3T(30) DEF BaseInv, NodeTypeOK
      <4> QED
        BY <3>1, <4>1, SMT, Z3T(30) DEF OutsideStep
    <3> QED
      BY <3>4, <3>5, <3>6, <3>7, ContainerCases
  <2> QED
    BY <2>4, <2>5
<1> QED
  BY <1>4, <1>5, <1>6

\* At the start there is no call.
LEMMA CalmInit ==
  ASSUME TreeInit
  PROVE  CalmOK
<1>1. \A p \in Procs : call[p].op = "none"
  BY SMT, Z3T(30) DEF TreeInit, Idle
<1> QED
  BY <1>1 DEF CalmOK

\* BaseInv and CalmOK are inductive: they hold always.
THEOREM CallInvariant == TreeSpec => []CallInv
<1>1. TreeInit => CallInv
  BY BaseInit, CalmInit DEF CallInv
<1>2. CallInv /\ [TreeNext]_treeVars => CallInv'
  <2> SUFFICES ASSUME CallInv, [TreeNext]_treeVars
               PROVE  CallInv'
    OBVIOUS
  <2>1. BaseInv'
    BY BaseStep DEF CallInv
  <2>2. CASE TreeNext
    BY <2>1, <2>2, StepCases, CalmStep DEF CallInv, AnyStep
  <2>3. CASE UNCHANGED treeVars
    <3>1. /\ ent' = ent /\ kind' = kind /\ path' = path /\ stable' = stable
          /\ known' = known /\ call' = call /\ seen' = seen
      BY <2>3 DEF treeVars, container, nodes
    <3>2. CalmOK'
      BY <3>1, CalmIs DEF CallInv, CalmCall
    <3> QED
      BY <2>1, <3>2 DEF CallInv
  <2> QED
    BY <2>2, <2>3
<1> QED
  BY <1>1, <1>2, PTL DEF TreeSpec

\* Mkdir and Link make something and ask for its attributes in a second call: undisturbed,
\* the second call answers for what the first one made, for every tree and every number of
\* calls that overlap with it.
THEOREM StepsAgree == TreeSpec => []TwoStepsAgree
<1>1. CallInv => TwoStepsAgree
  BY DEF CallInv, CalmOK, TwoStepsAgree
<1> QED
  BY <1>1, CallInvariant, PTL

\* Rename joins the directory's own path for the old name and go-fuse's path for the new
\* one: when the satellite runs in the mounted directory, an undisturbed Rename puts the
\* file into the directory that it was asked for.
THEOREM RenamesLand == Mount = Cwd => (TreeSpec => []RenameLands)
<1> SUFFICES ASSUME Mount = Cwd
             PROVE  TreeSpec => []RenameLands
  OBVIOUS
<1>1. CallInv => RenameLands
  BY DEF CallInv, CalmOK, RenameLands
<1> QED
  BY <1>1, CallInvariant, PTL

-------------------------------------------------------------------------------
(* Listings                                                                *)

\* A directory reads the same as long as nothing above or in it changes.
LEMMA ListingSteady ==
  ASSUME UNCHANGED <<ent, kind, path>>, NEW n
  PROVE  /\ Getattr(n)' = Getattr(n)
         /\ Entries(Getattr(n))' = Entries(Getattr(n))
<1>1. Getattr(n)' = Getattr(n)
  BY SMT, Z3T(30) DEF Getattr, Resolve, IsDir
<1> QED
  BY <1>1 DEF Entries, IsDir

\* What is remembered of a call that goes on, of one that begins.
LEMMA Watched ==
  ASSUME Watch, NEW p \in Procs, call'[p].op = "readdir"
  PROVE  /\ call[p] # Idle => /\ seen'[p].stay = seen[p].stay \cap Listing(p)'
                              /\ seen'[p].ever = seen[p].ever \cup Listing(p)'
         /\ call[p] = Idle => seen'[p].stay = Listing(p)' /\ seen'[p].ever = Listing(p)'
<1>1. call'[p] # Idle
  BY SMT, Z3T(30) DEF Idle
<1> QED
  BY <1>1 DEF Watch

\* A call that a step leaves alone keeps what it has collected.
LEMMA UntouchedKeeps ==
  ASSUME ListInv, Watch, NEW p \in Procs, call'[p] = call[p], call[p].op = "readdir"
  PROVE  Collecting(p)'
<1>1. call[p] # Idle /\ Collecting(p)
  BY SMT, Z3T(30) DEF Idle, ListInv
<1>2. seen'[p].stay \subseteq seen[p].stay /\ seen[p].ever \subseteq seen'[p].ever
  BY <1>1, Watched
<1> QED
  BY <1>1, <1>2 DEF Collecting

\* A step that touches the call of one process only, and not as a part of a Readdir.
LEMMA OtherCalls ==
  ASSUME ListInv, Watch, NEW q \in Procs, NEW c,
         call' = [call EXCEPT ![q] = c], "op" \in DOMAIN c, c.op # "readdir"
  PROVE  ListInv'
<1>1. DOMAIN call' = Procs /\ \A p \in Procs : call'[p] = IF p = q THEN c ELSE call[p]
  BY DEF ListInv
<1>2. ASSUME NEW p \in Procs, call'[p].op = "readdir"
      PROVE  Collecting(p)'
  BY <1>1, <1>2, UntouchedKeeps
<1> QED
  BY <1>1, <1>2 DEF ListInv

\* The same for the call of a process that only goes on to its next step.
LEMMA NextStep ==
  ASSUME ListInv, Watch, NEW q \in Procs, NEW v, NEW w, call[q].op # "readdir",
         call' = [call EXCEPT ![q].step = v, ![q].got = w]
  PROVE  ListInv'
<1>1. /\ DOMAIN call' = Procs
      /\ \A p \in Procs : p # q => call'[p] = call[p]
      /\ "op" \in DOMAIN call'[q] /\ call'[q].op = call[q].op
  BY DEF ListInv
<1>2. ASSUME NEW p \in Procs, call'[p].op = "readdir"
      PROVE  Collecting(p)'
  BY <1>1, <1>2, UntouchedKeeps
<1> QED
  BY <1>1, <1>2 DEF ListInv

\* os.ReadDir gives every name the directory has.
LEMMA ReaddirKeeps ==
  ASSUME ListInv, Watch, NEW q \in Procs, NEW n \in NodeIds, Readdir(q, n), UNCHANGED nodes
  PROVE  ListInv'
<1> DEFINE c == [op |-> "readdir", n |-> n, step |-> "info",
                 todo |-> {e[1] : e \in Entries(Getattr(n))}, list |-> {}]
<1>1. call[q] = Idle /\ call' = [call EXCEPT ![q] = c]
  BY DEF Readdir, Start
<1>2. DOMAIN call' = Procs /\ \A p \in Procs : call'[p] = IF p = q THEN c ELSE call[p]
  BY <1>1 DEF ListInv
<1>3. Entries(Getattr(n))' = Entries(Getattr(n))
  BY ListingSteady DEF Readdir, container, nodes
<1>4. call'[q].op = "readdir" /\ call'[q].n = n
  BY <1>2, SMT, Z3T(30)
<1>5. Listing(q)' = Entries(Getattr(n))
  BY <1>3, <1>4 DEF Listing
<1>6. seen'[q].stay = Entries(Getattr(n))
  BY <1>1, <1>4, <1>5, Watched
<1>7. Collecting(q)'
  <2>1. call'[q] = c
    BY <1>2
  <2>2. DOMAIN c = {"op", "n", "step", "todo", "list"} /\ c.step = "info" /\ c.list = {}
    OBVIOUS
  <2>3. c.todo \subseteq Names /\ \A e \in seen'[q].stay : e[1] \in c.todo
    BY <1>6, SMT, Z3T(30) DEF Entries
  <2> HIDE DEF c
  <2> QED
    BY <2>1, <2>2, <2>3 DEF Collecting
<1>8. ASSUME NEW p \in Procs, call'[p].op = "readdir"
      PROVE  Collecting(p)'
  BY <1>2, <1>7, <1>8, UntouchedKeeps
<1>9. \A p \in Procs : "op" \in DOMAIN call'[p]
  BY <1>2, SMT, Z3T(30) DEF ListInv
<1> QED
  BY <1>2, <1>8, <1>9 DEF ListInv

\* A name that is gone is skipped; what is found under a name is there at that moment, so
\* if the name has had one file all the time it is that file.
LEMMA InfoKeeps ==
  ASSUME ListInv, Watch, NEW q \in Procs, Info(q), UNCHANGED nodes
  PROVE  ListInv'
<1>1. PICK x \in call[q].todo :
        LET i == stat(call[q].n, x)
        IN  call' = [call EXCEPT ![q].todo = @ \ {x},
                                 ![q].list = IF i = None THEN @ ELSE @ \cup {<<x, i>>}]
  BY DEF Info
<1>2. PICK n : n = call[q].n
  OBVIOUS
<1>3. PICK i : i = At(Getattr(n), x)
  OBVIOUS
<1>4. call[q].op = "readdir" /\ call[q].step = "info" /\ Collecting(q) /\ call[q] # Idle
  BY SMT, Z3T(30) DEF Info, ListInv, Idle
<1>5. call' = [call EXCEPT ![q] =
                 [call[q] EXCEPT !.todo = @ \ {x},
                                 !.list = IF i = None THEN @ ELSE @ \cup {<<x, i>>}]]
  BY <1>1, <1>2, <1>3 DEF stat
<1>6. /\ DOMAIN call' = Procs
      /\ \A p \in Procs : p # q => call'[p] = call[p]
      /\ DOMAIN call'[q] = DOMAIN call[q]
      /\ call'[q].op = "readdir" /\ call'[q].step = "info" /\ call'[q].n = n
      /\ call'[q].todo = call[q].todo \ {x}
      /\ call'[q].list = IF i = None THEN call[q].list ELSE call[q].list \cup {<<x, i>>}
  BY <1>2, <1>4, <1>5 DEF ListInv, Collecting
<1>7. Listing(q)' = Entries(Getattr(n))
  BY <1>6, ListingSteady DEF Listing, Info, container, nodes
<1>8. /\ seen'[q].stay = seen[q].stay \cap Entries(Getattr(n))
      /\ seen'[q].ever = seen[q].ever \cup Entries(Getattr(n))
  BY <1>4, <1>6, <1>7, Watched
<1>9. \A e \in Entries(Getattr(n)) : e[1] = x => i # None /\ e = <<x, i>>
  BY <1>3, SMT, Z3T(30) DEF Entries, At
<1>10. i # None /\ x \in Names => <<x, i>> \in Entries(Getattr(n))
  BY <1>3 DEF Entries, At
<1>11. Collecting(q)'
  <2>1. call'[q].list \subseteq seen'[q].ever
    BY <1>1, <1>4, <1>6, <1>8, <1>10, SMT, Z3T(30) DEF Collecting
  <2>2. ASSUME NEW e \in seen'[q].stay
        PROVE  e \in call'[q].list \/ e[1] \in call'[q].todo
    <3>1. e \in seen[q].stay /\ e \in Entries(Getattr(n))
      BY <1>8, <2>2
    <3>2. e \in call[q].list \/ e[1] \in call[q].todo
      BY <1>4, <3>1 DEF Collecting
    <3> QED
      BY <1>6, <1>9, <3>1, <3>2
  <2> QED
    BY <1>4, <1>6, <2>1, <2>2 DEF Collecting
<1>12. ASSUME NEW p \in Procs, call'[p].op = "readdir"
       PROVE  Collecting(p)'
  BY <1>6, <1>11, <1>12, UntouchedKeeps
<1>13. \A p \in Procs : "op" \in DOMAIN call'[p]
  BY <1>6 DEF ListInv
<1> QED
  BY <1>6, <1>12, <1>13 DEF ListInv

\* client.readDir drops entries with a low number and nothing else.
LEMMA ListedKeeps ==
  ASSUME ListInv, Watch, NEW q \in Procs, Listed(q)
  PROVE  ListInv'
<1>1. /\ call[q].op = "readdir" /\ call[q].step = "info" /\ call[q].todo = {}
      /\ Collecting(q) /\ call[q] # Idle
  BY SMT, Z3T(30) DEF Listed, ListInv, Idle
<1>2. call' = [call EXCEPT ![q] = [call[q] EXCEPT !.step = "reply",
                                     !.list = {e \in @ : e[2] \notin LowInodes}]]
  BY DEF Listed
<1>3. /\ DOMAIN call' = Procs
      /\ \A p \in Procs : p # q => call'[p] = call[p]
      /\ DOMAIN call'[q] = DOMAIN call[q]
      /\ call'[q].op = "readdir" /\ call'[q].step = "reply" /\ call'[q].todo = call[q].todo
      /\ call'[q].list = {e \in call[q].list : e[2] \notin LowInodes}
  BY <1>1, <1>2 DEF ListInv, Collecting
<1>4. seen'[q].stay \subseteq seen[q].stay /\ seen[q].ever \subseteq seen'[q].ever
  BY <1>1, <1>3, Watched
<1>5. Collecting(q)'
  BY <1>1, <1>3, <1>4 DEF Collecting
<1>6. ASSUME NEW p \in Procs, call'[p].op = "readdir"
      PROVE  Collecting(p)'
  BY <1>3, <1>5, <1>6, UntouchedKeeps
<1>7. \A p \in Procs : "op" \in DOMAIN call'[p]
  BY <1>3 DEF ListInv
<1> QED
  BY <1>3, <1>6, <1>7 DEF ListInv

\* Every request but Readdir.
LEMMA RequestKeeps ==
  ASSUME ListInv, Watch, NEW q \in Procs, NEW n \in NodeIds, Request(q, n), UNCHANGED nodes
  PROVE  ListInv'
<1>1. CASE Readdir(q, n)
  BY <1>1, ReaddirKeeps
<1>2. ASSUME NEW c, Start(q, c), "op" \in DOMAIN c, c.op # "readdir"
      PROVE  ListInv'
  BY <1>2, OtherCalls DEF Start
<1>3. ASSUME NEW o, NEW x, NEW s, NEW g, NEW m, o # "readdir", Start(q, Add(o, n, x, s, g, m))
      PROVE  ListInv'
  <2>1. "op" \in DOMAIN Add(o, n, x, s, g, m) /\ Add(o, n, x, s, g, m).op = o
    BY DEF Add
  <2> QED
    BY <1>2, <1>3, <2>1
<1>4. ASSUME NEW x \in Names, Lookup(q, n, x)
      PROVE  ListInv'
  <2>1. PICK i, m : Start(q, Add("lookup", n, x, "reply", i, m))
    BY <1>4 DEF Lookup
  <2> QED
    BY <1>3, <2>1
<1>5. ASSUME NEW x \in Names, Create(q, n, x)
      PROVE  ListInv'
  <2>1. PICK i \in Inodes : Start(q, Add("create", n, x, "reply", i, "reg"))
    BY <1>5 DEF Create
  <2> QED
    BY <1>3, <2>1
<1>6. ASSUME NEW x \in Names, Mkdir(q, n, x)
      PROVE  ListInv'
  <2>1. PICK i \in Inodes : Start(q, Add("mkdir", n, x, "stat", i, "dir"))
    BY <1>6 DEF Mkdir
  <2> QED
    BY <1>3, <2>1
<1>7. ASSUME NEW x \in Names, Symlink(q, n, x)
      PROVE  ListInv'
  <2>1. Start(q, Add("symlink", n, x, "reply", None, "lnk"))
    BY <1>7 DEF Symlink
  <2> QED
    BY <1>3, <2>1
<1>8. ASSUME NEW x \in Names, NEW t \in NodeIds, Link(q, n, x, t)
      PROVE  ListInv'
  <2>1. PICK i, m : Start(q, Add("link", n, x, "stat", i, m))
    BY <1>8 DEF Link
  <2> QED
    BY <1>3, <2>1
<1>9. ASSUME NEW x \in Names, Unlink(q, n, x) \/ Rmdir(q, n, x)
      PROVE  ListInv'
  BY <1>2, <1>9 DEF Unlink, Rmdir
<1>10. ASSUME NEW x \in Names, NEW to \in NodeIds, NEW y \in Names, Rename(q, n, x, to, y)
       PROVE  ListInv'
  <2>1. PICK d : d = Cwd \o TreePath(to)
    OBVIOUS
  <2>2. Start(q, [op |-> "rename", n |-> n, x |-> x, to |-> to, y |-> y, step |-> "call",
                  dst |-> d, got |-> None])
    BY <1>10, <2>1 DEF Rename
  <2> QED
    BY <1>2, <2>2
<1> QED
  BY <1>1, <1>4, <1>5, <1>6, <1>7, <1>8, <1>9, <1>10 DEF Request

\* The end of any call.
LEMMA EndKeeps ==
  ASSUME ListInv, Watch, NEW q \in Procs, End(q)
  PROVE  ListInv'
<1>1. "op" \in DOMAIN Idle /\ Idle.op # "readdir"
  BY DEF Idle
<1> QED
  BY <1>1, OtherCalls DEF End

\* The later steps of a call.
LEMMA ServeKeeps ==
  ASSUME ListInv, Watch, NEW q \in Procs, Serve(q), UNCHANGED nodes
  PROVE  ListInv'
<1>1. CASE StatNew(q)
  <2>1. call[q].op # "readdir"
    BY <1>1 DEF StatNew, ListInv, Collecting
  <2>2. PICK v, w : call' = [call EXCEPT ![q].step = v, ![q].got = w]
    BY <1>1 DEF StatNew
  <2> QED
    BY <2>1, <2>2, NextStep
<1>2. CASE RenameServed(q)
  <2>1. call[q].op # "readdir"
    BY <1>2 DEF RenameServed
  <2>2. (\E w : call' = [call EXCEPT ![q].step = "reply", ![q].got = w]) \/ End(q)
    BY <1>2 DEF RenameServed
  <2> QED
    BY <2>1, <2>2, NextStep, EndKeeps
<1>3. CASE StatFails(q) \/ AddFailed(q) \/ InfoFails(q) \/ ReaddirReturns(q)
  BY <1>3, EndKeeps DEF StatFails, AddFailed, InfoFails, ReaddirReturns
<1>4. CASE Info(q)
  BY <1>4, InfoKeeps
<1>5. CASE Listed(q)
  BY <1>5, ListedKeeps
<1> QED
  BY <1>1, <1>2, <1>3, <1>4, <1>5 DEF Serve

\* A step of another process.
LEMMA OutsideKeeps ==
  ASSUME ListInv, Watch, UNCHANGED call
  PROVE  ListInv'
<1>1. ASSUME NEW p \in Procs, call'[p].op = "readdir"
      PROVE  Collecting(p)'
  BY <1>1, UntouchedKeeps
<1> QED
  BY <1>1 DEF ListInv

\* A listing of a directory that changes while it is read, through the mount or by others,
\* has everything that was there all the time, but for low inode numbers, and nothing that
\* was never there.
THEOREM ListingsFaithful == TreeSpec => []ListingIsFaithful
<1>1. ASSUME TreeInit
      PROVE  ListInv
  <2>1. call = [p \in Procs |-> Idle]
    BY <1>1 DEF TreeInit
  <2> QED
    BY <2>1 DEF ListInv, Idle
<1>2. ASSUME ListInv, [TreeNext]_treeVars
      PROVE  ListInv'
  <2> USE <1>2
  <2>1. CASE TreeNext
    <3>1. Watch
      BY <2>1 DEF TreeNext
    <3>2. ASSUME NEW p \in Procs, NEW n \in NodeIds, Request(p, n), UNCHANGED nodes
          PROVE  ListInv'
      BY <3>1, <3>2, RequestKeeps
    <3>3. ASSUME NEW p \in Procs, Serve(p), UNCHANGED nodes
          PROVE  ListInv'
      BY <3>1, <3>3, ServeKeeps
    <3>4. ASSUME NEW p \in Procs, Reply(p)
          PROVE  ListInv'
      <4>1. End(p)
        BY <3>4 DEF Reply, Added, Removed, Renamed
      <4> QED
        BY <3>1, <4>1, EndKeeps
    <3>5. CASE OutsideMake \/ OutsideRemove
      BY <3>1, <3>5, OutsideKeeps DEF OutsideMake, OutsideRemove
    <3> QED
      BY <2>1, <3>2, <3>3, <3>4, <3>5 DEF TreeNext
  <2>2. CASE UNCHANGED treeVars
    BY <2>2 DEF treeVars, ListInv, Collecting
  <2> QED
    BY <2>1, <2>2
<1>3. ListInv => ListingIsFaithful
  BY DEF ListInv, Collecting, ListingIsFaithful
<1> QED
  BY <1>1, <1>2, <1>3, PTL DEF TreeSpec
===============================================================================
