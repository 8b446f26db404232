---------------------------- MODULE NodeTreeProofs ----------------------------
(***************************************************************************)
(* The Nodes of NodeTree, for any tree, mount, number of calls and of      *)
(* changes by other processes: what is in place stays in place.            *)
(*                                                                         *)
(* A step that changes the container either changes names only of inodes   *)
(* it puts into moved, together with all that is within them, or is a      *)
(* removal, which takes one name of one inode.  A path that leads to an    *)
(* inode outside that set goes through directories outside it, so it stays *)
(* right.                                                                  *)
(***************************************************************************)
EXTENDS NodeTreeCalls

\* A leaf of first-order logic and sets names no prover; the others go to SMT and, should it
\* run out of time, to Z3.
USE ZenonT(30)

-------------------------------------------------------------------------------
(* Which inodes have moved                                                  *)

\* An inode is within itself.
LEMMA WithinSelf ==
  ASSUME NEW i \in Inodes
  PROVE  Within(i, i)
BY DEF Within

\* What a directory lists is within it.
LEMMA WithinEntry ==
  ASSUME NEW g \in Inodes, IsDir(g), NEW y \in Names, ent[g][y] # None
  PROVE  Within(ent[g][y], g)
BY DEF Within

\* A step that ends no call that adds a Node.
LEMMA NoneReturned ==
  ASSUME BaseInv, Blame, \A r \in Returned : r.got = None
  PROVE  /\ moved \subseteq moved'
         /\ Taken \cap Inodes \subseteq moved'
         /\ ~Proper => \A j \in Inodes \ moved' : j \in Kept
         /\ Taken = {} /\ (Proper \/ ent' = ent) => moved' = moved
<1> DEFINE renamed == Taken \cup IF Proper \/ ent' = ent THEN {}
                                 ELSE {i \in Inodes : NamesOf(i)' # NamesOf(i)}
           changed == {i \in Inodes : \E j \in renamed : Within(i, j)}
           missed == {c.got : c \in {r \in Returned : ~Found(r)}}
           renewed == {c.got : c \in {r \in Returned : Renewed(r)}}
<1>1. moved' = ((moved \cup changed \cup missed) \ renewed) \ {None}
  BY DEF Blame
<1>2. renewed = {}
  BY DEF Renewed, Found
<1>3. missed \subseteq {None}
  OBVIOUS
<1>4. moved \subseteq Inodes /\ None \notin Inodes
  BY TreeAssumption DEF BaseInv, NodeTypeOK
<1>5. changed \subseteq Inodes
  OBVIOUS
<1>6. moved' = moved \cup changed
  <2> HIDE DEF changed, missed, renewed
  <2> QED
    BY <1>1, <1>2, <1>3, <1>4, <1>5
<1>7. ASSUME NEW j \in Taken \cap Inodes
      PROVE  j \in moved'
  BY <1>6, WithinSelf
<1>8. ASSUME ~Proper, NEW j \in Inodes \ moved'
      PROVE  j \in Kept
  <2>1. CASE ent' = ent
    <3>1. Changed = {}
      BY <2>1 DEF Changed, NamesOf
    <3> QED
      BY <3>1 DEF Kept
  <2>2. CASE ent' # ent
    <3>1. Changed \subseteq renamed
      BY <1>8, <2>2 DEF Changed
    <3> QED
      BY <1>6, <1>8, <3>1 DEF Kept
  <2> QED
    BY <2>1, <2>2
<1>9. ASSUME Taken = {}, Proper \/ ent' = ent
      PROVE  moved' = moved
  <2>1. renamed = {}
    BY <1>9
  <2>2. changed = {}
    BY <2>1
  <2> HIDE DEF changed
  <2> QED
    BY <1>6, <2>2
<1> QED
  BY <1>6, <1>7, <1>8, <1>9

\* What a step that changes the call of p alone returns and takes.
LEMMA OneReturned ==
  ASSUME BaseInv, NEW p \in Procs, NEW c, call' = [call EXCEPT ![p] = c]
  PROVE  /\ \A r \in Returned : r = call[p] /\ r.op \in Adding /\ r.step = "reply" /\ c = Idle
         /\ c = Idle /\ call[p].op \in Adding /\ call[p].step = "reply" => Returned = {call[p]}
         /\ \A j \in Taken : j = c.got /\ c.op = "rename" /\ c.step = "reply" /\ c # call[p]
         /\ c.op = "rename" /\ c.step = "reply" /\ c # call[p] => c.got \in Taken
         /\ Proper <=> call[p] = Idle /\ c.op = "remove" /\ Current(c.n)
         /\ \A e : Leaving(e) => Leaving(e)' \/ (call[p].op = "remove" /\ e = <<call[p].n, call[p].x>>)
         /\ c.op = "remove" => Leaving(<<c.n, c.x>>)'
<1>1. call \in [Procs -> CallSet]
  BY BaseTypes
<1>2. \A q \in Procs : call'[q] = IF q = p THEN c ELSE call[q]
  BY <1>1
<1>3. Idle.op = "none" /\ "none" \notin Adding
  BY DEF Idle, Adding, Making
<1>4. \A r \in Returned : r = call[p] /\ r.op \in Adding /\ r.step = "reply" /\ c = Idle
  BY <1>2, <1>3 DEF Returned
<1>5. c = Idle /\ call[p].op \in Adding /\ call[p].step = "reply" => call[p] \in Returned
  BY <1>2 DEF Returned
<1>6. \A j \in Taken : j = c.got /\ c.op = "rename" /\ c.step = "reply" /\ c # call[p]
  BY <1>2 DEF Taken
<1>7. c.op = "rename" /\ c.step = "reply" /\ c # call[p] => c.got \in Taken
  BY <1>2, SMT, Z3T(30) DEF Taken
<1>8. Proper <=> call[p] = Idle /\ c.op = "remove" /\ Current(c.n)
  BY <1>2, <1>3 DEF Proper
<1>9. \A e : Leaving(e) => Leaving(e)' \/ (call[p].op = "remove" /\ e = <<call[p].n, call[p].x>>)
  BY <1>2 DEF Leaving
<1>10. c.op = "remove" => Leaving(<<c.n, c.x>>)'
  BY <1>2 DEF Leaving
<1>11. c = Idle /\ call[p].op \in Adding /\ call[p].step = "reply" => Returned = {call[p]}
  BY <1>4, <1>5
<1> QED
  BY <1>4, <1>6, <1>7, <1>8, <1>9, <1>10, <1>11

\* A reply that adds a Node.
LEMMA JoinBlame ==
  ASSUME BaseInv, Blame, NEW p \in Procs, NEW c, NEW m, Joins(p, c, m)
  PROVE  /\ moved' = ((moved \cup IF Found(c) THEN {} ELSE {c.got})
                        \ IF Renewed(c) THEN {c.got} ELSE {}) \ {None}
         /\ \A e : Leaving(e) => Leaving(e)'
<1>1. /\ call[p] = c /\ c \in AddCalls /\ c.step = "reply"
      /\ call' = [call EXCEPT ![p] = Idle] /\ ent' = ent
  BY DEF Joins, container
<1>2. c.op \in Adding /\ Idle.op = "none" /\ c.op # "remove"
  BY <1>1 DEF AddCalls, Idle, Adding, Making
<1>3. Returned = {c}
  BY <1>1, <1>2, OneReturned
<1>4. Taken = {}
  BY <1>1, <1>2, OneReturned
<1> DEFINE renamed == Taken \cup IF Proper \/ ent' = ent THEN {}
                                 ELSE {i \in Inodes : NamesOf(i)' # NamesOf(i)}
           changed == {i \in Inodes : \E j \in renamed : Within(i, j)}
           missed == {r.got : r \in {r \in Returned : ~Found(r)}}
           renewed == {r.got : r \in {r \in Returned : Renewed(r)}}
<1>5. moved' = ((moved \cup changed \cup missed) \ renewed) \ {None}
  BY DEF Blame
<1>6. changed = {}
  BY <1>1, <1>4
<1>7. missed = IF Found(c) THEN {} ELSE {c.got}
  BY <1>3
<1>8. renewed = IF Renewed(c) THEN {c.got} ELSE {}
  BY <1>3
<1>9. \A e : Leaving(e) => Leaving(e)'
  BY <1>1, <1>2, OneReturned
<1> HIDE DEF changed, missed, renewed
<1> QED
  BY <1>5, <1>6, <1>7, <1>8, <1>9

-------------------------------------------------------------------------------
(* Steps that change the container                                          *)

\* The place e of the Node m of j, whose names and directories are kept.
LEMMA SitsKept ==
  ASSUME BaseInv, ContainerStep, UNCHANGED nodes, moved \subseteq moved',
         NEW m \in NodeIds, NEW e \in NodeIds \X Names, stable[m].ino \in Kept, Sits(m, e)
  PROVE  Sits(m, e)'
<1>1. path' = path /\ stable' = stable /\ known' = known
  BY DEF nodes
<1>2. PICK j : j = stable[m].ino
  OBVIOUS
<1>3. PICK D : D = stable[e[1]].ino
  OBVIOUS
<1>4. /\ DirNode(e[1]) /\ Getattr(e[1]) = D /\ At(D, e[2]) = j /\ (e[1] \in known \/ D \in moved)
      /\ kind[j] = stable[m].mode
  BY <1>2, <1>3 DEF Sits
<1>5. e[1] \in NodeIds /\ e[2] \in Names /\ j \in Inodes /\ j # None /\ j \in Kept
  BY <1>2, TreeAssumption DEF Kept
<1>6. IsDir(D) /\ ent[D][e[2]] = j
  BY <1>4, <1>5 DEF At
<1>7. D \in Inodes
  BY <1>4, <1>5, <1>6, GetattrType DEF IsDir
<1>8. D \in Kept /\ IsDir(D)' /\ ent'[D][e[2]] = j
  BY <1>5, <1>6, <1>7, KeptName, BaseTypes
<1>9. ResolveIn(ent', kind', path[e[1]]) = D
  <2>1. PICK s : s = path[e[1]]
    OBVIOUS
  <2>2. Len(s) \in Nat /\ Resolve(s) = D
    BY <1>4, <1>5, <2>1, BaseTypes DEF Getattr
  <2>3. Resolve(s)' = D
    BY <1>8, <2>2, KeptPath, BaseTypes
  <2> QED
    BY <2>1, <2>3, ResolveIs
<1>10. Getattr(e[1])' = D
  BY <1>1, <1>9, GetattrIs
<1>11. kind'[j] = kind[j]
  BY <1>5, KeptKind
<1>12. DirNode(e[1])' /\ At(D, e[2])' = j
  BY <1>1, <1>4, <1>8 DEF DirNode, At
<1>13. stable'[e[1]].ino = D /\ stable'[m] = stable[m] /\ (e[1] \in known' \/ D \in moved')
  BY <1>1, <1>3, <1>4
<1> QED
  BY <1>2, <1>4, <1>10, <1>11, <1>12, <1>13 DEF Sits, At, IsDir

\* PlacesOK before and after a step, Node by Node.
LEMMA PlacesAre ==
  /\ PlacesOK <=> \A m \in known : stable[m].ino \in Inodes \ moved => PlaceOK(m)
  /\ PlacesOK' <=> \A m \in known' : stable'[m].ino \in Inodes \ moved' => PlaceOK(m)'
BY DEF PlacesOK, PlaceOK

\* The Node of an inode that is kept.
LEMMA PlaceKept ==
  ASSUME BaseInv,
         ContainerStep, UNCHANGED nodes, moved \subseteq moved', \A e : Leaving(e) => Leaving(e)',
         NEW m \in NodeIds, stable[m].ino \in Kept, PlaceOK(m)
  PROVE  PlaceOK(m)'
<1>1. path' = path /\ stable' = stable /\ parents' = parents
  BY DEF nodes
<1>2. parents[m] \subseteq NodeIds \X Names
  BY BaseTypes DEF NewestOK
<1>3. ASSUME NEW e \in parents'[m]
      PROVE  (Leaving(e) \/ Sits(m, e))'
  BY <1>1, <1>2, <1>3, SitsKept DEF PlaceOK
<1>4. ASSUME kind'[stable'[m].ino] = stable'[m].mode
      PROVE  Getattr(m)' = stable'[m].ino
  <2>1. PICK j, s : j = stable[m].ino /\ s = path[m]
    OBVIOUS
  <2>2. kind'[j] = kind[j] /\ j \in Kept
    BY <2>1, KeptKind
  <2>3. Getattr(m) = j
    BY <1>1, <1>4, <2>1, <2>2 DEF PlaceOK
  <2>4. Len(s) \in Nat /\ Resolve(s) = j
    BY <2>1, <2>3, BaseTypes DEF Getattr
  <2>5. Resolve(s)' = j
    BY <2>2, <2>4, KeptPath, BaseTypes
  <2> QED
    BY <1>1, <2>1, <2>5, ResolveIs, GetattrIs
<1> QED
  BY <1>3, <1>4 DEF PlaceOK

\* Then the Nodes that have not moved stay in their places.
LEMMA CarefulKeeps ==
  ASSUME BaseInv, ContainerStep, UNCHANGED nodes, Careful, \A e : Leaving(e) => Leaving(e)',
         UnmovedOK, PlacesOK
  PROVE  UnmovedOK' /\ PlacesOK'
<1>1. stable' = stable /\ known' = known /\ known \subseteq NodeIds
  BY DEF nodes, BaseInv, NodeTypeOK
<1>2. ASSUME NEW m \in known', stable'[m].ino \in Inodes \ moved'
      PROVE  PlaceOK(m)'
  <2>1. m \in known /\ m \in NodeIds /\ stable[m].ino \in Kept /\ stable[m].ino \in Inodes \ moved
    BY <1>1, <1>2 DEF Careful
  <2>2. PlaceOK(m)
    BY <2>1, PlacesAre
  <2> QED
    BY <2>1, <2>2, PlaceKept DEF Careful
<1>3. ASSUME NEW j \in Inodes \ moved'
      PROVE  OneName(j)'
  <2>1. j \in Kept /\ OneName(j)
    BY <1>3 DEF Careful, UnmovedOK
  <2>2. j \notin Changed
    BY <2>1, KeptKind
  <2>3. \A d \in Inodes, x \in Names : ent'[d][x] = j <=> ent[d][x] = j
    BY <2>2, NotChanged
  <2> QED
    BY <2>1, <2>3, SMT, Z3T(30) DEF OneName
<1>4. UnmovedOK'
  BY <1>3 DEF UnmovedOK
<1>5. PlacesOK'
  BY <1>2, PlacesAre
<1> QED
  BY <1>4, <1>5

\* Unlink and Rmdir through a current Node.
LEMMA RemoveKeeps ==
  ASSUME BaseInv, UNCHANGED nodes, moved' = moved, \A e : Leaving(e) => Leaving(e)',
         UnmovedOK, PlacesOK, NEW n \in NodeIds, DirNode(n), NEW c, c.x \in Names, Drops(n, c),
         Current(n), Leaving(<<n, c.x>>)'
  PROVE  UnmovedOK' /\ PlacesOK'
<1>1. stable' = stable /\ known' = known /\ known \subseteq NodeIds /\ parents' = parents
  BY DEF nodes, BaseInv, NodeTypeOK
<1>2. PICK D : D = Getattr(n)
  OBVIOUS
<1>3. PICK t \in Inodes : ent[D][c.x] = t /\ Rebinds(D, c.x, None, t) /\ t # RootIno /\ kind'[t] # "dir"
  BY <1>2 DEF Drops
<1>4. /\ ContainerStep /\ Changed = {t} /\ Entries(t) = {} /\ D \in Inodes \ {t} /\ IsDir(D)
      /\ \A b \in Inodes, y \in Names : ent'[b][y] = IF b = D /\ y = c.x THEN None ELSE ent[b][y]
  BY <1>3 DEF Rebinds
<1>5. D = stable[n].ino /\ n \in known /\ D \notin moved
  BY <1>2 DEF Current, InPlace
<1>6. ASSUME NEW j \in Inodes \ moved'
      PROVE  OneName(j)'
  <2>1. OneName(j)
    BY <1>6 DEF UnmovedOK
  <2>2. \A d \in Inodes, x \in Names : ent'[d][x] = j => ent[d][x] = j
    BY <1>4, TreeAssumption, SMT, Z3T(30)
  <2> QED
    BY <2>1, <2>2, SMT, Z3T(30) DEF OneName
<1>7. ASSUME NEW m \in known', stable'[m].ino \in Inodes \ moved'
      PROVE  PlaceOK(m)'
  <2>1. m \in known /\ m \in NodeIds /\ stable[m].ino \in Inodes \ moved
    BY <1>1, <1>7
  <2>2. PlaceOK(m)
    BY <2>1, PlacesAre
  <2>3. CASE stable[m].ino # t
    <3>1. stable[m].ino \in Kept
      BY <1>4, <2>1, <2>3, KeptAll DEF BaseInv
    <3> QED
      BY <1>4, <2>1, <2>2, <3>1, PlaceKept
  <2>4. CASE stable[m].ino = t
    <3>1. OneName(t) /\ t # None
      BY <2>1, <2>4, TreeAssumption DEF UnmovedOK
    <3>2. ASSUME NEW e \in parents[m], Sits(m, e)
          PROVE  e = <<n, c.x>>
      <4>1. e \in NodeIds \X Names
        BY <2>1, BaseTypes DEF NewestOK
      <4>2. PICK d : d = stable[e[1]].ino
        OBVIOUS
      <4>3. DirNode(e[1]) /\ Getattr(e[1]) = d /\ At(d, e[2]) = t /\ (e[1] \in known \/ d \in moved)
        BY <2>4, <3>2, <4>2 DEF Sits
      <4>4. IsDir(d) /\ ent[d][e[2]] = t
        BY <3>1, <4>3 DEF At
      <4>5. d \in Inodes
        BY <4>1, <4>3, <4>4, GetattrType DEF IsDir
      <4>6. d = D /\ e[2] = c.x
        BY <1>3, <1>4, <3>1, <4>1, <4>4, <4>5, SMT, Z3T(30) DEF OneName
      <4>7. e[1] = n
        BY <1>5, <4>2, <4>3, <4>6, OneDirNode
      <4> QED
        BY <4>1, <4>6, <4>7, SMT, Z3T(30)
    <3>3. \A e \in parents'[m] : (Leaving(e) \/ Sits(m, e))'
      BY <1>1, <2>2, <3>2 DEF PlaceOK
    <3>4. ~HasName(t)'
      <4>1. ASSUME NEW b \in Inodes, NEW y \in Names, ent'[b][y] = t
            PROVE  FALSE
        BY <1>3, <1>4, <3>1, <4>1, SMT, Z3T(30) DEF OneName
      <4> QED
        BY <4>1 DEF HasName
    <3>5. kind'[t] = "free"
      BY <1>3, <1>4, <3>4 DEF ContainerStep, ContainerOK
    <3>6. stable[m] \in StableAttrs
      BY <2>1 DEF BaseInv, NodeTypeOK
    <3>7. stable'[m].mode # "free"
      BY <1>1, <3>6 DEF StableAttrs, Modes
    <3> QED
      BY <1>1, <2>4, <3>3, <3>5, <3>7 DEF PlaceOK
  <2> QED
    BY <2>3, <2>4
<1>8. UnmovedOK'
  BY <1>6 DEF UnmovedOK
<1>9. PlacesOK'
  BY <1>7, PlacesAre
<1> QED
  BY <1>8, <1>9

-------------------------------------------------------------------------------
(* Replies                                                                  *)

\* What a Mkdir has made through a current Node has moved until its reply.
LEMMA MadeMoved ==
  ASSUME BaseInv, PendingOK, NEW p \in Procs, call[p].op \in Making, call[p].mode = "dir",
         Found(call[p])
  PROVE  /\ call[p].got \in moved
         /\ \A x \in Names : ent[call[p].got][x] \in moved \cup {None}
<1>1. call[p].op = "mkdir"
  BY DEF BaseInv, CallsOK, Making, Adding
<1>2. Current(call[p].n) /\ stat(call[p].n, call[p].x) = call[p].got /\ call[p].got # None
  BY DEF Found
<1> QED
  BY <1>1, <1>2 DEF PendingOK

\* The container and the paths stay, and the place e of the Node m does.
LEMMA SitsStill ==
  ASSUME BaseInv, UNCHANGED container, NEW m \in NodeIds, NEW e \in NodeIds \X Names,
         stable[m] # None, \A l \in NodeIds : stable[l] # None => stable'[l] = stable[l] /\ path'[l] = path[l],
         Sits(m, e), e[1] \in known' \/ stable[e[1]].ino \in moved'
  PROVE  Sits(m, e)'
<1>1. ent' = ent /\ kind' = kind
  BY DEF container
<1>2. e[1] \in NodeIds /\ stable[e[1]] # None
  BY DEF Sits, DirNode
<1>3. stable'[e[1]] = stable[e[1]] /\ path'[e[1]] = path[e[1]] /\ stable'[m] = stable[m]
  BY <1>2
<1>4. Getattr(e[1])' = Getattr(e[1])
  BY <1>1, <1>3, GetattrIs, SMT, Z3T(30)
<1>5. PICK D : D = stable[e[1]].ino
  OBVIOUS
<1>6. At(D, e[2])' = At(D, e[2])
  BY <1>1 DEF At, IsDir
<1>7. stable'[e[1]].ino = D
  BY <1>3, <1>5
<1>8. DirNode(e[1])' /\ Getattr(e[1])' = D /\ At(D, e[2])' = stable'[m].ino /\ kind'[stable'[m].ino] = stable'[m].mode
  BY <1>1, <1>3, <1>4, <1>5, <1>6 DEF Sits, DirNode
<1> QED
  BY <1>5, <1>7, <1>8 DEF Sits, At, IsDir

\* A reply after which an inode has no longer moved adds a new Node for it: no Node that go-fuse
\* still knows has its StableAttr, and those of another type are about to go.
LEMMA Renews ==
  ASSUME BaseInv, NEW p \in Procs, NEW c, NEW m, Joins(p, c, m),
         FindsNode(c, m) \/ MakesNode(c, m), Renewed(c)
  PROVE  /\ \A k \in known : k \in known' /\ stable[k].ino = c.got =>
              stable[k].mode # c.mode /\ \A e \in parents[k] : Leaving(e)
         /\ \A k \in NodeIds : DirNode(k) /\ stable[k].ino = c.got => c.op \in Making \/ c.mode # "dir"
<1>1. c.got # None
  BY DEF Renewed, Found
<1>2. ASSUME NEW k \in known, stable[k].ino = c.got, stable[k].mode = c.mode
      PROVE  k \in Same(c) /\ c.op \in Making
  <2>1. stable[k] \in StableAttrs
    BY DEF BaseInv, NodeTypeOK
  <2>2. stable[k] = [ino |-> c.got, mode |-> c.mode]
    BY <1>2, <2>1 DEF StableAttrs
  <2> QED
    BY <1>1, <1>2, <2>2 DEF Same, Renewed
<1>3. MakesNode(c, m)
  <2>1. ASSUME FindsNode(c, m)
        PROVE  FALSE
    <3>1. m \in known /\ stable[m] = [ino |-> c.got, mode |-> c.mode] /\ c.op \notin Making
      BY <2>1 DEF FindsNode, Same
    <3> QED
      BY <1>2, <3>1, SMT, Z3T(30)
  <2> QED
    BY <2>1
<1>4. ASSUME NEW k \in known, k \in known', stable[k].ino = c.got
      PROVE  stable[k].mode # c.mode /\ \A e \in parents[k] : Leaving(e)
  <2>1. k \notin Same(c)
    BY <1>3, <1>4 DEF MakesNode, BaseInv, NodeTypeOK
  <2>2. stable[k].mode # c.mode
    BY <1>2, <1>4, <2>1
  <2> QED
    BY <1>4, <2>2 DEF Renewed
<1>5. ASSUME NEW k \in NodeIds, DirNode(k), stable[k].ino = c.got, c.mode = "dir"
      PROVE  c.op \in Making
  <2>1. PICK l \in known : stable[l] = stable[k]
    BY <1>5 DEF BaseInv, NodesOK
  <2> QED
    BY <1>2, <1>5, <2>1 DEF DirNode
<1> QED
  BY <1>4, <1>5

\* A Node that was there before the reply to c.
LEMMA OldPlace ==
  ASSUME BaseInv, Blame, PlacesOK, PendingOK, NEW p \in Procs, NEW c, NEW m, Joins(p, c, m),
         FindsNode(c, m) \/ MakesNode(c, m),
         \A l \in NodeIds : stable[l] # None => stable'[l] = stable[l] /\ path'[l] = path[l],
         NEW k \in known, k \in known', stable[k].ino \in Inodes \ moved'
  PROVE  /\ \A e \in parents[k] : (Leaving(e) \/ Sits(k, e))'
         /\ kind'[stable'[k].ino] = stable'[k].mode => Getattr(k)' = stable'[k].ino
<1>1. call[p] = c /\ c \in AddCalls /\ UNCHANGED container /\ ent' = ent /\ kind' = kind
  BY DEF Joins, container
<1>2. /\ moved' = ((moved \cup IF Found(c) THEN {} ELSE {c.got})
                     \ IF Renewed(c) THEN {c.got} ELSE {}) \ {None}
      /\ \A e : Leaving(e) => Leaving(e)'
  BY JoinBlame
<1>3. k \in NodeIds /\ stable[k] # None /\ stable'[k] = stable[k] /\ path'[k] = path[k]
  BY DEF BaseInv, NodeTypeOK
<1>4. parents[k] \subseteq NodeIds \X Names
  BY <1>3, BaseTypes DEF NewestOK
<1>5. PICK j : j = stable[k].ino
  OBVIOUS
<1>6. j \in Inodes /\ j \notin moved'
  BY <1>5
<1>7. CASE j \notin moved
  <2>1. PlaceOK(k)
    BY <1>5, <1>6, <1>7, PlacesAre
  <2>2. Getattr(k)' = Getattr(k)
    BY <1>1, <1>3, GetattrIs
  <2>3. ASSUME NEW e \in parents[k], Sits(k, e)
        PROVE  Sits(k, e)'
    <3>1. e \in NodeIds \X Names
      BY <1>4, <2>3
    <3>2. PICK D : D = stable[e[1]].ino
      OBVIOUS
    <3>3. DirNode(e[1]) /\ Getattr(e[1]) = D /\ At(D, e[2]) = j /\ (e[1] \in known \/ D \in moved)
      BY <1>5, <2>3, <3>2 DEF Sits
    <3>4. IsDir(D) /\ ent[D][e[2]] = j /\ j # None /\ e[2] \in Names
      BY <1>6, <3>1, <3>3, TreeAssumption DEF At
    <3>5. ASSUME D = c.got, c.op \in Making, c.mode = "dir", Found(c)
          PROVE  FALSE
      <4>1. ent[D][e[2]] \in moved \cup {None}
        BY <1>1, <3>4, <3>5, MadeMoved
      <4> QED
        BY <1>7, <3>4, <4>1
    <3>6. e[1] \in known' \/ D \in moved'
      <4>1. CASE D \in moved
        <5>1. CASE Renewed(c) /\ D = c.got
          <6>1. Found(c) /\ kind[D] = c.mode
            BY <5>1 DEF Renewed, Found
          <6>2. c.mode = "dir" /\ e[1] \in NodeIds
            BY <3>1, <3>4, <6>1 DEF IsDir
          <6>3. c.op \in Making
            BY <3>2, <3>3, <5>1, <6>2, Renews
          <6> QED
            BY <3>5, <5>1, <6>1, <6>2, <6>3
        <5>2. CASE ~(Renewed(c) /\ D = c.got)
          <6>1. D # None
            BY <3>4 DEF IsDir
          <6> QED
            BY <1>2, <4>1, <5>2, <6>1
        <5> QED
          BY <5>1, <5>2
      <4>2. CASE e[1] \in known /\ e[1] \notin known'
        <5>1. MakesNode(c, m) /\ e[1] \in Same(c)
          BY <4>2 DEF FindsNode, MakesNode
        <5>2. c.op \in Making /\ stable[e[1]] = [ino |-> c.got, mode |-> c.mode] /\ c.got # None
          BY <5>1 DEF MakesNode, Same
        <5>3. D = c.got /\ c.mode = "dir"
          BY <3>2, <3>3, <5>2, SMT, Z3T(30) DEF DirNode
        <5>4. ~Found(c)
          BY <3>5, <5>2, <5>3
        <5>5. ~Renewed(c)
          BY <5>4 DEF Renewed
        <5> QED
          BY <1>2, <5>2, <5>3, <5>4, <5>5
      <4> QED
        BY <3>3, <4>1, <4>2
    <3> QED
      BY <1>1, <1>3, <2>3, <3>1, <3>2, <3>6, SitsStill
  <2>4. \A e \in parents[k] : (Leaving(e) \/ Sits(k, e))'
    BY <1>2, <2>1, <2>3 DEF PlaceOK
  <2>5. kind'[stable'[k].ino] = stable'[k].mode => Getattr(k)' = stable'[k].ino
    BY <1>1, <1>3, <2>1, <2>2 DEF PlaceOK
  <2> QED
    BY <2>4, <2>5
<1>8. CASE j \in moved
  <2>1. Renewed(c) /\ j = c.got
    BY <1>2, <1>6, <1>8, TreeAssumption
  <2>2. kind[j] = c.mode
    BY <2>1 DEF Renewed, Found
  <2>3. stable[k].mode # c.mode /\ \A e \in parents[k] : Leaving(e)
    BY <1>5, <2>1, Renews
  <2>4. \A e \in parents[k] : (Leaving(e) \/ Sits(k, e))'
    BY <1>2, <2>3
  <2>5. kind'[stable'[k].ino] # stable'[k].mode
    BY <1>1, <1>3, <1>5, <2>2, <2>3
  <2> QED
    BY <2>4, <2>5
<1> QED
  BY <1>7, <1>8

\* The place the Node gets.
LEMMA NewPlace ==
  ASSUME BaseInv, Blame, PendingOK, NEW p \in Procs, NEW c, NEW m, Joins(p, c, m),
         FindsNode(c, m) \/ MakesNode(c, m), stable'[m] = [ino |-> c.got, mode |-> c.mode],
         \A l \in NodeIds : stable[l] # None => stable'[l] = stable[l] /\ path'[l] = path[l],
         c.got \in Inodes \ moved'
  PROVE  /\ Sits(m, <<c.n, c.x>>)'
         /\ Current(c.n) /\ stat(c.n, c.x) = c.got
<1>1. call[p] = c /\ c \in AddCalls /\ ent' = ent /\ kind' = kind
  BY DEF Joins, container
<1>2. moved' = ((moved \cup IF Found(c) THEN {} ELSE {c.got})
                  \ IF Renewed(c) THEN {c.got} ELSE {}) \ {None}
  BY JoinBlame
<1>3. Found(c)
  BY <1>2, TreeAssumption DEF Renewed
<1>4. PICK n, x : n = c.n /\ x = c.x
  OBVIOUS
<1>5. n \in NodeIds /\ x \in Names /\ c # Idle
  BY <1>1, <1>4, SMT, Z3T(30) DEF AddCalls, Idle
<1>6. DirNode(n) /\ stable[n] # None
  BY <1>1, <1>4, <1>5 DEF BaseInv, CallsOK, Dirs, DirNode
<1>7. PICK D : D = stable[n].ino
  OBVIOUS
<1>8. Current(n) /\ stat(n, x) = c.got /\ kind[c.got] = c.mode
  BY <1>3, <1>4 DEF Found
<1>9. n \in known /\ Getattr(n) = D /\ D \notin moved /\ At(D, x) = c.got
  BY <1>7, <1>8 DEF Current, InPlace, stat
<1>10. stable'[n] = stable[n] /\ path'[n] = path[n]
  BY <1>5, <1>6
<1>11. Getattr(n)' = D /\ DirNode(n)' /\ stable'[n].ino = D
  BY <1>1, <1>6, <1>7, <1>9, <1>10, GetattrIs DEF DirNode
<1>12. At(D, x)' = c.got
  BY <1>1, <1>9 DEF At, IsDir
<1>13. n \in known'
  <2>1. ASSUME n \in Same(c), c.op \in Making
        PROVE  FALSE
    <3>1. stable[n] = [ino |-> c.got, mode |-> c.mode]
      BY <2>1 DEF Same
    <3>2. c.mode = "dir" /\ D = c.got
      BY <1>6, <1>7, <3>1, SMT, Z3T(30) DEF DirNode
    <3>3. c.got \in moved
      BY <1>1, <1>3, <2>1, <3>2, MadeMoved
    <3> QED
      BY <1>9, <3>2, <3>3
  <2> QED
    BY <1>9, <2>1 DEF FindsNode, MakesNode
<1>14. PICK e : e = <<n, x>>
  OBVIOUS
<1>15. e[1] = n /\ e[2] = x
  BY <1>14
<1>16. Sits(m, e)'
  BY <1>1, <1>8, <1>11, <1>12, <1>13, <1>15, SMT, Z3T(30) DEF Sits, At, IsDir
<1> QED
  BY <1>4, <1>8, <1>14, <1>16

\* The reply to a call that adds a Node.
LEMMA JoinKeeps ==
  ASSUME BaseInv, Blame, UnmovedOK, PlacesOK, PendingOK, NEW p \in Procs, NEW c, NEW m,
         Joins(p, c, m),
         FindsNode(c, m) \/ MakesNode(c, m),
         \A l \in NodeIds : stable[l] # None => stable'[l] = stable[l] /\ path'[l] = path[l]
  PROVE  UnmovedOK' /\ PlacesOK'
<1>1. /\ call[p] = c /\ c \in AddCalls /\ ent' = ent /\ kind' = kind /\ m \in NodeIds
      /\ parents' = [l \in NodeIds |-> IF l = m THEN parents[l] \cup {<<c.n, c.x>>}
                                       ELSE parents[l] \ {<<c.n, c.x>>}]
  BY DEF Joins, container
<1>2. moved' = ((moved \cup IF Found(c) THEN {} ELSE {c.got})
                  \ IF Renewed(c) THEN {c.got} ELSE {}) \ {None}
  BY JoinBlame
<1>3. ASSUME NEW j \in Inodes \ moved'
      PROVE  OneName(j)'
  <2>1. CASE j \notin moved
    BY <1>1, <2>1, SMT, Z3T(30) DEF UnmovedOK, OneName
  <2>2. CASE j \in moved
    <3>1. Renewed(c) /\ j = c.got
      BY <1>2, <1>3, <2>2, TreeAssumption
    <3>2. NamesOf(j) = {<<Getattr(c.n), c.x>>}
      BY <3>1 DEF Renewed
    <3>3. ASSUME NEW d \in Inodes, NEW x \in Names, ent[d][x] = j
          PROVE  <<d, x>> = <<Getattr(c.n), c.x>>
      <4>1. PICK e : e = <<d, x>>
        OBVIOUS
      <4>2. e \in Inodes \X Names /\ ent[e[1]][e[2]] = j
        BY <3>3, <4>1
      <4>3. e \in NamesOf(j)
        BY <4>2 DEF NamesOf
      <4> QED
        BY <3>2, <4>1, <4>3
    <3>4. ASSUME NEW d \in Inodes, NEW x \in Names, NEW b \in Inodes, NEW y \in Names,
                 ent[d][x] = j, ent[b][y] = j
          PROVE  d = b /\ x = y
      BY <3>3, <3>4
    <3> QED
      BY <1>1, <3>4, SMT, Z3T(30) DEF OneName
  <2> QED
    BY <2>1, <2>2
<1>4. ASSUME NEW k \in known', stable'[k].ino \in Inodes \ moved'
      PROVE  PlaceOK(k)'
  <2>1. CASE k # m
    <3>1. k \in known /\ k \in NodeIds
      BY <1>4, <2>1 DEF FindsNode, MakesNode, BaseInv, NodeTypeOK
    <3>2. stable'[k] = stable[k]
      BY <3>1 DEF BaseInv, NodeTypeOK
    <3>3. parents'[k] \subseteq parents[k]
      BY <1>1, <2>1, <3>1
    <3> QED
      BY <1>4, <3>1, <3>2, <3>3, OldPlace DEF PlaceOK
  <2>2. CASE k = m /\ FindsNode(c, m)
    <3>1. m \in known /\ stable'[m] = stable[m] /\ stable[m] = [ino |-> c.got, mode |-> c.mode]
      BY <2>2 DEF FindsNode, Same
    <3>2. /\ \A e \in parents[m] : (Leaving(e) \/ Sits(m, e))'
          /\ kind'[stable'[m].ino] = stable'[m].mode => Getattr(m)' = stable'[m].ino
      BY <1>4, <2>2, <3>1, OldPlace
    <3>3. Sits(m, <<c.n, c.x>>)'
      BY <1>4, <2>2, <3>1, NewPlace, SMT, Z3T(30)
    <3>4. parents'[m] = parents[m] \cup {<<c.n, c.x>>}
      BY <1>1
    <3> QED
      BY <2>2, <3>2, <3>3, <3>4 DEF PlaceOK
  <2>3. CASE k = m /\ MakesNode(c, m)
    <3>1. stable \in [NodeIds -> StableAttrs \cup {None}] /\ path \in [NodeIds -> Seq(Names)]
      BY DEF BaseInv, NodeTypeOK
    <3>2. /\ stable'[m] = [ino |-> c.got, mode |-> c.mode] /\ path'[m] = Append(path[c.n], c.x)
          /\ stable[m] = None
      BY <1>1, <2>3, <3>1 DEF MakesNode
    <3>3. c.got \in Inodes \ moved'
      BY <1>4, <2>3, <3>2, SMT, Z3T(30)
    <3>4. Sits(m, <<c.n, c.x>>)' /\ Current(c.n) /\ stat(c.n, c.x) = c.got
      BY <2>3, <3>2, <3>3, NewPlace
    <3>5. parents'[m] = {<<c.n, c.x>>}
      <4>1. parents[m] = {}
        BY <1>1, <3>2 DEF BaseInv, NodesOK
      <4> QED
        BY <1>1, <4>1
    <3>6. Getattr(m)' = c.got
      <4>1. c.n \in NodeIds /\ c.x \in Names
        BY <1>1 DEF AddCalls
      <4>2. PICK s, x : s = path[c.n] /\ x = c.x
        OBVIOUS
      <4>3. s \in Seq(Names) /\ x \in Names
        BY <3>1, <4>1, <4>2
      <4>4. ResolveIn(ent, kind, Append(s, x)) =
              LET d == ResolveIn(ent, kind, s)
              IN  IF DirIn(kind, d) /\ x \in Names THEN ent[d][x] ELSE None
        BY <4>3, ResolveAppend
      <4>5. StatIn(ent, kind, s, x) = c.got
        BY <3>4, <4>2, StatIs
      <4>6. ResolveIn(ent, kind, Append(s, x)) = c.got
        BY <4>3, <4>4, <4>5 DEF StatIn
      <4> QED
        BY <1>1, <3>2, <4>2, <4>6, GetattrIs
    <3>7. \A e \in parents'[m] : (Leaving(e) \/ Sits(m, e))'
      BY <3>4, <3>5
    <3>8. stable'[m].ino = c.got
      BY <3>2, SMT, Z3T(30)
    <3> QED
      BY <2>3, <3>6, <3>7, <3>8 DEF PlaceOK
  <2> QED
    BY <2>1, <2>2, <2>3
<1>5. UnmovedOK'
  BY <1>3 DEF UnmovedOK
<1>6. PlacesOK'
  BY <1>4, PlacesAre
<1> QED
  BY <1>5, <1>6

\* The reply to a removal or a Rename.
LEMMA ReplaceKeeps ==
  ASSUME BaseInv, UnmovedOK, PlacesOK, PendingOK, moved' = moved, NEW p \in Procs, NEW c,
         Replaces(p),
         Leaves(p, c) \/ Shifts(p, c)
  PROVE  UnmovedOK' /\ PlacesOK'
<1>1. /\ call[p] = c /\ call' = [call EXCEPT ![p] = Idle] /\ ent' = ent /\ kind' = kind
      /\ path' = path /\ stable' = stable /\ known' = known /\ UNCHANGED container
  BY DEF Replaces, container, Leaves, Shifts
<1>2. \A e : Leaving(e) => Leaving(e)' \/ (c.op = "remove" /\ e = <<c.n, c.x>>)
  BY <1>1, OneReturned
<1>3. UnmovedOK'
  BY <1>1, SMT, Z3T(30) DEF UnmovedOK, OneName
<1>4. ASSUME NEW k \in known', stable'[k].ino \in Inodes \ moved'
      PROVE  PlaceOK(k)'
  <2>1. k \in known /\ k \in NodeIds /\ stable[k] # None /\ stable[k].ino \in Inodes \ moved
    BY <1>1, <1>4 DEF BaseInv, NodeTypeOK
  <2>2. PlaceOK(k)
    BY <2>1, PlacesAre
  <2>3. Getattr(k)' = Getattr(k)
    BY <1>1, GetattrIs
  <2>4. parents[k] \subseteq NodeIds \X Names
    BY <2>1, BaseTypes DEF NewestOK
  <2>5. parents'[k] \subseteq parents[k] /\ (c.op = "remove" => <<c.n, c.x>> \notin parents'[k])
    <3>1. CASE Leaves(p, c)
      BY <2>1, <3>1 DEF Leaves
    <3>2. CASE Shifts(p, c)
      <4>1. c.op = "rename" /\ c.step = "reply"
        BY <3>2 DEF Shifts, RenameCalls
      <4>2. PICK m \in NodeIds :
              /\ <<c.n, c.x>> \in parents[m]
              /\ parents' = [l \in NodeIds |->
                               IF l = m THEN (parents[l] \ {<<c.n, c.x>>}) \cup {<<c.to, c.y>>}
                               ELSE parents[l] \ {<<c.to, c.y>>}]
        BY <3>2 DEF Shifts
      <4>3. k # m
        BY <1>1, <2>1, <4>1, <4>2, TreeAssumption DEF PendingOK
      <4> QED
        BY <2>1, <4>1, <4>2, <4>3
    <3> QED
      BY <3>1, <3>2
  <2>6. ASSUME NEW e \in parents'[k]
        PROVE  (Leaving(e) \/ Sits(k, e))'
    <3>1. CASE Leaving(e)
      BY <1>2, <2>5, <2>6, <3>1
    <3>2. CASE Sits(k, e)
      <4>1. e \in NodeIds \X Names
        BY <2>4, <2>5, <2>6
      <4>2. e[1] \in known' \/ stable[e[1]].ino \in moved'
        BY <1>1, <3>2 DEF Sits
      <4> QED
        BY <1>1, <2>1, <3>2, <4>1, <4>2, SitsStill
    <3> QED
      BY <2>2, <2>5, <2>6, <3>1, <3>2 DEF PlaceOK
  <2> QED
    BY <1>1, <2>2, <2>3, <2>6 DEF PlaceOK
<1>5. PlacesOK'
  BY <1>4, PlacesAre
<1> QED
  BY <1>3, <1>5

-------------------------------------------------------------------------------
(* Calls in flight                                                          *)

\* PendingOK before and after a step, call by call.
LEMMA PendingIs ==
  /\ PendingOK <=> \A p \in Procs : /\ MkdirIn(call[p], known, stable, path, ent, kind, moved)
                                    /\ ShiftIn(call[p], known, stable, parents, moved)
  /\ PendingOK' <=> \A p \in Procs : /\ MkdirIn(call'[p], known', stable', path', ent', kind', moved')
                                     /\ ShiftIn(call'[p], known', stable', parents', moved')
<1>1. ASSUME NEW p
      PROVE  /\ Getattr(call[p].n) = ResolveIn(ent, kind, path[call[p].n])
             /\ Getattr(call[p].n)' = ResolveIn(ent', kind', path'[call'[p].n])
             /\ stat(call[p].n, call[p].x) = StatIn(ent, kind, path[call[p].n], call[p].x)
             /\ stat(call[p].n, call[p].x)' = StatIn(ent', kind', path'[call'[p].n], call'[p].x)
  BY DEF stat, StatIn, At, Getattr, Resolve, ResolveIn, IsDir, DirIn
<1>2. ASSUME NEW p
      PROVE  (Current(call[p].n) <=> /\ call[p].n \in known
                                     /\ ResolveIn(ent, kind, path[call[p].n]) = stable[call[p].n].ino
                                     /\ stable[call[p].n].ino \notin moved)
  BY <1>1 DEF Current, InPlace
<1>3. ASSUME NEW p
      PROVE  (Current(call[p].n)' <=> /\ call'[p].n \in known'
                                      /\ ResolveIn(ent', kind', path'[call'[p].n]) = stable'[call'[p].n].ino
                                      /\ stable'[call'[p].n].ino \notin moved')
  BY <1>1 DEF Current, InPlace
<1>4. PendingOK <=> \A p \in Procs : /\ MkdirIn(call[p], known, stable, path, ent, kind, moved)
                                     /\ ShiftIn(call[p], known, stable, parents, moved)
  BY <1>1, <1>2 DEF PendingOK, MkdirIn, ShiftIn
<1>5. PendingOK' <=> \A p \in Procs : /\ MkdirIn(call'[p], known', stable', path', ent', kind', moved')
                                      /\ ShiftIn(call'[p], known', stable', parents', moved')
  BY <1>1, <1>3 DEF PendingOK, MkdirIn, ShiftIn
<1> QED
  BY <1>4, <1>5

\* A step after which only what is kept has not moved is orderly.
LEMMA CarefulOrderly ==
  ASSUME BaseInv, ContainerStep, Careful
  PROVE  Orderly
<1>1. ASSUME NEW d \in Inodes \ moved', kind'[d] = "dir"
      PROVE  kind[d] = "dir"
  BY <1>1, KeptKind DEF Careful
<1>2. ASSUME NEW d \in Inodes, NEW x \in Names, ent'[d][x] # None, ent'[d][x] # ent[d][x]
      PROVE  ent'[d][x] \in moved' /\ \A y \in Names : ent[ent'[d][x]][y] \in moved' \cup {None}
  <2>1. PICK g : g = ent'[d][x]
    OBVIOUS
  <2>2. g \in Inodes
    BY <1>2, <2>1, SMT, Z3T(30) DEF ContainerStep, ContainerType
  <2>3. g \in Changed
    BY <1>2, <2>1, <2>2, NotChanged, SMT, Z3T(30)
  <2>4. g \in moved'
    BY <2>2, <2>3, KeptKind DEF Careful
  <2>5. ASSUME NEW y \in Names, ent[g][y] # None
        PROVE  ent[g][y] \in moved'
    <3>1. IsDir(g)
      BY <2>2, <2>5 DEF BaseInv, ContainerOK
    <3>2. Within(ent[g][y], g)
      BY <2>2, <2>5, <3>1, WithinEntry
    <3>3. ent[g][y] \in Inodes
      BY <2>2, <2>5, BaseTypes, SMT, Z3T(30) DEF ContainerType
    <3> QED
      BY <2>3, <3>2, <3>3 DEF Careful, Kept
  <2> QED
    BY <2>1, <2>4, <2>5
<1> QED
  BY <1>1, <1>2 DEF Orderly, Careful

\* So is a removal.
LEMMA RemoveOrderly ==
  ASSUME BaseInv, moved' = moved, NEW n \in NodeIds, NEW c, c.x \in Names, Drops(n, c)
  PROVE  Orderly
<1>1. PICK t \in Inodes : Rebinds(Getattr(n), c.x, None, t) /\ kind'[t] # "dir"
  BY DEF Drops
<1>2. /\ ContainerStep /\ Changed = {t}
      /\ \A b \in Inodes, y \in Names : ent'[b][y] = IF b = Getattr(n) /\ y = c.x THEN None ELSE ent[b][y]
  BY <1>1 DEF Rebinds
<1>3. \A d \in Inodes : kind'[d] = "dir" => kind[d] = "dir"
  BY <1>1, <1>2 DEF ContainerStep
<1> QED
  BY <1>2, <1>3, SMT, Z3T(30) DEF Orderly

\* A Mkdir in flight during such a change.
LEMMA MkdirWaits ==
  ASSUME BaseInv, PlacesOK, Orderly, ContainerType', UNCHANGED nodes,
         NEW c, c.n \in NodeIds, c.x \in Names, DirNode(c.n),
         MkdirIn(c, known, stable, path, ent, kind, moved)
  PROVE  MkdirIn(c, known', stable', path', ent', kind', moved')
<1>1. path' = path /\ stable' = stable /\ known' = known
  BY DEF nodes
<1>2. PICK n, x, D : n = c.n /\ x = c.x /\ D = stable[n].ino
  OBVIOUS
<1>3. SUFFICES ASSUME c.op = "mkdir", n \in known, ResolveIn(ent', kind', path[n]) = D, D \notin moved',
                      StatIn(ent', kind', path[n], x) # None
               PROVE  LET g == StatIn(ent', kind', path[n], x)
                      IN  g \in moved' /\ \A y \in Names : ent'[g][y] \in moved' \cup {None}
  BY <1>1, <1>2 DEF MkdirIn
<1>4. PICK g : g = StatIn(ent', kind', path[n], x)
  OBVIOUS
<1>5. kind'[D] = "dir" /\ g = ent'[D][x] /\ g # None
  BY <1>3, <1>4 DEF StatIn, DirIn
<1>6. D \in Inodes /\ D \notin moved
  BY <1>2, <1>3 DEF Orderly, BaseInv, NodesOK
<1>7. kind[D] = "dir"
  BY <1>3, <1>5, <1>6 DEF Orderly
<1>8. Getattr(n) = D
  BY <1>2, <1>3, <1>6, <1>7 DEF PlacesOK, DirNode
<1>9. ResolveIn(ent, kind, path[n]) = D
  BY <1>8, GetattrIs
<1>10. D # None
  BY <1>6, TreeAssumption
<1>11. StatIn(ent, kind, path[n], x) = ent[D][x]
  BY <1>7, <1>9, <1>10 DEF StatIn, DirIn
<1>12. g \in moved' /\ \A y \in Names : ent[g][y] \in moved' \cup {None}
  <2>1. CASE g = ent[D][x]
    <3>1. g \in moved /\ \A y \in Names : ent[g][y] \in moved \cup {None}
      BY <1>2, <1>3, <1>5, <1>6, <1>9, <1>11, <2>1 DEF MkdirIn
    <3> QED
      BY <3>1 DEF Orderly
  <2>2. CASE g # ent[D][x]
    BY <1>2, <1>5, <1>6, <2>2 DEF Orderly
  <2> QED
    BY <2>1, <2>2
<1>13. ASSUME NEW y \in Names, g \in Inodes
       PROVE  ent'[g][y] \in moved' \cup {None}
  BY <1>12, <1>13 DEF Orderly
<1>14. g \in Inodes
  <2>1. ent'[D] \in [Names -> Inodes \cup {None}]
    BY <1>2, <1>6 DEF ContainerType
  <2>2. ent'[D][x] \in Inodes \cup {None}
    BY <1>2, <1>5, <2>1
  <2> QED
    BY <1>5, <2>2
<1> QED
  BY <1>4, <1>12, <1>13, <1>14

\* Two calls that hold the same directory only look.
LEMMA Locks ==
  ASSUME BaseInv, NEW p \in Procs, NEW q \in Procs, p # q, NEW n, n \in Dirs(p), n \in Dirs(q)
  PROVE  call[p].op \in Sharing /\ call[q].op \in Sharing
BY DEF BaseInv, CallsOK, Sharing

\* A Mkdir begins.
LEMMA MkdirStarts ==
  ASSUME BaseInv, Careful, UNCHANGED nodes, NEW p \in Procs, NEW n \in NodeIds, NEW c,
         Begins(p, n, c)
  PROVE  MkdirIn(c, known', stable', path', ent', kind', moved')
<1>1. path' = path /\ stable' = stable /\ known' = known
  BY DEF nodes
<1>2. SUFFICES ASSUME c.op = "mkdir"
               PROVE  MkdirIn(c, known', stable', path', ent', kind', moved')
  BY DEF MkdirIn
<1>3. Adds(n, c) /\ c.n = n /\ c \in CallSet
  BY <1>2 DEF Begins, GoodCall
<1>4. PICK i \in Inodes : Rebinds(Getattr(n), c.x, i, i)
  BY <1>3 DEF Adds
<1>5. PICK d : d = Getattr(n)
  OBVIOUS
<1>6. /\ ContainerStep /\ Changed = {i} /\ Entries(i) = {} /\ d \in Inodes \ {i} /\ IsDir(d)
      /\ \A b \in Inodes, y \in Names : ent'[b][y] = IF b = d /\ y = c.x THEN i ELSE ent[b][y]
  BY <1>4, <1>5 DEF Rebinds
<1>7. c.x \in Names
  <2>1. c \in AddCalls
    BY <1>2, <1>3, CallKinds DEF Adding, Making
  <2> QED
    BY <2>1 DEF AddCalls
<1>8. ResolveIn(ent', kind', path[n]) = d /\ kind'[d] = kind[d]
  BY <1>5, <1>6, SamePlace, GetattrIs, BaseTypes, SMT, Z3T(30)
<1>9. StatIn(ent', kind', path[n], c.x) = i
  BY <1>6, <1>7, <1>8 DEF StatIn, DirIn, IsDir
<1>10. i \in moved'
  BY <1>6, KeptKind DEF Careful
<1>11. \A y \in Names : ent'[i][y] = None
  BY <1>6, NoEntries, SMT, Z3T(30) DEF BaseInv
<1> QED
  BY <1>1, <1>3, <1>9, <1>10, <1>11 DEF MkdirIn

\* The file a Rename takes is the one the Node it renames stands for: that has not moved, and
\* no other call changes the directory meanwhile.
LEMMA RenameTakesFile ==
  ASSUME BaseInv, PlacesOK, NEW p \in Procs, NEW c, Renames(p, c),
         NEW m \in known, <<c.n, c.x>> \in parents[m], stable[m].ino \in Inodes \ moved
  PROVE  stable[m].ino = c.got
<1>1. PICK n, x : n = c.n /\ x = c.x
  OBVIOUS
<1>2. /\ call[p].op = "rename" /\ call[p].n = n /\ call[p].x = x
      /\ c.got = ent[Getattr(n)][x] /\ IsDir(Getattr(n))
  BY <1>1 DEF Renames
<1>3. n \in Dirs(p) /\ call[p].op \notin Sharing
  BY <1>2, SMT, Z3T(30) DEF Dirs, Idle, Sharing
<1>4. Leaving(<<n, x>>) \/ Sits(m, <<n, x>>)
  BY <1>1 DEF PlacesOK
<1>5. CASE Leaving(<<n, x>>)
  <2>1. PICK q \in Procs : call[q].op = "remove" /\ <<call[q].n, call[q].x>> = <<n, x>>
    BY <1>5 DEF Leaving
  <2>2. n \in Dirs(q) /\ q # p /\ call[q].op \notin Sharing
    BY <1>2, <2>1, SMT, Z3T(30) DEF Dirs, Idle, Sharing
  <2> QED
    BY <1>3, <2>2, Locks
<1>6. CASE Sits(m, <<n, x>>)
  <2>1. PICK D : D = stable[n].ino
    OBVIOUS
  <2>2. Getattr(n) = D /\ At(D, x) = stable[m].ino
    BY <1>6, <2>1 DEF Sits
  <2> QED
    BY <1>2, <2>2 DEF At
<1> QED
  BY <1>4, <1>5, <1>6

\* Where a Rename takes a file from, no Node of an inode that has not moved is left.
LEMMA RenameTakes ==
  ASSUME BaseInv, PlacesOK, UNCHANGED nodes, NEW p \in Procs, NEW c, Renames(p, c),
         c.got \in moved', moved \subseteq moved'
  PROVE  ShiftIn(c, known', stable', parents', moved')
<1>1. stable' = stable /\ known' = known /\ parents' = parents
  BY DEF nodes
<1>2. SUFFICES ASSUME NEW m \in known, <<c.n, c.x>> \in parents[m],
                      stable[m].ino \notin moved' \cup {None}
               PROVE  FALSE
  BY <1>1 DEF ShiftIn
<1>3. m \in NodeIds /\ stable[m] \in StableAttrs
  BY DEF BaseInv, NodeTypeOK
<1>4. stable[m].ino \in Inodes \ moved
  BY <1>2, <1>3 DEF StableAttrs
<1> QED
  BY <1>2, <1>4, RenameTakesFile

\* Another call adds a Node while a Mkdir is in flight.
LEMMA JoinMkdir ==
  ASSUME BaseInv, Blame, NEW p \in Procs, NEW c, NEW m, Joins(p, c, m),
         FindsNode(c, m) \/ MakesNode(c, m),
         \A l \in NodeIds : stable[l] # None => stable'[l] = stable[l] /\ path'[l] = path[l],
         NEW q \in Procs, q # p, MkdirIn(call[q], known, stable, path, ent, kind, moved)
  PROVE  MkdirIn(call[q], known', stable', path', ent', kind', moved')
<1>1. call[p] = c /\ c \in AddCalls /\ ent' = ent /\ kind' = kind
  BY DEF Joins, container
<1>2. moved' = ((moved \cup IF Found(c) THEN {} ELSE {c.got})
                  \ IF Renewed(c) THEN {c.got} ELSE {}) \ {None}
  BY JoinBlame
<1>3. SUFFICES ASSUME call[q].op = "mkdir"
               PROVE  MkdirIn(call[q], known', stable', path', ent', kind', moved')
  BY DEF MkdirIn
<1>4. PICK n, x : n = call[q].n /\ x = call[q].x
  OBVIOUS
<1>5. n \in NodeIds /\ x \in Names
  <2>1. call[q] \in AddCalls
    BY <1>3, BaseTypes, CallKinds DEF Adding, Making
  <2> QED
    BY <1>4, <2>1 DEF AddCalls
<1>6. n \in Dirs(q) /\ call[q].op \notin Sharing
  BY <1>3, <1>4, SMT, Z3T(30) DEF Dirs, Idle, Sharing
<1>7. DirNode(n) /\ stable[n] # None
  BY <1>6 DEF BaseInv, CallsOK, DirNode
<1>8. stable'[n] = stable[n] /\ path'[n] = path[n]
  BY <1>5, <1>7
<1>9. PICK D : D = stable[n].ino
  OBVIOUS
<1>10. SUFFICES ASSUME n \in known', ResolveIn(ent, kind, path[n]) = D, D \notin moved',
                       StatIn(ent, kind, path[n], x) # None
                PROVE  LET g == StatIn(ent, kind, path[n], x)
                       IN  g \in moved' /\ \A y \in Names : ent[g][y] \in moved' \cup {None}
  BY <1>1, <1>3, <1>4, <1>8, <1>9 DEF MkdirIn
<1>11. PICK g : g = StatIn(ent, kind, path[n], x)
  OBVIOUS
<1>12. IsDir(D) /\ g = ent[D][x] /\ g # None /\ D \in Inodes
  BY <1>5, <1>7, <1>9, <1>10, <1>11 DEF StatIn, DirIn, IsDir, BaseInv, NodesOK
<1>13. g \in Inodes
  <2>1. ent[D] \in [Names -> Inodes \cup {None}]
    BY <1>12, BaseTypes DEF ContainerType
  <2>2. ent[D][x] \in Inodes \cup {None}
    BY <1>5, <2>1
  <2> QED
    BY <1>12, <2>2
<1>14. n \in known
  BY <1>7, <1>10 DEF FindsNode, MakesNode
\* The directory has not been renewed: the reply would have put another Node in its place.
<1>15. D \notin moved
  <2>1. SUFFICES ASSUME D \in moved
                 PROVE  FALSE
    OBVIOUS
  <2>2. Renewed(c) /\ D = c.got
    BY <1>2, <1>10, <1>12, <2>1 DEF IsDir
  <2>3. kind[D] = c.mode
    BY <2>2 DEF Renewed, Found
  <2>4. stable[n].mode = c.mode
    BY <1>7, <1>12, <2>3 DEF DirNode, IsDir
  <2> QED
    BY <1>9, <1>10, <1>14, <2>2, <2>4, Renews
<1>16. g \in moved /\ \A y \in Names : ent[g][y] \in moved \cup {None}
  BY <1>3, <1>4, <1>9, <1>10, <1>11, <1>12, <1>14, <1>15 DEF MkdirIn
\* What it renews is at the name the reply is for.
<1>17. ASSUME Renewed(c), NEW b \in Inodes, NEW y \in Names, ent[b][y] = c.got
       PROVE  b = Getattr(c.n) /\ y = c.x
  <2>1. PICK e : e = <<b, y>>
    OBVIOUS
  <2>2. e \in NamesOf(c.got)
    BY <1>17, <2>1 DEF NamesOf
  <2> QED
    BY <1>17, <2>1, <2>2 DEF Renewed
<1>18. Renewed(c) => /\ c.n \in known /\ Getattr(c.n) = stable[c.n].ino /\ stable[c.n].ino \notin moved
  BY DEF Renewed, Found, Current, InPlace
<1>19. c.n \in Dirs(p) /\ DirNode(c.n)
  <2>1. c # Idle
    BY <1>1, SMT, Z3T(30) DEF AddCalls, Idle
  <2> QED
    BY <1>1, <2>1 DEF Dirs, BaseInv, CallsOK
<1>20. ASSUME Renewed(c), c.got = g
       PROVE  FALSE
  <2>1. D = Getattr(c.n)
    BY <1>5, <1>12, <1>17, <1>20
  <2>2. c.n = n
    BY <1>7, <1>9, <1>14, <1>18, <1>19, <1>20, <2>1, OneDirNode
  <2> QED
    BY <1>6, <1>19, <2>2, Locks
<1>21. ASSUME Renewed(c), NEW y \in Names, c.got = ent[g][y]
       PROVE  FALSE
  BY <1>13, <1>16, <1>17, <1>18, <1>21
<1>22. g \in moved'
  BY <1>2, <1>12, <1>16, <1>20
<1>23. \A y \in Names : ent[g][y] \in moved' \cup {None}
  BY <1>2, <1>16, <1>21
<1> QED
  BY <1>11, <1>22, <1>23

\* Another call adds a Node while a Rename is in flight.
LEMMA JoinShift ==
  ASSUME BaseInv, Blame, NEW p \in Procs, NEW c, NEW m, Joins(p, c, m),
         FindsNode(c, m) \/ MakesNode(c, m),
         \A l \in NodeIds : stable[l] # None => stable'[l] = stable[l] /\ path'[l] = path[l],
         NEW q \in Procs, q # p, ShiftIn(call[q], known, stable, parents, moved)
  PROVE  ShiftIn(call[q], known', stable', parents', moved')
<1>1. /\ call[p] = c /\ c \in AddCalls /\ m \in NodeIds
      /\ parents' = [l \in NodeIds |-> IF l = m THEN parents[l] \cup {<<c.n, c.x>>}
                                       ELSE parents[l] \ {<<c.n, c.x>>}]
  BY DEF Joins
<1>2. moved' = ((moved \cup IF Found(c) THEN {} ELSE {c.got})
                  \ IF Renewed(c) THEN {c.got} ELSE {}) \ {None}
  BY JoinBlame
<1>3. SUFFICES ASSUME call[q].op = "rename", call[q].step = "reply", NEW k \in known',
                      <<call[q].n, call[q].x>> \in parents'[k]
               PROVE  stable'[k].ino \in moved' \cup {None}
  BY DEF ShiftIn
<1>4. PICK n, x : n = call[q].n /\ x = call[q].x
  OBVIOUS
<1>5. n \in Dirs(q) /\ call[q].op \notin Sharing
  BY <1>3, <1>4, SMT, Z3T(30) DEF Dirs, Idle, Sharing
<1>6. <<n, x>> # <<c.n, c.x>>
  <2>1. c.n \in Dirs(p)
    BY <1>1, SMT, Z3T(30) DEF Dirs, AddCalls, Idle
  <2> QED
    BY <1>5, <2>1, Locks
<1>7. k \in NodeIds
  BY <1>1, <1>3 DEF FindsNode, MakesNode, BaseInv, NodeTypeOK
<1>8. <<n, x>> \in parents[k]
  BY <1>1, <1>3, <1>4, <1>6, <1>7
<1>9. stable[k] # None /\ stable'[k] = stable[k]
  BY <1>7, <1>8 DEF BaseInv, NodesOK
<1>10. k \in known /\ (MakesNode(c, m) => k \notin Same(c))
  BY <1>3, <1>9 DEF FindsNode, MakesNode
<1>11. stable[k].ino \in moved \cup {None}
  BY <1>3, <1>4, <1>8, <1>10 DEF ShiftIn
<1>12. ASSUME Renewed(c), stable[k].ino = c.got
       PROVE  FALSE
  <2>1. Leaving(<<n, x>>)
    BY <1>3, <1>8, <1>10, <1>12, Renews
  <2>2. PICK r \in Procs : call[r].op = "remove" /\ <<call[r].n, call[r].x>> = <<n, x>>
    BY <2>1 DEF Leaving
  <2>3. n \in Dirs(r) /\ r # q
    BY <1>3, <2>2, SMT, Z3T(30) DEF Dirs, Idle
  <2> QED
    BY <1>5, <2>3, Locks
<1> QED
  BY <1>2, <1>9, <1>11, <1>12

\* A reply that moves an Inode while a Rename is in flight.
LEMMA ReplaceShift ==
  ASSUME BaseInv, moved' = moved, NEW p \in Procs, NEW c, Replaces(p), Leaves(p, c) \/ Shifts(p, c),
         NEW q \in Procs, q # p, ShiftIn(call[q], known, stable, parents, moved)
  PROVE  ShiftIn(call[q], known', stable', parents', moved')
<1>1. known' = known /\ stable' = stable /\ c = call[p] /\ known \subseteq NodeIds
  BY DEF Replaces, Leaves, Shifts, BaseInv, NodeTypeOK
<1>2. SUFFICES ASSUME call[q].op = "rename", call[q].step = "reply", NEW k \in known,
                      <<call[q].n, call[q].x>> \in parents'[k]
               PROVE  stable[k].ino \in moved \cup {None}
  BY <1>1 DEF ShiftIn
<1>3. PICK n, x : n = call[q].n /\ x = call[q].x
  OBVIOUS
<1>4. n \in Dirs(q) /\ call[q].op \notin Sharing
  BY <1>2, <1>3, SMT, Z3T(30) DEF Dirs, Idle, Sharing
<1>5. <<n, x>> \in parents[k]
  <2>1. CASE Leaves(p, c)
    BY <1>1, <1>2, <1>3, <2>1 DEF Leaves
  <2>2. CASE Shifts(p, c)
    <3>1. c.to \in Dirs(p)
      BY <1>1, <2>2, SMT, Z3T(30) DEF Shifts, Dirs, RenameCalls, Idle
    <3>2. <<n, x>> # <<c.to, c.y>>
      BY <1>4, <3>1, Locks
    <3> QED
      BY <1>1, <1>2, <1>3, <2>2, <3>2 DEF Shifts
  <2> QED
    BY <2>1, <2>2
<1> QED
  BY <1>2, <1>3, <1>5 DEF ShiftIn

\* A call that the step does not concern.
LEMMA PendingWaits ==
  ASSUME BaseInv, PlacesOK, PendingOK, Orderly, ContainerType', UNCHANGED nodes, NEW q \in Procs
  PROVE  /\ MkdirIn(call[q], known', stable', path', ent', kind', moved')
         /\ ShiftIn(call[q], known', stable', parents', moved')
<1>1. /\ MkdirIn(call[q], known, stable, path, ent, kind, moved)
      /\ ShiftIn(call[q], known, stable, parents, moved)
  BY PendingIs
<1>2. stable' = stable /\ known' = known /\ parents' = parents /\ moved \subseteq moved'
  BY DEF nodes, Orderly
<1>3. ShiftIn(call[q], known', stable', parents', moved')
  BY <1>1, <1>2 DEF ShiftIn
<1>4. CASE call[q].op = "mkdir"
  <2>1. call[q] \in AddCalls
    BY <1>4, BaseTypes, CallKinds DEF Adding, Making
  <2>2. call[q].n \in NodeIds /\ call[q].x \in Names /\ call[q].n \in Dirs(q)
    BY <1>4, <2>1, SMT, Z3T(30) DEF AddCalls, Dirs, Idle
  <2>3. DirNode(call[q].n)
    BY <2>2 DEF BaseInv, CallsOK
  <2> QED
    BY <1>1, <1>3, <2>2, <2>3, MkdirWaits
<1>5. CASE call[q].op # "mkdir"
  BY <1>3, <1>5 DEF MkdirIn
<1> QED
  BY <1>4, <1>5

\* A step that changes only the call of p, and the container.
LEMMA NamesPending ==
  ASSUME BaseInv, PlacesOK, PendingOK, Orderly, ContainerType', UNCHANGED nodes,
         NEW p \in Procs, NEW c, call' = [call EXCEPT ![p] = c],
         MkdirIn(c, known', stable', path', ent', kind', moved'),
         ShiftIn(c, known', stable', parents', moved')
  PROVE  PendingOK'
<1>1. \A q \in Procs : call'[q] = IF q = p THEN c ELSE call[q]
  BY BaseTypes
<1>2. ASSUME NEW q \in Procs
      PROVE  /\ MkdirIn(call'[q], known', stable', path', ent', kind', moved')
             /\ ShiftIn(call'[q], known', stable', parents', moved')
  BY <1>1, PendingWaits
<1> QED
  BY <1>2, PendingIs

\* A request keeps them.
LEMMA NamesRequest ==
  ASSUME BaseInv, Blame, NamesOK, NEW p \in Procs, NEW n \in NodeIds, NEW c, Begins(p, n, c),
         UNCHANGED nodes, ContainerStep
  PROVE  NamesOK'
<1>1. call[p] = Idle /\ call' = [call EXCEPT ![p] = c] /\ GoodCall(p, c) /\ c # Idle /\ c.n = n
  BY DEF Begins, Start
<1>2. Idle.op = "none" /\ "none" \notin Adding
  BY DEF Idle, Adding, Making
<1>3. Returned = {}
  BY <1>1, <1>2, OneReturned
<1>4. Taken = {}
  BY <1>1, OneReturned DEF Begins
<1>5. Proper <=> c.op = "remove" /\ Current(n)
  BY <1>1, OneReturned
<1>6. \A e : Leaving(e) => Leaving(e)'
  BY <1>1, <1>2, OneReturned
<1>7. ContainerType'
  BY DEF ContainerStep
<1>8. ShiftIn(c, known', stable', parents', moved')
  BY DEF ShiftIn, Begins
<1>9. CASE ~Proper
  <2>1. Careful
    BY <1>3, <1>9, NoneReturned DEF Careful
  <2>2. UnmovedOK' /\ PlacesOK'
    BY <1>6, <2>1, CarefulKeeps DEF NamesOK
  <2>3. MkdirIn(c, known', stable', path', ent', kind', moved')
    BY <2>1, MkdirStarts
  <2>4. Orderly
    BY <2>1, CarefulOrderly
  <2>5. PendingOK'
    BY <1>1, <1>7, <1>8, <2>3, <2>4, NamesPending DEF NamesOK
  <2> QED
    BY <2>2, <2>5 DEF NamesOK
<1>10. CASE Proper
  <2>1. c.op = "remove" /\ Current(n) /\ Drops(n, c)
    BY <1>5, <1>10 DEF Begins
  <2>2. moved' = moved
    BY <1>3, <1>4, <1>10, NoneReturned
  <2>3. Leaving(<<c.n, c.x>>)'
    BY <1>1, <2>1, OneReturned
  <2>4. c.x \in Names
    <3>1. c \in RemoveCalls
      BY <1>1, <2>1, CallKinds DEF GoodCall
    <3> QED
      BY <3>1 DEF RemoveCalls
  <2>5. DirNode(n)
    BY <1>1 DEF GoodCall, DirsOf
  <2>6. UnmovedOK' /\ PlacesOK'
    BY <1>1, <1>6, <2>1, <2>2, <2>3, <2>4, <2>5, RemoveKeeps DEF NamesOK
  <2>7. Orderly
    BY <2>1, <2>2, <2>4, RemoveOrderly
  <2>8. MkdirIn(c, known', stable', path', ent', kind', moved')
    BY <2>1 DEF MkdirIn
  <2>9. PendingOK'
    BY <1>1, <1>7, <1>8, <2>7, <2>8, NamesPending DEF NamesOK
  <2> QED
    BY <2>6, <2>9 DEF NamesOK
<1> QED
  BY <1>9, <1>10

\* So does a later step of a call,
LEMMA NamesServe ==
  ASSUME BaseInv, Blame, NamesOK, NEW p \in Procs, NEW c,
         Proceeds(p, c), UNCHANGED nodes, ContainerStep
  PROVE  NamesOK'
<1>1. call[p] # Idle /\ call' = [call EXCEPT ![p] = c] /\ GoodCall(p, c)
  BY DEF Proceeds
<1>2. Idle.op = "none" /\ "none" \notin Adding
  BY DEF Idle, Adding, Making
<1>3. call[p].op # "remove" /\ (c = Idle /\ call[p].op \in Adding => call[p].step # "reply")
  <2>1. CASE Stats(p, c)
    BY <1>2, <2>1 DEF Stats, Adding, Making
  <2>2. CASE Renames(p, c)
    BY <1>2, <2>2 DEF Renames
  <2>3. CASE Quiet(p, c)
    BY <1>2, <2>3 DEF Quiet
  <2> QED
    BY <2>1, <2>2, <2>3 DEF Proceeds
<1>4. \A r \in Returned : r.got = None
  <2>1. SUFFICES ASSUME NEW r \in Returned
                 PROVE  FALSE
    OBVIOUS
  <2>2. r = call[p] /\ r.op \in Adding /\ r.step = "reply" /\ c = Idle
    BY <1>1, OneReturned
  <2> QED
    BY <1>3, <2>2
<1>5. ~Proper
  BY <1>1, OneReturned
<1>6. \A e : Leaving(e) => Leaving(e)'
  BY <1>1, <1>3, OneReturned
<1>7. Careful
  BY <1>4, <1>5, NoneReturned DEF Careful
<1>8. UnmovedOK' /\ PlacesOK'
  BY <1>6, <1>7, CarefulKeeps DEF NamesOK
<1>9. ContainerType' /\ Orderly
  BY <1>7, CarefulOrderly DEF ContainerStep
<1>10. /\ MkdirIn(c, known', stable', path', ent', kind', moved')
       /\ ShiftIn(c, known', stable', parents', moved')
  <2>1. CASE Stats(p, c)
    <3>1. /\ MkdirIn(call[p], known', stable', path', ent', kind', moved')
          /\ c.op = call[p].op /\ c.n = call[p].n /\ c.x = call[p].x /\ c.op # "rename"
      BY <1>9, <2>1, PendingWaits DEF NamesOK, Stats, Adding, Making
    <3> QED
      BY <3>1 DEF MkdirIn, ShiftIn
  <2>2. CASE Renames(p, c)
    <3>1. c.op = "rename" /\ c.step = "reply" /\ c # call[p] /\ c.got \in Inodes
      BY <2>2 DEF Renames
    <3>2. c.got \in Taken
      BY <1>1, <3>1, OneReturned
    <3>3. c.got \in moved'
      BY <1>4, <3>1, <3>2, NoneReturned
    <3>4. ShiftIn(c, known', stable', parents', moved')
      BY <1>7, <2>2, <3>3, RenameTakes DEF Careful, NamesOK
    <3> QED
      BY <3>1, <3>4 DEF MkdirIn
  <2>3. CASE Quiet(p, c)
    BY <1>2, <2>3 DEF Quiet, MkdirIn, ShiftIn
  <2> QED
    BY <2>1, <2>2, <2>3 DEF Proceeds
<1>11. PendingOK'
  BY <1>1, <1>9, <1>10, NamesPending DEF NamesOK
<1> QED
  BY <1>8, <1>11 DEF NamesOK

\* a change by another process,
LEMMA NamesOutside ==
  ASSUME BaseInv, Blame, NamesOK, OutsideStep
  PROVE  NamesOK'
<1>1. UNCHANGED nodes /\ call' = call /\ ContainerStep
  BY DEF OutsideStep
<1>2. Idle.op = "none" /\ "none" \notin Adding
  BY DEF Idle, Adding, Making
<1>3. Returned = {} /\ ~Proper /\ \A e : Leaving(e) => Leaving(e)'
  BY <1>1, <1>2 DEF Returned, Proper, Leaving
<1>4. Careful
  BY <1>3, NoneReturned DEF Careful
<1>5. UnmovedOK' /\ PlacesOK'
  BY <1>1, <1>3, <1>4, CarefulKeeps DEF NamesOK
<1>6. ContainerType' /\ Orderly
  BY <1>1, <1>4, CarefulOrderly DEF ContainerStep
<1>7. PendingOK'
  BY <1>1, <1>6, PendingWaits, PendingIs DEF NamesOK
<1> QED
  BY <1>5, <1>7 DEF NamesOK

\* a reply that adds a Node,
LEMMA NamesJoin ==
  ASSUME BaseInv, Blame, NamesOK, NEW p \in Procs, NEW c, NEW m, Joins(p, c, m),
         FindsNode(c, m) \/ MakesNode(c, m),
         \A l \in NodeIds : stable[l] # None => stable'[l] = stable[l] /\ path'[l] = path[l]
  PROVE  NamesOK'
<1>1. call' = [call EXCEPT ![p] = Idle]
  BY DEF Joins
<1>2. \A q \in Procs : call'[q] = IF q = p THEN Idle ELSE call[q]
  BY <1>1, BaseTypes
<1>3. UnmovedOK' /\ PlacesOK'
  BY JoinKeeps DEF NamesOK
<1>4. Idle.op = "none"
  BY DEF Idle
<1>5. ASSUME NEW q \in Procs
      PROVE  /\ MkdirIn(call'[q], known', stable', path', ent', kind', moved')
             /\ ShiftIn(call'[q], known', stable', parents', moved')
  <2>1. CASE q = p
    BY <1>2, <1>4, <2>1 DEF MkdirIn, ShiftIn
  <2>2. CASE q # p
    <3>1. /\ MkdirIn(call[q], known, stable, path, ent, kind, moved)
          /\ ShiftIn(call[q], known, stable, parents, moved)
      BY PendingIs DEF NamesOK
    <3> QED
      BY <1>2, <2>2, <3>1, JoinMkdir, JoinShift
  <2> QED
    BY <2>1, <2>2
<1>6. PendingOK'
  BY <1>5, PendingIs
<1> QED
  BY <1>3, <1>6 DEF NamesOK

\* and one that removes or moves one.
LEMMA NamesReplace ==
  ASSUME BaseInv, Blame, NamesOK, NEW p \in Procs, NEW c, Replaces(p), Leaves(p, c) \/ Shifts(p, c)
  PROVE  NamesOK'
<1>1. /\ call' = [call EXCEPT ![p] = Idle] /\ call[p] = c /\ ent' = ent /\ kind' = kind
      /\ path' = path /\ stable' = stable /\ known' = known
  BY DEF Replaces, Leaves, Shifts, container
<1>2. \A q \in Procs : call'[q] = IF q = p THEN Idle ELSE call[q]
  BY <1>1, BaseTypes
<1>3. Idle.op = "none" /\ c.op \in {"remove", "rename"} /\ c.op \notin Adding /\ c # Idle
  BY SMT, Z3T(30) DEF Idle, Leaves, Shifts, RemoveCalls, RenameCalls, Adding, Making
<1>4. Returned = {} /\ Taken = {}
  BY <1>1, <1>3, OneReturned
<1>5. moved' = moved
  BY <1>1, <1>4, NoneReturned
<1>6. UnmovedOK' /\ PlacesOK'
  BY <1>5, ReplaceKeeps DEF NamesOK
<1>7. ASSUME NEW q \in Procs
      PROVE  /\ MkdirIn(call'[q], known', stable', path', ent', kind', moved')
             /\ ShiftIn(call'[q], known', stable', parents', moved')
  <2>1. CASE q = p
    BY <1>2, <1>3, <2>1 DEF MkdirIn, ShiftIn
  <2>2. CASE q # p
    <3>1. /\ MkdirIn(call[q], known, stable, path, ent, kind, moved)
          /\ ShiftIn(call[q], known, stable, parents, moved)
      BY PendingIs DEF NamesOK
    <3> QED
      BY <1>1, <1>2, <1>5, <2>2, <3>1, ReplaceShift
  <2> QED
    BY <2>1, <2>2
<1>8. PendingOK'
  BY <1>7, PendingIs
<1> QED
  BY <1>6, <1>8 DEF NamesOK

\* Every step keeps them.
LEMMA NamesStep ==
  ASSUME BaseInv, AnyStep, Blame, NamesOK
  PROVE  NamesOK'
<1>1. ContainerStep
  BY StepContainer DEF AnyStep
<1>2. \A l \in NodeIds : stable[l] # None => stable'[l] = stable[l] /\ path'[l] = path[l]
  BY StepNodes DEF AnyStep
<1>3. CASE RequestStep
  <2>1. PICK p \in Procs, n \in NodeIds : \E c : Begins(p, n, c) /\ UNCHANGED <<nodes, outside>>
    BY <1>3 DEF RequestStep
  <2> QED
    BY <1>1, <2>1, NamesRequest
<1>4. CASE ServeStep
  <2>1. PICK p \in Procs : \E c : Proceeds(p, c) /\ UNCHANGED <<nodes, outside>>
    BY <1>4 DEF ServeStep
  <2> QED
    BY <1>1, <2>1, NamesServe
<1>5. CASE JoinStep
  <2>1. PICK p \in Procs : \E c, m : Joins(p, c, m) /\ (FindsNode(c, m) \/ MakesNode(c, m))
    BY <1>5 DEF JoinStep
  <2> QED
    BY <1>2, <2>1, NamesJoin
<1>6. CASE ReplaceStep
  <2>1. PICK p \in Procs : \E c : Replaces(p) /\ (Leaves(p, c) \/ Shifts(p, c))
    BY <1>6 DEF ReplaceStep
  <2> QED
    BY <2>1, NamesReplace
<1>7. CASE OutsideStep
  BY <1>7, NamesOutside
<1> QED
  BY <1>3, <1>4, <1>5, <1>6, <1>7 DEF AnyStep

\* At the start the one Node is the root, which is in its place.
LEMMA NamesInit ==
  ASSUME TreeInit
  PROVE  NamesOK
<1>1. /\ \A i \in Inodes : OneName(i)
      /\ Resolve(Mount) = stable[RootNode].ino
  BY InitialContainer
<1>2. known = {RootNode} /\ parents = [m \in NodeIds |-> {}] /\ path[RootNode] = Mount
  BY TreeAssumption DEF TreeInit
<1>3. \A p \in Procs : call[p].op = "none"
  BY SMT, Z3T(30) DEF TreeInit, Idle
<1>4. Getattr(RootNode) = stable[RootNode].ino
  BY <1>1, <1>2 DEF Getattr
<1>5. parents[RootNode] = {}
  BY <1>2, TreeAssumption
<1>6. PlacesOK
  BY <1>2, <1>4, <1>5 DEF PlacesOK
<1>7. PendingOK
  BY <1>3 DEF PendingOK
<1> QED
  BY <1>1, <1>6, <1>7 DEF NamesOK, UnmovedOK

\* The invariant of the tree of Nodes holds always: an inode that has not moved has one
\* name, and every place where go-fuse keeps its Node is that name.
THEOREM TreeInvariant == TreeSpec => []TreeInv
<1> DEFINE Inv == BaseInv /\ CalmOK /\ NamesOK
<1>1. TreeInit => Inv
  BY BaseInit, CalmInit, NamesInit
<1>2. Inv /\ [TreeNext]_treeVars => Inv'
  <2> SUFFICES ASSUME Inv, [TreeNext]_treeVars
               PROVE  Inv'
    OBVIOUS
  <2>1. BaseInv'
    BY BaseStep
  <2>2. CASE TreeNext
    BY <2>1, <2>2, StepCases, CalmStep, NamesStep DEF AnyStep
  <2>3. CASE UNCHANGED treeVars
    <3>1. /\ ent' = ent /\ kind' = kind /\ path' = path /\ stable' = stable /\ parents' = parents
          /\ known' = known /\ call' = call /\ seen' = seen /\ moved' = moved
      BY <2>3 DEF treeVars, container, nodes
    <3>2. CalmOK'
      BY <3>1, CalmIs DEF CalmCall
    <3>3. PendingOK'
      BY <3>1, PendingIs DEF NamesOK
    <3>4. UnmovedOK'
      BY <3>1, SMT, Z3T(30) DEF NamesOK, UnmovedOK, OneName
    <3>5. PlacesOK'
      <4>1. UNCHANGED container
        BY <3>1 DEF container
      <4>2. ASSUME NEW m \in known, stable[m].ino \in Inodes \ moved
            PROVE  PlaceOK(m)'
        <5>1. PlaceOK(m) /\ m \in NodeIds /\ stable[m] # None
          BY <4>2, PlacesAre DEF NamesOK, BaseInv, NodeTypeOK
        <5>2. parents[m] \subseteq NodeIds \X Names
          BY <5>1, BaseTypes DEF NewestOK
        <5>3. ASSUME NEW e \in parents[m], Sits(m, e)
              PROVE  Sits(m, e)'
          <6>1. e[1] \in known' \/ stable[e[1]].ino \in moved'
            BY <3>1, <5>3 DEF Sits
          <6> QED
            BY <3>1, <4>1, <5>1, <5>2, <5>3, <6>1, SitsStill
        <5>4. \A e : Leaving(e) => Leaving(e)'
          BY <3>1 DEF Leaving
        <5>5. Getattr(m)' = Getattr(m)
          BY <3>1, GetattrIs
        <5> QED
          BY <3>1, <5>1, <5>3, <5>4, <5>5 DEF PlaceOK
      <4> QED
        BY <3>1, <4>2, PlacesAre
    <3> QED
      BY <2>1, <3>2, <3>3, <3>4, <3>5 DEF NamesOK
  <2> QED
    BY <2>2, <2>3
<1>3. Inv => TreeInv
  BY DEF TreeInv, BaseInv, NamesOK
<1> HIDE DEF Inv
<1> QED
  BY <1>1, <1>2, <1>3, PTL DEF TreeSpec

\* Lookup, Create, Mkdir, Unlink and Rmdir, overlapping in any way and with inode numbers
\* used again, keep the path of every Node right: it leads to the Node's file unless a Rename,
\* a Link, a Symlink with a used number or another process is to blame.
THEOREM NodesReachTheirFiles == TreeSpec => []UnmovedReachable
<1>1. TreeInv => UnmovedReachable
  <2>1. SUFFICES ASSUME TreeInv, NEW m \in known, stable[m].ino \notin moved,
                        stable[m].ino # None, parents[m] # {}, ~Removing(m)
                 PROVE  /\ Getattr(m) = stable[m].ino
                        /\ stable[m].mode = "lnk" => Readlink(m) = stable[m].ino
    BY DEF UnmovedReachable, Reaches
  <2>2. stable[m] \in StableAttrs
    BY <2>1 DEF TreeInv, NodeTypeOK
  <2>3. stable[m].ino \in Inodes \ moved
    BY <2>1, <2>2 DEF StableAttrs
  <2>4. PICK e \in parents[m] : Sits(m, e)
    BY <2>1, <2>3 DEF TreeInv, PlacesOK, Removing
  <2>5. kind[stable[m].ino] = stable[m].mode
    BY <2>4 DEF Sits
  <2>6. Getattr(m) = stable[m].ino
    BY <2>1, <2>3, <2>5 DEF TreeInv, PlacesOK
  <2> QED
    BY <2>1, <2>5, <2>6 DEF Readlink
<1> QED
  BY <1>1, TreeInvariant, PTL

\* "Rename renames a child of this node": however other calls and processes act between the
\* request and the Rename of the satellite, the file that moves is the one the child's Node
\* stands for, unless that has moved before.
THEOREM RenamesTakeTheChild == TreeSpec => RenameTakesChild
<1>1. ASSUME TreeInv, [TreeNext]_treeVars, NEW p \in Procs,
             call[p].op = "rename", call[p].step = "call",
             call'[p].op = "rename", call'[p].step = "reply",
             NEW m \in Child(call[p].n, call[p].x) \cap known, stable[m].ino \in Inodes \ moved
      PROVE  call'[p].got = stable[m].ino
  <2>1. BaseInv /\ PlacesOK
    BY <1>1 DEF TreeInv, BaseInv
  <2>2. TreeNext /\ call'[p] # call[p] /\ call[p] # Idle /\ call'[p] # Idle
    BY <1>1, SMT, Z3T(30) DEF treeVars, Idle
  <2>3. RequestStep \/ ServeStep \/ JoinStep \/ ReplaceStep \/ OutsideStep
    BY <2>1, <2>2, StepCases
  <2>4. ASSUME NEW q \in Procs, NEW c, call' = [call EXCEPT ![q] = c]
        PROVE  q = p /\ call'[p] = c
    BY <2>1, <2>2, <2>4, BaseTypes
  <2>5. ~RequestStep
    BY <2>2, <2>4 DEF RequestStep, Begins, Start
  <2>6. ~JoinStep /\ ~ReplaceStep
    BY <2>2, <2>4 DEF JoinStep, Joins, ReplaceStep, Replaces
  <2>7. ~OutsideStep
    BY <2>2 DEF OutsideStep
  <2>8. PICK q, c : q \in Procs /\ Proceeds(q, c)
    BY <2>3, <2>5, <2>6, <2>7 DEF ServeStep
  <2>9. q = p /\ call'[p] = c
    BY <2>4, <2>8 DEF Proceeds
  <2>10. Renames(p, c)
    BY <1>1, <2>2, <2>8, <2>9 DEF Proceeds, Stats, Quiet, Adding, Making
  <2>11. <<c.n, c.x>> \in parents[m]
    BY <1>1, <2>10 DEF Renames, Child
  <2> QED
    BY <1>1, <2>1, <2>9, <2>10, <2>11, RenameTakesFile
<1>2. ASSUME TreeInv, [TreeNext]_treeVars
      PROVE  [\A p \in Procs :
                /\ call[p].op = "rename" /\ call[p].step = "call"
                /\ call'[p].op = "rename" /\ call'[p].step = "reply"
                => \A m \in Child(call[p].n, call[p].x) \cap known :
                     stable[m].ino \in Inodes \ moved => call'[p].got = stable[m].ino]_treeVars
  BY <1>1, <1>2
<1> QED
  BY <1>2, TreeInvariant, PTL DEF TreeSpec, RenameTakesChild
===============================================================================
