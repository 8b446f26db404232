---------------------------- MODULE NodeTreeSteps -----------------------------
(***************************************************************************)
(* What the proofs about NodeTree speak of: the operators of the model     *)
(* with the variables they read as parameters, the steps as a few kinds    *)
(* that say only what a step does to the container, the Nodes and the      *)
(* calls, and the parts of the inductive invariant.                        *)
(*                                                                         *)
(* Every step of the mount is one of five: a request begins, a call goes   *)
(* on, a reply adds a Node, a reply removes or moves one, another process  *)
(* changes the container.                                                  *)
(***************************************************************************)
EXTENDS NodeTree

\* Resolve in the tree with the entries e and the types k.
DirIn(k, i) == i # None /\ k[i] = "dir"
ResolveIn(e, k, s) ==
  LET at[j \in 0 .. Len(s)] ==
        IF j = 0 THEN RootIno
        ELSE IF DirIn(k, at[j - 1]) /\ s[j] \in Names THEN e[at[j - 1]][s[j]]
        ELSE None
  IN  at[Len(s)]

\* w[j] is where the first j names of s lead to.
Next1(e, k, w, s, j) ==
  IF j = 0 THEN RootIno
  ELSE IF DirIn(k, w[j - 1]) /\ s[j] \in Names THEN e[w[j - 1]][s[j]]
  ELSE None

\* The walk along s through the first n names.
Walk(e, k, s, n, w) == w = [j \in 0 .. n |-> Next1(e, k, w, s, j)]

\* The steps of a walk.
Steps(e, k, s, n, w) ==
  /\ w[0] = RootIno
  /\ \A j \in 1 .. n : w[j] = IF DirIn(k, w[j - 1]) /\ s[j] \in Names
                                THEN e[w[j - 1]][s[j]] ELSE None

\* The parents of the Inodes are places, and the newest place is one of them.
NewestOK ==
  /\ parents \in [NodeIds -> SUBSET (NodeIds \X Names)]
  /\ \A m \in NodeIds : IF parents[m] = {} THEN newest[m] = None ELSE newest[m] \in parents[m]

\* The types of the container.
ContainerType ==
  /\ ent \in [Inodes -> [Names -> Inodes \cup {None}]]
  /\ kind \in [Inodes -> Kinds \cup {"free"}]

\* The inodes whose names a step changes.
Changed == {j \in Inodes : NamesOf(j)' # NamesOf(j)}

\* What every step leaves behind.
ContainerStep ==
  /\ ContainerType' /\ ContainerOK'
  /\ \A j \in Inodes \ Changed : kind'[j] = kind[j]

\* A step that gives v the name x in d and changes only the names of t, which holds nothing.
Rebinds(d, x, v, t) ==
  /\ ContainerStep /\ Changed = {t} /\ Entries(t) = {}
  /\ d \in Inodes \ {t} /\ IsDir(d)
  /\ \A c \in Inodes, y \in Names : ent'[c][y] = IF c = d /\ y = x THEN v ELSE ent[c][y]

\* The inodes that are not below a changed name.
Kept == {j \in Inodes : \A r \in Changed : ~Within(j, r)}

\* What the rest of the invariant is about.
BaseInv == NodeTypeOK /\ CallsOK /\ NodesOK /\ ContainerOK

\* The records of calls; the directories a call has locked; the calls that only look.
CallSet == AddCalls \cup RemoveCalls \cup RenameCalls \cup ReadCalls \cup {Idle}
DirsOf(c) == IF c = Idle THEN {} ELSE {c.n} \cup IF c.op = "rename" THEN {c.to} ELSE {}
Sharing == {"lookup", "readdir"}

\* c may be the call of p.
GoodCall(p, c) ==
  /\ c \in CallSet
  /\ \A n \in DirsOf(c) :
       /\ DirNode(n)
       /\ \A q \in Procs \ {p} :
            n \in Dirs(q) => c.op \in Sharing /\ call[q].op \in Sharing
  /\ c.op \in Adding =>
       /\ c.step = "failed" => c.got = None
       /\ c.step = "reply" /\ c.mode = "dir" => c.got # None
       /\ c.op \in {"create", "symlink"} => c.mode # "dir"

\* What a request that makes a name does to the container: c.x in the directory of n is new.
Adds(n, c) ==
  \E i \in Inodes :
    /\ Rebinds(Getattr(n), c.x, i, i) /\ ent[Getattr(n)][c.x] = None
    /\ c.op \in {"mkdir", "link"} => c.made = i /\ c.step = "stat"
    /\ IF c.op = "mkdir" THEN kind[i] = "free" ELSE kind'[i] # "dir"

\* What Unlink and Rmdir do to the container: the name c.x is gone.
Drops(n, c) ==
  \E t \in Inodes : /\ ent[Getattr(n)][c.x] = t /\ Rebinds(Getattr(n), c.x, None, t)
                    /\ t # RootIno /\ kind'[t] # "dir"

\* The first step of the call c, which has locked its directories.
Begins(p, n, c) ==
  /\ Start(p, c) /\ GoodCall(p, c) /\ c # Idle /\ c.n = n
  /\ \/ c.op \in {"lookup", "create", "readdir", "rename"} /\ UNCHANGED container
     \/ c.op \in {"create", "mkdir", "symlink", "link"} /\ Adds(n, c)
     \/ c.op = "remove" /\ Drops(n, c)
  /\ c.op = "rename" => c.step = "call" /\ c.dst = Cwd \o TreePath(c.to)

\* The second step of a Mkdir or a Link.
Stats(p, c) ==
  /\ call[p].op \in Adding /\ call[p].step = "stat" /\ UNCHANGED container
  /\ c.op = call[p].op /\ c.n = call[p].n /\ c.x = call[p].x /\ c.made = call[p].made
  /\ c.mode = call[p].mode
  /\ c.got = stat(call[p].n, call[p].x) /\ c.step = IF c.got = None THEN "failed" ELSE "reply"

\* The satellite serves a Rename: the file is in the directory it resolved.
Renames(p, c) ==
  /\ call[p].op = "rename" /\ call[p].step = "call" /\ ContainerStep
  /\ c.op = "rename" /\ c.n = call[p].n /\ c.x = call[p].x /\ c.to = call[p].to /\ c.y = call[p].y
  /\ c.step = "reply" /\ c.got \in Inodes /\ IsDir(Getattr(c.n)) /\ c.got = ent[Getattr(c.n)][c.x]
  /\ Resolve(call[p].dst) \in Inodes /\ ent'[Resolve(call[p].dst)][c.y] = c.got

\* The steps of Readdir, and the failures: the container is left alone.
Quiet(p, c) ==
  /\ UNCHANGED container
  /\ \/ call[p].op = "readdir" /\ c.op = "readdir"
     \/ c = Idle /\ call[p].op # "remove" /\ (call[p].op \in Adding => call[p].step # "reply")

\* A later step of the call of p.
Proceeds(p, c) ==
  /\ call[p] # Idle /\ call' = [call EXCEPT ![p] = c] /\ GoodCall(p, c)
  /\ Stats(p, c) \/ Renames(p, c) \/ Quiet(p, c)

\* The Nodes go-fuse knows for the attributes in a reply.
Same(c) == {l \in known : stable[l] = [ino |-> c.got, mode |-> c.mode] /\ c.got # None}

\* The reply to c puts the Node m at its name: one that is known, or a new one.
Joins(p, c, m) ==
  /\ c = call[p] /\ c \in AddCalls /\ c.step = "reply" /\ m \in NodeIds
  /\ call' = [call EXCEPT ![p] = Idle] /\ UNCHANGED container
  /\ NewestOK' /\ newest' \in [NodeIds -> (NodeIds \X Names) \cup {None}]
  /\ parents' = [l \in NodeIds |-> IF l = m THEN parents[l] \cup {<<c.n, c.x>>}
                                  ELSE parents[l] \ {<<c.n, c.x>>}]

\* The reply uses the Node that go-fuse knows, or makes a new one.
FindsNode(c, m) == m \in Same(c) /\ c.op \notin Making /\ UNCHANGED <<path, stable, known>>

MakesNode(c, m) ==
  /\ stable[m] = None /\ (c.op \in Making \/ Same(c) = {})
  /\ stable' = [stable EXCEPT ![m] = [ino |-> c.got, mode |-> c.mode]]
  /\ path' = [path EXCEPT ![m] = Append(path[c.n], c.x)]
  /\ known' = (known \ Same(c)) \cup {m}

\* The reply to a removal takes the place from every Inode, the one to a Rename puts an
\* Inode at its new place.
Leaves(p, c) ==
  /\ c = call[p] /\ c \in RemoveCalls
  /\ parents' = [l \in NodeIds |-> parents[l] \ {<<c.n, c.x>>}]

\* MvChild: the Node leaves the old place, and another one leaves the new place.
Shifts(p, c) ==
  /\ c = call[p] /\ c \in RenameCalls /\ c.step = "reply"
  /\ \E m \in NodeIds :
       /\ <<c.n, c.x>> \in parents[m]
       /\ parents' = [l \in NodeIds |->
                        IF l = m THEN (parents[l] \ {<<c.n, c.x>>}) \cup {<<c.to, c.y>>}
                        ELSE parents[l] \ {<<c.to, c.y>>}]

\* Neither touches the container or the paths of Nodes.
Replaces(p) ==
  /\ call' = [call EXCEPT ![p] = Idle] /\ UNCHANGED <<container, path, stable, known>>
  /\ NewestOK' /\ newest' \in [NodeIds -> (NodeIds \X Names) \cup {None}]

\* The five steps.
RequestStep ==
  \E p \in Procs, n \in NodeIds : \E c : Begins(p, n, c) /\ UNCHANGED <<nodes, outside>>

ServeStep == \E p \in Procs : \E c : Proceeds(p, c) /\ UNCHANGED <<nodes, outside>>

JoinStep ==
  /\ \E p \in Procs : \E c, m : Joins(p, c, m) /\ (FindsNode(c, m) \/ MakesNode(c, m))
  /\ UNCHANGED outside

ReplaceStep ==
  /\ \E p \in Procs : \E c : Replaces(p) /\ (Leaves(p, c) \/ Shifts(p, c))
  /\ UNCHANGED outside

OutsideStep ==
  ContainerStep /\ UNCHANGED <<nodes, call>> /\ outside < MaxOutside /\ outside' = outside + 1

\* go-fuse's side of the type invariant.
NodesType ==
  /\ path \in [NodeIds -> Seq(Names)]
  /\ stable \in [NodeIds -> StableAttrs \cup {None}]
  /\ newest \in [NodeIds -> (NodeIds \X Names) \cup {None}]
  /\ NewestOK
  /\ known \subseteq {m \in NodeIds : stable[m] # None}

\* A step of the mount or of another process.
AnyStep == RequestStep \/ ServeStep \/ JoinStep \/ ReplaceStep \/ OutsideStep

\* What stat finds, the path of an Inode, and what a calm call relies on, in any state.
StatIn(e, k, s, x) ==
  LET d == ResolveIn(e, k, s) IN IF DirIn(k, d) THEN e[d][x] ELSE None

\* Inode.Path in the tree with the newest parents last.
TreePathIn(last, n) ==
  LET up[k \in 0 .. Cardinality(NodeIds)] ==
        [m \in NodeIds |->
           IF m = RootNode \/ last[m] = None THEN <<>>
           ELSE IF k = 0 THEN <<None>>
           ELSE Append(up[k - 1][last[m][1]], last[m][2])]
  IN  up[Cardinality(NodeIds)][n]

\* CalmOK for one call, in terms of the variables it reads.
CalmIn(c, kn, st, pa, e, k) ==
  /\ c.op \in {"mkdir", "link"} =>
       IF c.step = "stat"
         THEN /\ c.n \in kn /\ ResolveIn(e, k, pa[c.n]) = st[c.n].ino
              /\ c.made # None /\ StatIn(e, k, pa[c.n], c.x) = c.made
         ELSE c.step = "reply" /\ c.got = c.made
  /\ c.op = "rename" /\ Mount = Cwd =>
       /\ c.to \in kn
       /\ IF c.step = "call" THEN ResolveIn(e, k, c.dst) = st[c.to].ino
          ELSE c.got # None /\ e[st[c.to].ino][c.y] = c.got

\* CalmOK for the call of p.
CalmCall(p) == CalmIn(call[p], known, stable, path, ent, kind)

\* The invariant of the calls.
CallInv == BaseInv /\ CalmOK

\* The conditions of PlacesOK on one Node.
PlaceOK(m) ==
  /\ \A e \in parents[m] : Leaving(e) \/ Sits(m, e)
  /\ kind[stable[m].ino] = stable[m].mode => Getattr(m) = stable[m].ino

\* A step after which all that is under a changed name counts as moved.
Careful == moved \subseteq moved' /\ \A j \in Inodes \ moved' : j \in Kept

\* The part of PendingOK about a Mkdir, in terms of the variables it reads.
MkdirIn(c, kn, st, pa, e, k, mv) ==
  /\ c.op = "mkdir" /\ c.n \in kn
  /\ ResolveIn(e, k, pa[c.n]) = st[c.n].ino /\ st[c.n].ino \notin mv
  => LET g == StatIn(e, k, pa[c.n], c.x)
     IN  g # None => g \in mv /\ \A y \in Names : e[g][y] \in mv \cup {None}

\* The part of PendingOK about a Rename, in terms of the variables it reads.
ShiftIn(c, kn, st, par, mv) ==
  c.op = "rename" /\ c.step = "reply" =>
    \A m \in kn : <<c.n, c.x>> \in par[m] => st[m].ino \in mv \cup {None}

\* A change of the container that puts nothing unmoved where it was not before.
Orderly ==
  /\ moved \subseteq moved'
  /\ \A d \in Inodes \ moved' : kind'[d] = "dir" => kind[d] = "dir"
  /\ \A d \in Inodes, x \in Names :
       \/ ent'[d][x] = None \/ ent'[d][x] = ent[d][x]
       \/ ent'[d][x] \in moved' /\ \A y \in Names : ent[ent'[d][x]][y] \in moved' \cup {None}

\* The part of the invariant that says what is in place.
NamesOK == UnmovedOK /\ PlacesOK /\ PendingOK

\* What a Readdir has collected: nothing that was never there, and of what has been there
\* all the time everything but the names it still has to ask for.
Collecting(p) ==
  /\ DOMAIN call[p] = {"op", "n", "step", "todo", "list"}
  /\ call[p].step \in {"info", "reply"}
  /\ call[p].todo \subseteq Names
  /\ call[p].list \subseteq seen[p].ever
  /\ \A e \in seen[p].stay :
       e[2] \notin LowInodes \/ call[p].step = "info" =>
         e \in call[p].list \/ (call[p].step = "info" /\ e[1] \in call[p].todo)

\* Every Readdir in flight.
ListInv ==
  /\ DOMAIN call = Procs
  /\ \A p \in Procs : "op" \in DOMAIN call[p]
  /\ \A p \in Procs : call[p].op = "readdir" => Collecting(p)
===============================================================================
