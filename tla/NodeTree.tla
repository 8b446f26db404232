------------------------------- MODULE NodeTree -------------------------------
(***************************************************************************)
(* The names of the mount: the Nodes of dockerfuse_fs.go, each with the    *)
(* fullPath it was made with, the calls of client.go and the handlers of   *)
(* server.go that act on paths, and the tree of the container, which other *)
(* processes change too.                                                   *)
(*                                                                         *)
(* External, by the rules the Node methods depend on:                      *)
(*  - go-fuse keeps a tree of Inodes, one for each Node, and never forgets *)
(*    a persistent one.  The answer to LOOKUP and LINK is replaced by the  *)
(*    Node it has with the same StableAttr, if any; CREATE, MKDIR and      *)
(*    SYMLINK put a new Node in its place.                                 *)
(*  - The kernel holds a directory's lock during a call, shared for LOOKUP *)
(*    and READDIR, and sends UNLINK, RMDIR, RENAME and LINK for names it   *)
(*    knows.                                                               *)
(*  - The container reuses the number of a removed inode.                  *)
(*                                                                         *)
(* filepath.Clean(filepath.Join(p, x)) is Append(p, x): a path is the      *)
(* sequence of its names from the container's root.  A handler that fails  *)
(* without a change leaves no trace here.  Opening by path is in           *)
(* FuseHandles, attributes in SetAttr; LinkTarget ends in Node.Data, which *)
(* nothing reads.                                                          *)
(***************************************************************************)
EXTENDS Naturals, Sequences, FiniteSets

CONSTANTS
  Names,
  Inodes,        \* inodes of the container; an inode is its number
  RootIno,       \* the container's root directory
  LowInodes,     \* those with a number of at most 2
  NodeIds,       \* bounds the number of Nodes
  RootNode,
  Procs,         \* calls in flight
  Mount,         \* the path given with -path
  Cwd,           \* the working directory of the satellite
  OutsideKinds,  \* what other processes create
  StatErrors,    \* the calls, of "mkdir" and "link", whose Stat may fail on a name that is there
  MaxOutside,    \* bound on the changes other processes make
  None

ASSUME TreeAssumption ==
  /\ RootIno \in Inodes /\ RootNode \in NodeIds
  /\ None \notin Inodes \cup NodeIds \cup Names
  /\ Mount \in Seq(Names) /\ Cwd \in Seq(Names)
  /\ LowInodes \subseteq Inodes
  /\ MaxOutside \in Nat
  /\ Cardinality(NodeIds) \in Nat

\* The type bits of st_mode, as the positions of the one bits.
Type == [dir |-> {14}, reg |-> {15}, lnk |-> {13, 15}, fifo |-> {12},
         sock |-> {14, 15}, blk |-> {13, 14}, chr |-> {13}]
Kinds == DOMAIN Type
Modes == {"dir", "lnk", "fifo", "reg"}

\* A StableAttr, as go-fuse keeps it for an Inode.
StableAttrs == [ino : Inodes \cup {None}, mode : Modes]

ASSUME OutsideAssumption == OutsideKinds \subseteq Kinds
ASSUME NoneAssumption == None \notin StableAttrs

VARIABLES
  ent,      \* ent[d][x]: what the container's directory d has under the name x
  kind,     \* kind[i]: the type of inode i, "free" if it does not exist
  path,     \* path[m]: Node.fullPath
  stable,   \* stable[m]: the StableAttr of a Node's Inode, None for no Node
  parents,  \* parents[m]: the places go-fuse's tree has the Inode at
  newest,   \* newest[m]: the one of them Inode.Path goes by, None if there is none
  known,    \* the Nodes go-fuse finds by their StableAttr
  call,     \* call[p]: a call in flight
  outside,  \* changes made by other processes so far
  moved,    \* for the properties: inodes whose Node cannot be expected to find them
  seen      \* for the properties: what happened during call[p]

container == <<ent, kind>>
nodes == <<path, stable, parents, newest, known>>
treeVars == <<container, nodes, call, outside, moved, seen>>

Idle == [op |-> "none"]
Unseen == [calm |-> TRUE, stay |-> {}, ever |-> {}]

-------------------------------------------------------------------------------
(* The container's file system                                              *)

IsDir(i) == i # None /\ kind[i] = "dir"

\* The inode a path leads to, None if there is none.
Resolve(p) ==
  LET at[k \in 0 .. Len(p)] ==
        IF k = 0 THEN RootIno
        ELSE LET d == at[k - 1]
             IN  IF IsDir(d) /\ p[k] \in Names THEN ent[d][p[k]] ELSE None
  IN  at[Len(p)]

\* What the directory d has under the name x, None if nothing.
At(d, x) == IF IsDir(d) THEN ent[d][x] ELSE None

Entries(d) == IF IsDir(d) THEN {<<x, ent[d][x]>> : x \in {y \in Names : ent[d][y] # None}}
              ELSE {}

\* The tree becomes e; an inode without a name is free again.
Become(e, k) ==
  /\ ent' = e
  /\ kind' = [i \in Inodes |->
                IF i = RootIno \/ \E d \in Inodes, x \in Names : e[d][x] = i
                  THEN k[i] ELSE "free"]

Bind(d, x, i) == [ent EXCEPT ![d][x] = i]

\* open with O_CREAT, mkdir and symlink make inode i, of type k, at a free name.
Make(d, x, i, k) ==
  /\ IsDir(d) /\ ent[d][x] = None
  /\ kind[i] = "free"
  /\ Become(Bind(d, x, i), [kind EXCEPT ![i] = k])

\* os.Remove: unlink, or rmdir of an empty directory.
Remove(d, x) ==
  /\ IsDir(d) /\ ent[d][x] # None
  /\ Entries(ent[d][x]) = {}
  /\ Become(Bind(d, x, None), kind)

\* d is in the directory i, or is it: it is in every set of inodes that has i and what the
\* directories of the set have.
Within(d, i) ==
  \A S \in SUBSET Inodes :
    /\ i \in S
    /\ \A j \in S, x \in Names : IsDir(j) => ent[j][x] \in S \cup {None}
    => d \in S

\* os.Rename, which takes no directory in the place of another file, and no other file in
\* the place of a directory.  Two names of one file are left alone.
Movable(d, x, c, y) ==
  /\ IsDir(d) /\ IsDir(c) /\ ent[d][x] # None
  /\ ~Within(c, ent[d][x])
  /\ ent[c][y] \notin {None, ent[d][x]} => ~IsDir(ent[d][x]) /\ ~IsDir(ent[c][y])
Move(d, x, c, y) ==
  IF ent[d][x] = ent[c][y] THEN UNCHANGED container
  ELSE Become([Bind(d, x, None) EXCEPT ![c][y] = ent[d][x]], kind)

-------------------------------------------------------------------------------
(* go-fuse                                                                  *)

Child(n, x) == {m \in NodeIds : <<n, x>> \in parents[m]}

\* The Inodes get the places P; the newest place of an Inode is last[m], or any other one
\* when it has lost that.
Reparent(P, last) ==
  \E next \in [{m \in NodeIds : P[m] # {} /\ last[m] \notin P[m]} -> UNION {P[m] : m \in NodeIds}] :
    /\ \A m \in DOMAIN next : next[m] \in P[m]
    /\ parents' = P
    /\ newest' = [m \in NodeIds |-> IF P[m] = {} THEN None
                                   ELSE IF m \in DOMAIN next THEN next[m] ELSE last[m]]

\* The Inode m gets the name x in n, which no other Inode has any more.
SetEntry(n, x, m) ==
  Reparent([l \in NodeIds |-> IF l = m THEN parents[l] \cup {<<n, x>>} ELSE parents[l] \ {<<n, x>>}],
           [newest EXCEPT ![m] = <<n, x>>])

\* NewPersistentInode with a new Node, and the answer to the kernel.  Without an inode
\* number in st, go-fuse makes one up.
AddChild(n, x, p, st, exclusive) ==
  LET same == {m \in known : stable[m] = st /\ st.ino # None}
  IN  IF ~exclusive /\ same # {}
        THEN /\ \E m \in same : SetEntry(n, x, m)
             /\ UNCHANGED <<path, stable, known>>
        ELSE \E m \in NodeIds :
               /\ stable[m] = None
               /\ stable' = [stable EXCEPT ![m] = st]
               /\ path' = [path EXCEPT ![m] = p]
               /\ SetEntry(n, x, m)
               /\ known' = (known \ same) \cup {m}

\* Inode.Path(nil): the names from the root of the mount down to n, or from the Inode on the
\* way that has no place any more.  Parents that form a cycle lead nowhere.
TreePath(n) ==
  LET up[k \in 0 .. Cardinality(NodeIds)] ==
        [m \in NodeIds |->
           IF m = RootNode \/ newest[m] = None THEN <<>>
           ELSE IF k = 0 THEN <<None>>
           ELSE Append(up[k - 1][newest[m][1]], newest[m][2])]
  IN  up[Cardinality(NodeIds)][n]

\* The locks of the kernel, and the bound on Nodes.
Dirs(q) ==
  IF call[q] = Idle THEN {}
  ELSE {call[q].n} \cup IF call[q].op = "rename" THEN {call[q].to} ELSE {}
Shared(n) ==
  \A q \in Procs : n \in Dirs(q) => call[q].op \in {"lookup", "readdir"}
Exclusive(n) == \A q \in Procs : n \notin Dirs(q)
DirNode(n) == stable[n] # None /\ stable[n].mode = "dir"
Making == {"create", "mkdir", "symlink"}
Adding == Making \cup {"lookup", "link"}
Room ==
  Cardinality({q \in Procs : call[q].op \in Adding})
    < Cardinality({m \in NodeIds : stable[m] = None})

-------------------------------------------------------------------------------
(* Lookup, Create, Mkdir, Symlink, Link: what the satellite does, and the    *)
(* answer                                                                   *)

Prefixes == UNION {{SubSeq(q, 1, k) : k \in 0 .. Len(q)} : q \in {Mount, Cwd}}

\* main mounts a Node for -path.  The container has the directories Mount and Cwd.
TreeInit ==
  \E at \in [Prefixes -> Inodes] :
    /\ at[<<>>] = RootIno /\ \A q, r \in Prefixes : at[q] = at[r] => q = r
    /\ ent = [d \in Inodes |-> [x \in Names |->
                LET here == {at[Append(q, x)] : q \in {r \in Prefixes : at[r] = d /\ Append(r, x) \in Prefixes}}
                IN  IF here = {} THEN None ELSE CHOOSE i \in here : TRUE]]
    /\ kind = [i \in Inodes |-> IF \E q \in Prefixes : at[q] = i THEN "dir" ELSE "free"]
    /\ path = [m \in NodeIds |-> IF m = RootNode THEN Mount ELSE <<>>]
    /\ stable = [m \in NodeIds |->
                   IF m = RootNode THEN [ino |-> at[Mount], mode |-> "dir"] ELSE None]
    /\ parents = [m \in NodeIds |-> {}]
    /\ newest = [m \in NodeIds |-> None]
    /\ known = {RootNode}
    /\ call = [p \in Procs |-> Idle]
    /\ outside = 0 /\ moved = {}
    /\ seen = [p \in Procs |-> Unseen]

Start(p, c) == call[p] = Idle /\ call' = [call EXCEPT ![p] = c]
End(p) == call' = [call EXCEPT ![p] = Idle]

\* A call that adds a Node; got is the inode of the attributes in the reply.
Add(op, n, x, step, got, mode) ==
  [op |-> op, n |-> n, x |-> x, step |-> step, got |-> got, made |-> got, mode |-> mode]

\* Getattr: client.stat, Stat on the Node's path.  Open and Setattr use it alike.
Getattr(m) == Resolve(path[m])

\* Readlink: the link whose target is returned.
Readlink(m) == IF Getattr(m) # None /\ kind[Getattr(m)] = "lnk" THEN Getattr(m) ELSE None

\* The calls of client.go that act on the name x in the directory of n, as the satellite
\* serves them.  stat: the inode, None if Stat fails.
stat(n, x) == At(Getattr(n), x)

mkdir(n, x, i) == Make(Getattr(n), x, i, "dir")

symlink(n, x) == \E i \in Inodes : Make(Getattr(n), x, i, "lnk")

link(n, x, i) ==
  /\ i # None /\ ~IsDir(i)
  /\ IsDir(Getattr(n)) /\ stat(n, x) = None
  /\ Become(Bind(Getattr(n), x, i), kind)

\* unlink and rmdir: Unlink and Rmdir are both os.Remove, which takes either kind.
unlink(n, x) == Remove(Getattr(n), x)

\* The switch of Lookup: Mode&S_IFDIR == S_IFDIR and so on, in this order.
LookupMode(k) ==
  IF Type.dir \subseteq Type[k] THEN "dir"
  ELSE IF Type.lnk \subseteq Type[k] THEN "lnk"
  ELSE IF Type.fifo \subseteq Type[k] THEN "fifo"
  ELSE "reg"

Lookup(p, n, x) ==
  /\ Shared(n) /\ Room
  /\ LET i == stat(n, x)
     IN  i # None /\ Start(p, Add("lookup", n, x, "reply", i, LookupMode(kind[i])))
  /\ UNCHANGED container

\* The attributes are those of the descriptor that was opened.
Create(p, n, x) ==
  /\ Exclusive(n) /\ Room
  /\ \E i \in Inodes :
       /\ \/ Make(Getattr(n), x, i, "reg")
          \/ /\ i = stat(n, x) /\ kind[i] \notin {"dir", "lnk", "sock"}
             /\ UNCHANGED container
       /\ Start(p, Add("create", n, x, "reply", i, "reg"))

\* DockerFuseFSOps.Mkdir makes the directory and calls Stat.
Mkdir(p, n, x) ==
  /\ Exclusive(n) /\ Room
  /\ \E i \in Inodes :
       mkdir(n, x, i) /\ Start(p, Add("mkdir", n, x, "stat", i, "dir"))

\* The new Node has no inode number of the container.
Symlink(p, n, x) ==
  /\ Exclusive(n) /\ Room
  /\ symlink(n, x)
  /\ Start(p, Add("symlink", n, x, "reply", None, "lnk"))

\* The first call of Link.
Link(p, n, x, target) ==
  /\ Exclusive(n) /\ Room
  /\ target # RootNode /\ parents[target] # {} /\ ~DirNode(target)
  /\ link(n, x, Getattr(target))
  /\ Start(p, Add("link", n, x, "stat", Getattr(target), stable[target].mode))

\* Mutant of StatNew: it asks for the directory.
StatNew_Parent(p) ==
  /\ call[p] # Idle /\ call[p].step = "stat"
  /\ call' = [call EXCEPT ![p].step = "reply", ![p].got = Getattr(call[p].n)]
  /\ UNCHANGED container

\* The Stat of Mkdir, and the second call of Link.  When there is no such name the kernel is
\* told so and no Node is added, although the name was made.
StatNew(p) ==
  /\ call[p] # Idle /\ call[p].step = "stat"
  /\ LET i == stat(call[p].n, call[p].x)
     IN  call' = [call EXCEPT ![p].step = IF i = None THEN "failed" ELSE "reply",
                              ![p].got = i]
  /\ UNCHANGED container

\* Any other error of that Stat ends the call.
StatFails(p) ==
  /\ call[p] # Idle /\ call[p].step = "stat" /\ call[p].op \in StatErrors
  /\ End(p)
  /\ UNCHANGED container

\* Mutant of Added: the new Node gets the path of its parent.
Added_ParentPath(p) ==
  LET c == call[p]
  IN  /\ c.op \in Adding /\ c.step = "reply"
      /\ AddChild(c.n, c.x, path[c.n], [ino |-> c.got, mode |-> c.mode], c.op \in Making)
      /\ End(p)
      /\ UNCHANGED container

\* The Node method returns a new Node.
Added(p) ==
  LET c == call[p]
  IN  /\ c.op \in Adding /\ c.step = "reply"
      /\ AddChild(c.n, c.x, Append(path[c.n], c.x), [ino |-> c.got, mode |-> c.mode],
                  c.op \in Making)
      /\ End(p)
      /\ UNCHANGED container

AddFailed(p) ==
  /\ call[p] # Idle /\ call[p].step = "failed"
  /\ End(p)
  /\ UNCHANGED container

-------------------------------------------------------------------------------
(* Unlink, Rmdir, Rename                                                    *)

\* The kernel sends each for a name it knows, by the type it knows.
Unlink(p, n, x) ==
  /\ Exclusive(n) /\ \E m \in Child(n, x) : ~DirNode(m)
  /\ unlink(n, x)
  /\ Start(p, [op |-> "remove", n |-> n, x |-> x, step |-> "reply"])

Rmdir(p, n, x) ==
  /\ Exclusive(n) /\ \E m \in Child(n, x) : DirNode(m)
  /\ unlink(n, x)
  /\ Start(p, [op |-> "remove", n |-> n, x |-> x, step |-> "reply"])

Removed(p) ==
  /\ call[p].op = "remove"
  /\ Reparent([m \in NodeIds |-> parents[m] \ {<<call[p].n, call[p].x>>}], newest)
  /\ End(p)
  /\ UNCHANGED <<container, path, stable, known>>

\* Mutant of Rename: newParent is taken to be the old one.
Rename_SameParent(p, n, x, to, y) ==
  /\ Exclusive(n) /\ Exclusive(to) /\ <<n, x>> # <<to, y>>
  /\ Child(n, x) # {}
  /\ Start(p, [op |-> "rename", n |-> n, x |-> x, to |-> to, y |-> y, step |-> "call",
               dst |-> path[n], got |-> None])
  /\ UNCHANGED container

\* Rename computes both paths: the old one from the Node's, the new one from the path
\* of newParent in the mount, which the satellite takes as relative to its own directory.
Rename(p, n, x, to, y) ==
  /\ Exclusive(n) /\ Exclusive(to) /\ <<n, x>> # <<to, y>>
  /\ Child(n, x) # {}
  /\ Start(p, [op |-> "rename", n |-> n, x |-> x, to |-> to, y |-> y, step |-> "call",
               dst |-> Cwd \o TreePath(to), got |-> None])
  /\ UNCHANGED container

\* Mutant of RenameServed: the old path ends in the new name.
RenameServed_NewName(p) ==
  LET c == call[p]
      d == Getattr(c.n)
      e == Resolve(c.dst)
  IN  /\ c.op = "rename" /\ c.step = "call"
      /\ \/ /\ Movable(d, c.y, e, c.y)
            /\ Move(d, c.y, e, c.y)
            /\ call' = [call EXCEPT ![p].step = "reply", ![p].got = ent[d][c.y]]
         \/ ~Movable(d, c.y, e, c.y) /\ End(p) /\ UNCHANGED container

\* DockerFuseFSOps.Rename.
RenameServed(p) ==
  LET c == call[p]
      d == Getattr(c.n)
      e == Resolve(c.dst)
  IN  /\ c.op = "rename" /\ c.step = "call"
      /\ \/ /\ Movable(d, c.x, e, c.y)
            /\ Move(d, c.x, e, c.y)
            /\ call' = [call EXCEPT ![p].step = "reply", ![p].got = ent[d][c.x]]
         \/ ~Movable(d, c.x, e, c.y) /\ End(p) /\ UNCHANGED container

\* go-fuse moves the Inode; its Node and those below it keep their paths.
Renamed(p) ==
  LET c == call[p]
  IN  /\ c.op = "rename" /\ c.step = "reply"
      /\ \E m \in Child(c.n, c.x) :
           Reparent([l \in NodeIds |->
                       IF l = m THEN (parents[l] \ {<<c.n, c.x>>}) \cup {<<c.to, c.y>>}
                       ELSE parents[l] \ {<<c.to, c.y>>}],
                    [newest EXCEPT ![m] = <<c.to, c.y>>])
      /\ End(p)
      /\ UNCHANGED <<container, path, stable, known>>

-------------------------------------------------------------------------------
(* Readdir                                                                  *)

\* os.ReadDir reads the names.
Readdir(p, n) ==
  /\ Shared(n) /\ IsDir(Getattr(n))
  /\ Start(p, [op |-> "readdir", n |-> n, step |-> "info",
               todo |-> {e[1] : e \in Entries(Getattr(n))}, list |-> {}])
  /\ UNCHANGED container

\* Mutant of Info: an entry that is gone ends the loop.
Info_Stops(p) ==
  /\ call[p].op = "readdir" /\ call[p].step = "info"
  /\ \E x \in call[p].todo :
       LET i == stat(call[p].n, x)
       IN  call' = [call EXCEPT ![p].todo = IF i = None THEN {} ELSE @ \ {x},
                                ![p].list = IF i = None THEN @ ELSE @ \cup {<<x, i>>}]
  /\ UNCHANGED container

\* file.Info() on one of them: an Lstat of its path.  One that is gone is skipped.
Info(p) ==
  /\ call[p].op = "readdir" /\ call[p].step = "info"
  /\ \E x \in call[p].todo :
       LET i == stat(call[p].n, x)
       IN  call' = [call EXCEPT ![p].todo = @ \ {x},
                                ![p].list = IF i = None THEN @ ELSE @ \cup {<<x, i>>}]
  /\ UNCHANGED container

\* Any other error of Info ends the call with EIO.
InfoFails(p) ==
  /\ call[p].op = "readdir" /\ call[p].step = "info" /\ call[p].todo # {}
  /\ End(p)
  /\ UNCHANGED container

\* client.readDir drops the entries with a low inode number.
Listed(p) ==
  /\ call[p].op = "readdir" /\ call[p].step = "info" /\ call[p].todo = {}
  /\ call' = [call EXCEPT ![p].step = "reply",
                          ![p].list = {e \in @ : e[2] \notin LowInodes}]
  /\ UNCHANGED container

ReaddirReturns(p) ==
  /\ call[p].op = "readdir" /\ call[p].step = "reply"
  /\ End(p)
  /\ UNCHANGED container

-------------------------------------------------------------------------------
(* Other processes of the container                                         *)

OutsideMake ==
  /\ outside < MaxOutside
  /\ \E d, i \in Inodes, x \in Names, k \in OutsideKinds :
       Make(d, x, i, k)
  /\ outside' = outside + 1
  /\ UNCHANGED <<nodes, call>>

OutsideRemove ==
  /\ outside < MaxOutside
  /\ \E d \in Inodes, x \in Names :
       Remove(d, x)
  /\ outside' = outside + 1
  /\ UNCHANGED <<nodes, call>>

-------------------------------------------------------------------------------
(* Specification                                                            *)

\* A call of the kernel on the directory n.
Request(p, n) ==
  \/ Readdir(p, n)
  \/ \E x \in Names :
       \/ Lookup(p, n, x) \/ Create(p, n, x) \/ Mkdir(p, n, x) \/ Symlink(p, n, x)
       \/ Unlink(p, n, x) \/ Rmdir(p, n, x)
       \/ \E m \in NodeIds : Link(p, n, x, m)
       \/ \E to \in NodeIds, y \in Names : DirNode(to) /\ Rename(p, n, x, to, y)

Serve(p) ==
  \/ StatNew(p) \/ StatFails(p) \/ AddFailed(p) \/ RenameServed(p)
  \/ Info(p) \/ InfoFails(p) \/ Listed(p) \/ ReaddirReturns(p)

Reply(p) == Added(p) \/ Removed(p) \/ Renamed(p)

\* For the properties.  A Node is in place when go-fuse has no newer one for its file and
\* its path leads there.
InPlace(n) == n \in known /\ Getattr(n) = stable[n].ino

\* For the properties.  A call is calm if at its start the directory it changes is where its
\* Node, or go-fuse's tree, has it, and while it runs no Node takes the place of that one,
\* no other process acts, no other call renames anything, acts through a Node that is
\* not in place, or removes newParent.
Listing(p) == IF call[p].op = "readdir" THEN Entries(Getattr(call[p].n)) ELSE {}
Target(c) == IF c.op = "rename" THEN c.to ELSE c.n
Placed(p) ==
  LET c == call[p]
  IN  /\ c.op \in {"mkdir", "link"} => InPlace(c.n)
      /\ c.op = "rename" =>
           c.to \in known /\ Resolve(Mount \o TreePath(c.to)) = stable[c.to].ino
Disturbed(p) ==
  \/ outside' # outside
  \/ Target(call[p]) \notin known'
  \/ call[p].op = "rename" /\ ~IsDir(stable[call[p].to].ino)'
  \/ \E q \in Procs \ {p} :
       /\ call'[q] # call[q] /\ call'[q] # Idle
       /\ \/ call'[q].op = "rename" /\ call'[q].step = "reply"
          \/ call[q] = Idle /\ ~InPlace(call'[q].n)
Watch ==
  seen' = [p \in Procs |->
    IF call'[p] = Idle THEN Unseen
    ELSE IF call[p] = Idle
      THEN [calm |-> Placed(p)', stay |-> Listing(p)', ever |-> Listing(p)']
      ELSE [calm |-> seen[p].calm /\ ~Disturbed(p), stay |-> seen[p].stay \cap Listing(p)',
            ever |-> seen[p].ever \cup Listing(p)']]

\* For the properties.  An inode has moved when its names, or those of a directory above
\* it, change other than by an Unlink or Rmdir through a current Node, when a Rename takes
\* it, and when a Node is added for it that does not have its path or type.  A new Node ends
\* this: the one the reply to the Create, Mkdir or Lookup of its only name adds, unless it
\* has a Node of another type that stays.
Current(n) == InPlace(n) /\ stable[n].ino \notin moved
NamesOf(i) == {e \in Inodes \X Names : ent[e[1]][e[2]] = i}
Proper == \E p \in Procs :
  call[p] = Idle /\ call'[p].op = "remove" /\ Current(call'[p].n)
Taken == {call'[p].got : p \in {q \in Procs : /\ call[q] # call'[q]
                                             /\ call'[q].op = "rename"
                                             /\ call'[q].step = "reply"}}
Returned == {call[p] : p \in {q \in Procs : /\ call[q].op \in Adding /\ call[q].step = "reply"
                                             /\ call'[q] = Idle}}
Leaving(e) == \E p \in Procs : call[p].op = "remove" /\ <<call[p].n, call[p].x>> = e
Found(c) ==
  c.got # None /\ Current(c.n) /\ stat(c.n, c.x) = c.got /\ kind[c.got] = c.mode
Renewed(c) ==
  /\ c.op \in Making \cup {"lookup"} /\ Found(c)
  /\ NamesOf(c.got) = {<<Getattr(c.n), c.x>>}
  /\ \A m \in known : stable[m].ino = c.got =>
       IF stable[m].mode = c.mode THEN c.op \in Making ELSE \A e \in parents[m] : Leaving(e)
Blame ==
  LET renamed == Taken \cup IF Proper \/ ent' = ent THEN {}
                            ELSE {i \in Inodes : NamesOf(i)' # NamesOf(i)}
      changed == {i \in Inodes : \E j \in renamed : Within(i, j)}
      missed == {c.got : c \in {r \in Returned : ~Found(r)}}
      renewed == {c.got : c \in {r \in Returned : Renewed(r)}}
  IN  moved' = ((moved \cup changed \cup missed) \ renewed) \ {None}

TreeNext ==
  /\ \/ /\ \E p \in Procs :
             \/ call[p] = Idle /\ \E n \in NodeIds : DirNode(n) /\ Request(p, n)
             \/ Serve(p)
        /\ UNCHANGED <<nodes, outside>>
     \/ (\E p \in Procs : Reply(p)) /\ UNCHANGED outside
     \/ OutsideMake \/ OutsideRemove
  /\ Watch
  /\ Blame

TreeSpec == TreeInit /\ [][TreeNext]_treeVars

-------------------------------------------------------------------------------
(* Properties                                                               *)

Removing(m) == \E e \in parents[m] : Leaving(e)

\* The Node m, which the mount shows somewhere, leads to the file it stands for.
Reaches(m) ==
  stable[m].ino # None /\ parents[m] # {} /\ ~Removing(m) =>
    /\ Getattr(m) = stable[m].ino
    /\ stable[m].mode = "lnk" => Readlink(m) = stable[m].ino

\* Lookup, Create, Mkdir, Unlink and Rmdir keep the path of every Node right, whatever
\* their order and although inode numbers are used again: a Node reaches its file unless
\* a Rename, a Link, a Symlink with a used number or another process is to blame.
UnmovedReachable ==
  \A m \in known : stable[m].ino \notin moved => Reaches(m)

\* "Node is a filesystem node used by dockerfuse to represent directories, files or
\* links": between calls, and while no other process acts, a Node leads to the file it
\* represents.
NodesReachable ==
  outside = 0 /\ (\A p \in Procs : call[p] = Idle) => \A m \in known : Reaches(m)

\* Mkdir and Link make a name and then ask for its attributes: in a calm call the second
\* step succeeds and finds what the first one made.
TwoStepsAgree ==
  \A p \in Procs :
    /\ call[p].op \in {"mkdir", "link"} /\ call[p].step \in {"failed", "reply"}
    /\ seen[p].calm
    => call[p].step = "reply" /\ call[p].got = call[p].made

\* "Rename renames a child of this node": a calm Rename that succeeds puts the child
\* under the new name in the directory newParent stands for.
RenameLands ==
  \A p \in Procs :
    call[p].op = "rename" /\ call[p].step = "reply" /\ seen[p].calm =>
      ent[stable[call[p].to].ino][call[p].y] = call[p].got

\* And what it takes there is the file that the child's Node stands for, unless that has
\* moved, although both were named when the paths were computed: other calls and processes
\* act before the satellite serves the Rename.
RenameTakesChild ==
  [][\A p \in Procs :
       /\ call[p].op = "rename" /\ call[p].step = "call"
       /\ call'[p].op = "rename" /\ call'[p].step = "reply"
       => \A m \in Child(call[p].n, call[p].x) \cap known :
            stable[m].ino \in Inodes \ moved => call'[p].got = stable[m].ino]_treeVars

\* "ReadDir lists the contents of a directory" that changes meanwhile: whatever is there
\* all the time is listed, but for low inode numbers, and whatever is listed was there.
ListingIsFaithful ==
  \A p \in Procs :
    call[p].op = "readdir" /\ call[p].step = "reply" =>
      /\ {e \in seen[p].stay : e[2] \notin LowInodes} \subseteq call[p].list
      /\ call[p].list \subseteq seen[p].ever

-------------------------------------------------------------------------------
(* The inductive invariant                                                  *)

NodeTypeOK ==
  /\ ent \in [Inodes -> [Names -> Inodes \cup {None}]]
  /\ kind \in [Inodes -> Kinds \cup {"free"}]
  /\ path \in [NodeIds -> Seq(Names)]
  /\ stable \in [NodeIds -> StableAttrs \cup {None}]
  /\ parents \in [NodeIds -> SUBSET (NodeIds \X Names)]
  /\ newest \in [NodeIds -> (NodeIds \X Names) \cup {None}]
  /\ \A m \in NodeIds : IF parents[m] = {} THEN newest[m] = None ELSE newest[m] \in parents[m]
  /\ known \subseteq {m \in NodeIds : stable[m] # None}
  /\ moved \subseteq Inodes
  /\ outside \in 0 .. MaxOutside
  /\ seen \in [Procs -> [calm : BOOLEAN, stay : SUBSET (Names \X Inodes),
                         ever : SUBSET (Names \X Inodes)]]

\* The calls in flight, and the locks the kernel holds for them.
AddCalls == [op : Adding, n : NodeIds, x : Names, step : {"stat", "failed", "reply"},
             got : Inodes \cup {None}, made : Inodes \cup {None}, mode : Modes]
RemoveCalls == [op : {"remove"}, n : NodeIds, x : Names, step : {"reply"}]
RenameCalls == [op : {"rename"}, n : NodeIds, x : Names, to : NodeIds, y : Names,
                step : {"call", "reply"}, dst : Seq(Names \cup {None}),
                got : Inodes \cup {None}]
ReadCalls == [op : {"readdir"}, n : NodeIds, step : {"info", "reply"},
              todo : SUBSET Names, list : SUBSET (Names \X Inodes)]
CallsOK ==
  /\ call \in [Procs -> AddCalls \cup RemoveCalls \cup RenameCalls \cup ReadCalls \cup {Idle}]
  /\ \A p \in Procs : \A n \in Dirs(p) :
       /\ DirNode(n)
       /\ \A q \in Procs \ {p} : n \in Dirs(q) => call[q].op \in {"lookup", "readdir"}
  /\ \A p \in Procs : call[p].op \in Adding =>
       /\ call[p].step = "failed" => call[p].got = None
       /\ call[p].step = "reply" /\ call[p].mode = "dir" => call[p].got # None
       /\ call[p].op \in {"create", "symlink"} => call[p].mode # "dir"

\* The container is a tree of directories: what exists has a name, a directory and what has
\* not moved only one.
HasName(i) == \E d \in Inodes, x \in Names : ent[d][x] = i
OneName(i) ==
  \A d, c \in Inodes, x, y \in Names : ent[d][x] = i /\ ent[c][y] = i => d = c /\ x = y
ContainerOK ==
  /\ IsDir(RootIno) /\ ~HasName(RootIno)
  /\ \A i \in Inodes :
       /\ kind[i] = "free" <=> i # RootIno /\ ~HasName(i)
       /\ ~IsDir(i) => \A x \in Names : ent[i][x] = None
       /\ IsDir(i) => OneName(i)
UnmovedOK == \A i \in Inodes \ moved : OneName(i)

\* go-fuse finds one Node for a StableAttr that some Node has.
NodesOK ==
  /\ \A m \in NodeIds : parents[m] # {} => stable[m] # None
  /\ \A m \in NodeIds : DirNode(m) => stable[m].ino \in Inodes
  /\ \A m, n \in known : stable[m] = stable[n] /\ stable[m].ino # None => m = n
  /\ \A m \in NodeIds : DirNode(m) => \E n \in known : stable[n] = stable[m]

\* Where the mount shows the Node m of an inode that has not moved, the inode is.
Sits(m, e) ==
  LET D == stable[e[1]].ino
  IN  /\ DirNode(e[1]) /\ Getattr(e[1]) = D /\ At(D, e[2]) = stable[m].ino
      /\ e[1] \in known \/ D \in moved
      /\ kind[stable[m].ino] = stable[m].mode
PlacesOK ==
  \A m \in known : stable[m].ino \in Inodes \ moved =>
    /\ \A e \in parents[m] : Leaving(e) \/ Sits(m, e)
    /\ kind[stable[m].ino] = stable[m].mode => Getattr(m) = stable[m].ino

\* The directory a Mkdir has made through a current Node, and what others make in it before
\* there is a Node for it, count as moved; so does a file that a Rename has taken.
PendingOK ==
  \A p \in Procs :
    /\ call[p].op = "mkdir" /\ Current(call[p].n) =>
         LET g == stat(call[p].n, call[p].x)
         IN  g # None => g \in moved /\ \A x \in Names : ent[g][x] \in moved \cup {None}
    /\ call[p].op = "rename" /\ call[p].step = "reply" =>
         \A m \in known : <<call[p].n, call[p].x>> \in parents[m] =>
           stable[m].ino \in moved \cup {None}

\* A calm Mkdir or Link still finds the name it made, a calm Rename the directory it moves to.
CalmOK ==
  \A p \in Procs : seen[p].calm =>
    /\ call[p].op \in {"mkdir", "link"} =>
         IF call[p].step = "stat"
           THEN InPlace(call[p].n) /\ call[p].made # None /\ stat(call[p].n, call[p].x) = call[p].made
           ELSE call[p].step = "reply" /\ call[p].got = call[p].made
    /\ call[p].op = "rename" /\ Mount = Cwd =>
         LET D == stable[call[p].to].ino
         IN  /\ call[p].to \in known
             /\ IF call[p].step = "call" THEN Resolve(call[p].dst) = D
                ELSE call[p].got # None /\ ent[D][call[p].y] = call[p].got

\* What holds of the container, go-fuse's Nodes and the calls together, and is kept by every
\* step of the handlers, of go-fuse and of other processes.
TreeInv ==
  /\ NodeTypeOK
  /\ CallsOK /\ ContainerOK /\ UnmovedOK /\ NodesOK /\ PlacesOK /\ PendingOK /\ CalmOK
===============================================================================
