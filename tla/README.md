# A TLA+ model of DockerFuse

DockerFuse mounts the file system of a container. It has two processes. `dockerfuse`
(`cmd/dockerfuse`) serves the mount through go-fuse; every method of a `Node` makes one
or two calls of `DockerFuseClient`. The *satellite* (`cmd/satellite`) is a program that
`dockerfuse` copies into the container and starts there with `docker exec`; it answers
the calls with `net/rpc` over its standard input and output. `pkg/rpccommon` has the
request and reply types and the conversions of open flags and errnos, which the two
processes need because they may run on different systems.

## Inventory

| part | code | modelled by |
|---|---|---|
| handle table: Open, Close, Read, Write, Seek, Fsync | `server.go` | `Satellite`, `OsFile`, `HandleStore` |
| satellite process: serving, end of stdin, signal, CloseAllFDs | `satellite/main.go`, `server.go` | `Satellite`, `Session` |
| open files of the mount: Open, Create, Read, Write, Lseek, Fsync, Flush, Release | `dockerfuse_fs.go`, `client.go` | `FuseHandles` (composes the kernel's rules with `Satellite`) |
| open flags | `utils.go` | `OpenFlags` |
| errors | `utils.go`, `client.go` | `RpcErrors` |
| SetAttr | `dockerfuse_fs.go`, `client.go`, `server.go`, `rpc_types.go` | `SetAttr` |
| node tree: Lookup, Create, Link, Symlink, Mkdir, Rename, Unlink, Rmdir, Readlink, Readdir, Getattr | `dockerfuse_fs.go`, `client.go` | `NodeTree` |
| path handlers: Stat, ReadDir, Unlink, Mkdir, Rmdir, Rename, Readlink, Link, Symlink | `server.go` | `NodeTree` (Stat also in `SetAttr`) |
| set-up: upload, connect; calls on a lost connection | `client.go` | `Session` |
| `dockerfuse` process: daemonize, mount, signal, unmount | `dockerfuse/main.go` | `Session` (composes the processes with `RpcErrors`) |

`PROJECT.json` maps each definition to its lines, and lists the hazards of the code with
the properties that are about them.

## The modules

**`OsFile`** (external) is what the satellite relies on in Go's `os.File` and in the
kernel: `OpenFile` takes the lowest free descriptor number, `CloseFile` works once and
gives the number back when no system call on the File is running, `EndSyscall` gives it
back later otherwise.

**`Satellite`** is `DockerFuseFSOps` and `shutdown`. `net/rpc` runs each request in a
goroutine and `fds` has no lock, so each access to the map and each call on a File is an
action, and `pc` says where each goroutine is:

| code | actions |
|---|---|
| Open, lines 102, 108, 109, 111, 113 | `OpenCall`/`OpenFails`, `OpenLookup`, `OpenCloseStale`, `OpenBeginStore`/`OpenEndStore`, `OpenStat` |
| Close, lines 142, 147, deferred 146 | `Find`, `CloseCall`, `BeginDelete`/`CloseEndDelete` |
| Read, Write, Seek, Fsync | `Find`, `UseCall`, `UseReturn`, `ShortRead` |
| shutdown, CloseAllFDs | `StartShutdown`, `RangeNext`, `ShutdownClose`, `BeginDelete`/`ShutdownEndDelete`, `ShutdownExit` |
| main | `Request`, `StdinEOF`, `MainReturns` |
| Go runtime | `MapThrow` (concurrent map access detected), `Finalize` (garbage collector) |

A write to the map has a beginning and an end. A write that overlaps another may be lost,
and an access during a write may kill the process: these are the outcomes of the data
race. An operation on a closed File panics (`PanicOnClosed`), because
`ErrnoToRPCErrorString` asserts that the cause is an errno. Paths, offsets, data and
attributes are left out.

**`HandleStore`** is the abstract specification: Open binds a free handle to a new File,
operations act on the File of their handle, Close ends it, each in one step.
`Satellite!Promise` is the refinement mapping; an entry counts from the reply of Open on.

**`FuseHandles`** extends `Satellite` by the kernel's open file descriptions (external)
and the Node methods: `Open`, `Dup`, `Flush` (one for each close of a reference), `Use`
and `Release` (once, at the end). `Node.Flush` and `Node.Release` both request Close.
Shutdown of the satellite is left out here; `Satellite` has it.

**`OpenFlags`** has `SystemToSAFlags` and `SAFlagsToSystem` over words of bits with the
real values of Linux and Darwin, the Open that uses them, and a Write.

**`RpcErrors`** has `ErrnoToSym`, `SymToErrno`, `ErrnoToRPCErrorString` and
`RPCErrorStringTOErrno` with all their cases, and follows one error from the handler to the
result of the Node method. The satellite may panic and the connection may be lost.

**`SetAttr`** follows SETATTR calls from `fuse.SetAttrIn` through the bits of
`ValidAttrs` to chmod, chown, utimensat, truncate and Lstat. Each may fail. Two calls
interleave when they are made on different nodes (a file and a symbolic link to it). The
value of an attribute is the call that set it.

**`NodeTree`** has three trees: the container's (`ent`, `kind`; inodes are numbers that are
used again), go-fuse's (`parents`, `newest`, `known`, `stable`; external), and the `fullPath`
that each Node got when it was made (`path`). An Inode of go-fuse may have several parents;
`newest` is the one that `Inode.Path` goes by, and when it is removed any other one may
become it, as in go-fuse's map of parents. A call of the kernel is an action of the Node
method with the system call of its handler (`Lookup`, `Create`, `Mkdir`, `Symlink`, `Link`,
`Unlink`, `Rmdir`, `Rename`, `Readdir`), then the steps that follow it in the code
(`StatNew`: the Stat of Mkdir and the second call of Link, and `StatFails`, their other errors;
`RenameServed`, with the rules of `os.Rename`, which replaces no directory; `Info` for each
entry of ReadDir; `Listed`: the filter of `client.readDir`), then the reply that changes
go-fuse's tree (`Added`, `Removed`, `Renamed`). Calls interleave as far as the kernel's
directory locks allow, and other processes create and remove. `moved` and `seen` only
record history for the properties: `moved` has the inodes whose Node cannot be expected to
find them, `seen` what a call in flight has been exposed to.

**`Session`** extends `RpcErrors` by the two processes: each step of `main` and of
`NewDockerFuseClient` with its exit code, the architecture check, the mount, one call at
a time whose handler may be stuck for ever, the loss of the connection, the death of the
satellite, signals at any time, the channel and the goroutine `shutdown`, and both ends of
`main`.

`MC...` modules add symmetry, paths as constants and, for one run, a constraint.
Definitions named `X_Something` are wrong variants of `X` and are used by no specification:
`PROJECT.json` pairs each property with one that violates it.

## The runs

| run | bounds | shows |
|---|---|---|
| `Satellite_any` | 2 Files, 1 number, 2 handlers, any requests | `OwnDescriptor`, `StaleAlreadyClosed`; `Answered`, `ExitsAfterEOF`, `ShutdownEnds` |
| `Satellite_seq` | 3 Files, 2 numbers, 1 handler | implements `HandleStore` (`KeepsPromise`); `HandleLive`, `NoPanic`; at rest the map is exactly the set of open descriptors (`RestIsExact`); `IndInv` and `SerialInv`, the invariants of the proofs |
| `FuseHandles_all` | 2 Files, 2 numbers, 3 handlers, 2 handles with 2 references | a handle is the number of its own File (`FuseTypeOK`); `FlushShuts`, `ReleasedIsShut` |
| `OpenFlags_roundtrip` | every word, two other bits | `FlagsPreserved`, for the ten flags that have a case |
| `Session_all` | 3 architectures, 3 errnos (with a case, with two names, without a case) | `CallsConnected`, `MountLeftIsReported`, `FailureIsReported`, `ErrnoSurvives`; `SignalEnds`, `UmountEnds`, `CallEnds`, `SatelliteFollows` |
| `SetAttr_all` | 2 calls, 5 attributes, 2 inodes, 1 replacement | `NoUpdateLost`, `FailureLeavesPrefix`, `ReplyIsFresh`; modes without setuid, setgid and sticky arrive complete (`ModeIsComplete`) |
| `NodeTree_all` | 2 names, 3 inodes, 3 Nodes, 2 calls, 1 change by others | `UnmovedReachable`, `TwoStepsAgree`, `RenameLands`, `RenameTakesChild`, `ListingIsFaithful`; `TreeInv`, the invariant of the proofs |

`Satellite`: one number for two Files makes every reuse collide, and two handlers are the least
for each race, all of which are between pairs of goroutines; two numbers and three Files
are the least with which a number is used again while another one is in use. Read stands
for Write, Seek and Fsync, which take the same steps but for the short reads. The proofs
have no bounds. `SetAttr_all` leaves out the access time, which is treated like the
modification time but for the truncate. `NodeTree_all` has a root and two further inodes:
enough for a file in a directory, a hard link, a number used again and a rename over an
existing name, with a second call and another process in between. It mounts the whole
container and has no low inode numbers (`ListingIsFaithful` is proved for any). Of the two calls
that ask for what they have made, only the Stat of Link fails there for another reason than a
missing name (`StatErrors`); with the one of Mkdir too the run passes, but has 627,000
states; the proofs are for both. Two Nodes
besides the root are the least for a directory and its child. go-fuse forgets none, so at
most two are ever added in a behaviour. `OpenFlags` ends after one Write and `Session`
when both processes have ended, so deadlock is not checked there.

Five runs show where the code does not do what its comments say:

- `Satellite_HandleLive`: two handlers, a client that uses each handle properly, and only
  behaviours in which accesses to the map do not overlap. `Close` frees the number, a
  concurrent `Open` gets it and stores its File, and the deferred `delete` of `Close`
  removes that entry. The handle just returned is unknown to the satellite.
- `FuseHandles_use`: a descriptor is duplicated, one copy is closed, and `Node.Flush`
  closes the remote File. Another file is opened and gets the number. A write through the
  remaining copy goes to that file. In the same way `Node.Release`, which follows every
  last `Node.Flush`, may close another file that has got the number meanwhile.
- `OpenFlags_append`: `os.File.WriteAt` refuses a File opened with O_APPEND, so every write
  to such a file fails with EIO.
- `SetAttr_mode`: `os.FileMode(m)` loses setuid, setgid and sticky.
- `NodeTree_rename`: in a mount of `/a`, the file `/a/a` is created and renamed to `b`.
  `Node.Rename` sends the new parent's place in the mount, so that the file becomes `/b`
  (relative to the satellite's working directory), and its Node keeps the path `/a/a`.
  `RenameLands` shows that in a mount of the whole container, with `/` as the working
  directory, the file lands in the right place; its Node keeps the old path there too.

The models also contain smaller differences that have no run of their own:

- Two concurrent FLUSHes of one handle may both reach `fd.Close()`; the second one panics and
  ends the satellite (`NoPanic` holds for one handler at a time only).
- A SetAttr with both a modification time and a size ends with the time of the truncate,
  which comes last (`NewValues` allows it). A SetAttr on a symbolic link changes the file
  it points to.
- The operations after which a Node may lead elsewhere are the exceptions of
  `UnmovedReachable`: a Rename of it or of a directory above it; a Link, whose Node go-fuse
  replaces by the one of the target, so that after `ln a b; rm a` the Node of `b` has the
  path of `a`; a Symlink, which gives its Node no inode number, so that a Node known
  by that number stays known; and other processes.
- Lookup tests types as masks: sockets and block devices look like directories. Character
  devices look like regular files.
- Unlink and Rmdir are both `os.Remove`, which removes either kind.
- Entries with an inode number of 2 or less are not listed.
- When the Stat in Open fails, the error is returned and the File stays open in the map until
  the satellite ends (`OpenStat`); the client never learns its number.
- An open flag without a case in `SystemToSAFlags` (O_DSYNC without O_SYNC, O_NOFOLLOW) is
  dropped without an error.
- `Inode.Path` of a directory that go-fuse has dropped from the tree ends at that directory, so a
  Rename into it goes to the satellite's working directory (`TreePath`). `RenameLands` is
  about calls whose directories nothing has disturbed.
- A signal between `fs.Mount` and `signal.Notify` kills the process and leaves the mount. One
  after the deferred close of the channel panics. The close itself wakes `shutdown`,
  whose Unmount fails, so that a clean `umount` may end with exit code 7 instead of 0.
- After the connection is lost nothing reconnects: every call fails with EIO until the
  mount ends.

## Fairness

`Satellite!Fairness`: goroutines are scheduled (weak fairness of each handler and of the
shutdown once it runs), `os.OpenFile` and the system calls return, and `ReadAt` makes
finitely many short reads (strong fairness of `UseReturn`). No request, signal or end of
stdin is assumed to come. The range loop of `CloseAllFDs` ends although entries may be
added while it runs (strong fairness of `ShutdownExit`). Opening a FIFO can block for
ever, which the runs of `Satellite` exclude and `Session` has: a stuck handler keeps its
call (`CallEnds`) and the satellite (`SatelliteFollows`) waiting, but not the end of
`dockerfuse` after a signal (`SignalEnds`).

`SessFairness`: goroutines are scheduled, a handler that is not stuck returns, `net/rpc` notices
a lost connection, the satellite finds the end of its stdin, `Server.Unmount` returns (with
an error after some attempts while the mount is busy) and `Server.Wait` returns after the
end of the mount. Nobody has to call, kill, unmount or send a signal, and set-up may
hang.

## The proofs

Each safety property that a passing run checks, and the refinement `KeepsPromise`, is also a
theorem, for any values of the constants that satisfy the named assumptions of the modules.
The assumptions say that special values are none of the others (`NoFile` is no File, `None`
is no name, inode, Node or `StableAttr`), that numbers are naturals, that the shutdown
goroutine is no handler, that a handle has at least one reference, and that there are finitely
many handlers in `FuseHandles` and finitely many Nodes in `NodeTree`. Hypotheses that
a theorem adds are given below.

**The handle table.** `SatelliteProofs` proves `Spec => []IndInv` for any sets of Files,
numbers and handlers, and from it `TypeOK`, `OwnDescriptor` and
`StaleAlreadyClosed`. `IndInv` is needed because the properties speak of single program points:

- `NumbersAgree`: an open File's number is its own in the kernel's table, and so is the number
  of a File with a running system call, closed or not;
- `NoLostNumber`: a number that is taken belongs to such a File;
- `RefsOpened`: whatever refers to a File refers to one that was opened, and the map has it
  under its own number;
- `EarlyPrivate`: until Open stores its File nothing else refers to it, so that nobody can
  have closed it. This gives `StaleAlreadyClosed`: the File found under the new number
  has that number, and if it were open the kernel would not have given it away;
- `LocalsSet`: local variables are set where they are used.

The proof has a lemma for each action and in it a step for each conjunct.

The properties that hold for one handler at a time have the hypothesis `OneHandler` and rest
on `SerialInv`. Until the shutdown starts, the entries of the map are open Files
(`EntriesOpen`), the open Files are in the map (`OpenMapped`), and so are the handles the
client holds (`HeldMapped`); the one handler is the only exception, and `WorksOnEntry` says at
each of its program points how its own entry differs. `NoPanic`, `HandleLive` and
`RestIsExact` follow, and so does `KeepsPromise`: the reply of Open is the Open of
`HandleStore`, the call of `fd.Close()` changes nothing in the abstract table and the end of
the `delete` is its Close.

**The mount's open files.** `FuseHandlesProofs` proves that the kernel's use of the handle
table is a behaviour of `Satellite` (`MountImplementsSatellite`), so that its invariant holds in
the mount, and then `ReleasedIsShut`, `FlushShuts` and `FuseTypeOK`. `FuseInv` adds to `IndInv` that an open
handle's number is that of the File it was opened with (`OwnsFile`), where the goroutine of an
Open or a Release can be and what it has found by then (`CallPoint`), that a handle has one of
them at a time (`OneCall`), and that this File is closed or out of the map once the handle is
released. The hard case is the RELEASE that finds nothing, or another File, under the number:
then the own File is gone from the map, or replaced there by an Open that got its number,
hence after its close. A FLUSH takes the same steps while its handle is open, several of them
at a time: `FlushInv` says of each where it is and what it has found by then (`ClosePoint`). For
this `RefInv` counts: no handle has more FLUSHes under way than references, so that none is left
when the handle is released. `FuseTypeOK` follows from `OwnsFile` and these counts.

**Flags, errors, sessions.** `OpenFlagsProofs` proves that the flags with a case survive the two
conversions, for any further bits in the client's word. It rests on each flag having a bit of
its own in each table (`TablesSeparable`). `SessionProofs` proves `FailureIsReported` and
`ErrnoSurvives` of `RpcErrors` for any errnos without a case in `ErrnoToSym`, from an
invariant that ties the string on the wire to the handler's error (`WireInv`); then
`CallsConnected` and `MountLeftIsReported` from an invariant that ties each stage of `main` to
what set-up has done by then (`SessInv`); and that a session is a behaviour of `RpcErrors`
(`SessionImplementsCalls`), which carries the first two over.

**SetAttr.** `SetAttrProofs` proves `NoUpdateLost`, `ReplyIsFresh` and `FailureLeavesPrefix` for
any calls. `SetAttrInv` says that a call stands at a system call it needs (`AtNeeded`), has
set nothing of this or a later one (`NotAhead`), and that everything before is set by it or by
somebody after it (`Behind`). It uses that each `SATTR_*` bit has one attribute.
`PlainModesKept` is `ModeIsComplete` under the hypothesis that the modes have permission bits
only; `SetAttr_mode` shows that the hypothesis is needed.

**The trees.** `NodeTreeSteps` has the definitions that the proofs about `NodeTree` use,
`NodeTreeLemmas` the lemmas about paths and about the actions, `NodeTreeCalls` and
`NodeTreeProofs` the theorems. What a path leads to is a recursive function over the
container's tree. The lemmas turn it into a *walk*, the function of the prefixes of the path,
and argue about the first or last place where two walks differ, so that no induction over data
is needed but the well-foundedness of the naturals (`LeastNat`).

Every step of the mount is shown to be one of five (`StepCases`): a request begins, a
call goes on, a reply adds a Node, a reply removes or moves one, another process changes the
container. The rest speaks of these and not of the single actions. `TreeInv` is
inductive. Besides the types (`NodeTypeOK`) it has three layers:

- `BaseInv`: types, the container is a tree in which a directory has one name (`ContainerOK`), the
  kernel's locks keep the calls in one directory apart (`CallsOK`), go-fuse knows one Node for
  each number and type, and none forgets a directory (`NodesOK`);
- `CalmOK`: a Mkdir or Link whose directories nothing has disturbed still finds the name it
  made, a Rename the directory it moves to. With `BaseInv` it is inductive, and gives
  `TwoStepsAgree` and `RenameLands`. `RenamesLand` has the hypothesis `Mount = Cwd`, without
  which `NodeTree_rename` shows the opposite;
- what is in place stays in place: an inode that has not moved has one name (`UnmovedOK`); each
  place where go-fuse keeps its Node is that name, or a removal of it is on the way
  (`PlacesOK`); and what a Mkdir has made or a Rename has taken counts as moved until the
  reply (`PendingOK`). It gives `UnmovedReachable`. A step changes names only of inodes that
  it puts into `moved` with all that is within them, or it is a removal, which takes the only
  name of one inode; a path to an inode outside goes through directories outside, so it stays
  right. The hard case is the reply that adds a Node for an inode whose number was used
  before: it must not be one that an older Node of another type still claims. `RenameTakesChild`
  follows: the child's Node is in place and the locks keep it there, so the old path still leads
  to its file when the satellite serves the Rename.

`ListingIsFaithful` has an invariant of its own: `ListInv` says of a listing under way that each
entry which was always there is listed or still to be asked for, and that what is listed was
there.

Only model-checked are the liveness properties, which are out of the prover's reach.

## Not modelled

- Logging, command line flags but `-version`, `-path` and `-daemonize`, the choice of Docker
  host and API version.
- `disconnect` and a second `connectSatellite`: no code calls them once a session is set up.
- The contents and offsets of reads and writes, and the attributes in replies but for `SetAttr`
  and the inode numbers of `NodeTree`.
- The target of a symbolic link: Stat reads it in a second call, and it ends in `Node.Data`,
  which nothing reads. A path with a link in the middle is not followed in `NodeTree`.
- The flags of rename, which are sent and ignored; inode numbers of several devices, which
  may coincide.
- The type assertion `fh.(uintptr)` of `close`, `read`, `seek`, `write` and `fsync` in
  `client.go`, which panics on a request without a handle: `FuseHandles` sends these for open
  files only.
- Of a daemon, the parent, which exits with 0 before the mount.
- The encoding of `net/rpc`; go-fuse, the Docker API, `os/signal` and the kernel except as the
  modules say; the kernel's caches.
