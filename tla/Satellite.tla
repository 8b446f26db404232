------------------------------ MODULE Satellite ------------------------------
(***************************************************************************)
(* The handle table of the satellite (cmd/satellite): the map fds of       *)
(* DockerFuseFSOps, the handlers that use it and the goroutine that        *)
(* empties it at shutdown.  net/rpc runs every request in a goroutine of   *)
(* its own and fds has no lock, so each step below is one access to the    *)
(* map or one call on an os.File, and the steps of different goroutines    *)
(* interleave.                                                             *)
(*                                                                         *)
(* Data is abstracted: which path is opened, offsets, bytes and attributes *)
(* are left out, and a call may succeed or fail whenever the operating     *)
(* system lets it.                                                         *)
(***************************************************************************)
EXTENDS OsFile

CONSTANTS
  Procs,   \* goroutines running request handlers; bounds the concurrency
  UseOps,  \* which of Read, Write, Seek and Fsync are called
  Sd       \* the goroutine running shutdown() of cmd/satellite/main.go

ASSUME ProcsAssumption == Sd \notin Procs
ASSUME UseOpsAssumption == UseOps \subseteq {"read", "write", "seek", "fsync"}

VARIABLES
  fds,     \* DockerFuseFSOps.fds: handle -> File, NoFile for an absent key
  pc,      \* pc[t]: where goroutine t is
  op,      \* op[p]: the request p serves
  key,     \* key[t]: request.FD, uintptrFD or the range variable k
  loc,     \* loc[t]: the local variable fd / file
  stale,   \* stale[p]: the shadowing fd of server.go:108
  todo,    \* keys the range loop of CloseAllFDs still has to produce
  status,  \* "serving", "eof" (stdin closed), "exited", "panic", "throw"
  held     \* Files returned by a successful Open whose Close was not requested

handlerVars == <<pc, op, key, loc, stale, todo>>
vars == <<fileVars, fds, handlerVars, status, held>>

Threads == Procs \cup {Sd}
Ops == {"open", "close"} \cup UseOps
HandlerPoints == {"idle", "open", "lookup", "stale", "store", "storing", "fstat",
                  "find", "close", "delete", "deleting", "use", "syscall"}
ShutdownPoints == {"waiting", "range", "sdclose", "delete", "deleting"}

Up == status \in {"serving", "eof"}

Init ==
  /\ FileInit
  /\ fds = [n \in FDs |-> NoFile]
  /\ pc = [t \in Threads |-> IF t = Sd THEN "waiting" ELSE "idle"]
  /\ op = [p \in Procs |-> "open"]
  /\ key = [t \in Threads |-> 0]
  /\ loc = [t \in Threads |-> NoFile]
  /\ stale = [p \in Procs |-> NoFile]
  /\ todo = {}
  /\ status = "serving"
  /\ held = {}

-------------------------------------------------------------------------------
(* Helpers                                                                  *)

\* Some goroutine other than t is inside a system call on File f.
Busy(t, f) == \E q \in Procs \ {t} : pc[q] = "syscall" /\ loc[q] = f

\* Some other goroutine is in the middle of a write to the map.
Racing(t) == \E u \in Threads \ {t} : pc[u] \in {"storing", "deleting"}

Goto(t, label) == pc' = [pc EXCEPT ![t] = label]

\* Handler p returns; net/rpc sends the reply and the goroutine, with its local
\* variables, is gone.
Return(p) ==
  /\ Goto(p, "idle")
  /\ op' = [op EXCEPT ![p] = "open"]
  /\ key' = [key EXCEPT ![p] = 0]
  /\ loc' = [loc EXCEPT ![p] = NoFile]

\* ErrnoToRPCErrorString on the error of a closed File: PathError.Err is
\* os.ErrClosed, the type assertion to syscall.Errno panics, nothing recovers.
PanicOnClosed(t) ==
  /\ fstate[loc[t]] = "closed"
  /\ status' = "panic"
  /\ UNCHANGED <<fileVars, fds, handlerVars, held>>

-------------------------------------------------------------------------------
(* Requests                                                                 *)

\* A request arrives and net/rpc starts a goroutine for it.  n is request.FD;
\* an Open request carries none.
Request(p, o, n) ==
  /\ status = "serving"
  /\ pc[p] = "idle"
  /\ Goto(p, IF o = "open" THEN "open" ELSE "find")
  /\ op' = [op EXCEPT ![p] = o]
  /\ key' = [key EXCEPT ![p] = IF o = "open" THEN 0 ELSE n]
  /\ held' = IF o = "close" THEN {f \in held : num[f] # n} ELSE held
  /\ UNCHANGED <<fileVars, fds, loc, stale, todo, status>>

\* What a client that uses every handle properly may request: it uses a handle
\* between Open's reply and its Close, and closes it when no call uses it.
Proper(o, n) ==
  o # "open" =>
    /\ \E f \in held : num[f] = n
    /\ o = "close" => \A p \in Procs : ~(pc[p] # "idle" /\ key[p] = n)

-------------------------------------------------------------------------------
(* DockerFuseFSOps.Open                                                     *)

OpenCall(p) ==
  /\ Up /\ pc[p] = "open"
  /\ \E f \in Files, n \in FDs :
       /\ OpenFile(f, n)
       /\ loc' = [loc EXCEPT ![p] = f]
       /\ key' = [key EXCEPT ![p] = n]
  /\ Goto(p, "lookup")
  /\ UNCHANGED <<fds, op, stale, todo, status, held>>

OpenFails(p) ==
  /\ Up /\ pc[p] = "open"
  /\ Return(p)
  /\ UNCHANGED <<fileVars, fds, stale, todo, status, held>>

OpenLookup(p) ==
  /\ Up /\ pc[p] = "lookup"
  /\ stale' = [stale EXCEPT ![p] = fds[key[p]]]
  /\ Goto(p, IF fds[key[p]] # NoFile THEN "stale" ELSE "store")
  /\ UNCHANGED <<fileVars, fds, op, key, loc, todo, status, held>>

\* The error of this Close is ignored.
OpenCloseStale(p) ==
  /\ Up /\ pc[p] = "stale"
  /\ CloseFile(stale[p], Busy(p, stale[p]))
  /\ stale' = [stale EXCEPT ![p] = NoFile]
  /\ Goto(p, "store")
  /\ UNCHANGED <<fds, op, key, loc, todo, status, held>>

OpenBeginStore(p) ==
  /\ Up /\ pc[p] = "store"
  /\ Goto(p, "storing")
  /\ UNCHANGED <<fileVars, fds, op, key, loc, stale, todo, status, held>>

\* Mutants of OpenEndStore: stored before the lookup; under another key; not at all.
OpenEndStore_BeforeLookup(p) ==
  /\ Up /\ pc[p] = "storing"
  /\ fds' = [fds EXCEPT ![key[p]] = loc[p]]
  /\ Goto(p, "lookup")
  /\ UNCHANGED <<fileVars, op, key, loc, stale, todo, status, held>>

OpenEndStore_OtherKey(p) ==
  /\ Up /\ pc[p] = "storing"
  /\ \E n \in FDs : fds' = [fds EXCEPT ![n] = loc[p]]
  /\ Goto(p, "fstat")
  /\ UNCHANGED <<fileVars, op, key, loc, stale, todo, status, held>>

OpenEndStore_NotStored(p) ==
  /\ Up /\ pc[p] = "storing"
  /\ Goto(p, "fstat")
  /\ UNCHANGED <<fileVars, fds, op, key, loc, stale, todo, status, held>>

\* A write that races another one may be lost.
OpenEndStore(p) ==
  /\ Up /\ pc[p] = "storing"
  /\ \/ fds' = [fds EXCEPT ![key[p]] = loc[p]]
     \/ Racing(p) /\ fds' = fds
  /\ Goto(p, "fstat")
  /\ UNCHANGED <<fileVars, op, key, loc, stale, todo, status, held>>

\* fd.Stat() and the reply.  When it fails the File stays in the map and the
\* client never learns its handle.
OpenStat(p) ==
  /\ Up /\ pc[p] = "fstat"
  /\ \/ PanicOnClosed(p)
     \/ /\ fstate[loc[p]] = "open"
        /\ held' \in {held, held \cup {loc[p]}}
        /\ Return(p)
        /\ UNCHANGED <<fileVars, fds, stale, todo, status>>

-------------------------------------------------------------------------------
(* DockerFuseFSOps.Close, and the lookup it shares with Read, Write, Seek    *)
(* and Fsync                                                                *)

\* Mutants of Find: an unknown handle is never answered; any entry is taken.
Find_NoAnswer(p) ==
  /\ Up /\ pc[p] = "find"
  /\ fds[key[p]] # NoFile
  /\ loc' = [loc EXCEPT ![p] = fds[key[p]]]
  /\ Goto(p, IF op[p] = "close" THEN "close" ELSE "use")
  /\ UNCHANGED <<op, key, fileVars, fds, stale, todo, status, held>>

Find_AnyEntry(p) ==
  /\ Up /\ pc[p] = "find"
  /\ \E n \in FDs : fds[n] # NoFile /\ loc' = [loc EXCEPT ![p] = fds[n]]
  /\ Goto(p, IF op[p] = "close" THEN "close" ELSE "use")
  /\ UNCHANGED <<op, key, fileVars, fds, stale, todo, status, held>>

Find(p) ==
  /\ Up /\ pc[p] = "find"
  /\ \/ /\ fds[key[p]] = NoFile
        /\ Return(p)
     \/ /\ fds[key[p]] # NoFile
        /\ loc' = [loc EXCEPT ![p] = fds[key[p]]]
        /\ Goto(p, IF op[p] = "close" THEN "close" ELSE "use")
        /\ UNCHANGED <<op, key>>
  /\ UNCHANGED <<fileVars, fds, stale, todo, status, held>>

\* Mutants of CloseCall: it returns at once; the entry is deleted and the File is not closed.
CloseCall_EarlyReturn(p) ==
  /\ Up /\ pc[p] = "close"
  /\ Return(p)
  /\ UNCHANGED <<fileVars, fds, stale, todo, status, held>>

CloseCall_NotClosed(p) ==
  /\ Up /\ pc[p] = "close"
  /\ Goto(p, "delete")
  /\ UNCHANGED <<fileVars, fds, op, key, loc, stale, todo, status, held>>

CloseCall(p) ==
  /\ Up /\ pc[p] = "close"
  /\ \/ PanicOnClosed(p)
     \/ /\ fstate[loc[p]] = "open"
        /\ CloseFile(loc[p], Busy(p, loc[p]))
        /\ Goto(p, "delete")
        /\ UNCHANGED <<fds, op, key, loc, stale, todo, status, held>>

\* delete(fso.fds, ...), the deferred one of Close and the one of CloseAllFDs.
BeginDelete(t) ==
  /\ Up /\ pc[t] = "delete"
  /\ Goto(t, "deleting")
  /\ UNCHANGED <<fileVars, fds, op, key, loc, stale, todo, status, held>>

\* Mutant of Delete: the entry stays.
Delete_Missing(t) == fds' = fds

Delete(t) ==
  \/ fds' = [fds EXCEPT ![key[t]] = NoFile]
  \/ Racing(t) /\ fds' = fds

CloseEndDelete(p) ==
  /\ Up /\ pc[p] = "deleting"
  /\ Delete(p)
  /\ Return(p)
  /\ UNCHANGED <<fileVars, stale, todo, status, held>>

-------------------------------------------------------------------------------
(* DockerFuseFSOps.Read, Write, Seek, Fsync                                 *)

\* Mutant of UseCall: the descriptor number is used without a look at the File's state.
UseCall_Unchecked(p) ==
  /\ Up /\ pc[p] = "use"
  /\ Goto(p, "syscall")
  /\ UNCHANGED <<loc, fileVars, fds, op, key, stale, todo, status, held>>

\* The File is closed, or the call enters the kernel.  WriteAt refuses a File
\* opened with O_APPEND before it looks at anything else.
UseCall(p) ==
  /\ Up /\ pc[p] = "use"
  /\ \/ PanicOnClosed(p)
     \/ /\ fstate[loc[p]] = "open"
        /\ Goto(p, "syscall")
        /\ UNCHANGED <<loc, fileVars, fds, op, key, stale, todo, status, held>>
     \/ /\ op[p] = "write"
        /\ Return(p)
        /\ UNCHANGED <<fileVars, fds, stale, todo, status, held>>

UseReturn(p) ==
  /\ Up /\ pc[p] = "syscall"
  /\ EndSyscall(loc[p], Busy(p, loc[p]))
  /\ Return(p)
  /\ UNCHANGED <<fds, stale, todo, status, held>>

\* ReadAt issues another pread after a short one.
ShortRead(p) ==
  /\ Up /\ pc[p] = "syscall" /\ op[p] = "read"
  /\ EndSyscall(loc[p], Busy(p, loc[p]))
  /\ Goto(p, "use")
  /\ UNCHANGED <<fds, op, key, loc, stale, todo, status, held>>

-------------------------------------------------------------------------------
(* shutdown and CloseAllFDs, the end of main, the Go runtime                *)

\* A signal, or the close of the signal channel when main returns.
StartShutdown ==
  /\ Up /\ pc[Sd] = "waiting"
  /\ todo' = {n \in FDs : fds[n] # NoFile}
  /\ Goto(Sd, "range")
  /\ UNCHANGED <<fileVars, fds, op, key, loc, stale, status, held>>

\* The range loop produces an entry of the map: each of those present when it
\* started and not deleted since, and possibly entries stored meanwhile.
RangeNext ==
  /\ Up /\ pc[Sd] = "range"
  /\ \E n \in FDs :
       /\ fds[n] # NoFile
       /\ key' = [key EXCEPT ![Sd] = n]
       /\ loc' = [loc EXCEPT ![Sd] = fds[n]]
       /\ todo' = todo \ {n}
  /\ Goto(Sd, "sdclose")
  /\ UNCHANGED <<fileVars, fds, op, stale, status, held>>

\* Mutant of ShutdownClose: an error of Close ends the goroutine.
ShutdownClose_GivesUp ==
  /\ Up /\ pc[Sd] = "sdclose"
  /\ CloseFile(loc[Sd], Busy(Sd, loc[Sd]))
  /\ Goto(Sd, IF fstate[loc[Sd]] = "open" THEN "delete" ELSE "waiting")
  /\ UNCHANGED <<fds, op, key, loc, stale, todo, status, held>>

\* The error of this Close is ignored.
ShutdownClose ==
  /\ Up /\ pc[Sd] = "sdclose"
  /\ CloseFile(loc[Sd], Busy(Sd, loc[Sd]))
  /\ Goto(Sd, "delete")
  /\ UNCHANGED <<fds, op, key, loc, stale, todo, status, held>>

ShutdownEndDelete ==
  /\ Up /\ pc[Sd] = "deleting"
  /\ Delete(Sd)
  /\ Goto(Sd, "range")
  /\ loc' = [loc EXCEPT ![Sd] = NoFile]
  /\ UNCHANGED <<fileVars, op, key, stale, todo, status, held>>

\* The loop ends and shutdown calls os.Exit(0).
ShutdownExit ==
  /\ Up /\ pc[Sd] = "range"
  /\ \A n \in todo : fds[n] = NoFile
  /\ status' = "exited"
  /\ UNCHANGED <<fileVars, fds, handlerVars, held>>

\* The client end of stdin is gone: ServeConn accepts no more requests, waits
\* for the running handlers and returns, and main returns.
StdinEOF ==
  /\ status = "serving"
  /\ status' = "eof"
  /\ UNCHANGED <<fileVars, fds, handlerVars, held>>

\* Mutant of MainReturns: main waits for the clients to close their handles.
MainReturns_WhenEmpty ==
  /\ status = "eof"
  /\ \A n \in FDs : fds[n] = NoFile
  /\ status' = "exited"
  /\ UNCHANGED <<fileVars, fds, handlerVars, held>>

MainReturns ==
  /\ status = "eof"
  /\ \A p \in Procs : pc[p] = "idle"
  /\ status' = "exited"
  /\ UNCHANGED <<fileVars, fds, handlerVars, held>>

\* The runtime detects an access to the map during another goroutine's write
\* and kills the process ("fatal error: concurrent map ...").
MapThrow(t) ==
  /\ Up /\ pc[t] \in {"lookup", "find", "store", "delete", "range"}
  /\ Racing(t)
  /\ status' = "throw"
  /\ UNCHANGED <<fileVars, fds, handlerVars, held>>

\* The garbage collector closes a File nothing refers to.
Finalize(f) ==
  /\ Up /\ fstate[f] = "open"
  /\ \A n \in FDs : fds[n] # f
  /\ \A t \in Threads : loc[t] # f
  /\ \A p \in Procs : stale[p] # f
  /\ CloseFile(f, FALSE)
  /\ UNCHANGED <<fds, handlerVars, status, held>>

-------------------------------------------------------------------------------
(* Specification                                                            *)

Handler(p) ==
  \/ OpenCall(p) \/ OpenFails(p) \/ OpenLookup(p) \/ OpenCloseStale(p)
  \/ OpenBeginStore(p) \/ OpenEndStore(p) \/ OpenStat(p)
  \/ Find(p) \/ CloseCall(p) \/ CloseEndDelete(p)
  \/ UseCall(p) \/ UseReturn(p) \/ ShortRead(p)

Shutdown ==
  \/ StartShutdown \/ RangeNext \/ ShutdownClose \/ ShutdownEndDelete \/ ShutdownExit

Internal ==
  \/ \E p \in Procs : Handler(p)
  \/ \E t \in Threads : BeginDelete(t) \/ MapThrow(t)
  \/ Shutdown
  \/ \E f \in Files : Finalize(f)
  \/ StdinEOF \/ MainReturns

Terminated == ~Up /\ UNCHANGED vars

\* Any client: every request, on any handle number, at any time.
Next ==
  \/ \E p \in Procs, o \in Ops, n \in FDs : Request(p, o, n)
  \/ Internal
  \/ Terminated

Spec == Init /\ [][Next]_vars

\* A client that uses handles properly.
ProperNext ==
  \/ \E p \in Procs, o \in Ops, n \in FDs : Proper(o, n) /\ Request(p, o, n)
  \/ Internal
  \/ Terminated

ProperSpec == Init /\ [][ProperNext]_vars

\* Goroutines are scheduled, and OpenFile and the other system calls return; a
\* read makes finitely many short reads.  Nothing makes requests arrive.
Fairness ==
  /\ \A p \in Procs : WF_vars(Handler(p) \/ BeginDelete(p)) /\ SF_vars(UseReturn(p))
  /\ WF_vars(RangeNext \/ ShutdownClose \/ BeginDelete(Sd) \/ ShutdownEndDelete)
  /\ SF_vars(ShutdownExit)
  /\ WF_vars(MainReturns)

FairSpec == Spec /\ Fairness

-------------------------------------------------------------------------------
(* Properties                                                               *)

TypeOK ==
  /\ FileTypeOK
  /\ fds \in [FDs -> Files \cup {NoFile}]
  /\ pc \in [Threads -> HandlerPoints \cup ShutdownPoints]
  /\ \A p \in Procs : pc[p] \in HandlerPoints
  /\ pc[Sd] \in ShutdownPoints
  /\ op \in [Procs -> Ops]
  /\ key \in [Threads -> FDs \cup {0}]
  /\ loc \in [Threads -> Files \cup {NoFile}]
  /\ stale \in [Procs -> Files \cup {NoFile}]
  /\ todo \in SUBSET FDs
  /\ status \in {"serving", "eof", "exited", "panic", "throw"}
  /\ held \in SUBSET Files

\* A handler that is inside a system call, and Open before it stores its File,
\* own the descriptor number they work on: whatever the other handlers close and
\* open meanwhile, the kernel has not given that number to another File.
OwnDescriptor ==
  \A p \in Procs :
    pc[p] \in {"syscall", "lookup", "stale", "store", "storing"} => ktab[num[loc[p]]] = loc[p]

\* "Make sure we don't leak stale FDs" in Open never closes a live descriptor: the
\* File found under the new number is another one, and it is closed already.
StaleAlreadyClosed ==
  \A p \in Procs :
    pc[p] = "stale" => stale[p] # loc[p] /\ fstate[stale[p]] = "closed"

\* Open "stores the resulting descriptor": until its Close is requested, a handle
\* returned by Open leads to the open File that Open created.
HandleLive ==
  Up /\ pc[Sd] = "waiting" =>
    \A f \in held : fds[num[f]] = f /\ fstate[f] = "open"

\* Until shutdown starts, no handler panics on the error of a closed File.
NoPanic == pc[Sd] = "waiting" => status # "panic"

\* Between requests, the open descriptors of the process are exactly the ones in
\* the map: none is lost, and no entry of the map is dead.
RestIsExact ==
  Up /\ pc[Sd] = "waiting" /\ (\A p \in Procs : pc[p] = "idle") => ktab = fds

\* Every request is answered unless the process ends.
Answered == \A p \in Procs : pc[p] # "idle" ~> (pc[p] = "idle" \/ ~Up)

\* When the client goes away the satellite exits.
ExitsAfterEOF == status = "eof" ~> ~Up

\* A signal ends the satellite, although CloseAllFDs ranges over a map that running
\* handlers change, and closes Files that they close too.
ShutdownEnds == pc[Sd] # "waiting" ~> ~Up

-------------------------------------------------------------------------------
(* The inductive invariant behind OwnDescriptor and StaleAlreadyClosed       *)

EarlyPoints == {"lookup", "stale", "store", "storing"}
LocPoints ==
  EarlyPoints \cup {"fstat", "close", "delete", "deleting", "use", "syscall", "sdclose"}
KeyPoints == LocPoints \cup {"find"}

\* A File and the kernel agree on who has which number.
NumbersAgree ==
  /\ \A f \in Files : fstate[f] # "unused" => num[f] \in FDs
  /\ \A n \in FDs : ktab[n] # NoFile => num[ktab[n]] = n /\ fstate[ktab[n]] # "unused"
  /\ \A f \in Files : fstate[f] = "open" => ktab[num[f]] = f
  /\ \A p \in Procs : pc[p] = "syscall" => ktab[num[loc[p]]] = loc[p]

\* The kernel keeps a number taken only for an open File, or for a closed one while a
\* system call on it runs.
NoLostNumber ==
  \A n \in FDs : ktab[n] # NoFile =>
    LET f == ktab[n]
    IN  \/ fstate[f] = "open" /\ num[f] = n
        \/ \E p \in Procs : pc[p] = "syscall" /\ loc[p] = f

\* Whatever refers to a File refers to one that was opened, and the map has it
\* under its own number.
RefsOpened ==
  /\ \A n \in FDs : fds[n] # NoFile => fstate[fds[n]] # "unused" /\ num[fds[n]] = n
  /\ \A t \in Threads : loc[t] # NoFile => fstate[loc[t]] # "unused"
  /\ \A p \in Procs : stale[p] # NoFile => fstate[stale[p]] # "unused"

\* Until Open stores its File, nothing else can refer to it, so it is open.
EarlyPrivate ==
  \A p \in Procs : pc[p] \in EarlyPoints =>
    /\ fstate[loc[p]] = "open"
    /\ num[loc[p]] = key[p]
    /\ \A n \in FDs : fds[n] # loc[p]
    /\ \A t \in Threads \ {p} : loc[t] # loc[p]
    /\ \A q \in Procs : stale[q] # loc[p]

\* The local variables are set where they are used.
LocalsSet ==
  /\ \A t \in Threads : pc[t] \in LocPoints => loc[t] # NoFile
  /\ \A t \in Threads : pc[t] \in KeyPoints => key[t] \in FDs
  /\ \A p \in Procs : pc[p] = "stale" => stale[p] # NoFile /\ num[stale[p]] = key[p]

\* The map of open descriptors stays consistent with the kernel, whatever the
\* handlers, the shutdown goroutine and the garbage collector do.
IndInv ==
  /\ TypeOK
  /\ NumbersAgree
  /\ NoLostNumber
  /\ RefsOpened
  /\ EarlyPrivate
  /\ LocalsSet

-------------------------------------------------------------------------------
(* One handler at a time, until shutdown starts: the inductive invariant      *)
(* behind NoPanic, RestIsExact, HandleLive and KeepsPromise                   *)

\* An entry of the map is open, but while its Close runs.
EntriesOpen ==
  \A n \in FDs : fds[n] # NoFile =>
    fstate[fds[n]] = "open" \/ \E p \in Procs : pc[p] \in {"delete", "deleting"} /\ key[p] = n

\* An open File is in the map, but while its Open runs.
OpenMapped ==
  \A f \in Files : fstate[f] = "open" =>
    fds[num[f]] = f \/ \E p \in Procs : pc[p] \in EarlyPoints /\ loc[p] = f

\* A handler works on the entry of its handle, and Open never finds a stale one.
WorksOnEntry ==
  \A p \in Procs :
    /\ pc[p] # "stale"
    /\ pc[p] \in {"fstat", "close", "delete", "deleting", "use", "syscall"} => fds[key[p]] = loc[p]
    /\ pc[p] \in {"fstat", "close", "use", "syscall"} => fstate[loc[p]] = "open"
    /\ pc[p] \in {"delete", "deleting"} => fstate[loc[p]] = "closed"
    /\ pc[p] \in {"close", "delete", "deleting"} => op[p] = "close"
    /\ pc[p] \in {"open", "fstat"} \cup EarlyPoints => op[p] = "open"

\* The client's handles are live, and the one that is being closed is not among them.
HeldMapped ==
  /\ \A f \in held : fds[num[f]] = f /\ fstate[f] = "open"
  /\ \A p \in Procs : pc[p] # "idle" /\ op[p] = "close" => \A f \in held : num[f] # key[p]

\* The map, the kernel and the client agree whenever no handler is at work, and each
\* handler disturbs only its own entry.
SerialInv ==
  /\ IndInv
  /\ pc[Sd] = "waiting" =>
       status # "panic" /\ EntriesOpen /\ OpenMapped /\ WorksOnEntry /\ HeldMapped

-------------------------------------------------------------------------------
(* The promise, as an abstraction of this state: a File is in the table from *)
(* the reply of its Open to the reply of its Close.                          *)

Opening == {p \in Procs : pc[p] \in {"lookup", "stale", "store", "storing", "fstat"}}

Promise == INSTANCE HandleStore WITH
  table <- [n \in FDs |-> IF \E p \in Opening : loc[p] = fds[n] THEN NoFile ELSE fds[n]],
  used <- {f \in Files : fstate[f] # "unused"} \ {loc[p] : p \in Opening},
  acting <- {<<key[p], loc[p]>> : p \in {q \in Procs : pc[q] = "syscall"}},
  up <- Up /\ pc[Sd] = "waiting"

\* The satellite keeps the promise of HandleStore.
KeepsPromise == Promise!StoreSpec
===============================================================================
