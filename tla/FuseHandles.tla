----------------------------- MODULE FuseHandles -----------------------------
(***************************************************************************)
(* Open files of the mount, end to end: the kernel's open file             *)
(* descriptions, the Node methods of dockerfuse_fs.go the kernel drives    *)
(* through go-fuse, the calls of client.go they make, and the satellite.   *)
(*                                                                         *)
(* The kernel and go-fuse are outside this repository; the rules the Node  *)
(* methods depend on are: open() or creat() sends OPEN or CREATE; dup()    *)
(* and fork() add references without a message; every close() of a         *)
(* reference sends FLUSH and drops the reference when it is answered;      *)
(* RELEASE is sent once, after the last reference is gone; reads, writes,  *)
(* seeks and fsyncs hold a reference while they run.                       *)
(*                                                                         *)
(* A Node method makes one RPC and returns its outcome, so a call of the   *)
(* kernel is served by one handler goroutine p of the satellite and ends   *)
(* when p returns.                                                         *)
(***************************************************************************)
EXTENDS Satellite

CONSTANTS
  Handles,  \* open file descriptions of the mount
  MaxRefs,  \* bound on the references to one description
  NoHandle

ASSUME HandlesAssumption ==
  NoHandle \notin Handles /\ MaxRefs \in Nat \ {0} /\ IsFiniteSet(Procs)

VARIABLES
  kstate,   \* kstate[h]: "none", "opening", "open", "releasing", "released"
  refs,     \* refs[h]: references held by applications
  fh,       \* fh[h]: the fusefs.FileHandle the Node method returned
  own,      \* own[h]: the File opened for h, for the properties
  call      \* call[p]: what handler p does for the kernel, and for which h

kernelVars == <<kstate, refs, fh, own, call>>
allVars == <<vars, kernelVars>>

Idle == [kind |-> "none", h |-> NoHandle]
Calls(h, kind) == {p \in Procs : call[p] = [kind |-> kind, h |-> h]}
Using(h) == \E o \in UseOps : Calls(h, o) # {}

\* An application has a reference that no close() is dropping.
InHand(h) == kstate[h] = "open" /\ Cardinality(Calls(h, "flush")) < refs[h]

FuseInit ==
  /\ Init
  /\ kstate = [h \in Handles |-> "none"]
  /\ refs = [h \in Handles |-> 0]
  /\ fh = [h \in Handles |-> 0]
  /\ own = [h \in Handles |-> NoFile]
  /\ call = [p \in Procs |-> Idle]

\* rpcClient.Call of a method on behalf of h.
Call(p, kind, h, o, n) ==
  /\ Request(p, o, n)
  /\ call' = [call EXCEPT ![p] = [kind |-> kind, h |-> h]]
  /\ UNCHANGED <<fh, own>>

-------------------------------------------------------------------------------
(* The kernel and the Node methods                                          *)

\* Node.Open and Node.Create, client.open and client.create.
Open(p, h) ==
  /\ kstate[h] \in {"none", "released"}
  /\ \E n \in FDs : Call(p, "open", h, "open", n)
  /\ kstate' = [kstate EXCEPT ![h] = "opening"]
  /\ UNCHANGED refs

Dup(h) ==
  /\ Up
  /\ InHand(h)
  /\ refs[h] < MaxRefs
  /\ refs' = [refs EXCEPT ![h] = @ + 1]
  /\ UNCHANGED <<vars, kstate, fh, own, call>>

\* Mutant of Flush: it synchronises the File and leaves it open.
Flush_Syncs(p, h) ==
  /\ InHand(h)
  /\ \E o \in UseOps : Call(p, "flush", h, o, fh[h])
  /\ UNCHANGED <<kstate, refs>>

\* close() of one reference: Node.Flush, client.close.
Flush(p, h) ==
  /\ InHand(h)
  /\ Call(p, "flush", h, "close", fh[h])
  /\ UNCHANGED <<kstate, refs>>

\* The last reference is gone and no operation runs: Node.Release, client.close.
Release(p, h) ==
  /\ kstate[h] = "open"
  /\ refs[h] = 0
  /\ ~Using(h)
  /\ Call(p, "release", h, "close", fh[h])
  /\ kstate' = [kstate EXCEPT ![h] = "releasing"]
  /\ UNCHANGED refs

\* Node.Read, Write, Lseek, Fsync and the calls of client.go they make.
Use(p, h, o) ==
  /\ InHand(h)
  /\ Call(p, o, h, o, fh[h])
  /\ UNCHANGED <<kstate, refs>>

-------------------------------------------------------------------------------
(* The replies                                                              *)

\* Mutant of OpenAnswered: the error of the call is not looked at.
OpenAnswered_NoError(p, h) ==
  /\ kstate' = [kstate EXCEPT ![h] = "open"]
  /\ refs' = [refs EXCEPT ![h] = 1]
  /\ fh' = [fh EXCEPT ![h] = key[p]]
  /\ own' = [own EXCEPT ![h] = loc[p]]

\* An Open is answered: with the handle, or with an errno and no handle.
OpenAnswered(p, h) ==
  IF loc[p] \in held'
    THEN /\ kstate' = [kstate EXCEPT ![h] = "open"]
         /\ refs' = [refs EXCEPT ![h] = 1]
         /\ fh' = [fh EXCEPT ![h] = key[p]]
         /\ own' = [own EXCEPT ![h] = loc[p]]
    ELSE /\ kstate' = [kstate EXCEPT ![h] = "none"]
         /\ UNCHANGED <<refs, fh, own>>

FlushAnswered(h) ==
  /\ refs' = [refs EXCEPT ![h] = @ - 1]
  /\ UNCHANGED <<kstate, fh, own>>

ReleaseAnswered(h) ==
  /\ kstate' = [kstate EXCEPT ![h] = "released"]
  /\ UNCHANGED <<refs, fh, own>>

Answer(p) ==
  /\ call' = [call EXCEPT ![p] = Idle]
  /\ LET c == call[p] IN
       \/ c.kind = "open" /\ OpenAnswered(p, c.h)
       \/ c.kind = "flush" /\ FlushAnswered(c.h)
       \/ c.kind = "release" /\ ReleaseAnswered(c.h)
       \/ c.kind \in UseOps /\ UNCHANGED <<kstate, refs, fh, own>>

HandlerStep(p) ==
  /\ Handler(p) \/ BeginDelete(p)
  /\ \/ pc'[p] = "idle" /\ Answer(p)
     \/ pc'[p] # "idle" /\ UNCHANGED kernelVars

KernelStep(p, h) ==
  \/ Open(p, h) \/ Flush(p, h) \/ Release(p, h)
  \/ \E o \in UseOps : Use(p, h, o)

FuseNext ==
  \/ \E p \in Procs, h \in Handles : KernelStep(p, h)
  \/ \E h \in Handles : Dup(h)
  \/ \E p \in Procs : HandlerStep(p)
  \/ \E p \in Procs : MapThrow(p) /\ UNCHANGED kernelVars
  \/ \E f \in Files : Finalize(f) /\ UNCHANGED kernelVars
  \/ ~Up /\ UNCHANGED allVars

FuseSpec == FuseInit /\ [][FuseNext]_allVars

-------------------------------------------------------------------------------
(* Properties                                                               *)

\* The types.  A handle the kernel has is the number of the File that client.open or
\* client.create opened for it, also when Opens fail, and a busy handler serves a call.
FuseTypeOK ==
  /\ TypeOK
  /\ kstate \in [Handles -> {"none", "opening", "open", "releasing", "released"}]
  /\ refs \in [Handles -> 0 .. MaxRefs]
  /\ fh \in [Handles -> FDs \cup {0}]
  /\ own \in [Handles -> Files \cup {NoFile}]
  /\ \A h \in Handles :
       kstate[h] \in {"open", "releasing"} => own[h] \in Files /\ fh[h] = num[own[h]]
  /\ \A p \in Procs :
       /\ call[p].kind \in {"none", "open", "flush", "release"} \cup UseOps
       /\ call[p].h \in Handles \cup {NoHandle}
       /\ pc[p] = "idle" <=> call[p] = Idle

\* Even with concurrent handlers and lost updates of the map, a released handle leads
\* no later request to an open File: an entry of the map that is left has a closed one.
ReleasedIsShut ==
  \A h \in Handles :
    kstate[h] = "released" =>
      \A n \in FDs : fds[n] = own[h] => fstate[own[h]] = "closed"

\* "Flush closes any cached state for the given handle": when the close() of any reference
\* is answered, the File of its handle is closed or out of the map, although other
\* handlers close, open and store meanwhile and the number may lead to another File.
FlushShuts ==
  [][\A p \in Procs : call[p].kind = "flush" /\ call'[p] = Idle =>
       \A n \in FDs : fds'[n] = own[call[p].h] => fstate'[own[call[p].h]] = "closed"]_allVars

\* "Write writes data to the provided file handle" (and Read, Lseek, Fsync): an
\* operation on a handle acts on the File that was opened for that handle.
UseReachesOwnFile ==
  \A p \in Procs :
    pc[p] = "syscall" => loc[p] = own[call[p].h]
===============================================================================
