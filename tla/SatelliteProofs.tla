--------------------------- MODULE SatelliteProofs ---------------------------
(***************************************************************************)
(* Proofs about Satellite, for any number of handler goroutines, Files and *)
(* descriptor numbers and for any client.                                  *)
(*                                                                         *)
(* IndInv is preserved by every action; there is one lemma per action, and *)
(* in it one step per conjunct of IndInv.  The argument turns on           *)
(* EarlyPrivate: nobody else can close the File an Open has not stored     *)
(* yet, so its number stays taken, so any other File with that number, the *)
(* one found in the map included, has been closed.                         *)
(*                                                                         *)
(* With one handler at a time more holds until shutdown starts: the map is *)
(* exact, no handler panics, the client's handles are live, and every step *)
(* is a step of HandleStore.  A File is closed and leaves the map in one   *)
(* request, so an entry of the map is open whenever Open looks; the number *)
(* the kernel hands out belongs to no open File, so Open finds nothing     *)
(* under it.                                                               *)
(***************************************************************************)
EXTENDS Satellite, TLAPS

\* A leaf of first-order logic and sets names no prover; the others go to SMT and, should it
\* run out of time, to Z3.
USE ZenonT(30)

-------------------------------------------------------------------------------
(* The actions preserve IndInv                                              *)

\* A request arrives.
LEMMA RequestInv ==
  ASSUME IndInv, NEW p \in Procs, NEW o \in Ops, NEW n \in FDs, Request(p, o, n)
  PROVE  IndInv'
<1> USE FilesAssumption, ProcsAssumption
    DEF IndInv, TypeOK, FileTypeOK, Threads, fileVars, handlerVars,
        Request, Goto
<1>1. TypeOK'
  BY DEF HandlerPoints, ShutdownPoints, Ops, LocalsSet, KeyPoints, LocPoints, EarlyPoints
<1>2. NumbersAgree'
  BY DEF NumbersAgree, LocalsSet, KeyPoints, LocPoints, EarlyPoints, EarlyPrivate, RefsOpened
<1>3. NoLostNumber'
  BY SMT, Z3T(30) DEF NumbersAgree, NoLostNumber, LocalsSet, LocPoints
<1>4. RefsOpened'
  BY DEF RefsOpened, LocalsSet, KeyPoints, LocPoints, EarlyPoints, EarlyPrivate
<1>5. EarlyPrivate'
  BY SMT, Z3T(30) DEF EarlyPrivate, EarlyPoints, LocPoints, LocalsSet, RefsOpened
<1>6. LocalsSet'
  BY SMT, Z3T(30) DEF LocalsSet, RefsOpened, EarlyPoints, LocPoints, KeyPoints
<1> QED BY <1>1, <1>2, <1>3, <1>4, <1>5, <1>6 DEF IndInv

\* os.OpenFile: the new File is private to p and owns a number that was free.
LEMMA OpenCallInv ==
  ASSUME IndInv, NEW p \in Procs, OpenCall(p)
  PROVE  IndInv'
<1> USE FilesAssumption, ProcsAssumption
    DEF IndInv, TypeOK, FileTypeOK, Threads, fileVars, handlerVars,
        OpenCall, Goto, OpenFile, LowestFree
<1>1. TypeOK'
  BY SMT, Z3T(30)
     DEF HandlerPoints, ShutdownPoints, Ops, LocalsSet, KeyPoints, LocPoints, EarlyPoints
<1>2. NumbersAgree'
  BY SMT, Z3T(30)
     DEF NumbersAgree, LocalsSet, KeyPoints, LocPoints, EarlyPoints, EarlyPrivate, RefsOpened
<1>3. NoLostNumber'
  BY SMT, Z3T(30) DEF NumbersAgree, NoLostNumber, LocalsSet, LocPoints
<1>4. RefsOpened'
  BY SMT, Z3T(30) DEF RefsOpened, LocalsSet, KeyPoints, LocPoints, EarlyPoints, EarlyPrivate
<1>5. EarlyPrivate'
  BY SMT, Z3T(30) DEF EarlyPrivate, EarlyPoints, LocPoints, LocalsSet, RefsOpened
<1>6. LocalsSet'
  BY SMT, Z3T(30) DEF LocalsSet, RefsOpened, EarlyPoints, LocPoints, KeyPoints
<1> QED BY <1>1, <1>2, <1>3, <1>4, <1>5, <1>6 DEF IndInv

\* os.OpenFile fails and Open returns.
LEMMA OpenFailsInv ==
  ASSUME IndInv, NEW p \in Procs, OpenFails(p)
  PROVE  IndInv'
<1> USE FilesAssumption, ProcsAssumption
    DEF IndInv, TypeOK, FileTypeOK, Threads, fileVars, handlerVars,
        OpenFails, Return, Goto
<1>1. TypeOK'
  BY DEF HandlerPoints, ShutdownPoints, Ops, LocalsSet, KeyPoints, LocPoints, EarlyPoints
<1>2. NumbersAgree'
  BY SMT, Z3T(30)
     DEF NumbersAgree, LocalsSet, KeyPoints, LocPoints, EarlyPoints, EarlyPrivate, RefsOpened
<1>3. NoLostNumber'
  BY DEF NumbersAgree, NoLostNumber, LocalsSet, LocPoints
<1>4. RefsOpened'
  BY DEF RefsOpened, LocalsSet, KeyPoints, LocPoints, EarlyPoints, EarlyPrivate
<1>5. EarlyPrivate'
  BY SMT, Z3T(30) DEF EarlyPrivate, EarlyPoints, LocPoints, LocalsSet, RefsOpened
<1>6. LocalsSet'
  BY DEF LocalsSet, RefsOpened, EarlyPoints, LocPoints, KeyPoints
<1> QED BY <1>1, <1>2, <1>3, <1>4, <1>5, <1>6 DEF IndInv

\* Open looks its new number up in the map.
LEMMA OpenLookupInv ==
  ASSUME IndInv, NEW p \in Procs, OpenLookup(p)
  PROVE  IndInv'
<1> USE FilesAssumption, ProcsAssumption
    DEF IndInv, TypeOK, FileTypeOK, Threads, fileVars, handlerVars,
        OpenLookup, Goto
<1>1. TypeOK'
  BY DEF HandlerPoints, ShutdownPoints, Ops, LocalsSet, KeyPoints, LocPoints, EarlyPoints
<1>2. NumbersAgree'
  BY SMT, Z3T(30)
     DEF NumbersAgree, LocalsSet, KeyPoints, LocPoints, EarlyPoints, EarlyPrivate, RefsOpened
<1>3. NoLostNumber'
  BY SMT, Z3T(30) DEF NumbersAgree, NoLostNumber, LocalsSet, LocPoints
<1>4. RefsOpened'
  BY SMT, Z3T(30) DEF RefsOpened, LocalsSet, KeyPoints, LocPoints, EarlyPoints, EarlyPrivate
<1>5. EarlyPrivate'
  <2>1. loc[p] # fds[key[p]]
    BY DEF EarlyPrivate, EarlyPoints, LocalsSet, LocPoints, KeyPoints
  <2>2. \A q \in Procs : pc'[q] \in EarlyPoints => pc[q] \in EarlyPoints
    BY DEF EarlyPoints
  <2>3. \A q \in Procs, r \in Procs : pc'[q] \in EarlyPoints => stale'[r] # loc[q]
    BY <2>1, <2>2, SMT, Z3T(30) DEF EarlyPrivate, LocalsSet, EarlyPoints, LocPoints, KeyPoints
  <2> QED
    BY <2>2, <2>3, SMT, Z3T(30) DEF EarlyPrivate
<1>6. LocalsSet'
  BY SMT, Z3T(30) DEF LocalsSet, RefsOpened, EarlyPoints, LocPoints, KeyPoints
<1> QED BY <1>1, <1>2, <1>3, <1>4, <1>5, <1>6 DEF IndInv

\* Open closes what it found there; that File is closed already.
LEMMA OpenCloseStaleInv ==
  ASSUME IndInv, NEW p \in Procs, OpenCloseStale(p)
  PROVE  IndInv'
<1> USE FilesAssumption, ProcsAssumption
    DEF IndInv, TypeOK, FileTypeOK, Threads, fileVars, handlerVars,
        OpenCloseStale, Goto, CloseFile, Busy
<1>1. TypeOK'
  BY DEF HandlerPoints, ShutdownPoints, Ops, LocalsSet, KeyPoints, LocPoints, EarlyPoints
<1>2. NumbersAgree'
  BY SMT, Z3T(30)
     DEF NumbersAgree, LocalsSet, KeyPoints, LocPoints, EarlyPoints, EarlyPrivate, RefsOpened
<1>3. NoLostNumber'
  BY SMT, Z3T(30) DEF NumbersAgree, NoLostNumber, LocalsSet, LocPoints
<1>4. RefsOpened'
  BY SMT, Z3T(30) DEF RefsOpened, LocalsSet, KeyPoints, LocPoints, EarlyPoints, EarlyPrivate
<1>5. EarlyPrivate'
  BY SMT, Z3T(30) DEF EarlyPrivate, EarlyPoints, LocPoints, LocalsSet, RefsOpened
<1>6. LocalsSet'
  BY SMT, Z3T(30) DEF LocalsSet, RefsOpened, EarlyPoints, LocPoints, KeyPoints
<1> QED BY <1>1, <1>2, <1>3, <1>4, <1>5, <1>6 DEF IndInv

\* Open starts to store its File.
LEMMA OpenBeginStoreInv ==
  ASSUME IndInv, NEW p \in Procs, OpenBeginStore(p)
  PROVE  IndInv'
<1> USE FilesAssumption, ProcsAssumption
    DEF IndInv, TypeOK, FileTypeOK, Threads, fileVars, handlerVars,
        OpenBeginStore, Goto
<1>1. TypeOK'
  BY DEF HandlerPoints, ShutdownPoints, Ops, LocalsSet, KeyPoints, LocPoints, EarlyPoints
<1>2. NumbersAgree'
  BY SMT, Z3T(30)
     DEF NumbersAgree, LocalsSet, KeyPoints, LocPoints, EarlyPoints, EarlyPrivate, RefsOpened
<1>3. NoLostNumber'
  BY SMT, Z3T(30) DEF NumbersAgree, NoLostNumber, LocalsSet, LocPoints
<1>4. RefsOpened'
  BY DEF RefsOpened, LocalsSet, KeyPoints, LocPoints, EarlyPoints, EarlyPrivate
<1>5. EarlyPrivate'
  BY SMT, Z3T(30) DEF EarlyPrivate, EarlyPoints, LocPoints, LocalsSet, RefsOpened
<1>6. LocalsSet'
  BY SMT, Z3T(30) DEF LocalsSet, RefsOpened, EarlyPoints, LocPoints, KeyPoints
<1> QED BY <1>1, <1>2, <1>3, <1>4, <1>5, <1>6 DEF IndInv

\* Open stores its File under the number of the File.
LEMMA OpenEndStoreInv ==
  ASSUME IndInv, NEW p \in Procs, OpenEndStore(p)
  PROVE  IndInv'
<1> USE FilesAssumption, ProcsAssumption
    DEF IndInv, TypeOK, FileTypeOK, Threads, fileVars, handlerVars,
        OpenEndStore, Goto
<1>1. TypeOK'
  BY SMT, Z3T(30)
     DEF HandlerPoints, ShutdownPoints, Ops, LocalsSet, KeyPoints, LocPoints, EarlyPoints
<1>2. NumbersAgree'
  BY SMT, Z3T(30)
     DEF NumbersAgree, LocalsSet, KeyPoints, LocPoints, EarlyPoints, EarlyPrivate, RefsOpened
<1>3. NoLostNumber'
  BY SMT, Z3T(30) DEF NumbersAgree, NoLostNumber, LocalsSet, LocPoints
<1>4. RefsOpened'
  BY SMT, Z3T(30) DEF RefsOpened, LocalsSet, KeyPoints, LocPoints, EarlyPoints, EarlyPrivate
<1>5. EarlyPrivate'
  BY SMT, Z3T(30) DEF EarlyPrivate, EarlyPoints, LocPoints, LocalsSet, RefsOpened
<1>6. LocalsSet'
  BY SMT, Z3T(30) DEF LocalsSet, RefsOpened, EarlyPoints, LocPoints, KeyPoints
<1> QED BY <1>1, <1>2, <1>3, <1>4, <1>5, <1>6 DEF IndInv

\* fd.Stat() and the return of Open.
LEMMA OpenStatInv ==
  ASSUME IndInv, NEW p \in Procs, OpenStat(p)
  PROVE  IndInv'
<1> USE FilesAssumption, ProcsAssumption
    DEF IndInv, TypeOK, FileTypeOK, Threads, fileVars, handlerVars,
        OpenStat, PanicOnClosed, Return, Goto
<1>1. TypeOK'
  BY SMT, Z3T(30)
     DEF HandlerPoints, ShutdownPoints, Ops, LocalsSet, KeyPoints, LocPoints, EarlyPoints
<1>2. NumbersAgree'
  BY SMT, Z3T(30)
     DEF NumbersAgree, LocalsSet, KeyPoints, LocPoints, EarlyPoints, EarlyPrivate, RefsOpened
<1>3. NoLostNumber'
  BY SMT, Z3T(30) DEF NumbersAgree, NoLostNumber, LocalsSet, LocPoints
<1>4. RefsOpened'
  BY SMT, Z3T(30) DEF RefsOpened, LocalsSet, KeyPoints, LocPoints, EarlyPoints, EarlyPrivate
<1>5. EarlyPrivate'
  BY SMT, Z3T(30) DEF EarlyPrivate, EarlyPoints, LocPoints, LocalsSet, RefsOpened
<1>6. LocalsSet'
  BY SMT, Z3T(30) DEF LocalsSet, RefsOpened, EarlyPoints, LocPoints, KeyPoints
<1> QED BY <1>1, <1>2, <1>3, <1>4, <1>5, <1>6 DEF IndInv

\* The lookup of Close, Read, Write, Seek and Fsync.
LEMMA FindInv ==
  ASSUME IndInv, NEW p \in Procs, Find(p)
  PROVE  IndInv'
<1> USE FilesAssumption, ProcsAssumption
    DEF IndInv, TypeOK, FileTypeOK, Threads, fileVars, handlerVars,
        Find, Return, Goto
<1>1. TypeOK'
  BY SMT, Z3T(30)
     DEF HandlerPoints, ShutdownPoints, Ops, LocalsSet, KeyPoints, LocPoints, EarlyPoints
<1>2. NumbersAgree'
  BY SMT, Z3T(30)
     DEF NumbersAgree, LocalsSet, KeyPoints, LocPoints, EarlyPoints, EarlyPrivate, RefsOpened
<1>3. NoLostNumber'
  BY SMT, Z3T(30) DEF NumbersAgree, NoLostNumber, LocalsSet, LocPoints
<1>4. RefsOpened'
  BY SMT, Z3T(30) DEF RefsOpened, LocalsSet, KeyPoints, LocPoints, EarlyPoints, EarlyPrivate
<1>5. EarlyPrivate'
  <2>1. \A q \in Procs : pc'[q] \in EarlyPoints => q # p /\ pc[q] \in EarlyPoints
    BY SMT, Z3T(30) DEF EarlyPoints
  <2>2. \A q \in Procs : pc'[q] \in EarlyPoints => loc'[p] # loc[q] /\ loc'[q] = loc[q]
    BY <2>1, SMT, Z3T(30) DEF EarlyPrivate, LocalsSet, EarlyPoints, LocPoints, KeyPoints
  <2>3. \A q \in Procs : pc'[q] \in EarlyPoints => key'[q] = key[q]
    BY <2>1
  <2> QED
    BY <2>1, <2>2, <2>3, SMT, Z3T(30) DEF EarlyPrivate
<1>6. LocalsSet'
  BY SMT, Z3T(30) DEF LocalsSet, RefsOpened, EarlyPoints, LocPoints, KeyPoints
<1> QED BY <1>1, <1>2, <1>3, <1>4, <1>5, <1>6 DEF IndInv

\* fd.Close() in Close.
LEMMA CloseCallInv ==
  ASSUME IndInv, NEW p \in Procs, CloseCall(p)
  PROVE  IndInv'
<1> USE FilesAssumption, ProcsAssumption
    DEF IndInv, TypeOK, FileTypeOK, Threads, fileVars, handlerVars,
        CloseCall, PanicOnClosed, CloseFile, Busy, Goto
<1>1. TypeOK'
  BY SMT, Z3T(30)
     DEF HandlerPoints, ShutdownPoints, Ops, LocalsSet, KeyPoints, LocPoints, EarlyPoints
<1>2. NumbersAgree'
  BY SMT, Z3T(30)
     DEF NumbersAgree, LocalsSet, KeyPoints, LocPoints, EarlyPoints, EarlyPrivate, RefsOpened
<1>3. NoLostNumber'
  BY SMT, Z3T(30) DEF NumbersAgree, NoLostNumber, LocalsSet, LocPoints
<1>4. RefsOpened'
  BY SMT, Z3T(30) DEF RefsOpened, LocalsSet, KeyPoints, LocPoints, EarlyPoints, EarlyPrivate
<1>5. EarlyPrivate'
  BY SMT, Z3T(30) DEF EarlyPrivate, EarlyPoints, LocPoints, LocalsSet, RefsOpened
<1>6. LocalsSet'
  BY SMT, Z3T(30) DEF LocalsSet, RefsOpened, EarlyPoints, LocPoints, KeyPoints
<1> QED BY <1>1, <1>2, <1>3, <1>4, <1>5, <1>6 DEF IndInv

\* The deferred delete of Close.
LEMMA CloseEndDeleteInv ==
  ASSUME IndInv, NEW p \in Procs, CloseEndDelete(p)
  PROVE  IndInv'
<1> USE FilesAssumption, ProcsAssumption
    DEF IndInv, TypeOK, FileTypeOK, Threads, fileVars, handlerVars,
        CloseEndDelete, Delete, Return, Goto
<1>1. TypeOK'
  BY DEF HandlerPoints, ShutdownPoints, Ops, LocalsSet, KeyPoints, LocPoints, EarlyPoints
<1>2. NumbersAgree'
  BY SMT, Z3T(30)
     DEF NumbersAgree, LocalsSet, KeyPoints, LocPoints, EarlyPoints, EarlyPrivate, RefsOpened
<1>3. NoLostNumber'
  BY DEF NumbersAgree, NoLostNumber, LocalsSet, LocPoints
<1>4. RefsOpened'
  BY SMT, Z3T(30) DEF RefsOpened, LocalsSet, KeyPoints, LocPoints, EarlyPoints, EarlyPrivate
<1>5. EarlyPrivate'
  BY SMT, Z3T(30) DEF EarlyPrivate, EarlyPoints, LocPoints, LocalsSet, RefsOpened
<1>6. LocalsSet'
  BY DEF LocalsSet, RefsOpened, EarlyPoints, LocPoints, KeyPoints
<1> QED BY <1>1, <1>2, <1>3, <1>4, <1>5, <1>6 DEF IndInv

\* A Read, Write, Seek or Fsync enters the kernel.
LEMMA UseCallInv ==
  ASSUME IndInv, NEW p \in Procs, UseCall(p)
  PROVE  IndInv'
<1> USE FilesAssumption, ProcsAssumption
    DEF IndInv, TypeOK, FileTypeOK, Threads, fileVars, handlerVars,
        UseCall, PanicOnClosed, Return, Goto
<1>1. TypeOK'
  BY SMT, Z3T(30)
     DEF HandlerPoints, ShutdownPoints, Ops, LocalsSet, KeyPoints, LocPoints, EarlyPoints
<1>2. NumbersAgree'
  BY SMT, Z3T(30)
     DEF NumbersAgree, LocalsSet, KeyPoints, LocPoints, EarlyPoints, EarlyPrivate, RefsOpened
<1>3. NoLostNumber'
  BY SMT, Z3T(30) DEF NumbersAgree, NoLostNumber, LocalsSet, LocPoints
<1>4. RefsOpened'
  BY SMT, Z3T(30) DEF RefsOpened, LocalsSet, KeyPoints, LocPoints, EarlyPoints, EarlyPrivate
<1>5. EarlyPrivate'
  BY SMT, Z3T(30) DEF EarlyPrivate, EarlyPoints, LocPoints, LocalsSet, RefsOpened
<1>6. LocalsSet'
  BY SMT, Z3T(30) DEF LocalsSet, RefsOpened, EarlyPoints, LocPoints, KeyPoints
<1> QED BY <1>1, <1>2, <1>3, <1>4, <1>5, <1>6 DEF IndInv

\* It leaves the kernel; the last one on a closed File frees the number.
LEMMA UseReturnInv ==
  ASSUME IndInv, NEW p \in Procs, UseReturn(p)
  PROVE  IndInv'
<1> USE FilesAssumption, ProcsAssumption
    DEF IndInv, TypeOK, FileTypeOK, Threads, fileVars, handlerVars,
        UseReturn, EndSyscall, Busy, Return, Goto
<1>1. TypeOK'
  BY DEF HandlerPoints, ShutdownPoints, Ops, LocalsSet, KeyPoints, LocPoints, EarlyPoints
<1>2. NumbersAgree'
  BY SMT, Z3T(30)
     DEF NumbersAgree, LocalsSet, KeyPoints, LocPoints, EarlyPoints, EarlyPrivate, RefsOpened
<1>3. NoLostNumber'
  BY SMT, Z3T(30) DEF NumbersAgree, NoLostNumber, LocalsSet, LocPoints
<1>4. RefsOpened'
  BY SMT, Z3T(30) DEF RefsOpened, LocalsSet, KeyPoints, LocPoints, EarlyPoints, EarlyPrivate
<1>5. EarlyPrivate'
  BY SMT, Z3T(30) DEF EarlyPrivate, EarlyPoints, LocPoints, LocalsSet, RefsOpened
<1>6. LocalsSet'
  BY DEF LocalsSet, RefsOpened, EarlyPoints, LocPoints, KeyPoints
<1> QED BY <1>1, <1>2, <1>3, <1>4, <1>5, <1>6 DEF IndInv

\* It leaves the kernel to issue another pread.
LEMMA ShortReadInv ==
  ASSUME IndInv, NEW p \in Procs, ShortRead(p)
  PROVE  IndInv'
<1> USE FilesAssumption, ProcsAssumption
    DEF IndInv, TypeOK, FileTypeOK, Threads, fileVars, handlerVars,
        ShortRead, EndSyscall, Busy, Goto
<1>1. TypeOK'
  BY DEF HandlerPoints, ShutdownPoints, Ops, LocalsSet, KeyPoints, LocPoints, EarlyPoints
<1>2. NumbersAgree'
  BY SMT, Z3T(30)
     DEF NumbersAgree, LocalsSet, KeyPoints, LocPoints, EarlyPoints, EarlyPrivate, RefsOpened
<1>3. NoLostNumber'
  BY SMT, Z3T(30) DEF NumbersAgree, NoLostNumber, LocalsSet, LocPoints
<1>4. RefsOpened'
  BY SMT, Z3T(30) DEF RefsOpened, LocalsSet, KeyPoints, LocPoints, EarlyPoints, EarlyPrivate
<1>5. EarlyPrivate'
  BY SMT, Z3T(30) DEF EarlyPrivate, EarlyPoints, LocPoints, LocalsSet, RefsOpened
<1>6. LocalsSet'
  BY SMT, Z3T(30) DEF LocalsSet, RefsOpened, EarlyPoints, LocPoints, KeyPoints
<1> QED BY <1>1, <1>2, <1>3, <1>4, <1>5, <1>6 DEF IndInv

\* A delete starts.
LEMMA BeginDeleteInv ==
  ASSUME IndInv, NEW t \in Threads, BeginDelete(t)
  PROVE  IndInv'
<1> USE FilesAssumption, ProcsAssumption
    DEF IndInv, TypeOK, FileTypeOK, Threads, fileVars, handlerVars,
        BeginDelete, Goto
<1>1. TypeOK'
  BY DEF HandlerPoints, ShutdownPoints, Ops, LocalsSet, KeyPoints, LocPoints, EarlyPoints
<1>2. NumbersAgree'
  BY SMT, Z3T(30)
     DEF NumbersAgree, LocalsSet, KeyPoints, LocPoints, EarlyPoints, EarlyPrivate, RefsOpened
<1>3. NoLostNumber'
  BY SMT, Z3T(30) DEF NumbersAgree, NoLostNumber, LocalsSet, LocPoints
<1>4. RefsOpened'
  BY SMT, Z3T(30) DEF RefsOpened, LocalsSet, KeyPoints, LocPoints, EarlyPoints, EarlyPrivate
<1>5. EarlyPrivate'
  BY SMT, Z3T(30) DEF EarlyPrivate, EarlyPoints, LocPoints, LocalsSet, RefsOpened
<1>6. LocalsSet'
  BY DEF LocalsSet, RefsOpened, EarlyPoints, LocPoints, KeyPoints
<1> QED BY <1>1, <1>2, <1>3, <1>4, <1>5, <1>6 DEF IndInv

\* shutdown() calls CloseAllFDs.
LEMMA StartShutdownInv ==
  ASSUME IndInv, StartShutdown
  PROVE  IndInv'
<1> USE FilesAssumption, ProcsAssumption
    DEF IndInv, TypeOK, FileTypeOK, Threads, fileVars, handlerVars,
        StartShutdown, Goto
<1>1. TypeOK'
  BY DEF HandlerPoints, ShutdownPoints, Ops, LocalsSet, KeyPoints, LocPoints, EarlyPoints
<1>2. NumbersAgree'
  BY SMT, Z3T(30)
     DEF NumbersAgree, LocalsSet, KeyPoints, LocPoints, EarlyPoints, EarlyPrivate, RefsOpened
<1>3. NoLostNumber'
  BY SMT, Z3T(30) DEF NumbersAgree, NoLostNumber, LocalsSet, LocPoints
<1>4. RefsOpened'
  BY DEF RefsOpened, LocalsSet, KeyPoints, LocPoints, EarlyPoints, EarlyPrivate
<1>5. EarlyPrivate'
  BY SMT, Z3T(30) DEF EarlyPrivate, EarlyPoints, LocPoints, LocalsSet, RefsOpened
<1>6. LocalsSet'
  BY DEF LocalsSet, RefsOpened, EarlyPoints, LocPoints, KeyPoints
<1> QED BY <1>1, <1>2, <1>3, <1>4, <1>5, <1>6 DEF IndInv

\* CloseAllFDs reads an entry of the map.
LEMMA RangeNextInv ==
  ASSUME IndInv, RangeNext
  PROVE  IndInv'
<1> USE FilesAssumption, ProcsAssumption
    DEF IndInv, TypeOK, FileTypeOK, Threads, fileVars, handlerVars,
        RangeNext, Goto
<1>1. TypeOK'
  BY SMT, Z3T(30)
     DEF HandlerPoints, ShutdownPoints, Ops, LocalsSet, KeyPoints, LocPoints, EarlyPoints
<1>2. NumbersAgree'
  BY SMT, Z3T(30)
     DEF NumbersAgree, LocalsSet, KeyPoints, LocPoints, EarlyPoints, EarlyPrivate, RefsOpened
<1>3. NoLostNumber'
  BY SMT, Z3T(30) DEF NumbersAgree, NoLostNumber, LocalsSet, LocPoints
<1>4. RefsOpened'
  BY SMT, Z3T(30) DEF RefsOpened, LocalsSet, KeyPoints, LocPoints, EarlyPoints, EarlyPrivate
<1>5. EarlyPrivate'
  BY SMT, Z3T(30) DEF EarlyPrivate, EarlyPoints, LocPoints, LocalsSet, RefsOpened
<1>6. LocalsSet'
  BY SMT, Z3T(30) DEF LocalsSet, RefsOpened, EarlyPoints, LocPoints, KeyPoints
<1> QED BY <1>1, <1>2, <1>3, <1>4, <1>5, <1>6 DEF IndInv

\* CloseAllFDs closes its File.
LEMMA ShutdownCloseInv ==
  ASSUME IndInv, ShutdownClose
  PROVE  IndInv'
<1> USE FilesAssumption, ProcsAssumption
    DEF IndInv, TypeOK, FileTypeOK, Threads, fileVars, handlerVars,
        ShutdownClose, CloseFile, Busy, Goto
<1>1. TypeOK'
  BY DEF HandlerPoints, ShutdownPoints, Ops, LocalsSet, KeyPoints, LocPoints, EarlyPoints
<1>2. NumbersAgree'
  BY SMT, Z3T(30)
     DEF NumbersAgree, LocalsSet, KeyPoints, LocPoints, EarlyPoints, EarlyPrivate, RefsOpened
<1>3. NoLostNumber'
  BY SMT, Z3T(30) DEF NumbersAgree, NoLostNumber, LocalsSet, LocPoints
<1>4. RefsOpened'
  BY SMT, Z3T(30) DEF RefsOpened, LocalsSet, KeyPoints, LocPoints, EarlyPoints, EarlyPrivate
<1>5. EarlyPrivate'
  BY SMT, Z3T(30) DEF EarlyPrivate, EarlyPoints, LocPoints, LocalsSet, RefsOpened
<1>6. LocalsSet'
  BY SMT, Z3T(30) DEF LocalsSet, RefsOpened, EarlyPoints, LocPoints, KeyPoints
<1> QED BY <1>1, <1>2, <1>3, <1>4, <1>5, <1>6 DEF IndInv

\* CloseAllFDs deletes the entry.
LEMMA ShutdownEndDeleteInv ==
  ASSUME IndInv, ShutdownEndDelete
  PROVE  IndInv'
<1> USE FilesAssumption, ProcsAssumption
    DEF IndInv, TypeOK, FileTypeOK, Threads, fileVars, handlerVars,
        ShutdownEndDelete, Delete, Goto
<1>1. TypeOK'
  BY SMT, Z3T(30)
     DEF HandlerPoints, ShutdownPoints, Ops, LocalsSet, KeyPoints, LocPoints, EarlyPoints
<1>2. NumbersAgree'
  BY SMT, Z3T(30)
     DEF NumbersAgree, LocalsSet, KeyPoints, LocPoints, EarlyPoints, EarlyPrivate, RefsOpened
<1>3. NoLostNumber'
  BY DEF NumbersAgree, NoLostNumber, LocalsSet, LocPoints
<1>4. RefsOpened'
  BY SMT, Z3T(30) DEF RefsOpened, LocalsSet, KeyPoints, LocPoints, EarlyPoints, EarlyPrivate
<1>5. EarlyPrivate'
  BY SMT, Z3T(30) DEF EarlyPrivate, EarlyPoints, LocPoints, LocalsSet, RefsOpened
<1>6. LocalsSet'
  BY DEF LocalsSet, RefsOpened, EarlyPoints, LocPoints, KeyPoints
<1> QED BY <1>1, <1>2, <1>3, <1>4, <1>5, <1>6 DEF IndInv

\* The garbage collector closes an unreachable File.
LEMMA FinalizeInv ==
  ASSUME IndInv, NEW f \in Files, Finalize(f)
  PROVE  IndInv'
<1> USE FilesAssumption, ProcsAssumption
    DEF IndInv, TypeOK, FileTypeOK, Threads, fileVars, handlerVars,
        Finalize, CloseFile
<1>1. TypeOK'
  BY DEF HandlerPoints, ShutdownPoints, Ops, LocalsSet, KeyPoints, LocPoints, EarlyPoints
<1>2. NumbersAgree'
  BY SMT, Z3T(30)
     DEF NumbersAgree, LocalsSet, KeyPoints, LocPoints, EarlyPoints, EarlyPrivate, RefsOpened
<1>3. NoLostNumber'
  BY SMT, Z3T(30) DEF NumbersAgree, NoLostNumber, LocalsSet, LocPoints
<1>4. RefsOpened'
  BY SMT, Z3T(30) DEF RefsOpened, LocalsSet, KeyPoints, LocPoints, EarlyPoints, EarlyPrivate
<1>5. EarlyPrivate'
  BY SMT, Z3T(30) DEF EarlyPrivate, EarlyPoints, LocPoints, LocalsSet, RefsOpened
<1>6. LocalsSet'
  BY DEF LocalsSet, RefsOpened, EarlyPoints, LocPoints, KeyPoints
<1> QED BY <1>1, <1>2, <1>3, <1>4, <1>5, <1>6 DEF IndInv

\* The end of the process, in whichever way, and the end of its input.
LEMMA StatusInv ==
  ASSUME IndInv,
         UNCHANGED <<fileVars, fds, handlerVars, held>>,
         status' \in {"serving", "eof", "exited", "panic", "throw"}
  PROVE  IndInv'
BY SMT, Z3T(30)
   DEF IndInv, TypeOK, FileTypeOK, NumbersAgree, NoLostNumber, RefsOpened, EarlyPrivate,
       LocalsSet, fileVars, handlerVars

-------------------------------------------------------------------------------
(* The theorems                                                             *)

\* The initial state, with nothing open and every handler idle, satisfies IndInv.
LEMMA InitInv == Init => IndInv
BY FilesAssumption, ProcsAssumption, SMT, Z3T(30)
   DEF Init, FileInit, IndInv, TypeOK, FileTypeOK, NumbersAgree, NoLostNumber, RefsOpened,
       EarlyPrivate, LocalsSet, EarlyPoints, LocPoints, KeyPoints, HandlerPoints,
       ShutdownPoints, Threads, Ops

\* No step of a handler, of shutdown or of the runtime breaks IndInv.
LEMMA NextInv == IndInv /\ [Next]_vars => IndInv'
<1> SUFFICES ASSUME IndInv, [Next]_vars
             PROVE  IndInv'
  OBVIOUS
<1>1. ASSUME NEW p \in Procs, NEW o \in Ops, NEW n \in FDs, Request(p, o, n)
      PROVE  IndInv'
  BY <1>1, RequestInv
<1>2. ASSUME NEW p \in Procs, Handler(p)
      PROVE  IndInv'
  BY <1>2, OpenCallInv, OpenFailsInv, OpenLookupInv, OpenCloseStaleInv, OpenBeginStoreInv,
     OpenEndStoreInv, OpenStatInv, FindInv, CloseCallInv, CloseEndDeleteInv, UseCallInv,
     UseReturnInv, ShortReadInv
     DEF Handler
<1>3. ASSUME NEW t \in Threads, BeginDelete(t) \/ MapThrow(t)
      PROVE  IndInv'
  BY <1>3, BeginDeleteInv, StatusInv DEF MapThrow
<1>4. ASSUME Shutdown
      PROVE  IndInv'
  BY <1>4, StartShutdownInv, RangeNextInv, ShutdownCloseInv, ShutdownEndDeleteInv, StatusInv
     DEF Shutdown, ShutdownExit
<1>5. ASSUME NEW f \in Files, Finalize(f)
      PROVE  IndInv'
  BY <1>5, FinalizeInv
<1>6. CASE StdinEOF \/ MainReturns
  BY <1>6, StatusInv DEF StdinEOF, MainReturns
<1>7. CASE UNCHANGED vars
  <2>1. status' \in {"serving", "eof", "exited", "panic", "throw"}
    BY <1>7 DEF vars, IndInv, TypeOK
  <2> QED
    BY <1>7, <2>1, StatusInv DEF vars
<1> QED
  BY <1>1, <1>2, <1>3, <1>4, <1>5, <1>6, <1>7 DEF Next, Internal, Terminated

\* Every reachable state of the satellite satisfies IndInv: fds, the os.File objects
\* and the kernel's table stay consistent under every interleaving.
THEOREM SatelliteInvariant == Spec => []IndInv
BY InitInv, NextInv, PTL DEF Spec

\* Every reachable state of the satellite is well typed.
THEOREM TypeCorrect == Spec => []TypeOK
<1>1. IndInv => TypeOK
  BY DEF IndInv
<1> QED
  BY <1>1, SatelliteInvariant, PTL

\* A handler inside a system call, or an Open that has not stored its File, never
\* works on a number the kernel gave to another File.
THEOREM DescriptorsOwned == Spec => []OwnDescriptor
<1>1. IndInv => OwnDescriptor
  BY SMT, Z3T(30)
     DEF IndInv, OwnDescriptor, NumbersAgree, EarlyPrivate, LocalsSet, EarlyPoints, LocPoints,
         TypeOK, FileTypeOK, Threads
<1> QED
  BY <1>1, SatelliteInvariant, PTL

\* The File that Open finds under its new number, and closes so as not to "leak
\* stale FDs", is always closed already.
THEOREM StaleIsClosed == Spec => []StaleAlreadyClosed
<1>1. ASSUME IndInv, NEW p \in Procs, pc[p] = "stale"
      PROVE  stale[p] # loc[p] /\ fstate[stale[p]] = "closed"
  <2> USE <1>1
  <2>1. stale[p] # loc[p] /\ stale[p] \in Files /\ loc[p] \in Files
    BY SMT, Z3T(30) DEF IndInv, TypeOK, EarlyPrivate, LocalsSet, EarlyPoints, LocPoints, Threads
  <2>2. ktab[num[loc[p]]] = loc[p] /\ num[stale[p]] = num[loc[p]]
    BY <2>1 DEF IndInv, EarlyPrivate, LocalsSet, NumbersAgree, EarlyPoints
  <2>3. fstate[stale[p]] # "open"
    BY <2>1, <2>2 DEF IndInv, NumbersAgree
  <2>4. fstate[stale[p]] # "unused"
    BY <2>1, FilesAssumption DEF IndInv, RefsOpened
  <2> QED
    BY <2>1, <2>3, <2>4 DEF IndInv, TypeOK, FileTypeOK
<1>2. IndInv => StaleAlreadyClosed
  BY <1>1 DEF StaleAlreadyClosed
<1> QED
  BY <1>2, SatelliteInvariant, PTL

-------------------------------------------------------------------------------
(* One handler at a time                                                    *)

\* net/rpc never runs two requests at once.
OneHandler == \A p, q \in Procs : p = q

SerialFacts == status # "panic" /\ EntriesOpen /\ OpenMapped /\ WorksOnEntry /\ HeldMapped

-------------------------------------------------------------------------------
(* The actions preserve SerialFacts                                          *)

\* Open looks its number up and finds nothing.
LEMMA NothingFound ==
  ASSUME OneHandler, IndInv, SerialFacts, NEW p \in Procs, pc[p] \in EarlyPoints
  PROVE  fds[key[p]] = NoFile
<1> SUFFICES ASSUME fds[key[p]] # NoFile
             PROVE  FALSE
  OBVIOUS
<1> DEFINE f == fds[key[p]]
<1>1. key[p] \in FDs /\ f \in Files /\ loc[p] \in Files /\ f # loc[p] /\ num[loc[p]] = key[p]
  BY FilesAssumption, SMT, Z3T(30)
     DEF IndInv, TypeOK, LocalsSet, EarlyPrivate, EarlyPoints, LocPoints, KeyPoints, Threads
<1>2. fstate[f] = "open" /\ num[f] = key[p]
  BY <1>1, SMT, Z3T(30) DEF SerialFacts, EntriesOpen, OneHandler, EarlyPoints, IndInv, RefsOpened
<1>3. ktab[num[loc[p]]] = loc[p]
  BY <1>1 DEF IndInv, NumbersAgree, EarlyPrivate
<1> QED
  BY <1>1, <1>2, <1>3, SMT, Z3T(30) DEF IndInv, NumbersAgree

\* A request arrives; a request to Close takes the handle from the client.
LEMMA RequestSerial ==
  ASSUME OneHandler, IndInv, SerialFacts, NEW p \in Procs, NEW o \in Ops, NEW n \in FDs,
         Request(p, o, n)
  PROVE  SerialFacts'
<1> USE FilesAssumption, ProcsAssumption
    DEF OneHandler, SerialFacts, IndInv, TypeOK, FileTypeOK, Threads, fileVars, Request, Goto
<1>1. EntriesOpen'
  BY DEF EntriesOpen
<1>2. OpenMapped'
  BY DEF OpenMapped, EarlyPoints
<1>3. WorksOnEntry'
  BY SMT, Z3T(30) DEF WorksOnEntry, EarlyPoints
<1>4. HeldMapped'
  BY SMT, Z3T(30) DEF HeldMapped
<1> QED
  BY <1>1, <1>2, <1>3, <1>4

\* Open, step by step.
LEMMA OpenSerial ==
  ASSUME OneHandler, IndInv, SerialFacts, pc[Sd] = "waiting", NEW p \in Procs,
         \/ OpenCall(p) \/ OpenFails(p) \/ OpenLookup(p) \/ OpenCloseStale(p)
         \/ OpenBeginStore(p) \/ OpenEndStore(p) \/ OpenStat(p)
  PROVE  SerialFacts'
<1> USE FilesAssumption, ProcsAssumption
    DEF OneHandler, SerialFacts, IndInv, TypeOK, FileTypeOK, Threads, fileVars, Goto, EarlyPoints
<1>0. ~Racing(p)
  BY DEF Racing
<1>1. CASE OpenCall(p)
  <2>1. PICK f \in Files, n \in FDs :
          OpenFile(f, n) /\ loc' = [loc EXCEPT ![p] = f] /\ key' = [key EXCEPT ![p] = n]
    BY <1>1 DEF OpenCall
  <2>2. /\ fstate' = [fstate EXCEPT ![f] = "open"] /\ num' = [num EXCEPT ![f] = n]
        /\ fstate[f] = "unused"
    BY <2>1 DEF OpenFile
  <2>3. /\ pc' = [pc EXCEPT ![p] = "lookup"] /\ pc[p] = "open"
        /\ UNCHANGED <<fds, op, status, held>>
    BY <1>1 DEF OpenCall
  <2>4. EntriesOpen'
    BY <2>1, <2>2, <2>3, SMT, Z3T(30) DEF EntriesOpen, RefsOpened
  <2>5. OpenMapped'
    BY <2>1, <2>2, <2>3, SMT, Z3T(30) DEF OpenMapped
  <2>6. WorksOnEntry'
    BY <2>1, <2>2, <2>3, SMT, Z3T(30) DEF WorksOnEntry
  <2>7. HeldMapped'
    <3>1. op[p] # "close"
      BY <2>3 DEF WorksOnEntry
    <3>2. \A g \in held : g # f
      BY <2>2 DEF HeldMapped
    <3> QED
      BY <2>1, <2>2, <2>3, <3>1, <3>2, SMT, Z3T(30) DEF HeldMapped
  <2> QED
    BY <2>3, <2>4, <2>5, <2>6, <2>7
<1>2. CASE OpenFails(p)
  BY <1>2, SMT, Z3T(30) DEF OpenFails, Return, EntriesOpen, OpenMapped, WorksOnEntry, HeldMapped
<1>3. CASE OpenLookup(p)
  <2>1. fds[key[p]] = NoFile
    BY <1>3, NothingFound DEF OpenLookup
  <2> QED
    BY <1>3, <2>1, SMT, Z3T(30) DEF OpenLookup, EntriesOpen, OpenMapped, WorksOnEntry, HeldMapped
<1>4. CASE OpenCloseStale(p)
  BY <1>4 DEF OpenCloseStale, WorksOnEntry
<1>5. CASE OpenBeginStore(p)
  BY <1>5, SMT, Z3T(30) DEF OpenBeginStore, EntriesOpen, OpenMapped, WorksOnEntry, HeldMapped
<1>6. CASE OpenEndStore(p)
  <2>1. /\ fds' = [fds EXCEPT ![key[p]] = loc[p]] /\ pc' = [pc EXCEPT ![p] = "fstat"]
        /\ pc[p] = "storing" /\ UNCHANGED <<fstate, num, op, key, loc, status, held>>
    BY <1>0, <1>6 DEF OpenEndStore
  <2>2. /\ fstate[loc[p]] = "open" /\ num[loc[p]] = key[p] /\ fds[key[p]] = NoFile
        /\ key[p] \in FDs /\ loc[p] \in Files
    BY <2>1, NothingFound, SMT, Z3T(30) DEF EarlyPrivate, LocalsSet, LocPoints, KeyPoints
  <2>3. EntriesOpen'
    BY <2>1, <2>2, SMT, Z3T(30) DEF EntriesOpen
  <2>4. OpenMapped'
    BY <2>1, <2>2, SMT, Z3T(30) DEF OpenMapped
  <2>5. WorksOnEntry'
    BY <2>1, <2>2, SMT, Z3T(30) DEF WorksOnEntry
  <2>6. HeldMapped'
    BY <2>1, <2>2, SMT, Z3T(30) DEF HeldMapped, WorksOnEntry
  <2> QED
    BY <2>1, <2>3, <2>4, <2>5, <2>6
<1>7. CASE OpenStat(p)
  <2>1. fstate[loc[p]] = "open" /\ fds[key[p]] = loc[p] /\ pc[p] = "fstat"
    BY <1>7 DEF OpenStat, WorksOnEntry
  <2>2. /\ pc' = [pc EXCEPT ![p] = "idle"] /\ held' \in {held, held \cup {loc[p]}}
        /\ UNCHANGED <<fstate, num, fds, status>>
    BY <1>7, <2>1 DEF OpenStat, PanicOnClosed, Return
  <2>3. num[loc[p]] = key[p]
    <3>1. key[p] \in FDs /\ loc[p] # NoFile
      BY <2>1 DEF LocalsSet, KeyPoints, LocPoints
    <3> QED
      BY <2>1, <3>1 DEF RefsOpened
  <2>0. \A q \in Procs : pc[q] = "fstat" /\ pc'[q] = "idle"
    BY <2>1, <2>2
  <2>4. EntriesOpen'
    BY <2>0, <2>2 DEF EntriesOpen
  <2>5. OpenMapped'
    BY <2>0, <2>2 DEF OpenMapped
  <2>6. WorksOnEntry'
    BY <2>0 DEF WorksOnEntry
  <2>7. HeldMapped'
    BY <2>1, <2>2, <2>3, SMT, Z3T(30) DEF HeldMapped
  <2> QED
    BY <2>2, <2>4, <2>5, <2>6, <2>7
<1> QED
  BY <1>1, <1>2, <1>3, <1>4, <1>5, <1>6, <1>7

\* Close, step by step: between its two halves only its own entry is not open.
LEMMA CloseSerial ==
  ASSUME OneHandler, IndInv, SerialFacts, pc[Sd] = "waiting", NEW p \in Procs,
         Find(p) \/ CloseCall(p) \/ BeginDelete(p) \/ CloseEndDelete(p)
  PROVE  SerialFacts'
<1> USE FilesAssumption, ProcsAssumption
    DEF OneHandler, SerialFacts, IndInv, TypeOK, FileTypeOK, Threads, fileVars, Goto, EarlyPoints
<1>0. ~Racing(p) /\ ~Busy(p, loc[p])
  BY DEF Racing, Busy
<1>1. CASE Find(p)
  <2>1. CASE fds[key[p]] = NoFile
    BY <1>1, <2>1, SMT, Z3T(30)
       DEF Find, Return, EntriesOpen, OpenMapped, WorksOnEntry, HeldMapped
  <2>2. CASE fds[key[p]] # NoFile
    <3>1. /\ loc' = [loc EXCEPT ![p] = fds[key[p]]] /\ pc[p] = "find"
          /\ pc' = [pc EXCEPT ![p] = IF op[p] = "close" THEN "close" ELSE "use"]
          /\ UNCHANGED <<fileVars, fds, op, key, status, held>>
      BY <1>1, <2>2 DEF Find
    <3>2. fstate[fds[key[p]]] = "open"
      BY <2>2, <3>1, SMT, Z3T(30) DEF EntriesOpen, LocalsSet, KeyPoints
    <3> QED
      BY <3>1, <3>2, SMT, Z3T(30) DEF EntriesOpen, OpenMapped, WorksOnEntry, HeldMapped
  <2> QED
    BY <2>1, <2>2
<1>2. CASE CloseCall(p)
  <2>1. /\ fstate[loc[p]] = "open" /\ fds[key[p]] = loc[p] /\ op[p] = "close"
        /\ pc[p] = "close"
    BY <1>2 DEF CloseCall, WorksOnEntry
  <2>2. /\ fstate' = [fstate EXCEPT ![loc[p]] = "closed"] /\ pc' = [pc EXCEPT ![p] = "delete"]
        /\ UNCHANGED <<num, fds, op, key, loc, status, held>>
    BY <1>2, <2>1 DEF CloseCall, PanicOnClosed, CloseFile
  <2>3. key[p] \in FDs /\ loc[p] \in Files /\ num[loc[p]] = key[p]
    BY <2>1, SMT, Z3T(30) DEF LocalsSet, KeyPoints, LocPoints, RefsOpened
  <2>4. EntriesOpen'
    BY <2>1, <2>2, <2>3, SMT, Z3T(30) DEF EntriesOpen, RefsOpened
  <2>5. OpenMapped'
    BY <2>1, <2>2, <2>3, SMT, Z3T(30) DEF OpenMapped
  <2>6. WorksOnEntry'
    BY <2>1, <2>2, <2>3, SMT, Z3T(30) DEF WorksOnEntry
  <2>7. HeldMapped'
    BY <2>1, <2>2, <2>3, SMT, Z3T(30) DEF HeldMapped
  <2> QED
    BY <2>2, <2>4, <2>5, <2>6, <2>7
<1>3. CASE BeginDelete(p)
  BY <1>3, SMT, Z3T(30) DEF BeginDelete, EntriesOpen, OpenMapped, WorksOnEntry, HeldMapped
<1>4. CASE CloseEndDelete(p)
  <2>1. fds[key[p]] = loc[p] /\ op[p] = "close" /\ pc[p] = "deleting"
    BY <1>4 DEF CloseEndDelete, WorksOnEntry
  <2>2. /\ fds' = [fds EXCEPT ![key[p]] = NoFile] /\ pc' = [pc EXCEPT ![p] = "idle"]
        /\ UNCHANGED <<fstate, num, status, held>>
    BY <1>0, <1>4 DEF CloseEndDelete, Delete, Return
  <2>3. key[p] \in FDs /\ loc[p] \in Files /\ num[loc[p]] = key[p]
    BY <2>1, SMT, Z3T(30) DEF LocalsSet, KeyPoints, LocPoints, RefsOpened
  <2>4. fstate[loc[p]] # "open"
    BY <2>1 DEF WorksOnEntry
  <2>0. \A q \in Procs : pc[q] = "deleting" /\ pc'[q] = "idle" /\ key[q] = key[p]
    BY <2>1, <2>2
  <2>5. EntriesOpen'
    <3>1. \A n \in FDs : fds'[n] # NoFile => n # key[p] /\ fds'[n] = fds[n]
      BY <2>2
    <3>2. \A n \in FDs : fds[n] # NoFile /\ n # key[p] => fstate[fds[n]] = "open"
      BY <2>0 DEF EntriesOpen
    <3>3. SUFFICES ASSUME NEW n \in FDs, fds'[n] # NoFile PROVE fstate'[fds'[n]] = "open"
      BY DEF EntriesOpen
    <3>4. fds'[n] = fds[n] /\ n # key[p]
      BY <3>1, <3>3
    <3> QED
      BY <2>2, <3>2, <3>3, <3>4
  <2>6. OpenMapped'
    <3>1. ASSUME NEW f \in Files, fstate[f] = "open" PROVE fds[num[f]] = f /\ num[f] # key[p]
      <4>1. fds[num[f]] = f
        BY <2>0, <3>1 DEF OpenMapped
      <4> QED
        BY <2>1, <2>4, <3>1, <4>1
    <3> QED
      BY <2>2, <3>1, SMT, Z3T(30) DEF OpenMapped
  <2>7. WorksOnEntry'
    BY <2>0 DEF WorksOnEntry
  <2>8. HeldMapped'
    BY <2>1, <2>2, <2>3, SMT, Z3T(30) DEF HeldMapped
  <2> QED
    BY <2>2, <2>5, <2>6, <2>7, <2>8
<1> QED
  BY <1>1, <1>2, <1>3, <1>4

\* Read, Write, Seek and Fsync leave the map alone.
LEMMA UseSerial ==
  ASSUME OneHandler, IndInv, SerialFacts, pc[Sd] = "waiting", NEW p \in Procs,
         UseCall(p) \/ UseReturn(p) \/ ShortRead(p)
  PROVE  SerialFacts'
<1> USE FilesAssumption, ProcsAssumption
    DEF OneHandler, SerialFacts, IndInv, TypeOK, FileTypeOK, Threads, fileVars, Goto, EarlyPoints
<1>1. fstate[loc[p]] = "open" /\ fds[key[p]] = loc[p] /\ pc[p] \in {"use", "syscall"}
  BY DEF UseCall, UseReturn, ShortRead, WorksOnEntry
<1>2. UNCHANGED <<fstate, num, fds, status, held>>
  BY <1>1 DEF UseCall, PanicOnClosed, UseReturn, ShortRead, EndSyscall, handlerVars
<1>3. \/ pc' = [pc EXCEPT ![p] = "idle"]
      \/ pc' \in {[pc EXCEPT ![p] = "use"], [pc EXCEPT ![p] = "syscall"]}
           /\ UNCHANGED <<op, key, loc>>
  BY <1>1 DEF UseCall, PanicOnClosed, UseReturn, ShortRead, Return
<1> QED
  BY <1>1, <1>2, <1>3, SMT, Z3T(30) DEF EntriesOpen, OpenMapped, WorksOnEntry, HeldMapped

\* The garbage collector finds nothing to close: an open File is in the map or in the
\* local variable of its Open.
LEMMA NothingFinalized ==
  ASSUME IndInv, SerialFacts, NEW f \in Files
  PROVE  ~Finalize(f)
<1> SUFFICES ASSUME Finalize(f)
             PROVE  FALSE
  OBVIOUS
<1>1. fstate[f] = "open" /\ (\A n \in FDs : fds[n] # f) /\ (\A t \in Threads : loc[t] # f)
  BY DEF Finalize
<1>2. num[f] \in FDs
  BY <1>1 DEF IndInv, NumbersAgree
<1> QED
  BY <1>1, <1>2 DEF SerialFacts, OpenMapped, Threads

\* The invariant, step by step.
LEMMA SerialNext ==
  ASSUME OneHandler, SerialInv, [Next]_vars
  PROVE  SerialInv'
<1>1. IndInv' /\ IndInv
  BY NextInv DEF SerialInv
<1> SUFFICES ASSUME pc'[Sd] = "waiting"
             PROVE  SerialFacts'
  BY <1>1 DEF SerialInv, SerialFacts
<1>2. Sd \in Threads /\ Sd \notin Procs /\ pc \in [Threads -> HandlerPoints \cup ShutdownPoints]
  BY <1>1, ProcsAssumption DEF Threads, IndInv, TypeOK
<1>3. ASSUME UNCHANGED <<fileVars, fds, handlerVars, held>>, status' # "panic"
      PROVE  SerialFacts'
  <2>1. SerialFacts
    BY <1>2, <1>3 DEF SerialInv, SerialFacts, handlerVars
  <2>2. EntriesOpen' /\ OpenMapped'
    BY <1>3, <2>1 DEF SerialFacts, EntriesOpen, OpenMapped, fileVars, handlerVars
  <2>3. WorksOnEntry'
    BY <1>3, <2>1 DEF SerialFacts, WorksOnEntry, fileVars, handlerVars
  <2>4. HeldMapped'
    BY <1>3, <2>1 DEF SerialFacts, HeldMapped, fileVars, handlerVars
  <2> QED
    BY <1>3, <2>2, <2>3, <2>4 DEF SerialFacts
<1>4. ASSUME NEW p \in Procs, NEW o \in Ops, NEW n \in FDs, Request(p, o, n)
      PROVE  SerialFacts'
  <2>1. pc[Sd] = "waiting"
    BY <1>2, <1>4 DEF Request, Goto
  <2> QED
    BY <1>1, <1>4, <2>1, RequestSerial DEF SerialInv, SerialFacts
<1>5. ASSUME NEW p \in Procs, Handler(p) \/ BeginDelete(p)
      PROVE  SerialFacts'
  <2>1. pc[Sd] = "waiting"
    BY <1>2, <1>5
       DEF Handler, OpenCall, OpenFails, OpenLookup, OpenCloseStale, OpenBeginStore,
           OpenEndStore, OpenStat, Find, CloseCall, CloseEndDelete, UseCall, UseReturn,
           ShortRead, BeginDelete, PanicOnClosed, Return, Goto, handlerVars
  <2>2. SerialFacts
    BY <2>1 DEF SerialInv, SerialFacts
  <2> QED
    BY <1>1, <1>5, <2>1, <2>2, OpenSerial, CloseSerial, UseSerial DEF Handler
<1>6. ASSUME NEW t \in Threads, BeginDelete(t) \/ MapThrow(t)
      PROVE  SerialFacts'
  <2>1. CASE t \in Procs /\ BeginDelete(t)
    BY <1>5, <2>1
  <2>2. CASE t = Sd /\ BeginDelete(t)
    BY <1>2, <2>2 DEF BeginDelete, Goto
  <2>3. CASE MapThrow(t)
    BY <1>3, <2>3 DEF MapThrow
  <2> QED
    BY <1>6, <2>1, <2>2, <2>3 DEF Threads
<1>7. ASSUME Shutdown
      PROVE  SerialFacts'
  <2>1. CASE ShutdownExit
    BY <1>3, <2>1 DEF ShutdownExit
  <2> QED
    BY <1>2, <1>7, <2>1
       DEF Shutdown, StartShutdown, RangeNext, ShutdownClose, ShutdownEndDelete, Goto
<1>8. ASSUME NEW f \in Files, Finalize(f)
      PROVE  SerialFacts'
  <2>1. pc[Sd] = "waiting"
    BY <1>8 DEF Finalize, handlerVars
  <2> QED
    BY <1>1, <1>8, <2>1, NothingFinalized DEF SerialInv, SerialFacts
<1>9. CASE StdinEOF \/ MainReturns
  BY <1>3, <1>9 DEF StdinEOF, MainReturns
<1>10. CASE UNCHANGED vars
  <2>1. status # "panic"
    BY <1>10 DEF vars, handlerVars, SerialInv
  <2> QED
    BY <1>3, <1>10, <2>1 DEF vars
<1> QED
  BY <1>4, <1>5, <1>6, <1>7, <1>8, <1>9, <1>10 DEF Next, Internal, Terminated

\* With one handler at a time the map, the kernel and the client agree in every reachable
\* state until shutdown starts, but for the entry the handler works on.
THEOREM SerialInvariant == OneHandler => (Spec => []SerialInv)
<1> SUFFICES ASSUME OneHandler
             PROVE  Spec => []SerialInv
  OBVIOUS
<1>1. Init => SerialInv
  BY InitInv, FilesAssumption, ProcsAssumption, SMT, Z3T(30)
     DEF Init, FileInit, SerialInv, EntriesOpen, OpenMapped, WorksOnEntry, HeldMapped,
         EarlyPoints, Threads
<1>2. SerialInv /\ [Next]_vars => SerialInv'
  BY SerialNext
<1> QED
  BY <1>1, <1>2, PTL DEF Spec

\* With one handler at a time no request panics on the error of a closed File before
\* shutdown starts, however the client uses its handles.
THEOREM SerialNoPanic == OneHandler => (Spec => []NoPanic)
<1>1. SerialInv => NoPanic
  BY DEF SerialInv, NoPanic
<1> QED
  BY <1>1, SerialInvariant, PTL

\* With one handler at a time every handle returned by Open leads to the open File that
\* Open created until its Close is requested.
THEOREM SerialHandlesLive == OneHandler => (Spec => []HandleLive)
<1>1. SerialInv => HandleLive
  BY DEF SerialInv, HeldMapped, HandleLive
<1> QED
  BY <1>1, SerialInvariant, PTL

\* With one handler at a time the open descriptors are, between requests, exactly those
\* in the map: Open and Close leave neither a lost descriptor nor a dead entry.
THEOREM SerialRestIsExact == OneHandler => (Spec => []RestIsExact)
<1>1. ASSUME SerialInv, pc[Sd] = "waiting", \A p \in Procs : pc[p] = "idle"
      PROVE  ktab = fds
  <2>1. /\ ktab \in [FDs -> Files \cup {NoFile}] /\ fds \in [FDs -> Files \cup {NoFile}]
        /\ NumbersAgree /\ NoLostNumber /\ RefsOpened /\ EntriesOpen /\ OpenMapped
    BY <1>1 DEF SerialInv, IndInv, TypeOK, FileTypeOK
  <2>2. ASSUME NEW n \in FDs, ktab[n] # NoFile
        PROVE  fds[n] = ktab[n]
    BY <1>1, <2>1, <2>2 DEF NoLostNumber, OpenMapped, EarlyPoints
  <2>3. ASSUME NEW n \in FDs, fds[n] # NoFile
        PROVE  ktab[n] = fds[n]
    BY <1>1, <2>1, <2>3, SMT, Z3T(30) DEF EntriesOpen, RefsOpened, NumbersAgree
  <2> QED
    BY <2>1, <2>2, <2>3, SMT, Z3T(30)
<1>2. SerialInv => RestIsExact
  BY <1>1 DEF RestIsExact
<1> QED
  BY <1>2, SerialInvariant, PTL

-------------------------------------------------------------------------------
(* The satellite keeps the promise of HandleStore                            *)

\* The state of HandleStore, as Promise maps it.
Table == [n \in FDs |-> IF \E p \in Opening : loc[p] = fds[n] THEN NoFile ELSE fds[n]]
Used == {f \in Files : fstate[f] # "unused"} \ {loc[p] : p \in Opening}
Acting == {<<key[p], loc[p]>> : p \in {q \in Procs : pc[q] = "syscall"}}
Live == Up /\ pc[Sd] = "waiting"

Stutters == UNCHANGED <<Table, Used, Acting, Live>>

\* What the handler p has in progress, as the promise sees it.
LEMMA OnlyOne ==
  ASSUME OneHandler, NEW p \in Procs
  PROVE  /\ pc[p] \in {"lookup", "stale", "store", "storing", "fstat"} => Opening = {p}
         /\ pc[p] \notin {"lookup", "stale", "store", "storing", "fstat"} => Opening = {}
         /\ pc[p] = "syscall" => Acting = {<<key[p], loc[p]>>}
         /\ pc[p] # "syscall" => Acting = {}
BY DEF OneHandler, Opening, Acting

\* Nothing changes for the client when no handler is at work on a File before and after.
LEMMA QuietStutters ==
  ASSUME OneHandler, NEW p \in Procs, UNCHANGED <<fds, Live>>,
         {f \in Files : fstate'[f] # "unused"} = {f \in Files : fstate[f] # "unused"},
         pc[p] \notin {"lookup", "stale", "store", "storing", "fstat", "syscall"},
         pc'[p] \notin {"lookup", "stale", "store", "storing", "fstat", "syscall"}
  PROVE  Stutters
<1>1. Opening = {} /\ Acting = {}
  BY OnlyOne
<1>2. Opening' = {} /\ Acting' = {}
  BY DEF OneHandler, Opening, Acting
<1> QED
  BY <1>1, <1>2 DEF Stutters, Table, Used

\* Open is one step of the promise, its return with a handle.
LEMMA OpenKeepsPromise ==
  ASSUME OneHandler, SerialInv, SerialInv', Live, NEW p \in Procs,
         \/ OpenCall(p) \/ OpenFails(p) \/ OpenLookup(p) \/ OpenCloseStale(p)
         \/ OpenBeginStore(p) \/ OpenEndStore(p) \/ OpenStat(p)
  PROVE  Stutters \/ \E n \in FDs, f \in Files : Promise!OpenHandle(n, f)
<1>0. /\ IndInv /\ TypeOK /\ SerialFacts /\ ~Racing(p) /\ Sd \in Threads /\ Sd # p
      /\ pc \in [Threads -> HandlerPoints \cup ShutdownPoints] /\ p \in Threads
  BY ProcsAssumption DEF SerialInv, SerialFacts, Live, IndInv, Racing, Threads, OneHandler, TypeOK
<1>1. CASE OpenCall(p)
  <2>1. PICK f \in Files, n \in FDs :
          OpenFile(f, n) /\ loc' = [loc EXCEPT ![p] = f] /\ key' = [key EXCEPT ![p] = n]
    BY <1>1 DEF OpenCall
  <2>2. /\ fstate' = [fstate EXCEPT ![f] = "open"] /\ fstate[f] = "unused"
        /\ pc[p] = "open" /\ pc' = [pc EXCEPT ![p] = "lookup"] /\ UNCHANGED <<fds, status>>
    BY <1>1, <2>1 DEF OpenCall, OpenFile, Goto
  <2>3. Opening = {} /\ Acting = {} /\ Opening' = {p} /\ Acting' = {} /\ Live' = Live
    BY <1>0, <2>2, OnlyOne, SMT, Z3T(30) DEF Live, Up, OneHandler, Opening, Acting
  <2>4. fstate \in [Files -> {"unused", "open", "closed"}] /\ loc'[p] = f
    BY <1>0, <2>1 DEF TypeOK, FileTypeOK
  <2>5. Used' = Used
    BY <2>2, <2>3, <2>4 DEF Used
  <2>6. \A k \in FDs : fds[k] # f
    BY <1>0, <2>2, FilesAssumption DEF IndInv, RefsOpened, TypeOK
  <2>7. Table' = Table
    BY <2>2, <2>3, <2>4, <2>6 DEF Table
  <2> QED
    BY <2>3, <2>5, <2>7 DEF Stutters
<1>2. CASE OpenFails(p)
  <2>1. /\ pc[p] = "open" /\ pc' = [pc EXCEPT ![p] = "idle"]
        /\ UNCHANGED <<fds, fstate, status>>
    BY <1>2 DEF OpenFails, Return, Goto, fileVars
  <2> QED
    BY <1>0, <2>1, QuietStutters DEF Live, Up
<1>3. CASE OpenLookup(p) \/ OpenCloseStale(p) \/ OpenBeginStore(p) \/ OpenEndStore(p)
  <2>1. /\ pc[p] \in {"lookup", "store", "storing"}
        /\ \E l \in {"store", "storing", "fstat", "stale"} : pc' = [pc EXCEPT ![p] = l]
        /\ UNCHANGED <<key, loc, fstate, status>>
        /\ fds' = fds \/ (pc[p] = "storing" /\ fds' = [fds EXCEPT ![key[p]] = loc[p]])
    BY <1>0, <1>3
       DEF OpenLookup, OpenCloseStale, OpenBeginStore, OpenEndStore, Goto, fileVars,
           SerialFacts, WorksOnEntry
  <2>2. fds[key[p]] = NoFile /\ key[p] \in FDs /\ fds \in [FDs -> Files \cup {NoFile}]
    BY <1>0, <2>1, NothingFound
       DEF EarlyPoints, IndInv, TypeOK, LocalsSet, KeyPoints, LocPoints
  <2>3. /\ Opening = {p} /\ Acting = {} /\ Opening' = {p} /\ Acting' = {} /\ Live' = Live
    BY <1>0, <2>1, OnlyOne, SMT, Z3T(30) DEF Live, Up, OneHandler, Opening, Acting
  <2>4. Used' = Used
    BY <2>1, <2>3 DEF Used
  <2>5. Table' = Table
    BY <2>1, <2>2, <2>3 DEF Table
  <2> QED
    BY <2>3, <2>4, <2>5 DEF Stutters
<1>4. CASE OpenStat(p)
  <2>1. pc[p] = "fstat" /\ fstate[loc[p]] = "open" /\ fds[key[p]] = loc[p]
    BY <1>0, <1>4 DEF OpenStat, SerialFacts, WorksOnEntry
  <2>2. pc' = [pc EXCEPT ![p] = "idle"] /\ UNCHANGED <<fds, fstate, status>>
    BY <1>4, <2>1 DEF OpenStat, PanicOnClosed, Return, Goto, fileVars
  <2>3. /\ key[p] \in FDs /\ loc[p] \in Files
        /\ \A n \in FDs : fds[n] = loc[p] => n = key[p]
    <3>1. key[p] \in FDs /\ loc[p] # NoFile
      BY <1>0, <2>1 DEF IndInv, LocalsSet, KeyPoints, LocPoints
    <3>2. loc[p] \in Files
      BY <1>0, <3>1 DEF IndInv, TypeOK
    <3> QED
      BY <1>0, <2>1, <3>1, <3>2 DEF IndInv, RefsOpened
  <2>4. /\ Opening = {p} /\ Acting = {} /\ Opening' = {} /\ Acting' = {} /\ Live' = Live
    BY <1>0, <2>1, <2>2, OnlyOne, SMT, Z3T(30) DEF Live, Up, OneHandler, Opening, Acting
  <2>5. Used' = Used \cup {loc[p]} /\ loc[p] \notin Used
    BY <2>1, <2>2, <2>3, <2>4 DEF Used
  <2>6. Table[key[p]] = NoFile /\ Table' = [Table EXCEPT ![key[p]] = loc[p]]
    BY <2>1, <2>2, <2>3, <2>4 DEF Table
  <2>7. PICK n \in FDs, f \in Files : n = key[p] /\ f = loc[p]
    BY <2>3
  <2>8. Promise!OpenHandle(n, f)
    BY <2>4, <2>5, <2>6, <2>7 DEF Promise!OpenHandle, Table, Used, Acting, Live
  <2> QED
    BY <2>8
<1> QED
  BY <1>1, <1>2, <1>3, <1>4

\* Close is one step of the promise, the end of its delete.
LEMMA CloseKeepsPromise ==
  ASSUME OneHandler, SerialInv, Live, NEW p \in Procs,
         Find(p) \/ CloseCall(p) \/ BeginDelete(p) \/ CloseEndDelete(p)
  PROVE  Stutters \/ \E n \in FDs : Promise!CloseHandle(n)
<1>0. /\ IndInv /\ SerialFacts /\ ~Racing(p) /\ Sd \in Threads /\ Sd # p
      /\ pc \in [Threads -> HandlerPoints \cup ShutdownPoints] /\ p \in Threads
  BY ProcsAssumption DEF SerialInv, SerialFacts, Live, IndInv, Racing, Threads, OneHandler, TypeOK
<1>1. CASE Find(p) \/ CloseCall(p) \/ BeginDelete(p)
  <2>1. /\ pc[p] \in {"find", "close", "delete"} /\ UNCHANGED <<fds, status>>
        /\ \E l \in {"idle", "close", "use", "delete", "deleting"} : pc' = [pc EXCEPT ![p] = l]
        /\ fstate' = fstate \/ (pc[p] = "close" /\ fstate' = [fstate EXCEPT ![loc[p]] = "closed"])
    BY <1>0, <1>1
       DEF Find, CloseCall, BeginDelete, PanicOnClosed, CloseFile, Return, Goto, fileVars,
           SerialFacts, WorksOnEntry
  <2>2. {f \in Files : fstate'[f] # "unused"} = {f \in Files : fstate[f] # "unused"}
    BY <1>0, <2>1, SMT, Z3T(30) DEF SerialFacts, WorksOnEntry, IndInv, TypeOK, FileTypeOK
  <2> QED
    BY <1>0, <2>1, <2>2, QuietStutters DEF Live, Up
<1>2. CASE CloseEndDelete(p)
  <2>1. /\ pc[p] = "deleting" /\ fds[key[p]] = loc[p] /\ pc' = [pc EXCEPT ![p] = "idle"]
        /\ fds' = [fds EXCEPT ![key[p]] = NoFile] /\ UNCHANGED <<fstate, status>>
    BY <1>0, <1>2
       DEF CloseEndDelete, Delete, Return, Goto, fileVars, SerialFacts, WorksOnEntry
  <2>2. key[p] \in FDs /\ loc[p] # NoFile /\ fds \in [FDs -> Files \cup {NoFile}]
    BY <1>0, <2>1 DEF IndInv, TypeOK, LocalsSet, KeyPoints, LocPoints
  <2>3. Opening = {} /\ Acting = {} /\ Opening' = {} /\ Acting' = {} /\ Live' = Live
    BY <1>0, <2>1, OnlyOne, SMT, Z3T(30) DEF Live, Up, OneHandler, Opening, Acting
  <2>4. Used' = Used
    BY <2>1, <2>3 DEF Used
  <2>5. Table[key[p]] # NoFile /\ Table' = [Table EXCEPT ![key[p]] = NoFile]
    BY <2>1, <2>2, <2>3 DEF Table
  <2>6. PICK n \in FDs : n = key[p]
    BY <2>2
  <2>7. Promise!CloseHandle(n)
    BY <2>3, <2>4, <2>5, <2>6 DEF Promise!CloseHandle, Table, Used, Acting, Live
  <2> QED
    BY <2>7
<1> QED
  BY <1>1, <1>2

\* Read, Write, Seek and Fsync act on the File the promise has behind the handle.
LEMMA UseKeepsPromise ==
  ASSUME OneHandler, SerialInv, Live, NEW p \in Procs,
         UseCall(p) \/ UseReturn(p) \/ ShortRead(p)
  PROVE  Stutters \/ \E n \in FDs : Promise!BeginUse(n) \/ Promise!EndUse(n)
<1>0. /\ IndInv /\ SerialFacts /\ Sd \in Threads /\ Sd # p
      /\ pc \in [Threads -> HandlerPoints \cup ShutdownPoints] /\ p \in Threads
  BY ProcsAssumption DEF SerialInv, SerialFacts, Live, IndInv, Threads, OneHandler, TypeOK
<1>1. /\ pc[p] \in {"use", "syscall"} /\ fds[key[p]] = loc[p]
      /\ UNCHANGED <<fds, fstate, status>>
      /\ \/ pc[p] = "use" /\ pc' = [pc EXCEPT ![p] = "syscall"] /\ UNCHANGED <<key, loc>>
         \/ pc[p] = "use" /\ pc' = [pc EXCEPT ![p] = "idle"]
         \/ pc[p] = "syscall" /\ \E l \in {"use", "idle"} : pc' = [pc EXCEPT ![p] = l]
  BY <1>0
     DEF UseCall, UseReturn, ShortRead, PanicOnClosed, EndSyscall, Return, Goto, fileVars,
         SerialFacts, WorksOnEntry
<1>2. PICK n \in FDs, f \in Files : n = key[p] /\ f = loc[p]
  BY <1>0, <1>1 DEF IndInv, TypeOK, LocalsSet, KeyPoints, LocPoints, Threads
<1>3. Opening = {} /\ Opening' = {} /\ Live' = Live
  BY <1>0, <1>1, OnlyOne, SMT, Z3T(30) DEF Live, Up, OneHandler, Opening
<1>4. Used' = Used /\ Table' = Table /\ Table[n] = f /\ f # NoFile
  BY <1>1, <1>2, <1>3, FilesAssumption DEF Used, Table
<1>5. CASE pc[p] = "use" /\ pc' = [pc EXCEPT ![p] = "syscall"] /\ UNCHANGED <<key, loc>>
  <2>1. Acting = {} /\ Acting' = {<<n, f>>}
    BY <1>0, <1>2, <1>5, OnlyOne DEF OneHandler, Acting
  <2>2. Promise!BeginUse(n)
    BY <1>3, <1>4, <2>1 DEF Promise!BeginUse, Table, Used, Acting, Live
  <2> QED
    BY <2>2
<1>6. CASE pc[p] = "use" /\ pc' = [pc EXCEPT ![p] = "idle"]
  BY <1>0, <1>1, <1>3, <1>6, QuietStutters
<1>7. CASE pc[p] = "syscall" /\ \E l \in {"use", "idle"} : pc' = [pc EXCEPT ![p] = l]
  <2>1. Acting = {<<n, f>>} /\ Acting' = {}
    BY <1>0, <1>2, <1>7, OnlyOne, SMT, Z3T(30) DEF OneHandler, Acting
  <2>2. Promise!EndUse(n)
    BY <1>3, <1>4, <2>1 DEF Promise!EndUse, Table, Used, Acting, Live
  <2> QED
    BY <2>2
<1> QED
  BY <1>1, <1>5, <1>6, <1>7

\* Nothing is promised any more once shutdown has started or the process has ended.
LEMMA StaysDown ==
  ASSUME IndInv, [Next]_vars, ~Live
  PROVE  ~Live'
<1>1. /\ Sd \in Threads /\ Sd \notin Procs
      /\ pc \in [Threads -> HandlerPoints \cup ShutdownPoints]
  BY ProcsAssumption DEF Threads, IndInv, TypeOK
<1>2. ~Up => status' = status
  BY DEF Next, Request, Internal, Handler, Shutdown, Terminated, vars, Up, OpenCall, OpenFails,
         OpenLookup, OpenCloseStale, OpenBeginStore, OpenEndStore, OpenStat, Find, CloseCall,
         CloseEndDelete, UseCall, UseReturn, ShortRead, BeginDelete, MapThrow, StartShutdown,
         RangeNext, ShutdownClose, ShutdownEndDelete, ShutdownExit, Finalize, StdinEOF,
         MainReturns
<1>3. ASSUME pc[Sd] # "waiting"
      PROVE  pc'[Sd] # "waiting"
  <2>1. \/ pc' = pc
        \/ \E p \in Procs : \E l : pc' = [pc EXCEPT ![p] = l]
        \/ \E l \in {"range", "sdclose", "deleting", "delete"} : pc' = [pc EXCEPT ![Sd] = l]
    BY DEF Next, Request, Internal, Handler, Shutdown, Terminated, vars, handlerVars, OpenCall,
         OpenFails, OpenLookup, OpenCloseStale, OpenBeginStore, OpenEndStore, OpenStat, Find,
         CloseCall, CloseEndDelete, UseCall, UseReturn, ShortRead, BeginDelete, MapThrow,
         StartShutdown, RangeNext, ShutdownClose, ShutdownEndDelete, ShutdownExit, Finalize,
         StdinEOF, MainReturns, PanicOnClosed, Return, Goto, Threads
  <2> QED
    BY <1>1, <1>3, <2>1
<1> QED
  BY <1>2, <1>3 DEF Live, Up

\* A step that leaves Files, map and handlers alone shows at most as the end of the promise.
LEMMA EndKeepsPromise ==
  ASSUME Live, UNCHANGED <<fileVars, fds, op, key, loc>>,
         \A p \in Procs : pc'[p] = pc[p]
  PROVE  Stutters \/ Promise!GoDown
<1>1. Opening' = Opening /\ Acting' = Acting
  BY DEF Opening, Acting
<1>2. Table' = Table /\ Used' = Used
  BY <1>1 DEF Table, Used, fileVars
<1>3. CASE Live'
  BY <1>1, <1>2, <1>3 DEF Stutters
<1>4. CASE ~Live'
  BY <1>1, <1>2, <1>4 DEF Promise!GoDown, Table, Used, Acting, Live, Up
<1> QED
  BY <1>3, <1>4

\* Every step of the satellite is a step of the promise or shows nothing.
LEMMA StepKeepsPromise ==
  ASSUME OneHandler, SerialInv, [Next]_vars
  PROVE  Stutters \/ Promise!StoreNext
<1>0. SerialInv' /\ IndInv
  BY SerialNext DEF SerialInv
<1>1. CASE ~Live
  <2>1. ~Live'
    BY <1>0, <1>1, StaysDown
  <2> QED
    BY <1>1, <2>1 DEF Promise!StoreNext, Promise!IsDown, Live
<1>2. CASE Live
  <2> USE <1>2
  <2>0. /\ SerialFacts /\ Sd \in Threads /\ Sd \notin Procs /\ pc[Sd] = "waiting"
        /\ pc \in [Threads -> HandlerPoints \cup ShutdownPoints]
    BY <1>0, ProcsAssumption DEF SerialInv, SerialFacts, Live, Threads, IndInv, TypeOK
  <2>1. ASSUME NEW p \in Procs, NEW o \in Ops, NEW n \in FDs, Request(p, o, n)
        PROVE  Stutters
    <3>1. /\ pc[p] = "idle" /\ \E l \in {"open", "find"} : pc' = [pc EXCEPT ![p] = l]
          /\ UNCHANGED <<fds, fstate, status>>
      BY <2>1 DEF Request, Goto, fileVars
    <3> QED
      BY <2>0, <3>1, QuietStutters DEF Live, Up, Threads
  <2>2. ASSUME NEW p \in Procs, Handler(p) \/ BeginDelete(p)
        PROVE  Stutters \/ Promise!StoreNext
    BY <1>0, <2>2, OpenKeepsPromise, CloseKeepsPromise, UseKeepsPromise
       DEF Handler, Promise!StoreNext
  <2>3. ASSUME NEW t \in Threads, BeginDelete(t) \/ MapThrow(t)
        PROVE  Stutters \/ Promise!StoreNext
    <3>1. CASE BeginDelete(t)
      BY <2>0, <2>2, <3>1 DEF BeginDelete, Threads
    <3>2. CASE MapThrow(t)
      BY <3>2, EndKeepsPromise DEF MapThrow, handlerVars, Promise!StoreNext
    <3> QED
      BY <2>3, <3>1, <3>2
  <2>4. ASSUME Shutdown
        PROVE  Stutters \/ Promise!StoreNext
    <3>1. CASE StartShutdown
      <4>1. \A p \in Procs : pc'[p] = pc[p]
        BY <2>0, <3>1 DEF StartShutdown, Goto, Threads
      <4> QED
        BY <3>1, <4>1, EndKeepsPromise DEF StartShutdown, Promise!StoreNext
    <3> QED
      BY <2>0, <2>4, <3>1
         DEF Shutdown, RangeNext, ShutdownClose, ShutdownEndDelete, ShutdownExit
  <2>5. ASSUME NEW f \in Files, Finalize(f)
        PROVE  FALSE
    BY <1>0, <2>0, <2>5, NothingFinalized
  <2>6. CASE StdinEOF \/ MainReturns \/ UNCHANGED vars
    BY <2>6, EndKeepsPromise DEF StdinEOF, MainReturns, vars, handlerVars, Promise!StoreNext
  <2> QED
    BY <2>1, <2>2, <2>3, <2>4, <2>5, <2>6 DEF Next, Internal, Terminated
<1> QED
  BY <1>1, <1>2

\* With one handler at a time the satellite implements HandleStore: until shutdown starts,
\* Open, Close, Read, Write, Seek and Fsync do what their comments promise, each as if in
\* one step.
THEOREM SerialKeepsPromise == OneHandler => (Spec => KeepsPromise)
<1> SUFFICES ASSUME OneHandler
             PROVE  Spec => KeepsPromise
  OBVIOUS
<1>1. Init => Promise!StoreInit
  <2> SUFFICES ASSUME Init
               PROVE  Promise!StoreInit
    OBVIOUS
  <2>1. Opening = {} /\ Acting = {} /\ Live
    BY ProcsAssumption DEF Init, Opening, Acting, Live, Up, Threads
  <2> QED
    BY <2>1 DEF Init, FileInit, Promise!StoreInit, Acting, Live
<1>2. SerialInv /\ [Next]_vars => [Promise!StoreNext]_(Promise!storeVars)
  BY StepKeepsPromise DEF Stutters, Promise!storeVars, Table, Used, Acting, Live
<1>3. Spec => []SerialInv
  BY SerialInvariant
<1> QED
  BY <1>1, <1>2, <1>3, PTL DEF Spec, KeepsPromise, Promise!StoreSpec
===============================================================================
