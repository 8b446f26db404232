-------------------------- MODULE FuseHandlesProofs --------------------------
(***************************************************************************)
(* Proofs about FuseHandles, for any number of handles, references,        *)
(* handlers, Files and descriptor numbers: the invariant of the mount,     *)
(* that each kind of step keeps it while it keeps IndInv, the invariant of *)
(* Satellite, and what follows.                                            *)
(***************************************************************************)
EXTENDS FuseHandles, SatelliteProofs, FiniteSetTheorems

\* A leaf of first-order logic and sets names no prover; the others go to SMT and, should it
\* run out of time, to Z3.
USE ZenonT(30)

-------------------------------------------------------------------------------
(* The invariant                                                            *)

KernelTypeOK ==
  /\ kstate \in [Handles -> {"none", "opening", "open", "releasing", "released"}]
  /\ fh \in [Handles -> FDs \cup {0}]
  /\ own \in [Handles -> Files \cup {NoFile}]
  /\ call \in [Procs -> [kind : {"none", "open", "flush", "release"} \cup UseOps,
                         h : Handles \cup {NoHandle}]]

Absent(f) == \A n \in FDs : fds[n] # f
Shut(f) == fstate[f] = "closed" \/ Absent(f)

\* Local variables of a handler that are unset, or agree with each other.
LocalsAgree ==
  \A p \in Procs :
    /\ pc[p] \in {"idle", "open"} => loc[p] = NoFile
    /\ pc[p] = "fstat" => num[loc[p]] = key[p]

\* An answered Open gave its handle a File of its own, which no Open is about to store
\* again, and that File's number.
OwnsFile(h) ==
  /\ own[h] \in Files /\ fstate[own[h]] # "unused"
  /\ fh[h] = num[own[h]]
  /\ \A p \in Procs : pc[p] \in EarlyPoints => loc[p] # own[h]

\* Where the handler of Close is that closes handle h.  When it has found its entry it has
\* the handle's File, or that File has left the map.
ClosePoint(p, h) ==
  /\ op[p] = "close" /\ key[p] = fh[h]
  /\ pc[p] \in {"find", "close", "delete", "deleting"}
  /\ pc[p] = "close" => loc[p] = own[h] \/ Absent(own[h])
  /\ pc[p] \in {"delete", "deleting"} => Shut(own[h])

\* Where the handler of an Open, and of a Release, can be.
CallPoint(p) ==
  LET h == call[p].h
  IN  /\ call[p].kind = "open" =>
           /\ h \in Handles /\ kstate[h] = "opening"
           /\ pc[p] \in {"open", "fstat"} \cup EarlyPoints
      /\ call[p].kind = "release" =>
           /\ h \in Handles /\ kstate[h] = "releasing"
           /\ ClosePoint(p, h)

\* One handle has one Open or Release at a time.
OneCall ==
  \A p, q \in Procs :
    /\ call[p].kind \in {"open", "release"} /\ call[q].kind \in {"open", "release"}
    /\ call[p].h = call[q].h
    => p = q

FuseInv ==
  /\ IndInv
  /\ KernelTypeOK
  /\ LocalsAgree
  /\ \A h \in Handles : kstate[h] \in {"open", "releasing", "released"} => OwnsFile(h)
  /\ \A p \in Procs : CallPoint(p)
  /\ OneCall
  /\ \A h \in Handles : kstate[h] = "released" => Shut(own[h])

-------------------------------------------------------------------------------
(* What a step of the satellite leaves alone                                *)

\* Opened Files keep their number and are never unused again, closed ones stay closed;
\* only an Open before its store puts a File into the map, and it has a new one.
Frame ==
  /\ \A f \in Files : fstate[f] # "unused" => fstate'[f] # "unused" /\ num'[f] = num[f]
  /\ \A f \in Files : fstate[f] = "closed" => fstate'[f] = "closed"
  /\ \A n \in FDs : \/ fds'[n] = fds[n] \/ fds'[n] = NoFile
                    \/ \E q \in Procs : pc[q] \in EarlyPoints /\ loc[q] = fds'[n]
  /\ \A q \in Procs : pc'[q] \in EarlyPoints =>
       \/ pc[q] \in EarlyPoints /\ loc'[q] = loc[q]
       \/ loc'[q] \in Files /\ fstate[loc'[q]] = "unused"

\* Only handler p moves.
Moves(p) ==
  \A q \in Procs \ {p} :
    pc'[q] = pc[q] /\ loc'[q] = loc[q] /\ key'[q] = key[q] /\ op'[q] = op[q]

\* A step of a handler keeps closed Files closed and numbers fixed, puts only a File that
\* Open has just made into the map, and moves no other handler.
LEMMA HandlerFrame ==
  ASSUME IndInv, NEW p \in Procs, Handler(p) \/ BeginDelete(p)
  PROVE  Frame /\ Moves(p)
<1> USE FilesAssumption, ProcsAssumption
    DEF IndInv, TypeOK, FileTypeOK, Threads, fileVars, handlerVars, Goto, Frame, Moves,
        EarlyPoints, LocalsSet, LocPoints, KeyPoints
<1>1. CASE OpenCall(p)
  BY <1>1, SMT, Z3T(30) DEF OpenCall, OpenFile
<1>2. CASE OpenFails(p)
  BY <1>2 DEF OpenFails, Return
<1>3. CASE OpenLookup(p)
  BY <1>3 DEF OpenLookup
<1>4. CASE OpenCloseStale(p)
  BY <1>4 DEF OpenCloseStale, CloseFile
<1>5. CASE OpenBeginStore(p)
  BY <1>5 DEF OpenBeginStore
<1>6. CASE OpenEndStore(p)
  BY <1>6 DEF OpenEndStore
<1>7. CASE OpenStat(p)
  BY <1>7, SMT, Z3T(30) DEF OpenStat, PanicOnClosed, Return
<1>8. CASE Find(p)
  BY <1>8, SMT, Z3T(30) DEF Find, Return
<1>9. CASE CloseCall(p)
  BY <1>9, SMT, Z3T(30) DEF CloseCall, PanicOnClosed, CloseFile
<1>10. CASE CloseEndDelete(p)
  BY <1>10 DEF CloseEndDelete, Delete, Return
<1>11. CASE UseCall(p)
  BY <1>11, SMT, Z3T(30) DEF UseCall, PanicOnClosed, Return
<1>12. CASE UseReturn(p)
  BY <1>12 DEF UseReturn, EndSyscall, Return
<1>13. CASE ShortRead(p)
  BY <1>13 DEF ShortRead, EndSyscall
<1>14. CASE BeginDelete(p)
  BY <1>14 DEF BeginDelete
<1> HIDE DEF Frame, Moves
<1> QED
  BY <1>1, <1>2, <1>3, <1>4, <1>5, <1>6, <1>7, <1>8, <1>9, <1>10, <1>11, <1>12, <1>13, <1>14
     DEF Handler

\* The local variables of the handlers keep agreeing, whichever handler of the satellite
\* steps.
LEMMA HandlerLocals ==
  ASSUME IndInv, LocalsAgree, NEW p \in Procs, Handler(p) \/ BeginDelete(p)
  PROVE  LocalsAgree'
<1> USE FilesAssumption, ProcsAssumption
    DEF IndInv, TypeOK, FileTypeOK, Threads, fileVars, handlerVars, Goto, LocalsAgree,
        EarlyPoints, LocalsSet, LocPoints, KeyPoints, RefsOpened
<1>1. CASE OpenCall(p)
  BY <1>1, SMT, Z3T(30) DEF OpenCall, OpenFile
<1>2. CASE OpenFails(p)
  BY <1>2 DEF OpenFails, Return
<1>3. CASE OpenLookup(p)
  BY <1>3 DEF OpenLookup
<1>4. CASE OpenCloseStale(p)
  BY <1>4 DEF OpenCloseStale, CloseFile
<1>5. CASE OpenBeginStore(p)
  BY <1>5 DEF OpenBeginStore
<1>6. CASE OpenEndStore(p)
  BY <1>6, SMT, Z3T(30) DEF OpenEndStore, EarlyPrivate
<1>7. CASE OpenStat(p)
  BY <1>7, SMT, Z3T(30) DEF OpenStat, PanicOnClosed, Return
<1>8. CASE Find(p)
  BY <1>8, SMT, Z3T(30) DEF Find, Return
<1>9. CASE CloseCall(p)
  BY <1>9, SMT, Z3T(30) DEF CloseCall, PanicOnClosed, CloseFile
<1>10. CASE CloseEndDelete(p)
  BY <1>10 DEF CloseEndDelete, Return
<1>11. CASE UseCall(p)
  BY <1>11, SMT, Z3T(30) DEF UseCall, PanicOnClosed, Return
<1>12. CASE UseReturn(p)
  BY <1>12 DEF UseReturn, EndSyscall, Return
<1>13. CASE ShortRead(p)
  BY <1>13 DEF ShortRead, EndSyscall
<1>14. CASE BeginDelete(p)
  BY <1>14 DEF BeginDelete
<1> HIDE DEF LocalsAgree
<1> QED
  BY <1>1, <1>2, <1>3, <1>4, <1>5, <1>6, <1>7, <1>8, <1>9, <1>10, <1>11, <1>12, <1>13, <1>14
     DEF Handler

\* A File that no Open is about to store, and that is out of the map, stays out of it.
LEMMA StaysAbsent ==
  ASSUME IndInv, Frame, NEW f \in Files, Absent(f),
         \A q \in Procs : pc[q] \in EarlyPoints => loc[q] # f
  PROVE  Absent(f)'
BY FilesAssumption, SMT, Z3T(30) DEF Frame, Absent

\* A File that Close has closed, or that has left the map, stays so, unless an Open is
\* about to store it.
LEMMA StaysShut ==
  ASSUME IndInv, Frame, NEW f \in Files, Shut(f),
         \A q \in Procs : pc[q] \in EarlyPoints => loc[q] # f
  PROVE  Shut(f)'
<1>1. CASE fstate[f] = "closed"
  BY <1>1 DEF Frame, Shut
<1>2. CASE Absent(f)
  BY <1>2, StaysAbsent DEF Shut
<1> QED
  BY <1>1, <1>2 DEF Shut

\* A handle that a step leaves alone still owns its File after it.
LEMMA StaysOwned ==
  ASSUME IndInv, Frame, NEW h \in Handles, OwnsFile(h),
         fh'[h] = fh[h], own'[h] = own[h]
  PROVE  OwnsFile(h)'
BY SMT, Z3T(30) DEF Frame, OwnsFile

\* A handle's File is in the map under the handle's number or not at all.
LEMMA OwnEntry ==
  ASSUME IndInv, NEW h \in Handles, OwnsFile(h), fds[fh[h]] # own[h]
  PROVE  Absent(own[h])
BY FilesAssumption, SMT, Z3T(30) DEF IndInv, RefsOpened, OwnsFile, Absent, TypeOK

-------------------------------------------------------------------------------
(* The handlers of Open and of Close                                        *)

\* Where a step of the handler of Open leads, and that it answers only with the File it
\* opened and stored under that File's number.
LEMMA OpenProgress ==
  ASSUME IndInv, LocalsAgree, NEW p \in Procs, CallPoint(p), call[p].kind = "open",
         Handler(p) \/ BeginDelete(p)
  PROVE  /\ pc'[p] \in {"idle", "open", "fstat"} \cup EarlyPoints
         /\ pc'[p] = "idle" /\ loc[p] \in held' =>
              /\ pc[p] = "fstat" /\ key[p] \in FDs
              /\ loc[p] \in Files /\ fstate[loc[p]] # "unused" /\ num[loc[p]] = key[p]
<1> USE FilesAssumption, ProcsAssumption
    DEF IndInv, TypeOK, FileTypeOK, Threads, fileVars, handlerVars, Goto, LocalsAgree,
        EarlyPoints, LocalsSet, LocPoints, KeyPoints, RefsOpened
<1>1. pc[p] \in {"open", "fstat"} \cup EarlyPoints
  BY DEF CallPoint
<1>2. CASE pc[p] = "open"
  <2>1. OpenCall(p) \/ OpenFails(p)
    BY <1>2 DEF Handler, BeginDelete, OpenLookup, OpenCloseStale, OpenBeginStore, OpenEndStore,
                OpenStat, Find, CloseCall, CloseEndDelete, UseCall, UseReturn, ShortRead
  <2> QED
    BY <1>2, <2>1, SMT, Z3T(30) DEF OpenCall, OpenFails, Return
<1>3. CASE pc[p] \in EarlyPoints
  <2>1. OpenLookup(p) \/ OpenCloseStale(p) \/ OpenBeginStore(p) \/ OpenEndStore(p)
    BY <1>3 DEF Handler, BeginDelete, OpenCall, OpenFails,
                OpenStat, Find, CloseCall, CloseEndDelete, UseCall, UseReturn, ShortRead
  <2> QED
    BY <1>3, <2>1, SMT, Z3T(30) DEF OpenLookup, OpenCloseStale, OpenBeginStore, OpenEndStore
<1>4. CASE pc[p] = "fstat"
  <2>1. OpenStat(p)
    BY <1>4 DEF Handler, BeginDelete, OpenCall, OpenFails, OpenLookup, OpenCloseStale,
                OpenBeginStore, OpenEndStore, Find, CloseCall, CloseEndDelete, UseCall,
                UseReturn, ShortRead
  <2> QED
    BY <1>4, <2>1, SMT, Z3T(30) DEF OpenStat, PanicOnClosed, Return
<1> QED
  BY <1>1, <1>2, <1>3, <1>4

\* Where a step of the handler of Close leads that Flush or Release waits for, and that it
\* returns only once the handle's File is shut.
LEMMA CloseProgress ==
  ASSUME IndInv, Frame, NEW p \in Procs, NEW h \in Handles, ClosePoint(p, h), OwnsFile(h),
         NEW f \in Files, own[h] = f,
         Handler(p) \/ BeginDelete(p)
  PROVE  /\ pc'[p] \in {"idle", "close", "delete", "deleting"}
         /\ pc'[p] = "idle" => Shut(f)'
         /\ pc'[p] # "idle" => op'[p] = op[p] /\ key'[p] = key[p]
         /\ pc'[p] = "close" => loc'[p] = f \/ Absent(f)'
         /\ pc'[p] \in {"delete", "deleting"} => Shut(f)'
<1> USE FilesAssumption, ProcsAssumption
    DEF IndInv, TypeOK, FileTypeOK, Threads, fileVars, handlerVars, Goto
<1>1. /\ pc[p] \in {"find", "close", "delete", "deleting"}
      /\ op[p] = "close" /\ key[p] = fh[h]
      /\ pc[p] = "close" => loc[p] = f \/ Absent(f)
      /\ pc[p] \in {"delete", "deleting"} => Shut(f)
  BY DEF ClosePoint
<1>2. /\ Absent(f) => Absent(f)'
      /\ Shut(f) => Shut(f)'
      /\ Absent(f)' => Shut(f)'
  <2>1. \A q \in Procs : pc[q] \in EarlyPoints => loc[q] # f
    BY DEF OwnsFile
  <2> HIDE DEF IndInv
  <2> QED
    BY <2>1, StaysAbsent, StaysShut DEF Shut
<1>3. CASE pc[p] = "find"
  <2>1. Find(p)
    BY <1>3 DEF Handler, BeginDelete, OpenCall, OpenFails, OpenLookup, OpenCloseStale,
                OpenBeginStore, OpenEndStore, OpenStat, CloseCall, CloseEndDelete, UseCall,
                UseReturn, ShortRead
  <2>2. fds[key[p]] # f => Absent(f)
    BY <1>1, OwnEntry
  <2>3. CASE fds[key[p]] = NoFile
    BY <1>1, <1>2, <1>3, <2>1, <2>2, <2>3, SMT, Z3T(30) DEF Find, Return
  <2>4. CASE fds[key[p]] # NoFile
    BY <1>1, <1>2, <1>3, <2>1, <2>2, <2>4, SMT, Z3T(30) DEF Find
  <2> QED
    BY <2>3, <2>4
<1>4. CASE pc[p] = "close"
  <2>1. CloseCall(p)
    BY <1>4 DEF Handler, BeginDelete, OpenCall, OpenFails, OpenLookup, OpenCloseStale,
                OpenBeginStore, OpenEndStore, OpenStat, Find, CloseEndDelete, UseCall,
                UseReturn, ShortRead
  <2>2. CASE PanicOnClosed(p)
    BY <1>1, <1>2, <1>4, <2>2 DEF PanicOnClosed
  <2>3. CASE ~PanicOnClosed(p)
    <3>1. /\ fstate' = [fstate EXCEPT ![loc[p]] = "closed"]
          /\ pc' = [pc EXCEPT ![p] = "delete"]
          /\ op' = op /\ key' = key
      BY <2>1, <2>3 DEF CloseCall, CloseFile
    <3>2. Shut(f)'
      BY <1>1, <1>2, <1>4, <3>1, SMT, Z3T(30) DEF Shut
    <3> QED
      BY <1>1, <3>1, <3>2, SMT, Z3T(30)
  <2> QED
    BY <2>2, <2>3
<1>5. CASE pc[p] = "delete"
  <2>1. BeginDelete(p)
    BY <1>5 DEF Handler, OpenCall, OpenFails, OpenLookup, OpenCloseStale,
                OpenBeginStore, OpenEndStore, OpenStat, Find, CloseCall, CloseEndDelete,
                UseCall, UseReturn, ShortRead
  <2> QED
    BY <1>1, <1>2, <1>5, <2>1 DEF BeginDelete
<1>6. CASE pc[p] = "deleting"
  <2>1. CloseEndDelete(p)
    BY <1>6 DEF Handler, BeginDelete, OpenCall, OpenFails, OpenLookup, OpenCloseStale,
                OpenBeginStore, OpenEndStore, OpenStat, Find, CloseCall, UseCall,
                UseReturn, ShortRead
  <2> QED
    BY <1>1, <1>2, <1>6, <2>1 DEF CloseEndDelete, Return
<1> QED
  BY <1>1, <1>3, <1>4, <1>5, <1>6

\* The handler of Close that has not returned is still on its way.
LEMMA CloseMoves ==
  ASSUME IndInv, Frame, NEW p \in Procs, NEW h \in Handles, ClosePoint(p, h), OwnsFile(h),
         Handler(p) \/ BeginDelete(p), pc'[p] # "idle", fh' = fh, own' = own
  PROVE  ClosePoint(p, h)'
<1>1. PICK f \in Files : own[h] = f
  BY DEF OwnsFile
<1>2. /\ pc'[p] \in {"close", "delete", "deleting"}
      /\ op'[p] = op[p] /\ key'[p] = key[p]
      /\ pc'[p] = "close" => loc'[p] = f \/ Absent(f)'
      /\ pc'[p] \in {"delete", "deleting"} => Shut(f)'
  BY <1>1, CloseProgress
<1>3. op[p] = "close" /\ key[p] = fh[h]
  BY DEF ClosePoint
<1> QED
  BY <1>1, <1>2, <1>3 DEF ClosePoint

-------------------------------------------------------------------------------
(* FuseInv is inductive                                                     *)

\* Every step is a step of the satellite or leaves it unchanged.
LEMMA Simulates ==
  ASSUME FuseInv, [FuseNext]_allVars
  PROVE  [Next]_vars
<1>1. CASE \E p \in Procs, h \in Handles : KernelStep(p, h)
  <2>1. PICK p \in Procs, h \in Handles : KernelStep(p, h)
    BY <1>1
  <2>2. kstate[h] = "open" => fh[h] \in FDs
    BY DEF FuseInv, OwnsFile, IndInv, NumbersAgree
  <2>3. \E o \in Ops, n \in FDs : Request(p, o, n)
    BY <2>1, <2>2 DEF KernelStep, Open, Flush, Release, Use, InHand, Call, Ops
  <2> QED
    BY <2>3 DEF Next
<1>2. CASE \E h \in Handles : Dup(h)
  BY <1>2 DEF Dup
<1>3. CASE \E p \in Procs : HandlerStep(p)
  BY <1>3 DEF HandlerStep, Next, Internal, Threads
<1>4. CASE \E p \in Procs : MapThrow(p)
  BY <1>4 DEF Next, Internal, Threads
<1>5. CASE \E f \in Files : Finalize(f)
  BY <1>5 DEF Next, Internal
<1>6. CASE UNCHANGED allVars
  BY <1>6 DEF allVars
<1> QED
  BY <1>1, <1>2, <1>3, <1>4, <1>5, <1>6 DEF FuseNext

\* A handle the step is not about keeps its part of the invariant.
LEMMA HandleKept ==
  ASSUME FuseInv, Frame, NEW h \in Handles,
         kstate'[h] = kstate[h], fh'[h] = fh[h], own'[h] = own[h]
  PROVE  /\ kstate'[h] \in {"open", "releasing", "released"} => OwnsFile(h)'
         /\ kstate'[h] = "released" => Shut(own[h])'
<1>1. ASSUME kstate[h] \in {"open", "releasing", "released"}
      PROVE  OwnsFile(h)'
  BY <1>1, StaysOwned DEF FuseInv
<1>2. ASSUME kstate[h] = "released"
      PROVE  Shut(own[h])'
  <2>1. OwnsFile(h) /\ Shut(own[h])
    BY <1>2 DEF FuseInv
  <2>2. PICK f \in Files : own[h] = f
    BY <2>1 DEF OwnsFile
  <2>3. Shut(f)'
    BY <2>1, <2>2, StaysShut DEF FuseInv, OwnsFile
  <2> QED
    BY <2>2, <2>3
<1> QED
  BY <1>1, <1>2

\* And so does the place of a handler of Close that does not move.
LEMMA CloseKept ==
  ASSUME IndInv, Frame, NEW q \in Procs, NEW h \in Handles, ClosePoint(q, h), OwnsFile(h),
         pc'[q] = pc[q], op'[q] = op[q], key'[q] = key[q], loc'[q] = loc[q],
         fh'[h] = fh[h], own'[h] = own[h]
  PROVE  ClosePoint(q, h)'
<1>1. PICK f \in Files : own[h] = f
  BY DEF OwnsFile
<1>2. /\ Absent(f) => Absent(f)'
      /\ Shut(f) => Shut(f)'
  BY <1>1, StaysAbsent, StaysShut DEF OwnsFile
<1>3. /\ op[q] = "close" /\ key[q] = fh[h]
      /\ pc[q] \in {"find", "close", "delete", "deleting"}
      /\ pc[q] = "close" => loc[q] = f \/ Absent(f)
      /\ pc[q] \in {"delete", "deleting"} => Shut(f)
  BY <1>1 DEF ClosePoint
<1>4. own'[h] = f
  BY <1>1
<1> QED
  BY <1>2, <1>3, <1>4 DEF ClosePoint

\* And so does the call of a handler that does not move.
LEMMA CallKept ==
  ASSUME FuseInv, Frame, NEW q \in Procs, call'[q] = call[q],
         pc'[q] = pc[q], op'[q] = op[q], key'[q] = key[q], loc'[q] = loc[q],
         call[q].kind \in {"open", "release"} =>
           /\ kstate'[call[q].h] = kstate[call[q].h]
           /\ fh'[call[q].h] = fh[call[q].h]
           /\ own'[call[q].h] = own[call[q].h]
  PROVE  CallPoint(q)'
<1>1. CASE call[q].kind = "release"
  <2>1. PICK h \in Handles : call[q].h = h
    BY <1>1 DEF FuseInv, CallPoint
  <2>2. kstate[h] = "releasing" /\ ClosePoint(q, h)
    BY <1>1, <2>1 DEF FuseInv, CallPoint
  <2>3. OwnsFile(h)
    BY <2>2 DEF FuseInv
  <2>4. own'[h] = own[h] /\ fh'[h] = fh[h] /\ kstate'[h] = "releasing"
    BY <1>1, <2>1, <2>2
  <2>5. ClosePoint(q, h)'
    BY <2>2, <2>3, <2>4, CloseKept DEF FuseInv
  <2> QED
    BY <1>1, <2>1, <2>4, <2>5 DEF CallPoint
<1>2. CASE call[q].kind # "release"
  BY <1>2 DEF FuseInv, CallPoint
<1> QED
  BY <1>1, <1>2, SMT, Z3T(30)

\* The satellite does not change, or only a File nothing refers to is closed: no handler
\* moves and the map keeps its entries.
LEMMA BackgroundFrame ==
  ASSUME FuseInv,
         \/ UNCHANGED vars
         \/ \E p \in Procs : MapThrow(p)
         \/ \E f \in Files : Finalize(f)
  PROVE  UNCHANGED <<fds, handlerVars>> /\ num' = num /\ Frame
<1>1. UNCHANGED <<fds, handlerVars>>
  BY DEF vars, MapThrow, Finalize
<1>2. /\ num' = num
      /\ \A f \in Files : fstate'[f] = fstate[f] \/ (fstate[f] = "open" /\ fstate'[f] = "closed")
  <2>1. CASE UNCHANGED vars \/ \E p \in Procs : MapThrow(p)
    <3>1. UNCHANGED fileVars
      BY <2>1, SMT, Z3T(30) DEF vars, MapThrow
    <3> QED
      BY <3>1 DEF fileVars
  <2>2. CASE \E f \in Files : Finalize(f)
    <3>1. PICK f \in Files : fstate[f] = "open" /\ CloseFile(f, FALSE)
      BY <2>2 DEF Finalize
    <3> QED
      BY <3>1 DEF FuseInv, IndInv, TypeOK, FileTypeOK, CloseFile
  <2> QED
    BY <2>1, <2>2
<1>3. Frame
  BY <1>1, <1>2 DEF Frame, handlerVars
<1> QED
  BY <1>1, <1>2, <1>3

\* Such a step keeps the invariant.
LEMMA BackgroundInv ==
  ASSUME FuseInv, UNCHANGED <<kstate, fh, own, call>>,
         \/ UNCHANGED vars
         \/ \E p \in Procs : MapThrow(p)
         \/ \E f \in Files : Finalize(f),
         IndInv'
  PROVE  FuseInv'
<1>1. UNCHANGED <<fds, handlerVars>> /\ num' = num
  BY BackgroundFrame
<1>3. Frame
  BY BackgroundFrame
<1>4. KernelTypeOK' /\ OneCall'
  BY SMT, Z3T(30) DEF FuseInv, KernelTypeOK, OneCall
<1>5. LocalsAgree'
  BY <1>1, SMT, Z3T(30) DEF FuseInv, LocalsAgree, handlerVars
<1>6. \A p \in Procs : CallPoint(p)'
  BY <1>1, <1>3, CallKept DEF handlerVars
<1>7. \A h \in Handles :
        /\ kstate'[h] \in {"open", "releasing", "released"} => OwnsFile(h)'
        /\ kstate'[h] = "released" => Shut(own[h])'
  BY <1>3, HandleKept
<1> QED
  BY <1>4, <1>5, <1>6, <1>7 DEF FuseInv

\* A call of the kernel.
LEMMA KernelInv ==
  ASSUME FuseInv, NEW p \in Procs, NEW h \in Handles, KernelStep(p, h), IndInv'
  PROVE  FuseInv'
<1> USE HandlesAssumption, UseOpsAssumption
<1>1. PICK o \in Ops, n \in FDs \cup {0}, k \in {"open", "flush", "release"} \cup UseOps :
        /\ Request(p, o, n)
        /\ call' = [call EXCEPT ![p] = [kind |-> k, h |-> h]]
        /\ fh' = fh /\ own' = own
        /\ \/ /\ k = "open" /\ kstate[h] \in {"none", "released"} /\ o = "open"
              /\ kstate' = [kstate EXCEPT ![h] = "opening"]
           \/ /\ k = "release" /\ kstate[h] = "open" /\ o = "close" /\ n = fh[h]
              /\ kstate' = [kstate EXCEPT ![h] = "releasing"]
           \/ k \notin {"open", "release"} /\ kstate' = kstate
  <2>1. CASE Open(p, h)
    BY <2>1 DEF Open, Call, Ops
  <2>2. CASE Flush(p, h)
    <3>1. fh[h] \in FDs \cup {0} /\ "close" \in Ops
      BY DEF Ops, FuseInv, KernelTypeOK
    <3>2. /\ Request(p, "close", fh[h])
          /\ call' = [call EXCEPT ![p] = [kind |-> "flush", h |-> h]]
          /\ fh' = fh /\ own' = own /\ kstate' = kstate
      BY <2>2 DEF Flush, Call
    <3>3. "flush" \in {"open", "flush", "release"} \cup UseOps /\ "flush" \notin {"open", "release"}
      OBVIOUS
    <3> QED
      BY <3>1, <3>2, <3>3
  <2>3. CASE Release(p, h)
    <3>1. fh[h] \in FDs \cup {0} /\ "close" \in Ops
      BY DEF Ops, FuseInv, KernelTypeOK
    <3> QED
      BY <2>3, <3>1 DEF Release, Call
  <2>4. CASE \E o \in UseOps : Use(p, h, o)
    <3>1. PICK o \in UseOps : Use(p, h, o)
      BY <2>4
    <3>2. o \in Ops /\ o \notin {"open", "release"} /\ fh[h] \in FDs \cup {0}
      BY SMT, Z3T(30) DEF Ops, FuseInv, KernelTypeOK
    <3> QED
      BY <3>1, <3>2 DEF Use, Call
  <2> QED
    BY <2>1, <2>2, <2>3, <2>4 DEF KernelStep
<1>2. /\ UNCHANGED <<fileVars, fds, loc>>
      /\ pc[p] = "idle" /\ pc' = [pc EXCEPT ![p] = IF o = "open" THEN "open" ELSE "find"]
      /\ op' = [op EXCEPT ![p] = o]
      /\ key' = [key EXCEPT ![p] = IF o = "open" THEN 0 ELSE n]
      /\ Moves(p)
  BY <1>1 DEF Request, Goto, Moves, FuseInv, IndInv, TypeOK, Threads
<1>3. Frame
  BY <1>2 DEF Frame, fileVars, EarlyPoints, FuseInv, IndInv, TypeOK, Threads
<1>4. KernelTypeOK'
  BY <1>1 DEF FuseInv, KernelTypeOK
<1>5. LocalsAgree'
  BY <1>2 DEF FuseInv, LocalsAgree, fileVars, IndInv, TypeOK, Threads
<1>6. \A q \in Procs : call[q].kind \in {"open", "release"} /\ q # p => call[q].h # h \/ kstate'=kstate
  BY <1>1 DEF FuseInv, CallPoint
<1>7. OneCall'
  <2>1. /\ \A q \in Procs : q # p => call'[q] = call[q]
        /\ call'[p] = [kind |-> k, h |-> h]
    BY <1>1 DEF FuseInv, KernelTypeOK
  <2>2. k \in {"open", "release"} => kstate[h] \in {"none", "open", "released"}
    BY <1>1
  <2>3. \A q \in Procs :
          call[q].kind \in {"open", "release"} => kstate[call[q].h] \in {"opening", "releasing"}
    BY DEF FuseInv, CallPoint
  <2>4. \A q \in Procs :
          k \in {"open", "release"} /\ call[q].kind \in {"open", "release"} => call[q].h # h
    BY <2>2, <2>3
  <2>5. OneCall
    BY DEF FuseInv
  <2> QED
    BY <2>1, <2>4, <2>5, SMT, Z3T(30) DEF OneCall
<1>8. \A q \in Procs : CallPoint(q)'
  <2>1. ASSUME NEW q \in Procs, q # p PROVE CallPoint(q)'
    <3>1. call'[q] = call[q]
      BY <1>1, <2>1 DEF FuseInv, KernelTypeOK
    <3>2. call[q].kind \in {"open", "release"} => kstate'[call[q].h] = kstate[call[q].h]
      BY <1>1, <1>6, <2>1 DEF FuseInv, CallPoint, KernelTypeOK
    <3> QED
      BY <1>1, <1>2, <1>3, <2>1, <3>1, <3>2, CallKept DEF Moves
  <2>2. CallPoint(p)'
    BY <1>1, <1>2 DEF CallPoint, ClosePoint, FuseInv, KernelTypeOK, IndInv, TypeOK, Threads
  <2> QED
    BY <2>1, <2>2
<1>9. \A g \in Handles :
        /\ kstate'[g] \in {"open", "releasing", "released"} => OwnsFile(g)'
        /\ kstate'[g] = "released" => Shut(own[g])'
  <2>1. ASSUME NEW g \in Handles, kstate'[g] = kstate[g]
        PROVE  /\ kstate'[g] \in {"open", "releasing", "released"} => OwnsFile(g)'
               /\ kstate'[g] = "released" => Shut(own[g])'
    BY <1>1, <1>3, <2>1, HandleKept
  <2>2. kstate'[h] = "releasing" /\ kstate[h] = "open" => OwnsFile(h)'
    BY <1>1, <1>3, StaysOwned DEF FuseInv
  <2> QED
    BY <1>1, <2>1, <2>2 DEF FuseInv, KernelTypeOK
<1> QED
  BY <1>4, <1>5, <1>7, <1>8, <1>9 DEF FuseInv

\* A step of a handler, and the reply when it returns.
LEMMA HandlerInv ==
  ASSUME FuseInv, NEW p \in Procs, HandlerStep(p), IndInv'
  PROVE  FuseInv'
<1> USE HandlesAssumption, UseOpsAssumption
<1>1. IndInv /\ KernelTypeOK /\ LocalsAgree /\ OneCall /\ CallPoint(p)
  BY DEF FuseInv
<1>2. Handler(p) \/ BeginDelete(p)
  BY DEF HandlerStep
<1>3. Frame /\ Moves(p) /\ LocalsAgree'
  BY <1>1, <1>2, HandlerFrame, HandlerLocals
<1>4. CASE pc'[p] # "idle"
  <2>1. UNCHANGED kernelVars
    BY <1>4 DEF HandlerStep
  <2>2. KernelTypeOK' /\ OneCall'
    BY <1>1, <2>1 DEF KernelTypeOK, OneCall, kernelVars
  <2>3. \A h \in Handles :
          /\ kstate'[h] \in {"open", "releasing", "released"} => OwnsFile(h)'
          /\ kstate'[h] = "released" => Shut(own[h])'
    BY <1>3, <2>1, HandleKept DEF kernelVars
  <2>4. ASSUME NEW q \in Procs, q # p PROVE CallPoint(q)'
    BY <1>3, <2>1, <2>4, CallKept DEF Moves, kernelVars
  <2>5. CallPoint(p)'
    <3>1. CASE call[p].kind = "open"
      <4>1. pc'[p] \in {"open", "fstat"} \cup EarlyPoints
        BY <1>1, <1>2, <1>4, <3>1, OpenProgress
      <4> QED
        BY <1>1, <2>1, <3>1, <4>1 DEF CallPoint, kernelVars
    <3>2. CASE call[p].kind = "release"
      <4>1. PICK h \in Handles : call[p].h = h
        BY <1>1, <3>2 DEF CallPoint
      <4>2. kstate[h] = "releasing" /\ ClosePoint(p, h)
        BY <1>1, <3>2, <4>1 DEF CallPoint
      <4>3. OwnsFile(h)
        BY <4>2 DEF FuseInv
      <4>4. PICK f \in Files : own[h] = f
        BY <4>3 DEF OwnsFile
      <4>5. own' = own /\ fh' = fh /\ kstate' = kstate /\ call' = call
        BY <2>1 DEF kernelVars
      <4>6. ClosePoint(p, h)'
        BY <1>1, <1>2, <1>3, <1>4, <4>2, <4>3, <4>5, CloseMoves
      <4> QED
        BY <3>2, <4>1, <4>2, <4>5, <4>6 DEF CallPoint
    <3> QED
      BY <2>1, <3>1, <3>2 DEF CallPoint, kernelVars
  <2> QED
    BY <1>3, <2>2, <2>3, <2>4, <2>5 DEF FuseInv
<1>5. CASE pc'[p] = "idle"
  <2>1. Answer(p)
    BY <1>5 DEF HandlerStep
  <2>2. call' = [call EXCEPT ![p] = Idle]
    BY <2>1 DEF Answer
  <2>3. OneCall' /\ CallPoint(p)'
    BY <1>1, <2>2 DEF KernelTypeOK, OneCall, CallPoint, Idle
  <2>4. \A q \in Procs : q # p => call'[q] = call[q]
    BY <1>1, <2>2 DEF KernelTypeOK
  <2>5. CASE call[p].kind = "open"
    <3>1. PICK h \in Handles : call[p].h = h /\ kstate[h] = "opening"
      BY <1>1, <2>5 DEF CallPoint
    <3>2. OpenAnswered(p, h)
      BY <2>1, <2>5, <3>1 DEF Answer
    <3>3. \A g \in Handles : g # h => kstate'[g] = kstate[g] /\ fh'[g] = fh[g] /\ own'[g] = own[g]
      BY <1>1, <3>2 DEF OpenAnswered, KernelTypeOK
    <3>4. \A q \in Procs :
            q # p /\ call[q].kind \in {"open", "release"} => call[q].h \in Handles \ {h}
      BY <2>5, <3>1 DEF FuseInv, OneCall, CallPoint
    <3>5. ASSUME NEW q \in Procs, q # p PROVE CallPoint(q)'
      BY <1>3, <2>4, <3>3, <3>4, <3>5, CallKept DEF Moves
    <3>6. CASE loc[p] \in held'
      <4>1. /\ pc[p] = "fstat" /\ key[p] \in FDs
            /\ loc[p] \in Files /\ fstate[loc[p]] # "unused" /\ num[loc[p]] = key[p]
        BY <1>1, <1>2, <1>5, <2>5, <3>6, OpenProgress
      <4>2. kstate'[h] = "open" /\ fh'[h] = key[p] /\ own'[h] = loc[p]
        BY <1>1, <3>2, <3>6 DEF OpenAnswered, KernelTypeOK
      <4>3. KernelTypeOK'
        BY <1>1, <2>2, <3>2, <3>6, <4>1 DEF OpenAnswered, KernelTypeOK, Idle
      <4>4. \A q \in Procs : pc'[q] \in EarlyPoints => loc'[q] # loc[p]
        <5>1. TAKE q \in Procs
        <5>2. CASE q = p
          BY <1>5, <5>2 DEF EarlyPoints
        <5>3. CASE q # p
          <6>1. pc'[q] = pc[q] /\ loc'[q] = loc[q]
            BY <1>3, <5>3 DEF Moves
          <6>2. EarlyPrivate /\ p \in Threads \ {q}
            BY <1>1, <5>3 DEF IndInv, Threads
          <6>3. pc[q] \in EarlyPoints => loc[q] # loc[p]
            BY <6>2, SMT, Z3T(30) DEF EarlyPrivate
          <6> QED
            BY <6>1, <6>3
        <5> QED
          BY <5>2, <5>3
      <4>5. OwnsFile(h)'
        BY <1>3, <4>1, <4>2, <4>4, SMT, Z3T(30) DEF OwnsFile, Frame
      <4>6. \A g \in Handles :
              /\ kstate'[g] \in {"open", "releasing", "released"} => OwnsFile(g)'
              /\ kstate'[g] = "released" => Shut(own[g])'
        BY <1>3, <3>3, <4>2, <4>5, HandleKept
      <4> QED
        BY <1>3, <2>3, <3>5, <4>3, <4>6 DEF FuseInv
    <3>7. CASE loc[p] \notin held'
      <4>1. KernelTypeOK' /\ kstate'[h] = "none"
        BY <1>1, <2>2, <3>2, <3>7 DEF OpenAnswered, KernelTypeOK, Idle
      <4>2. \A g \in Handles :
              /\ kstate'[g] \in {"open", "releasing", "released"} => OwnsFile(g)'
              /\ kstate'[g] = "released" => Shut(own[g])'
        BY <1>3, <3>3, <4>1, HandleKept, SMT, Z3T(30)
      <4> QED
        BY <1>3, <2>3, <3>5, <4>1, <4>2 DEF FuseInv
    <3> QED
      BY <3>6, <3>7
  <2>6. CASE call[p].kind = "release"
    <3>1. PICK h \in Handles : call[p].h = h /\ kstate[h] = "releasing"
      BY <1>1, <2>6 DEF CallPoint
    <3>2. ReleaseAnswered(h)
      BY <2>1, <2>6, <3>1 DEF Answer
    <3>3. /\ \A g \in Handles : g # h => kstate'[g] = kstate[g]
          /\ kstate'[h] = "released" /\ fh' = fh /\ own' = own
      BY <1>1, <3>2 DEF ReleaseAnswered, KernelTypeOK
    <3>4. \A q \in Procs :
            q # p /\ call[q].kind \in {"open", "release"} => call[q].h \in Handles \ {h}
      BY <2>6, <3>1 DEF FuseInv, OneCall, CallPoint
    <3>5. ASSUME NEW q \in Procs, q # p PROVE CallPoint(q)'
      BY <1>3, <2>4, <3>3, <3>4, <3>5, CallKept DEF Moves
    <3>6. KernelTypeOK'
      BY <1>1, <2>2, <3>2 DEF ReleaseAnswered, KernelTypeOK, Idle
    <3>7. OwnsFile(h)
      BY <3>1 DEF FuseInv
    <3>8. PICK f \in Files : own[h] = f
      BY <3>7 DEF OwnsFile
    <3>9. Shut(f)' /\ OwnsFile(h)'
      <4>1. ClosePoint(p, h)
        BY <1>1, <2>6, <3>1 DEF CallPoint
      <4> QED
        BY <1>1, <1>2, <1>3, <1>5, <3>3, <3>7, <3>8, <4>1, CloseProgress, StaysOwned
    <3>10. Shut(own[h])'
      BY <3>3, <3>8, <3>9, SMT, Z3T(30)
    <3>11. \A g \in Handles :
             /\ kstate'[g] \in {"open", "releasing", "released"} => OwnsFile(g)'
             /\ kstate'[g] = "released" => Shut(own[g])'
      BY <1>3, <3>3, <3>9, <3>10, HandleKept
    <3> QED
      BY <1>3, <2>3, <3>5, <3>6, <3>11, SMT, Z3T(30) DEF FuseInv
  <2>7. CASE call[p].kind \notin {"open", "release"}
    <3>1. UNCHANGED <<kstate, fh, own>>
      BY <2>1, <2>7 DEF Answer, FlushAnswered
    <3>2. KernelTypeOK'
      BY <1>1, <2>2, <3>1 DEF KernelTypeOK, Idle
    <3>3. ASSUME NEW q \in Procs, q # p PROVE CallPoint(q)'
      BY <1>3, <2>4, <3>1, <3>3, CallKept DEF Moves
    <3>4. \A g \in Handles :
            /\ kstate'[g] \in {"open", "releasing", "released"} => OwnsFile(g)'
            /\ kstate'[g] = "released" => Shut(own[g])'
      BY <1>3, <3>1, HandleKept
    <3> QED
      BY <1>3, <2>3, <3>2, <3>3, <3>4 DEF FuseInv
  <2> QED
    BY <2>5, <2>6, <2>7
<1> QED
  BY <1>4, <1>5

\* The invariant of the mount holds before the first request of the kernel.
LEMMA FuseInitInv == FuseInit => FuseInv
<1> SUFFICES ASSUME FuseInit PROVE FuseInv
  OBVIOUS
<1>1. IndInv
  BY InitInv DEF FuseInit
<1>2. KernelTypeOK /\ OneCall
  BY DEF FuseInit, KernelTypeOK, OneCall, Idle
<1>3. LocalsAgree
  BY ProcsAssumption DEF FuseInit, Init, LocalsAgree, Threads
<1> QED
  BY <1>1, <1>2, <1>3 DEF FuseInv, FuseInit, CallPoint, Idle

\* Every step of the kernel and of the satellite keeps the invariant of the mount.
LEMMA FuseNextInv == FuseInv /\ [FuseNext]_allVars => FuseInv'
<1> SUFFICES ASSUME FuseInv, [FuseNext]_allVars PROVE FuseInv'
  OBVIOUS
<1>1. IndInv'
  BY Simulates, NextInv DEF FuseInv
<1>2. CASE \E p \in Procs, h \in Handles : KernelStep(p, h)
  BY <1>1, <1>2, KernelInv
<1>3. CASE \E h \in Handles : Dup(h)
  <2>1. UNCHANGED vars /\ UNCHANGED <<kstate, fh, own, call>>
    BY <1>3 DEF Dup
  <2> QED
    BY <1>1, <2>1, BackgroundInv
<1>4. CASE \E p \in Procs : HandlerStep(p)
  BY <1>1, <1>4, HandlerInv
<1>5. CASE \E p \in Procs : MapThrow(p) /\ UNCHANGED kernelVars
  BY <1>1, <1>5, BackgroundInv DEF kernelVars
<1>6. CASE \E f \in Files : Finalize(f) /\ UNCHANGED kernelVars
  BY <1>1, <1>6, BackgroundInv DEF kernelVars
<1>7. CASE UNCHANGED allVars
  BY <1>1, <1>7, BackgroundInv DEF allVars, kernelVars
<1> QED
  BY <1>2, <1>3, <1>4, <1>5, <1>6, <1>7 DEF FuseNext

-------------------------------------------------------------------------------
(* References                                                               *)

\* A handler is busy exactly while it serves a call of the kernel on a handle.
Serves ==
  \A p \in Procs : /\ pc[p] = "idle" <=> call[p] = Idle
                   /\ call[p] # Idle => call[p].h \in Handles

\* A FLUSH is for a handle that is open, and no handle has more of them under way than
\* references.
RefInv ==
  /\ refs \in [Handles -> 0 .. MaxRefs]
  /\ Serves
  /\ \A h \in Handles : Calls(h, "flush") # {} => kstate[h] = "open"
  /\ \A h \in Handles : Cardinality(Calls(h, "flush")) <= refs[h]

\* The calls of a handle are finitely many.
LEMMA CallsFinite ==
  ASSUME NEW h, NEW k
  PROVE  /\ IsFiniteSet(Calls(h, k)) /\ Cardinality(Calls(h, k)) \in Nat
         /\ Cardinality(Calls(h, k)) = 0 <=> Calls(h, k) = {}
<1>1. Calls(h, k) \in SUBSET Procs
  BY DEF Calls
<1>2. IsFiniteSet(Calls(h, k))
  BY <1>1, HandlesAssumption, FS_Subset
<1> QED
  BY <1>2, FS_CardinalityType, FS_EmptySet

\* A step that starts and ends no FLUSH.
LEMMA RefsKept ==
  ASSUME FuseInv, RefInv, refs' \in [Handles -> 0 .. MaxRefs],
         Serves',
         \A h \in Handles : /\ Calls(h, "flush")' = Calls(h, "flush")
                            /\ Calls(h, "flush") # {} => kstate'[h] = "open" /\ refs'[h] >= refs[h]
  PROVE  RefInv'
<1> SUFFICES ASSUME NEW h \in Handles
             PROVE  /\ Calls(h, "flush")' # {} => kstate'[h] = "open"
                    /\ Cardinality(Calls(h, "flush"))' <= refs'[h]
  BY DEF RefInv
<1>1. /\ Cardinality(Calls(h, "flush")) \in Nat
      /\ Cardinality(Calls(h, "flush")) = 0 <=> Calls(h, "flush") = {}
  BY CallsFinite
<1>2. Cardinality(Calls(h, "flush"))' = Cardinality(Calls(h, "flush"))
  OBVIOUS
<1>3. refs[h] \in Nat /\ refs'[h] \in Nat /\ Cardinality(Calls(h, "flush")) <= refs[h]
  BY HandlesAssumption, SMT, Z3T(30) DEF RefInv
<1> QED
  BY <1>1, <1>2, <1>3, SMT, Z3T(30)

\* A step of the kernel (an Open, an operation, a FLUSH, a RELEASE, a reference more)
\* keeps the FLUSHes under way within the references.
LEMMA KernelRefs ==
  ASSUME FuseInv, RefInv, NEW p \in Procs, NEW h \in Handles, KernelStep(p, h)
  PROVE  RefInv'
<1> USE HandlesAssumption, UseOpsAssumption
<1> DEFINE Kinds == {"open", "flush", "release"} \cup UseOps
           Does(o, n, k) ==
             /\ Request(p, o, n)
             /\ call' = [call EXCEPT ![p] = [kind |-> k, h |-> h]]
             /\ refs' = refs
             /\ \/ k = "open" /\ kstate[h] \in {"none", "released"}
                \/ k = "flush" /\ InHand(h) /\ kstate' = kstate
                \/ k = "release" /\ refs[h] = 0
                \/ k \in UseOps /\ kstate' = kstate
             /\ \A g \in Handles \ {h} : kstate'[g] = kstate[g]
<1>0. \E k \in Kinds : \E o, n : Does(o, n, k)
  <2>0. kstate \in [Handles -> {"none", "opening", "open", "releasing", "released"}]
    BY DEF FuseInv, KernelTypeOK
  <2>1. CASE Open(p, h)
    <3>1. PICK n \in FDs : Call(p, "open", h, "open", n)
      BY <2>1 DEF Open
    <3>2. Does("open", n, "open")
      BY <2>0, <2>1, <3>1 DEF Open, Call
    <3> HIDE DEF Does
    <3> QED
      BY <3>2
  <2>2. CASE Flush(p, h)
    <3>1. Does("close", fh[h], "flush")
      BY <2>2 DEF Flush, Call
    <3> HIDE DEF Does
    <3> QED
      BY <3>1
  <2>3. CASE Release(p, h)
    <3>1. Does("close", fh[h], "release")
      BY <2>0, <2>3 DEF Release, Call
    <3> HIDE DEF Does
    <3> QED
      BY <3>1
  <2>4. CASE \E o \in UseOps : Use(p, h, o)
    <3>1. PICK o \in UseOps : Use(p, h, o)
      BY <2>4
    <3>2. Does(o, fh[h], o)
      BY <3>1 DEF Use, Call
    <3> HIDE DEF Does
    <3> QED
      BY <3>2
  <2> QED
    BY <2>1, <2>2, <2>3, <2>4 DEF KernelStep
<1>1. PICK o, n, k : k \in Kinds /\ Does(o, n, k)
  BY <1>0
<1>2. /\ pc[p] = "idle" /\ pc'[p] # "idle"
      /\ \A q \in Procs \ {p} : pc'[q] = pc[q]
  <2>1. Request(p, o, n)
    BY <1>1
  <2>2. pc \in [Threads -> HandlerPoints \cup ShutdownPoints] /\ p \in Threads
    BY DEF FuseInv, IndInv, TypeOK, Threads
  <2> QED
    BY <2>1, <2>2 DEF Request, Goto, Threads
<1>3. /\ call'[p] = [kind |-> k, h |-> h] /\ call[p] = Idle
      /\ \A q \in Procs \ {p} : call'[q] = call[q]
  BY <1>1, <1>2, SMT, Z3T(30) DEF FuseInv, KernelTypeOK, RefInv, Serves
<1>4. Serves'
  BY <1>2, <1>3, SMT, Z3T(30) DEF RefInv, Serves, Idle
<1>5. \A g \in Handles :
        Calls(g, "flush")' = IF k = "flush" /\ g = h THEN Calls(g, "flush") \cup {p}
                                                     ELSE Calls(g, "flush")
  BY <1>3, SMT, Z3T(30) DEF Calls, Idle
<1>6. CASE k = "flush"
  <2>1. /\ kstate[h] = "open" /\ Cardinality(Calls(h, "flush")) < refs[h]
        /\ kstate' = kstate /\ refs' = refs
    BY <1>1, <1>6 DEF InHand
  <2>2. p \notin Calls(h, "flush")
    BY <1>3, SMT, Z3T(30) DEF Calls, Idle
  <2>3. Cardinality(Calls(h, "flush") \cup {p}) = Cardinality(Calls(h, "flush")) + 1
    BY <2>2, CallsFinite, FS_AddElement
  <2>4. Cardinality(Calls(h, "flush")) \in Nat /\ refs[h] \in Nat
    BY CallsFinite, SMT, Z3T(30) DEF RefInv
  <2>5. Calls(h, "flush")' = Calls(h, "flush") \cup {p}
    BY <1>5, <1>6
  <2>6. Cardinality(Calls(h, "flush")') <= refs'[h]
    BY <2>1, <2>3, <2>4, <2>5, SMT, Z3T(30)
  <2> QED
    BY <1>4, <1>5, <1>6, <2>1, <2>6 DEF RefInv
<1>7. CASE k # "flush"
  <2>1. Calls(h, "flush") # {} => kstate'[h] = "open"
    BY <1>1, <1>7, CallsFinite, SMT, Z3T(30) DEF RefInv
  <2>2. \A g \in Handles : Calls(g, "flush") # {} => kstate'[g] = "open" /\ refs'[g] >= refs[g]
    BY <1>1, <2>1, SMT, Z3T(30) DEF RefInv
  <2>3. refs' \in [Handles -> 0 .. MaxRefs]
    BY <1>1 DEF RefInv
  <2> QED
    BY <1>4, <1>5, <1>7, <2>2, <2>3, RefsKept
<1> QED
  BY <1>6, <1>7

\* A step of a handler, and the answer it ends with, keeps the FLUSHes under way within
\* the references.
LEMMA HandlerRefs ==
  ASSUME FuseInv, RefInv, NEW p \in Procs, HandlerStep(p)
  PROVE  RefInv'
<1> USE HandlesAssumption, UseOpsAssumption
<1>1. IndInv /\ KernelTypeOK /\ CallPoint(p)
  BY DEF FuseInv
<1>2. Moves(p)
  BY <1>1, HandlerFrame DEF HandlerStep
<1>3. pc[p] # "idle"
  BY DEF HandlerStep, Handler, BeginDelete, OpenCall, OpenFails, OpenLookup,
     OpenCloseStale, OpenBeginStore, OpenEndStore, OpenStat, Find, CloseCall, CloseEndDelete,
     UseCall, UseReturn, ShortRead, EarlyPoints
<1>4. CASE pc'[p] # "idle"
  <2>1. UNCHANGED kernelVars
    BY <1>4 DEF HandlerStep
  <2>2. Serves'
    BY <1>2, <1>3, <1>4, <2>1, SMT, Z3T(30) DEF kernelVars, RefInv, Serves, Moves
  <2>3. \A h : Calls(h, "flush")' = Calls(h, "flush")
    BY <2>1 DEF Calls, kernelVars
  <2>4. \A h \in Handles : Calls(h, "flush") # {} => kstate'[h] = "open" /\ refs'[h] >= refs[h]
    BY <2>1, SMT, Z3T(30) DEF kernelVars, RefInv
  <2>5. refs' \in [Handles -> 0 .. MaxRefs]
    BY <2>1 DEF kernelVars, RefInv
  <2> QED
    BY <2>2, <2>3, <2>4, <2>5, RefsKept
<1>5. CASE pc'[p] = "idle"
  <2>1. Answer(p)
    BY <1>5 DEF HandlerStep
  <2>2. call' = [call EXCEPT ![p] = Idle]
    BY <2>1 DEF Answer
  <2>3. call'[p] = Idle /\ \A q \in Procs \ {p} : call'[q] = call[q]
    BY <1>1, <2>2 DEF KernelTypeOK
  <2>4. Serves'
    BY <1>2, <1>5, <2>3, SMT, Z3T(30) DEF RefInv, Serves, Moves
  <2>5. \A h : Calls(h, "flush")' = Calls(h, "flush") \ {p}
    BY <2>3, SMT, Z3T(30) DEF Calls, Idle
  <2>6. CASE call[p].kind = "flush"
    <3>1. FlushAnswered(call[p].h)
      BY <2>1, <2>6 DEF Answer
    <3>2. call[p] = [kind |-> "flush", h |-> call[p].h]
      BY <1>1, <2>6 DEF KernelTypeOK
    <3>3. PICK h \in Handles : call[p] = [kind |-> "flush", h |-> h]
      <4>1. call[p].h \in Handles
        <5>1. call[p] # Idle
          BY <2>6, SMT, Z3T(30) DEF Idle
        <5> QED
          BY <5>1 DEF RefInv, Serves
      <4> QED
        BY <3>2, <4>1
    <3>4. /\ kstate' = kstate /\ refs' = [refs EXCEPT ![h] = @ - 1]
      BY <3>1, <3>3, SMT, Z3T(30) DEF FlushAnswered
    <3>5. p \in Calls(h, "flush") /\ \A g \in Handles \ {h} : p \notin Calls(g, "flush")
      BY <3>3, SMT, Z3T(30) DEF Calls
    <3>6. Cardinality(Calls(h, "flush") \ {p}) = Cardinality(Calls(h, "flush")) - 1
      BY <3>5, CallsFinite, FS_RemoveElement
    <3>7. Cardinality(Calls(h, "flush")) \in Nat \ {0} /\ refs[h] \in 0 .. MaxRefs
      BY <3>5, CallsFinite DEF RefInv
    <3>8. Cardinality(Calls(h, "flush")) <= refs[h]
      BY DEF RefInv
    <3>9. refs' \in [Handles -> 0 .. MaxRefs] /\ Cardinality(Calls(h, "flush")') <= refs'[h]
      <4>1. refs[h] - 1 \in 0 .. MaxRefs
        BY <3>7, <3>8, SMT, Z3T(30)
      <4>2. refs'[h] = refs[h] - 1
        BY <3>4 DEF RefInv
      <4>3. Cardinality(Calls(h, "flush")') = Cardinality(Calls(h, "flush")) - 1
        BY <2>5, <3>6
      <4> QED
        BY <3>4, <3>7, <3>8, <4>1, <4>2, <4>3, SMT, Z3T(30) DEF RefInv
    <3>10. \A g \in Handles \ {h} : Calls(g, "flush")' = Calls(g, "flush") /\ refs'[g] = refs[g]
      BY <2>5, <3>4, <3>5, SMT, Z3T(30) DEF RefInv
    <3>11. \A g \in Handles : Calls(g, "flush")' # {} => kstate'[g] = "open"
      BY <2>5, <3>4, SMT, Z3T(30) DEF RefInv
    <3>12. ASSUME NEW g \in Handles
           PROVE  Cardinality(Calls(g, "flush")') <= refs'[g]
      BY <3>9, <3>10 DEF RefInv
    <3> QED
      BY <2>4, <3>9, <3>11, <3>12 DEF RefInv
  <2>7. CASE call[p].kind # "flush"
    <3>1. \A h : Calls(h, "flush")' = Calls(h, "flush")
      BY <2>5, <2>7, SMT, Z3T(30) DEF Calls
    <3>2. /\ refs' \in [Handles -> 0 .. MaxRefs]
          /\ \A h \in Handles : Calls(h, "flush") # {} => kstate'[h] = "open" /\ refs'[h] >= refs[h]
      <4>1. CASE call[p].kind = "open"
        <5>1. PICK h \in Handles : call[p].h = h /\ kstate[h] = "opening"
          BY <1>1, <4>1 DEF CallPoint
        <5>2. OpenAnswered(p, h)
          BY <2>1, <4>1, <5>1 DEF Answer
        <5>3. Calls(h, "flush") = {}
          BY <5>1 DEF RefInv
        <5>4. \A g \in Handles \ {h} : kstate'[g] = kstate[g] /\ refs'[g] = refs[g]
          BY <1>1, <5>2 DEF OpenAnswered, KernelTypeOK, RefInv
        <5>5. refs' \in [Handles -> 0 .. MaxRefs]
          BY <5>2, SMT, Z3T(30) DEF OpenAnswered, RefInv
        <5> QED
          BY <5>3, <5>4, <5>5, SMT, Z3T(30) DEF RefInv
      <4>2. CASE call[p].kind = "release"
        <5>1. PICK h \in Handles : call[p].h = h /\ kstate[h] = "releasing"
          BY <1>1, <4>2 DEF CallPoint
        <5>2. ReleaseAnswered(h)
          BY <2>1, <4>2, <5>1 DEF Answer
        <5>3. Calls(h, "flush") = {}
          BY <5>1 DEF RefInv
        <5>4. \A g \in Handles \ {h} : kstate'[g] = kstate[g]
          BY <1>1, <5>2 DEF ReleaseAnswered, KernelTypeOK
        <5> QED
          BY <5>2, <5>3, <5>4, SMT, Z3T(30) DEF ReleaseAnswered, RefInv
      <4>3. CASE call[p].kind \notin {"open", "release"}
        BY <2>1, <2>7, <4>3, SMT, Z3T(30) DEF Answer, RefInv
      <4> QED
        BY <4>1, <4>2, <4>3
    <3> QED
      BY <2>4, <3>1, <3>2, RefsKept
  <2> QED
    BY <2>6, <2>7
<1> QED
  BY <1>4, <1>5

\* Every step keeps the FLUSHes under way within the references.
LEMMA NextRefs == FuseInv /\ RefInv /\ [FuseNext]_allVars => RefInv'
<1> SUFFICES ASSUME FuseInv, RefInv, [FuseNext]_allVars PROVE RefInv'
  OBVIOUS
<1> USE HandlesAssumption
<1>1. ASSUME UNCHANGED <<handlerVars, kstate, call>>, refs' \in [Handles -> 0 .. MaxRefs],
             \A h \in Handles : refs'[h] >= refs[h]
      PROVE  RefInv'
  <2>1. Serves'
    BY <1>1 DEF handlerVars, RefInv, Serves
  <2>2. \A h \in Handles : /\ Calls(h, "flush")' = Calls(h, "flush")
                           /\ Calls(h, "flush") # {} => kstate'[h] = "open"
    BY <1>1 DEF Calls, RefInv
  <2> QED
    BY <1>1, <2>1, <2>2, RefsKept
<1>2. refs \in [Handles -> 0 .. MaxRefs] /\ \A h \in Handles : refs[h] >= refs[h]
  BY SMT, Z3T(30) DEF RefInv
<1>3. CASE \E h \in Handles : Dup(h)
  <2>1. PICK h \in Handles : Dup(h)
    BY <1>3
  <2>2. refs' \in [Handles -> 0 .. MaxRefs] /\ \A g \in Handles : refs'[g] >= refs[g]
    BY <1>2, <2>1, SMT, Z3T(30) DEF Dup
  <2>3. UNCHANGED <<handlerVars, kstate, call>>
    BY <2>1 DEF Dup, vars, handlerVars
  <2> QED
    BY <1>1, <2>2, <2>3
<1>4. CASE \E p \in Procs : MapThrow(p) /\ UNCHANGED kernelVars
  <2>1. UNCHANGED <<handlerVars, kstate, call>> /\ refs' = refs
    BY <1>4 DEF MapThrow, kernelVars
  <2> QED
    BY <1>1, <1>2, <2>1
<1>5. CASE \E f \in Files : Finalize(f) /\ UNCHANGED kernelVars
  <2>1. UNCHANGED <<handlerVars, kstate, call>> /\ refs' = refs
    BY <1>5 DEF Finalize, kernelVars
  <2> QED
    BY <1>1, <1>2, <2>1
<1>6. CASE UNCHANGED allVars
  <2>1. UNCHANGED <<handlerVars, kstate, call>> /\ refs' = refs
    BY <1>6 DEF allVars, vars, kernelVars, handlerVars
  <2> QED
    BY <1>1, <1>2, <2>1
<1> QED
  BY <1>3, <1>4, <1>5, <1>6, KernelRefs, HandlerRefs DEF FuseNext

\* No FLUSH is under way before the first request.
LEMMA InitRefs == FuseInit => RefInv
<1> SUFFICES ASSUME FuseInit PROVE RefInv
  OBVIOUS
<1>1. \A h : Calls(h, "flush") = {}
  BY DEF FuseInit, Calls, Idle
<1>2. \A p \in Procs : pc[p] = "idle" /\ call[p] = Idle
  BY ProcsAssumption DEF FuseInit, Init, Threads
<1> QED
  BY <1>1, <1>2, HandlesAssumption, FS_EmptySet, SMT, Z3T(30) DEF FuseInit, RefInv, Serves

-------------------------------------------------------------------------------
(* Flush                                                                    *)

\* Where the handlers of Flush are.
FlushInv == \A p \in Procs : call[p].kind = "flush" => ClosePoint(p, call[p].h)

\* The handle of a FLUSH under way is open and has its File.
LEMMA FlushOwns ==
  ASSUME FuseInv, RefInv, NEW p \in Procs, call[p].kind = "flush"
  PROVE  /\ call[p].h \in Handles /\ OwnsFile(call[p].h)
         /\ kstate[call[p].h] = "open"
<1>1. call[p] = [kind |-> "flush", h |-> call[p].h]
  BY DEF FuseInv, KernelTypeOK
<1>2. call[p] # Idle
  BY SMT, Z3T(30) DEF Idle
<1>3. call[p].h \in Handles
  BY <1>2 DEF RefInv, Serves
<1>4. p \in Calls(call[p].h, "flush")
  BY <1>1 DEF Calls
<1>5. kstate[call[p].h] = "open"
  BY <1>3, <1>4 DEF RefInv
<1> QED
  BY <1>3, <1>5 DEF FuseInv

\* A call of the kernel moves only its handler, and a FLUSH starts Close with the number of
\* its handle.
LEMMA KernelFrame ==
  ASSUME FuseInv, NEW p \in Procs, NEW h \in Handles, KernelStep(p, h)
  PROVE  /\ Frame /\ Moves(p) /\ fh' = fh /\ own' = own
         /\ \A q \in Procs \ {p} : call'[q] = call[q]
         /\ call'[p] # Idle
         /\ call'[p].kind = "flush" => call'[p].h = h /\ ClosePoint(p, h)'
<1> USE HandlesAssumption, UseOpsAssumption
<1> DEFINE Does(o, n, k) ==
             /\ Request(p, o, n)
             /\ call' = [call EXCEPT ![p] = [kind |-> k, h |-> h]]
             /\ fh' = fh /\ own' = own
             /\ k = "flush" => o = "close" /\ n = fh[h]
<1>0. \E k \in {"open", "flush", "release"} \cup UseOps : \E o, n : Does(o, n, k)
  <2>1. CASE Open(p, h)
    <3>1. PICK n \in FDs : Call(p, "open", h, "open", n)
      BY <2>1 DEF Open
    <3>2. Does("open", n, "open")
      BY <3>1 DEF Call
    <3> HIDE DEF Does
    <3> QED
      BY <3>2
  <2>2. CASE Flush(p, h)
    <3>1. Does("close", fh[h], "flush")
      BY <2>2 DEF Flush, Call
    <3> HIDE DEF Does
    <3> QED
      BY <3>1
  <2>3. CASE Release(p, h)
    <3>1. Does("close", fh[h], "release")
      BY <2>3 DEF Release, Call
    <3> HIDE DEF Does
    <3> QED
      BY <3>1
  <2>4. CASE \E o \in UseOps : Use(p, h, o)
    <3>1. PICK o \in UseOps : Use(p, h, o)
      BY <2>4
    <3>2. Does(o, fh[h], o)
      BY <3>1 DEF Use, Call
    <3> HIDE DEF Does
    <3> QED
      BY <3>2
  <2> QED
    BY <2>1, <2>2, <2>3, <2>4 DEF KernelStep
<1>1. PICK o, n, k : k \in {"open", "flush", "release"} \cup UseOps /\ Does(o, n, k)
  BY <1>0
<1>2. /\ UNCHANGED <<fileVars, fds, loc>>
      /\ pc[p] = "idle" /\ pc' = [pc EXCEPT ![p] = IF o = "open" THEN "open" ELSE "find"]
      /\ op' = [op EXCEPT ![p] = o]
      /\ key' = [key EXCEPT ![p] = IF o = "open" THEN 0 ELSE n]
      /\ Moves(p)
  BY <1>1 DEF Request, Goto, Moves, FuseInv, IndInv, TypeOK, Threads
<1>3. Frame
  BY <1>2 DEF Frame, fileVars, EarlyPoints, FuseInv, IndInv, TypeOK, Threads
<1>4. call'[p] = [kind |-> k, h |-> h] /\ \A q \in Procs \ {p} : call'[q] = call[q]
  BY <1>1 DEF FuseInv, KernelTypeOK
<1>5. call'[p] # Idle
  BY <1>4, SMT, Z3T(30) DEF Idle
<1>6. ASSUME k = "flush" PROVE ClosePoint(p, h)'
  <2>1. pc'[p] = "find" /\ op'[p] = "close" /\ key'[p] = fh'[h]
    BY <1>1, <1>2, <1>6 DEF FuseInv, IndInv, TypeOK, Threads
  <2> QED
    BY <2>1 DEF ClosePoint
<1>7. call'[p].kind = k /\ call'[p].h = h
  BY <1>4, SMT, Z3T(30)
<1>8. fh' = fh /\ own' = own
  BY <1>1
<1> HIDE DEF Does
<1> QED
  BY <1>2, <1>3, <1>4, <1>5, <1>6, <1>7, <1>8

\* An answer changes the number and the File of no handle that a FLUSH is under way for.
LEMMA AnswerFrame ==
  ASSUME FuseInv, NEW p \in Procs, HandlerStep(p)
  PROVE  /\ Frame /\ Moves(p)
         /\ \A q \in Procs \ {p} : call'[q] = call[q]
         /\ \A h \in Handles : kstate[h] = "open" => fh'[h] = fh[h] /\ own'[h] = own[h]
         /\ pc'[p] # "idle" => UNCHANGED kernelVars
         /\ pc'[p] = "idle" => call'[p] = Idle
<1>1. IndInv /\ KernelTypeOK /\ CallPoint(p)
  BY DEF FuseInv
<1>2. Frame /\ Moves(p)
  BY <1>1, HandlerFrame DEF HandlerStep
<1>3. CASE pc'[p] # "idle"
  <2>1. UNCHANGED kernelVars
    BY <1>3 DEF HandlerStep
  <2> QED
    BY <1>2, <1>3, <2>1 DEF kernelVars
<1>4. CASE pc'[p] = "idle"
  <2>1. Answer(p)
    BY <1>4 DEF HandlerStep
  <2>2. call'[p] = Idle /\ \A q \in Procs \ {p} : call'[q] = call[q]
    BY <1>1, <2>1 DEF Answer, KernelTypeOK
  <2>3. ASSUME NEW h \in Handles, kstate[h] = "open"
        PROVE  fh'[h] = fh[h] /\ own'[h] = own[h]
    <3>1. CASE call[p].kind = "open"
      <4>1. OpenAnswered(p, call[p].h)
        BY <2>1, <3>1, UseOpsAssumption DEF Answer
      <4>2. h # call[p].h
        <5>1. kstate[call[p].h] = "opening"
          BY <1>1, <3>1 DEF CallPoint
        <5> QED
          BY <2>3, <5>1
      <4> QED
        BY <1>1, <4>1, <4>2 DEF OpenAnswered, KernelTypeOK
    <3>2. CASE call[p].kind # "open"
      BY <2>1, <3>2 DEF Answer, FlushAnswered, ReleaseAnswered
    <3> QED
      BY <3>1, <3>2
  <2> QED
    BY <1>2, <1>4, <2>2, <2>3
<1> QED
  BY <1>3, <1>4

\* Every step keeps the handlers of Flush on their way to a File that is shut.
LEMMA FlushNext == FuseInv /\ RefInv /\ FlushInv /\ [FuseNext]_allVars => FlushInv'
<1> SUFFICES ASSUME FuseInv, RefInv, FlushInv, [FuseNext]_allVars,
                    NEW q \in Procs, call'[q].kind = "flush", NEW g, call'[q].h = g
             PROVE  ClosePoint(q, g)'
  BY DEF FlushInv, ClosePoint
<1>1. IndInv
  BY DEF FuseInv
<1>2. ASSUME Frame, call'[q] = call[q], pc'[q] = pc[q], op'[q] = op[q], key'[q] = key[q],
             loc'[q] = loc[q],
             \A h \in Handles : kstate[h] = "open" => fh'[h] = fh[h] /\ own'[h] = own[h]
      PROVE  ClosePoint(q, g)'
  <2>1. call[q].kind = "flush"
    BY <1>2
  <2>2. PICK h \in Handles : call[q].h = h /\ OwnsFile(h) /\ kstate[h] = "open"
    BY <2>1, FlushOwns
  <2>3. ClosePoint(q, h)
    BY <2>1, <2>2 DEF FlushInv
  <2>4. ClosePoint(q, h)'
    BY <1>1, <1>2, <2>2, <2>3, CloseKept
  <2> QED
    BY <1>2, <2>2, <2>4
<1>3. CASE \E p \in Procs, h \in Handles : KernelStep(p, h)
  <2>1. PICK p \in Procs, h \in Handles : KernelStep(p, h)
    BY <1>3
  <2>2. CASE q = p
    BY <2>1, <2>2, KernelFrame
  <2>3. CASE q # p
    BY <1>2, <2>1, <2>3, KernelFrame DEF Moves
  <2> QED
    BY <2>2, <2>3
<1>4. CASE \E p \in Procs : HandlerStep(p)
  <2>1. PICK p \in Procs : HandlerStep(p)
    BY <1>4
  <2>2. CASE q # p
    BY <1>2, <2>1, <2>2, AnswerFrame DEF Moves
  <2>3. CASE q = p
    <3>1. pc'[p] # "idle" /\ UNCHANGED kernelVars /\ Frame
      <4>1. call'[p] # Idle
        BY <2>3, SMT, Z3T(30) DEF Idle
      <4> QED
        BY <2>1, <4>1, AnswerFrame
    <3>2. call' = call /\ fh' = fh /\ own' = own
      BY <3>1 DEF kernelVars
    <3>3. PICK h \in Handles : call[p].h = h /\ OwnsFile(h)
      BY <2>3, <3>2, FlushOwns
    <3>4. ClosePoint(p, h)
      BY <2>3, <3>2, <3>3 DEF FlushInv
    <3>5. ClosePoint(p, h)'
      BY <1>1, <2>1, <3>1, <3>2, <3>3, <3>4, CloseMoves DEF HandlerStep
    <3> QED
      BY <2>3, <3>2, <3>3, <3>5
  <2> QED
    BY <2>2, <2>3
<1>5. ASSUME UNCHANGED <<fh, own, call>>,
             \/ UNCHANGED vars
             \/ \E p \in Procs : MapThrow(p)
             \/ \E f \in Files : Finalize(f)
      PROVE  ClosePoint(q, g)'
  BY <1>2, <1>5, BackgroundFrame DEF handlerVars
<1>6. CASE \E h \in Handles : Dup(h)
  BY <1>5, <1>6 DEF Dup
<1>7. CASE \E p \in Procs : MapThrow(p) /\ UNCHANGED kernelVars
  BY <1>5, <1>7 DEF kernelVars
<1>8. CASE \E f \in Files : Finalize(f) /\ UNCHANGED kernelVars
  BY <1>5, <1>8 DEF kernelVars
<1>9. CASE UNCHANGED allVars
  BY <1>5, <1>9 DEF allVars, kernelVars
<1> QED
  BY <1>3, <1>4, <1>6, <1>7, <1>8, <1>9 DEF FuseNext

\* A FLUSH is answered by the return of its handler, which leaves the File shut.
LEMMA FlushEnds ==
  ASSUME FuseInv, RefInv, FlushInv, [FuseNext]_allVars,
         NEW q \in Procs, call[q].kind = "flush", call'[q] = Idle,
         NEW n \in FDs, fds'[n] = own[call[q].h]
  PROVE  fstate'[own[call[q].h]] = "closed"
<1>1. call'[q] # call[q]
  BY SMT, Z3T(30) DEF Idle
<1>2. CASE \E p \in Procs, h \in Handles : KernelStep(p, h)
  BY <1>1, <1>2, KernelFrame
<1>3. CASE \E p \in Procs : HandlerStep(p)
  <2>1. PICK p \in Procs : HandlerStep(p)
    BY <1>3
  <2>2. p = q /\ Frame
    BY <1>1, <2>1, AnswerFrame
  <2>3. pc'[q] = "idle"
    BY <1>1, <2>1, <2>2, AnswerFrame DEF kernelVars
  <2>4. PICK h \in Handles : call[q].h = h /\ OwnsFile(h)
    BY FlushOwns
  <2>5. PICK f \in Files : own[h] = f
    BY <2>4 DEF OwnsFile
  <2>6. ClosePoint(q, h)
    BY <2>4 DEF FlushInv
  <2>7. Shut(f)'
    BY <2>1, <2>2, <2>3, <2>4, <2>5, <2>6, CloseProgress DEF HandlerStep, FuseInv
  <2> QED
    BY <2>4, <2>5, <2>7 DEF Shut, Absent
<1>4. CASE UNCHANGED call
  BY <1>1, <1>4
<1> QED
  BY <1>2, <1>3, <1>4 DEF FuseNext, Dup, kernelVars, allVars

-------------------------------------------------------------------------------
(* The theorems                                                             *)

\* Whatever the kernel and the Node methods do with the satellite is something a
\* client may do: the mount implements Spec, and everything proved of it holds.
THEOREM MountImplementsSatellite == FuseSpec => Spec
<1>1. FuseInit => Init
  BY DEF FuseInit
<1>2. FuseInv /\ [FuseNext]_allVars => [Next]_vars
  BY Simulates
<1> QED
  BY <1>1, <1>2, FuseInitInv, FuseNextInv, PTL DEF FuseSpec, Spec

\* With any number of applications, references and racing handlers, a handle that
\* Node.Release has closed leads no later request to an open File.
THEOREM ReleasedHandlesShut == FuseSpec => []ReleasedIsShut
<1>1. FuseInv => ReleasedIsShut
  BY DEF FuseInv, ReleasedIsShut, Shut, Absent
<1> QED
  BY <1>1, FuseInitInv, FuseNextInv, PTL DEF FuseSpec

\* With any number of applications, references and racing handlers, an answered close() of
\* a reference has closed the handle's File: Node.Flush keeps what its comment promises.
THEOREM FlushedHandlesShut == FuseSpec => FlushShuts
<1>1. FuseInit => FlushInv
  <2>1. Idle.kind # "flush"
    BY SMT, Z3T(30) DEF Idle
  <2> QED
    BY <2>1 DEF FuseInit, FlushInv
<1>2. ASSUME FuseInv, RefInv, FlushInv, [FuseNext]_allVars
      PROVE  [\A p \in Procs : call[p].kind = "flush" /\ call'[p] = Idle =>
                \A n \in FDs : fds'[n] = own[call[p].h] =>
                  fstate'[own[call[p].h]] = "closed"]_allVars
  BY <1>2, FlushEnds
<1> QED
  BY <1>1, <1>2, FuseInitInv, FuseNextInv, InitRefs, NextRefs, FlushNext, PTL
     DEF FuseSpec, FlushShuts

\* Every reachable state of the mount is well typed: a handle the kernel has is the number
\* of a File that Node.Open or Node.Create opened for it, no close() drops a reference that
\* is not there, and every busy handler serves a call of the kernel.
THEOREM MountWellTyped == FuseSpec => []FuseTypeOK
<1>1. FuseInv /\ RefInv => FuseTypeOK
  <2> SUFFICES ASSUME FuseInv, RefInv PROVE FuseTypeOK
    OBVIOUS
  <2>1. TypeOK /\ KernelTypeOK
    BY DEF FuseInv, IndInv
  <2>2. ASSUME NEW p \in Procs
        PROVE  /\ call[p].kind \in {"none", "open", "flush", "release"} \cup UseOps
               /\ call[p].h \in Handles \cup {NoHandle}
    BY <2>1 DEF KernelTypeOK
  <2>3. \A p \in Procs : pc[p] = "idle" <=> call[p] = Idle
    BY DEF RefInv, Serves
  <2>4. \A h \in Handles :
          kstate[h] \in {"open", "releasing"} => own[h] \in Files /\ fh[h] = num[own[h]]
    BY DEF FuseInv, OwnsFile
  <2> QED
    BY <2>1, <2>2, <2>3, <2>4 DEF KernelTypeOK, RefInv, FuseTypeOK
<1> QED
  BY <1>1, InitRefs, FuseInitInv, FuseNextInv, NextRefs, PTL DEF FuseSpec
===============================================================================
