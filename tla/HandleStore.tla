----------------------------- MODULE HandleStore -----------------------------
(***************************************************************************)
(* What the satellite promises about handles, as the comments of Open,     *)
(* Close, Read, Write, Seek and Fsync state it: Open returns a handle that *)
(* is not in use and stores the File it opened under it; the operations on *)
(* a handle act on that File; Close ends the life of the handle.  Each     *)
(* call is one step here.                                                  *)
(*                                                                         *)
(* Satellite with one handler at a time implements this specification.     *)
(***************************************************************************)
EXTENDS Naturals

CONSTANTS Files, FDs, NoFile

VARIABLES
  table,   \* the File behind each handle, NoFile for a handle not in use
  used,    \* every File ever opened
  acting,  \* operations in progress: pairs of a handle and the File acted on
  up       \* FALSE once a shutdown or an exit may have interfered

storeVars == <<table, used, acting, up>>

StoreInit ==
  /\ table = [n \in FDs |-> NoFile]
  /\ used = {}
  /\ acting = {}
  /\ up = TRUE

OpenHandle(n, f) ==
  /\ up
  /\ table[n] = NoFile
  /\ f \notin used
  /\ table' = [table EXCEPT ![n] = f]
  /\ used' = used \cup {f}
  /\ UNCHANGED <<acting, up>>

CloseHandle(n) ==
  /\ up
  /\ table[n] # NoFile
  /\ table' = [table EXCEPT ![n] = NoFile]
  /\ UNCHANGED <<used, acting, up>>

BeginUse(n) ==
  /\ up
  /\ table[n] # NoFile
  /\ acting' = acting \cup {<<n, table[n]>>}
  /\ UNCHANGED <<table, used, up>>

EndUse(n) ==
  /\ up
  /\ table[n] # NoFile
  /\ acting' = acting \ {<<n, table[n]>>}
  /\ UNCHANGED <<table, used, up>>

GoDown ==
  /\ up
  /\ up' = FALSE
  /\ UNCHANGED <<table, used, acting>>

\* Nothing is promised any more.
IsDown == ~up /\ ~up'

StoreNext ==
  \/ \E n \in FDs, f \in Files : OpenHandle(n, f)
  \/ \E n \in FDs : CloseHandle(n) \/ BeginUse(n) \/ EndUse(n)
  \/ GoDown
  \/ IsDown

StoreSpec == StoreInit /\ [][StoreNext]_storeVars
===============================================================================
