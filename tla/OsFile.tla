-------------------------------- MODULE OsFile --------------------------------
(***************************************************************************)
(* The satellite's view of Go's os.File and of the kernel descriptor table *)
(* of its process.  Neither is in this repository: the definitions say     *)
(* what server.go and server/filesystem.go rely on.                        *)
(*                                                                         *)
(* An os.File wraps one kernel descriptor number.  Close marks it closed,  *)
(* once, and gives the number back to the kernel as soon as no goroutine   *)
(* is inside a system call on the File; from then on the kernel may hand   *)
(* the same number to another OpenFile.  Every operation on a closed File  *)
(* fails with os.ErrClosed and never touches the number.                   *)
(***************************************************************************)
EXTENDS Integers, FiniteSets

CONSTANTS
  Files,   \* os.File objects; bounds how many OpenFile calls succeed
  FDs,     \* kernel descriptor numbers free for opened files
  NoFile   \* "no such entry": an absent map key, a free kernel number

ASSUME FilesAssumption == NoFile \notin Files
ASSUME FDsAssumption == FDs \subseteq Nat

VARIABLES
  fstate,  \* fstate[f]: "unused" before OpenFile returns it, "open", "closed"
  num,     \* num[f]: the descriptor number inside File f (0 while unused)
  ktab     \* ktab[n]: the File whose kernel descriptor is number n, or NoFile

fileVars == <<fstate, num, ktab>>

FileTypeOK ==
  /\ fstate \in [Files -> {"unused", "open", "closed"}]
  /\ num \in [Files -> FDs \cup {0}]
  /\ ktab \in [FDs -> Files \cup {NoFile}]

FileInit ==
  /\ fstate = [f \in Files |-> "unused"]
  /\ num = [f \in Files |-> 0]
  /\ ktab = [n \in FDs |-> NoFile]

\* The kernel gives a new descriptor the lowest free number.
LowestFree(n) ==
  /\ ktab[n] = NoFile
  /\ \A m \in FDs : ktab[m] = NoFile => n <= m

\* os.OpenFile succeeds: a new File f around the number n.
OpenFile(f, n) ==
  /\ fstate[f] = "unused"
  /\ LowestFree(n)
  /\ fstate' = [fstate EXCEPT ![f] = "open"]
  /\ num' = [num EXCEPT ![f] = n]
  /\ ktab' = [ktab EXCEPT ![n] = f]

\* File.Close: a no-op that reports os.ErrClosed on a closed File.  The number
\* is released here unless a system call on the File is in progress (busy).
CloseFile(f, busy) ==
  /\ fstate' = [fstate EXCEPT ![f] = "closed"]
  /\ ktab' = IF fstate[f] = "open" /\ ~busy THEN [ktab EXCEPT ![num[f]] = NoFile] ELSE ktab
  /\ num' = num

\* A system call on File f returns; the last one to return on a File that was
\* closed meanwhile releases the number.
EndSyscall(f, busy) ==
  /\ ktab' = IF fstate[f] = "closed" /\ ~busy THEN [ktab EXCEPT ![num[f]] = NoFile] ELSE ktab
  /\ UNCHANGED <<fstate, num>>
===============================================================================
