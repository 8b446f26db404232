------------------------------ MODULE OpenFlags ------------------------------
(***************************************************************************)
(* The open(2) flags on their way from the client to the satellite         *)
(* (pkg/rpccommon/utils.go).  The client turns the flags of its own        *)
(* operating system into system agnostic ones with SystemToSAFlags, the    *)
(* satellite turns those into its own with SAFlagsToSystem.                *)
(*                                                                         *)
(* A word of flags is the set of positions of its one bits: "x & F == F"   *)
(* is F \subseteq x, "|=" is union, and O_RDONLY is the empty word.        *)
(***************************************************************************)
EXTENDS Naturals

FlagNames == {"O_WRONLY", "O_RDWR", "O_APPEND", "O_ASYNC", "O_CREAT", "O_EXCL", "O_NOCTTY",
              "O_NONBLOCK", "O_SYNC", "O_TRUNC"}

\* The constants of utils.go, each one bit of a uint16.
SA == [O_WRONLY |-> {0}, O_RDWR |-> {1}, O_APPEND |-> {2}, O_ASYNC |-> {3}, O_CREAT |-> {4},
       O_EXCL |-> {5}, O_NOCTTY |-> {6}, O_NONBLOCK |-> {7}, O_SYNC |-> {8}, O_TRUNC |-> {9}]

\* The constants of package syscall.  Linux's O_SYNC contains its O_DSYNC.
Linux == [O_WRONLY |-> {0}, O_RDWR |-> {1}, O_APPEND |-> {10}, O_ASYNC |-> {13},
          O_CREAT |-> {6}, O_EXCL |-> {7}, O_NOCTTY |-> {8}, O_NONBLOCK |-> {11},
          O_SYNC |-> {12, 20}, O_TRUNC |-> {9}]
Darwin == [O_WRONLY |-> {0}, O_RDWR |-> {1}, O_APPEND |-> {3}, O_ASYNC |-> {6},
           O_CREAT |-> {9}, O_EXCL |-> {11}, O_NOCTTY |-> {17}, O_NONBLOCK |-> {2},
           O_SYNC |-> {7}, O_TRUNC |-> {10}]

\* The flags of table sys that the word x has.
Named(sys, x) == {f \in FlagNames : sys[f] \subseteq x}

\* The word that has exactly these flags, in the encoding of table sys.
Word(sys, flags) == UNION {sys[f] : f \in flags}

\* Mutant of SystemToSAFlags: no case for O_SYNC.
SystemToSAFlags_NoSync(sys, x) == Word(SA, Named(sys, x) \ {"O_SYNC"})

SystemToSAFlags(sys, x) == Word(SA, Named(sys, x))

SAFlagsToSystem(sys, y) == Word(sys, Named(SA, y))

\* Every flag of the table has a bit no other flag has.
Separable(sys) ==
  \A f \in FlagNames : \E b \in sys[f] : \A g \in FlagNames \ {f} : b \notin sys[g]

-------------------------------------------------------------------------------
(* An Open request and a Write that follows it                              *)

CONSTANT ExtraBits   \* bits of the client's words that are none of the flags above

ASSUME ExtraBitsAssumption == ExtraBits \subseteq Nat

VARIABLES
  client,  \* the flag table of the client's operating system
  flags,   \* the word Node.Open or Node.Create was called with
  wire,    \* OpenRequest.SAFlags
  opened,  \* the word os.OpenFile was called with
  phase,   \* "called", "sent", "opened", "written"
  result   \* what the application's write() returned: "none", "ok", "EIO"

flagVars == <<client, flags, wire, opened, phase, result>>

FlagsInit ==
  /\ client \in {Linux, Darwin}
  /\ flags \in SUBSET (Word(client, FlagNames) \cup ExtraBits)
  /\ wire = {} /\ opened = {}
  /\ phase = "called" /\ result = "none"

\* client.open and client.create build the request.
Send ==
  /\ phase = "called" /\ phase' = "sent"
  /\ wire' = SystemToSAFlags(client, flags)
  /\ UNCHANGED <<client, flags, opened, result>>

\* DockerFuseFSOps.Open opens the file; the satellite runs on Linux.
OpenRemote ==
  /\ phase = "sent" /\ phase' = "opened"
  /\ opened' = SAFlagsToSystem(Linux, wire)
  /\ UNCHANGED <<client, flags, wire, result>>

\* DockerFuseFSOps.Write on the file, opened for writing, when the operating system
\* accepts the data.  os.File.WriteAt refuses a File opened with O_APPEND; that error is no
\* errno, ErrnoToRPCErrorString makes it "unknown error: ..." and
\* RPCErrorStringTOErrno makes that EIO.
WriteRemote ==
  /\ phase = "opened" /\ phase' = "written"
  /\ Named(Linux, opened) \cap {"O_WRONLY", "O_RDWR"} # {}
  /\ result' = IF "O_APPEND" \in Named(Linux, opened) THEN "EIO" ELSE "ok"
  /\ UNCHANGED <<client, flags, wire, opened>>

FlagsNext == Send \/ OpenRemote \/ WriteRemote

FlagsSpec == FlagsInit /\ [][FlagsNext]_flagVars

-------------------------------------------------------------------------------
(* Properties                                                               *)

\* SystemToSAFlags then SAFlagsToSystem: the satellite opens the file with the flags the
\* application gave, whatever operating system it runs on, and with no stray bit.
FlagsPreserved ==
  phase \in {"opened", "written"} =>
    /\ Named(Linux, opened) = Named(client, flags)
    /\ opened \subseteq Word(Linux, FlagNames)

\* "Write writes data to an open file descriptor": a write to a file opened for
\* writing succeeds when the operating system accepts it.
WriteSucceeds == result # "EIO"
===============================================================================
