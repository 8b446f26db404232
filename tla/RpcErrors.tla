------------------------------ MODULE RpcErrors ------------------------------
(***************************************************************************)
(* How the outcome of a call travels from a satellite handler to the       *)
(* kernel (pkg/rpccommon/utils.go, client.go).  net/rpc carries an error   *)
(* as a string only: ErrnoToRPCErrorString names the errno in it and       *)
(* RPCErrorStringTOErrno looks the name up on the client, which may run    *)
(* another operating system with other errno values.                       *)
(*                                                                         *)
(* An errno value is the symbol it is known by on its system, so two       *)
(* symbols with the same value are one.  "0" is success.                   *)
(***************************************************************************)

CONSTANT Errnos   \* the errno values system calls of the satellite return

\* The cases of ErrnoToSym.
Listed ==
  {"E2BIG", "EACCES", "EADDRINUSE", "EADDRNOTAVAIL", "EAFNOSUPPORT", "EAGAIN", "EALREADY",
   "EBADF", "EBADMSG", "EBUSY", "ECANCELED", "ECHILD", "ECONNABORTED", "ECONNREFUSED",
   "ECONNRESET", "EDEADLK", "EDESTADDRREQ", "EDOM", "EDQUOT", "EEXIST", "EFAULT", "EFBIG",
   "EHOSTDOWN", "EHOSTUNREACH", "EIDRM", "EILSEQ", "EINPROGRESS", "EINTR", "EINVAL", "EIO",
   "EISCONN", "EISDIR", "ELOOP", "EMFILE", "EMLINK", "EMSGSIZE", "EMULTIHOP",
   "ENAMETOOLONG", "ENETDOWN", "ENETRESET", "ENETUNREACH", "ENFILE", "ENOBUFS", "ENODATA",
   "ENODEV", "ENOENT", "ENOEXEC", "ENOLCK", "ENOLINK", "ENOMEM", "ENOMSG", "ENOPROTOOPT",
   "ENOSPC", "ENOSR", "ENOSTR", "ENOSYS", "ENOTBLK", "ENOTCONN", "ENOTDIR", "ENOTEMPTY",
   "ENOTRECOVERABLE", "ENOTSOCK", "ENOTSUP", "ENOTTY", "ENXIO", "EOVERFLOW", "EOWNERDEAD",
   "EPERM", "EPFNOSUPPORT", "EPIPE", "EPROTO", "EPROTONOSUPPORT", "EPROTOTYPE", "ERANGE",
   "EREMOTE", "EROFS", "ESHUTDOWN", "ESOCKTNOSUPPORT", "ESPIPE", "ESRCH", "ESTALE",
   "ETIME", "ETIMEDOUT", "ETOOMANYREFS", "ETXTBSY", "EUSERS", "EXDEV"}

ASSUME ErrnosAssumption == Errnos \cap {"0", "closed", "none"} = {}

Systems == {"linux", "darwin"}

\* The value of a symbol (package syscall): the symbols that share one.
Errno(sys, sym) ==
  IF sym = "EWOULDBLOCK" THEN "EAGAIN"
  ELSE IF sym = "EOPNOTSUPP" /\ sys = "linux" THEN "ENOTSUP"
  ELSE sym

\* Mutants: ErrnoToSym without its default, SymToErrno without the case EXDEV.
ErrnoToSym_NoDefault(e) == e

SymToErrno_NoEXDEV(sys, sym) == IF sym \in Listed \ {"EXDEV"} THEN sym ELSE "EIO"

ErrnoToSym(e) == IF e \in Listed THEN e ELSE "EIO"

SymToErrno(sys, sym) ==
  IF sym \in Listed \cup {"EOPNOTSUPP", "EWOULDBLOCK"} THEN Errno(sys, sym) ELSE "EIO"

-------------------------------------------------------------------------------
(* The errors a handler may meet: what os returns, by its Go type and cause.  *)
(* A PathError's cause is an errno except on a closed File.                   *)

GoErrors ==
  [type : {"PathError", "LinkError", "Errno"}, cause : Errnos]
    \cup [type : {"PathError"}, cause : {"closed"}]
    \cup [type : {"EOF", "other"}, cause : {"none"}]
Success == [type |-> "nil", cause |-> "none"]

\* The string on the wire: its form and, for "errno: SYM", the symbol.
Strings == [form : {"ok", "EOF", "unknown", "transport"}, sym : {""}]
             \cup [form : {"errno"}, sym : Listed]
Plain(form) == [form |-> form, sym |-> ""]

\* ErrnoToRPCErrorString, where it returns.
ErrnoToRPCErrorString(err) ==
  IF err.type \in {"PathError", "LinkError", "Errno"}
    THEN [form |-> "errno", sym |-> ErrnoToSym(err.cause)]
    ELSE Plain(IF err.type = "EOF" THEN "EOF" ELSE "unknown")

RPCErrorStringTOErrno(sys, str) ==
  IF str.form = "errno" THEN SymToErrno(sys, str.sym) ELSE "EIO"

VARIABLES
  sys,     \* the client's operating system
  op,      \* "read", or any other method
  err,     \* the error the handler meets, Success for none
  wire,    \* the answer; "none" before it is sent, "panic" if the satellite died
  got      \* the errno the Node method returned, "none" during the call

errVars == <<sys, op, err, wire, got>>

\* Before the first call.
ErrInit ==
  /\ sys \in Systems
  /\ op = "other" /\ err = Success /\ wire = Plain("ok") /\ got = "0"

\* A Node method calls; err is what the handler is going to meet.
Request ==
  /\ got # "none"
  /\ op' \in {"read", "other"}
  /\ err' \in GoErrors \cup {Success}
  /\ err'.type = "EOF" => op' = "read"
  /\ wire' = Plain("none") /\ got' = "none"
  /\ UNCHANGED sys

\* The handler returns.  The type assertion e.Err.(syscall.Errno) panics on any
\* other cause, and net/rpc does not recover.
Answer ==
  /\ wire.form = "none"
  /\ wire' = IF err.cause = "closed" THEN Plain("panic")
             ELSE IF err = Success THEN Plain("ok")
             ELSE ErrnoToRPCErrorString(err)
  /\ UNCHANGED <<sys, op, err, got>>

\* The connection is lost before the answer arrives.  net/rpc fails the call with
\* "unexpected EOF" or "connection is shut down".
ConnectionLost ==
  /\ got = "none"
  /\ wire.form # "transport"
  /\ wire' = Plain("transport")
  /\ UNCHANGED <<sys, op, err, got>>

\* Mutant of Return: a lost connection is taken for the end of the file.
Return_LostIsEOF ==
  /\ wire.form \notin {"none", "panic"}
  /\ got = "none"
  /\ got' = IF wire.form = "ok" \/ (op = "read" /\ wire.form \in {"EOF", "transport"})
              THEN "0" ELSE RPCErrorStringTOErrno(sys, wire)
  /\ UNCHANGED <<sys, op, err, wire>>

\* The end of the client method: client.read takes "EOF" for an empty read.
Return ==
  /\ wire.form \notin {"none", "panic"}
  /\ got = "none"
  /\ got' = IF wire.form = "ok" \/ (op = "read" /\ wire.form = "EOF")
              THEN "0" ELSE RPCErrorStringTOErrno(sys, wire)
  /\ UNCHANGED <<sys, op, err, wire>>

ErrNext == Request \/ Answer \/ ConnectionLost \/ Return

ErrSpec == ErrInit /\ [][ErrNext]_errVars

-------------------------------------------------------------------------------
(* Properties                                                               *)

ErrTypeOK ==
  /\ sys \in Systems
  /\ op \in {"read", "other"}
  /\ err \in GoErrors \cup {Success}
  /\ wire \in Strings \cup {Plain("none"), Plain("panic")}
  /\ got \in Listed \cup {"none", "0", "EOPNOTSUPP"}

\* An error is never mistaken for success: a Node method returns 0 only if its handler
\* succeeded, or if a read met the end of the file; a panic and a lost connection
\* included.
FailureIsReported ==
  got = "0" => err = Success \/ (op = "read" /\ err.type = "EOF")

\* The errno a handler meets is the errno the kernel gets, on either system, when the
\* answer arrives and ErrnoToSym has a case for it; otherwise the kernel gets EIO.
ErrnoSurvives ==
  got # "none" /\ err.type \in {"PathError", "LinkError", "Errno"} =>
    got = IF wire.form = "errno" /\ err.cause \in Listed THEN Errno(sys, err.cause) ELSE "EIO"
===============================================================================
