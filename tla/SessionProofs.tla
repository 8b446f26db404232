---------------------------- MODULE SessionProofs ----------------------------
(***************************************************************************)
(* Proofs about RpcErrors and Session, for any architectures of images and *)
(* any errno values of the satellite.                                      *)
(***************************************************************************)
EXTENDS Session, TLAPS

-------------------------------------------------------------------------------
(* Calls                                                                    *)

\* What the answer on the wire says about the handler's error.
WireInv ==
  /\ sys \in Systems
  /\ wire.form = "none" => got = "none"
  /\ wire.form = "ok" => err = Success
  /\ wire.form = "EOF" => err.type = "EOF"
  /\ wire.form = "errno" => wire.sym = ErrnoToSym(err.cause)
  /\ FailureIsReported
  /\ ErrnoSurvives

\* The symbols of ErrnoToSym are no success and keep their value on either system.
LEMMA SymbolsKept ==
  /\ "0" \notin Listed
  /\ \A e \in Listed, s \in Systems : Errno(s, e) = e /\ SymToErrno(s, e) = e
  /\ \A s \in Systems : SymToErrno(s, "EIO") = "EIO"
BY DEF Listed, Errno, SymToErrno

\* Every reachable state of a call satisfies WireInv.
THEOREM WireInvariant == ErrSpec => []WireInv
<1>1. ASSUME ErrInit
      PROVE  WireInv
  <2>1. sys \in Systems /\ wire.form = "ok" /\ err = Success /\ err.type = "nil"
    BY <1>1, Zenon DEF ErrInit, Plain, Success
  <2> QED
    BY <2>1 DEF WireInv, FailureIsReported, ErrnoSurvives
<1>2. ASSUME WireInv, [ErrNext]_errVars
      PROVE  WireInv'
  <2> USE <1>2
  <2>1. CASE Answer
    <3>1. got' = "none" /\ sys' = sys /\ err' = err
      BY <2>1 DEF Answer, WireInv
    <3>2. /\ wire'.form = "ok" => err = Success
          /\ wire'.form = "EOF" => err.type = "EOF"
          /\ wire'.form = "errno" => wire'.sym = ErrnoToSym(err.cause)
      BY <2>1, Zenon DEF Answer, Plain, ErrnoToRPCErrorString
    <3> QED
      BY <3>1, <3>2 DEF WireInv, FailureIsReported, ErrnoSurvives
  <2>2. CASE ConnectionLost
    BY <2>2, Zenon DEF ConnectionLost, WireInv, FailureIsReported, ErrnoSurvives, Plain
  <2>3. CASE Return
    <3>1. UNCHANGED <<sys, op, err, wire>> /\ wire.form # "none"
      BY <2>3 DEF Return
    <3>2. FailureIsReported'
      BY <2>3, <3>1, SymbolsKept
         DEF Return, WireInv, FailureIsReported, RPCErrorStringTOErrno, ErrnoToSym
    <3>3. ErrnoSurvives'
      BY <2>3, <3>1, SymbolsKept
         DEF Return, WireInv, ErrnoSurvives, RPCErrorStringTOErrno, ErrnoToSym, Success
    <3> QED
      BY <3>1, <3>2, <3>3 DEF WireInv
  <2>4. CASE Request
    <3>1. sys' = sys /\ wire'.form = "none" /\ got' = "none"
      BY <2>4, Zenon DEF Request, Plain
    <3> QED
      BY <3>1 DEF WireInv, FailureIsReported, ErrnoSurvives
  <2>5. CASE UNCHANGED errVars
    BY <2>5 DEF errVars, WireInv, FailureIsReported, ErrnoSurvives
  <2> QED
    BY <2>1, <2>2, <2>3, <2>4, <2>5 DEF ErrNext
<1> QED
  BY <1>1, <1>2, PTL DEF ErrSpec

\* The answer that reaches the kernel is a success, an errno ErrnoToSym has a case for or
\* EOPNOTSUPP, and what travels is one of the strings ErrnoToRPCErrorString makes.
THEOREM CallsWellTyped == ErrSpec => []ErrTypeOK
<1>1. ASSUME ErrInit
      PROVE  ErrTypeOK
  <2>1. Plain("ok") \in Strings
    BY DEF Plain, Strings
  <2> QED
    BY <1>1, <2>1 DEF ErrInit, ErrTypeOK
<1>2. ErrTypeOK /\ [ErrNext]_errVars => ErrTypeOK'
  <2> SUFFICES ASSUME ErrTypeOK, [ErrNext]_errVars
               PROVE  ErrTypeOK'
    OBVIOUS
  <2>1. \A e : ErrnoToSym(e) \in Listed
    BY DEF ErrnoToSym, Listed
  <2>2. CASE Request
    BY <2>2 DEF Request, ErrTypeOK
  <2>3. CASE Answer
    <3>1. wire' \in Strings \cup {Plain("none"), Plain("panic")}
      BY <2>1, <2>3, Zenon DEF Answer, ErrnoToRPCErrorString, Strings, Plain
    <3> QED
      BY <2>3, <3>1 DEF Answer, ErrTypeOK
  <2>4. CASE ConnectionLost
    BY <2>4, Zenon DEF ConnectionLost, ErrTypeOK, Strings, Plain
  <2>5. CASE Return
    <3>1. \A str : RPCErrorStringTOErrno(sys, str) \in Listed \cup {"EOPNOTSUPP"}
      BY DEF RPCErrorStringTOErrno, SymToErrno, Errno, Listed
    <3> QED
      BY <2>5, <3>1 DEF Return, ErrTypeOK
  <2>6. CASE UNCHANGED errVars
    BY <2>6 DEF errVars, ErrTypeOK
  <2> QED
    BY <2>2, <2>3, <2>4, <2>5, <2>6 DEF ErrNext
<1> QED
  BY <1>1, <1>2, PTL DEF ErrSpec

\* Neither an error of the handler, nor a panic, nor a lost connection is ever
\* reported to the kernel as success.
THEOREM FailuresReported == ErrSpec => []FailureIsReported
<1>1. WireInv => FailureIsReported
  BY DEF WireInv
<1> QED
  BY <1>1, WireInvariant, PTL

\* An errno that ErrnoToSym has a case for reaches the kernel unchanged when the answer
\* arrives, whichever of the two systems the client runs on.
THEOREM ErrnosSurvive == ErrSpec => []ErrnoSurvives
<1>1. WireInv => ErrnoSurvives
  BY DEF WireInv
<1> QED
  BY <1>1, WireInvariant, PTL

-------------------------------------------------------------------------------
(* The session                                                              *)

Serving == {"notify", "wait", "return"}

\* What main has behind it at each stage, and what the two goroutines know of the mount.
SessInv ==
  /\ SessTypeOK
  /\ stage \in {"copy", "create", "attach", "mount"} \cup Serving => arch \in Supported
  /\ stage \in {"create", "attach", "mount"} \cup Serving => binary = arch
  /\ stage \in {"mount"} \cup Serving => conn # "none"
  /\ stage \in DOMAIN Steps => mount = "before" /\ shut = "none"
  /\ stage = "return" \/ shut = "unmounted" => mount = "unmounted"
  /\ CallsConnected
  /\ MountLeftIsReported

\* The table of set-up steps, row by row.
LEMMA StepsTable ==
  /\ DOMAIN Steps = {"args", "daemon", "mkdir", "user", "ids", "docker", "inspect", "local",
                     "copy", "create", "attach", "mount"}
  /\ Steps["args"].next = "daemon" /\ Steps["daemon"].next = "mkdir"
  /\ Steps["mkdir"].next = "user" /\ Steps["user"].next = "ids"
  /\ Steps["ids"].next = "docker" /\ Steps["docker"].next = "inspect"
  /\ Steps["inspect"].next = "local" /\ Steps["local"].next = "copy"
  /\ Steps["copy"].next = "create" /\ Steps["create"].next = "attach"
  /\ Steps["attach"].next = "mount" /\ Steps["mount"].next = "notify"
  /\ Steps["mount"].code = "errorMountUnmount"
BY DEF Steps

\* The end of the process, with an exit code that fits the mount.
LEMMA ExitKeepsInv ==
  ASSUME SessInv, NEW code, Exit(code),
         code \in {Steps[s].code : s \in DOMAIN Steps} \cup {"errorNone", "killed", "panic"},
         mount = "mounted" => code \in {"errorMountUnmount", "killed"}
  PROVE  SessInv'
BY StepsTable
   DEF SessInv, SessTypeOK, Exit, CallsConnected, MountLeftIsReported, setup, satellite,
       ending, Serving, Stages

\* A step of main up to the mount that changes nothing else the invariant speaks of.
LEMMA StepKeepsInv ==
  ASSUME SessInv, Prepare \/ ReadBinary \/ CopyToContainer \/ ExecAttach \/ Mount
  PROVE  SessInv'
<1> USE StepsTable
       DEF SessInv, SessTypeOK, Advance, CallsConnected, MountLeftIsReported, setup,
           satellite, ending, Serving, Stages
<1>1. CASE Prepare
  <2>1. PICK s \in {"args", "daemon", "mkdir", "user", "ids", "docker", "inspect", "create"} :
          Advance(s)
    BY <1>1 DEF Prepare
  <2> QED
    BY <1>1, <2>1 DEF Prepare
<1>2. CASE ReadBinary
  BY <1>2 DEF ReadBinary
<1>3. CASE CopyToContainer
  BY <1>3 DEF CopyToContainer
<1>4. CASE ExecAttach
  BY <1>4 DEF ExecAttach
<1>5. CASE Mount
  BY <1>5 DEF Mount
<1> QED
  BY <1>1, <1>2, <1>3, <1>4, <1>5

\* A step that leaves main and its set-up alone and never loses rpcClient.
LEMMA OtherKeepsInv ==
  ASSUME SessInv, SessTypeOK', UNCHANGED <<process, setup>>,
         conn' # "none" \/ conn' = conn,
         mount' = mount \/ (mount = "mounted" /\ mount' = "unmounted"),
         shut' = shut \/ stage = "wait" \/ shut # "none",
         shut' = "unmounted" => shut = "unmounted" \/ mount' = "unmounted"
  PROVE  SessInv'
BY StepsTable
   DEF SessInv, CallsConnected, MountLeftIsReported, process, setup, Serving

\* Every reachable state of a session satisfies SessInv.
THEOREM SessionInvariant == SessSpec => []SessInv
<1>1. ASSUME SessInit
      PROVE  SessInv
  BY <1>1, StepsTable
     DEF SessInit, SessInv, SessTypeOK, CallsConnected, MountLeftIsReported, Serving, Stages
<1>2. ASSUME SessInv, [SessNext]_sessVars
      PROVE  SessInv'
  <2> USE <1>2
  <2>1. CASE PrintVersion
    BY <2>1, ExitKeepsInv, StepsTable DEF PrintVersion, SessInv
  <2>2. CASE SetupFails
    BY <2>2, ExitKeepsInv, StepsTable DEF SetupFails, SessInv
  <2>3. CASE Killed
    BY <2>3, ExitKeepsInv DEF Killed
  <2>4. CASE SignalPanics
    BY <2>4, ExitKeepsInv DEF SignalPanics, SessInv
  <2>5. CASE UnmountFails
    BY <2>5, ExitKeepsInv, StepsTable DEF UnmountFails
  <2>6. CASE ShutdownExits
    BY <2>6, ExitKeepsInv DEF ShutdownExits, SessInv
  <2>7. CASE MainReturns
    BY <2>7, ExitKeepsInv DEF MainReturns, SessInv
  <2>8. CASE Prepare \/ ReadBinary \/ CopyToContainer \/ ExecAttach \/ Mount
    BY <2>8, StepKeepsInv
  <2>9. CASE Notify \/ WaitReturns
    BY <2>9, StepsTable
       DEF Notify, WaitReturns, SessInv, SessTypeOK, CallsConnected, MountLeftIsReported,
           setup, satellite, Serving, Stages
  <2>10. CASE Call \/ CallLost \/ CallReturns \/ AnswerLost
    <3>1. SessTypeOK' /\ UNCHANGED <<process, setup, conn, mount, shut>>
      BY <2>10
         DEF Call, CallLost, CallReturns, AnswerLost, SessInv, SessTypeOK, process, setup,
             satellite, ending
    <3> QED
      BY <3>1, OtherKeepsInv
  <2>11. CASE HandlerAnswers \/ ConnectionDrops \/ SatelliteDies \/ SatelliteReturns
    <3>1. /\ SessTypeOK' /\ UNCHANGED <<process, setup, mount, shut>>
          /\ conn' # "none" \/ conn' = conn
      BY <2>11
         DEF HandlerAnswers, ConnectionDrops, SatelliteDies, SatelliteReturns, SessInv,
             SessTypeOK, process, setup, satellite, ending
    <3> QED
      BY <3>1, OtherKeepsInv
  <2>12. CASE Signal \/ Umount \/ ShutdownWakes \/ Unmount
    <3>1. /\ SessTypeOK' /\ UNCHANGED <<process, setup, conn>>
          /\ mount' = mount \/ (mount = "mounted" /\ mount' = "unmounted")
          /\ shut' = shut \/ shut # "none"
          /\ shut' = "unmounted" => shut = "unmounted" \/ mount' = "unmounted"
      BY <2>12
         DEF Signal, Umount, ShutdownWakes, Unmount, SessInv, SessTypeOK, process, setup,
             satellite, ending
    <3> QED
      BY <3>1, OtherKeepsInv
  <2>13. CASE UNCHANGED sessVars
    BY <2>13
       DEF sessVars, process, setup, satellite, ending, SessInv, SessTypeOK,
           CallsConnected, MountLeftIsReported
  <2> QED
    BY <2>1, <2>2, <2>3, <2>4, <2>5, <2>6, <2>7, <2>8, <2>9, <2>10, <2>11, <2>12, <2>13
       DEF SessNext
<1> QED
  BY <1>1, <1>2, PTL DEF SessSpec

\* Every reachable state of a session is well typed; it ends with a code of the table of
\* set-up steps, with errorNone, or by a signal.
THEOREM SessionWellTyped == SessSpec => []SessTypeOK
<1>1. SessInv => SessTypeOK
  BY DEF SessInv
<1> QED
  BY <1>1, SessionInvariant, PTL

\* No Node method is called before rpcClient is set and a satellite for the image's
\* architecture is copied.
THEOREM CallsAreConnected == SessSpec => []CallsConnected
<1>1. SessInv => CallsConnected
  BY DEF SessInv
<1> QED
  BY <1>1, SessionInvariant, PTL

\* No exit of main or shutdown leaves a mount behind but a failed Unmount or a kill.
THEOREM MountsLeftReported == SessSpec => []MountLeftIsReported
<1>1. SessInv => MountLeftIsReported
  BY DEF SessInv
<1> QED
  BY <1>1, SessionInvariant, PTL

\* A session makes its calls as RpcErrors says, whatever ends around them.
THEOREM SessionImplementsCalls == SessSpec => ErrSpec
<1>1. SessInit => ErrInit
  BY DEF SessInit
<1>2. [SessNext]_sessVars => [ErrNext]_errVars
  BY DEF SessNext, sessVars, errVars, ErrNext, PrintVersion, Prepare, SetupFails,
         ReadBinary, CopyToContainer, ExecAttach, Mount, Notify, Call, HandlerAnswers,
         AnswerLost, CallLost, CallReturns, ConnectionDrops, SatelliteDies,
         SatelliteReturns, Killed, Signal, SignalPanics, Umount, ShutdownWakes, Unmount,
         UnmountFails, ShutdownExits, WaitReturns, MainReturns, Advance, Exit
<1> QED
  BY <1>1, <1>2, PTL DEF SessSpec, ErrSpec

\* So in a whole session no failure is ever reported as success, and an errno with a case
\* reaches the kernel unchanged when the answer arrives.
THEOREM SessionReportsFailures == SessSpec => [](ErrTypeOK /\ FailureIsReported /\ ErrnoSurvives)
BY SessionImplementsCalls, CallsWellTyped, FailuresReported, ErrnosSurvive, PTL
===============================================================================
