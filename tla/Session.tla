------------------------------- MODULE Session -------------------------------
(***************************************************************************)
(* A session of dockerfuse from its start to its end (cmd/dockerfuse/main, *)
(* NewDockerFuseClient, cmd/satellite/main), composed with the calls of    *)
(* RpcErrors: set-up with a failure of every step, serving, the loss of    *)
(* the satellite or of the connection, signals, unmounting.                *)
(*                                                                         *)
(* External: the Docker API, fs.Mount, Server.Wait and Server.Unmount of   *)
(* go-fuse, net/rpc and os/signal.  The kernel refuses to unmount while a  *)
(* process waits for a call.  The end of dockerfuse closes the connection, *)
(* and the satellite then finds the end of its stdin.                      *)
(*                                                                         *)
(* With -daemonize the parent returns 0 at once; the child is followed.    *)
(***************************************************************************)
EXTENDS RpcErrors

CONSTANTS
  Archs   \* architectures of images

Supported == {"arm64", "amd64"}

ASSUME ArchsAssumption == "none" \notin Archs

VARIABLES
  stage,    \* where main is; "gone" when the process has ended
  exit,     \* how it ended: the exit code, "killed" or "panic"; "none" before
  arch,     \* the architecture of the container's image
  binary,   \* the architecture of the satellite copied into the container
  conn,     \* rpcClient: "none" (nil), "up", or "down" when the connection is lost
  sat,      \* the satellite process: "none", "running", "gone"
  handler,  \* its goroutine: "idle", "running", or "stuck" in a system call for ever
  mount,    \* "before", "mounted", "unmounted"
  signals,  \* osSignalChannel: "empty", "full", "closed"
  shut      \* the goroutine shutdown: "none", "waiting", "unmounting", "unmounted"

process == <<stage, exit>>
setup == <<arch, binary>>
satellite == <<sat, handler>>
ending == <<signals, shut>>
sessVars == <<process, setup, conn, satellite, mount, ending, errVars>>

\* The steps of main up to the mount: what follows each, and the exit code if it fails.
Steps == [
  args    |-> [next |-> "daemon",  code |-> "errorArgs"],
  daemon  |-> [next |-> "mkdir",   code |-> "errorDaemon"],
  mkdir   |-> [next |-> "user",    code |-> "errorCreateMount"],
  user    |-> [next |-> "ids",     code |-> "errorGetUser"],
  ids     |-> [next |-> "docker",  code |-> "errorInvalidUIDGid"],
  docker  |-> [next |-> "inspect", code |-> "errorInitDockerClient"],
  inspect |-> [next |-> "local",   code |-> "errorInitDockerClient"],
  local   |-> [next |-> "copy",    code |-> "errorInitDockerClient"],
  copy    |-> [next |-> "create",  code |-> "errorInitDockerClient"],
  create  |-> [next |-> "attach",  code |-> "errorInitDockerClient"],
  attach  |-> [next |-> "mount",   code |-> "errorInitDockerClient"],
  mount   |-> [next |-> "notify",  code |-> "errorMountUnmount"]]

SessInit ==
  /\ ErrInit
  /\ stage = "args" /\ exit = "none"
  /\ arch \in Archs /\ binary = "none"
  /\ conn = "none" /\ sat = "none" /\ handler = "idle"
  /\ mount = "before" /\ signals = "empty" /\ shut = "none"

-------------------------------------------------------------------------------
(* Set-up                                                                   *)

\* The process ends, and with it its connection.
Exit(code) ==
  /\ stage' = "gone" /\ exit' = code
  /\ conn' = IF conn = "up" THEN "down" ELSE conn
  /\ UNCHANGED <<setup, satellite, mount, ending, errVars>>

Advance(s) ==
  /\ stage = s
  /\ stage' = Steps[s].next
  /\ UNCHANGED <<exit, arch, ending, errVars>>

\* -version prints and exits.
PrintVersion ==
  /\ stage = "args"
  /\ Exit("errorNone")

\* Arguments, Reborn, MkdirAll, user.Current, uid and gid, NewClientWithOpts,
\* ContainerInspect and ImageInspectWithRaw, ContainerExecCreate: any may fail.
Prepare ==
  /\ \E s \in {"args", "daemon", "mkdir", "user", "ids", "docker", "inspect", "create"} :
       Advance(s)
  /\ UNCHANGED <<binary, conn, satellite, mount>>

SetupFails ==
  /\ stage \in DOMAIN Steps
  /\ Exit(Steps[stage].code)

\* uploadSatellite: the architecture is checked before the binary for it is read.
ReadBinary ==
  /\ arch \in Supported
  /\ Advance("local")
  /\ UNCHANGED <<binary, conn, satellite, mount>>

\* Mutant of CopyToContainer: the binary of the host is copied.
CopyToContainer_HostArch ==
  /\ Advance("copy")
  /\ binary' = "host"
  /\ UNCHANGED <<conn, satellite, mount>>

CopyToContainer ==
  /\ Advance("copy")
  /\ binary' = arch
  /\ UNCHANGED <<conn, satellite, mount>>

\* Mutant of ExecAttach: rpcClient stays nil.
ExecAttach_NotStored ==
  /\ Advance("attach")
  /\ sat' = "running"
  /\ UNCHANGED <<binary, conn, handler, mount>>

\* connectSatellite: the exec starts the satellite, and rpcClient is set.
ExecAttach ==
  /\ Advance("attach")
  /\ conn' = "up" /\ sat' = "running"
  /\ UNCHANGED <<binary, handler, mount>>

\* fs.Mount; the kernel may call from now on.
Mount ==
  /\ Advance("mount")
  /\ mount' = "mounted"
  /\ UNCHANGED <<binary, conn, satellite>>

\* signal.Notify and go shutdown.
Notify ==
  /\ stage = "notify"
  /\ stage' = "wait" /\ shut' = "waiting"
  /\ UNCHANGED <<exit, setup, conn, satellite, mount, signals, errVars>>

-------------------------------------------------------------------------------
(* Calls                                                                    *)

\* A Node method calls through rpcClient.  On a lost connection it does not reach the
\* satellite.
Call ==
  /\ stage # "gone" /\ mount = "mounted"
  /\ Request
  /\ handler' \in IF conn = "up" THEN {"running", "stuck"} ELSE {handler}
  /\ UNCHANGED <<process, setup, conn, sat, mount, ending>>

\* The handler returns.  A panic ends the satellite.
HandlerAnswers ==
  /\ handler = "running" /\ conn = "up"
  /\ Answer
  /\ handler' = "idle"
  /\ IF wire'.form = "panic" THEN sat' = "gone" /\ conn' = "down"
     ELSE UNCHANGED <<sat, conn>>
  /\ UNCHANGED <<process, setup, mount, ending>>

\* Without a connection its answer goes nowhere.
AnswerLost ==
  /\ handler = "running" /\ conn = "down"
  /\ handler' = "idle"
  /\ UNCHANGED <<process, setup, conn, sat, mount, ending, errVars>>

CallLost ==
  /\ stage # "gone" /\ conn = "down"
  /\ ConnectionLost
  /\ UNCHANGED <<process, setup, conn, satellite, mount, ending>>

\* Mutant of CallReturns: a call waits for a connection to come back.
CallReturns_RetriesLost ==
  /\ stage # "gone" /\ wire.form # "transport"
  /\ Return
  /\ UNCHANGED <<process, setup, conn, satellite, mount, ending>>

CallReturns ==
  /\ stage # "gone"
  /\ Return
  /\ UNCHANGED <<process, setup, conn, satellite, mount, ending>>

\* Nothing reconnects.
ConnectionDrops ==
  /\ conn = "up"
  /\ conn' = "down"
  /\ UNCHANGED <<process, setup, satellite, mount, ending, errVars>>

\* The satellite is killed, with the container or alone, or its exec failed.
SatelliteDies ==
  /\ sat = "running"
  /\ sat' = "gone" /\ handler' = "idle"
  /\ conn' = "down"
  /\ UNCHANGED <<process, setup, mount, ending, errVars>>

\* Mutant of SatelliteReturns: the satellite waits for a first answer.
SatelliteReturns_IfAnswered ==
  /\ sat = "running" /\ conn = "down" /\ handler = "idle"
  /\ wire.form \notin {"none", "transport"}
  /\ sat' = "gone"
  /\ UNCHANGED <<process, setup, conn, handler, mount, ending, errVars>>

\* ServeConn returns at the end of stdin once every handler has.
SatelliteReturns ==
  /\ sat = "running" /\ conn = "down" /\ handler = "idle"
  /\ sat' = "gone"
  /\ UNCHANGED <<process, setup, conn, handler, mount, ending, errVars>>

-------------------------------------------------------------------------------
(* The end                                                                  *)

\* SIGKILL at any time, SIGTERM and SIGINT before signal.Notify.
Killed ==
  /\ stage # "gone"
  /\ Exit("killed")

\* SIGTERM or SIGINT after it.  The channel holds one, and a further one is dropped.
Signal ==
  /\ stage = "wait" /\ signals = "empty"
  /\ signals' = "full"
  /\ UNCHANGED <<process, setup, conn, satellite, mount, shut, errVars>>

\* os/signal still sends to the channel that main has closed.
SignalPanics ==
  /\ stage = "return"
  /\ Exit("panic")

\* umount by a user.
Umount ==
  /\ mount = "mounted" /\ got # "none"
  /\ mount' = "unmounted"
  /\ UNCHANGED <<process, setup, conn, satellite, ending, errVars>>

\* A signal, or the closed channel.
ShutdownWakes ==
  /\ stage # "gone" /\ shut = "waiting" /\ signals # "empty"
  /\ shut' = "unmounting"
  /\ signals' = IF signals = "full" THEN "empty" ELSE signals
  /\ UNCHANGED <<process, setup, conn, satellite, mount, errVars>>

Unmount ==
  /\ stage # "gone" /\ shut = "unmounting"
  /\ mount = "mounted" /\ got # "none"
  /\ mount' = "unmounted" /\ shut' = "unmounted"
  /\ UNCHANGED <<process, setup, conn, satellite, signals, errVars>>

\* Mutant of UnmountFails: the error of Unmount is dropped.
UnmountFails_Ignored ==
  /\ stage # "gone" /\ shut = "unmounting"
  /\ Exit("errorNone")

\* Mutant of UnmountFails: shutdown returns after it.
UnmountFails_Returns ==
  /\ stage # "gone" /\ shut = "unmounting"
  /\ shut' = "none"
  /\ UNCHANGED <<process, setup, conn, satellite, mount, signals, errVars>>

\* Server.Unmount gives up after some attempts: the mount is busy, or gone already.
UnmountFails ==
  /\ stage # "gone" /\ shut = "unmounting"
  /\ Exit("errorMountUnmount")

ShutdownExits ==
  /\ stage # "gone" /\ shut = "unmounted"
  /\ Exit("errorNone")

\* Mutant of WaitReturns: only a signal ends the session.
WaitReturns_OnSignal ==
  /\ stage = "wait" /\ mount = "unmounted" /\ signals = "full"
  /\ stage' = "return" /\ signals' = "closed"
  /\ UNCHANGED <<exit, setup, conn, satellite, mount, shut, errVars>>

\* server.Wait returns after the end of the mount; the deferred close follows.
WaitReturns ==
  /\ stage = "wait" /\ mount = "unmounted"
  /\ stage' = "return" /\ signals' = "closed"
  /\ UNCHANGED <<exit, setup, conn, satellite, mount, shut, errVars>>

MainReturns ==
  /\ stage = "return"
  /\ Exit("errorNone")

-------------------------------------------------------------------------------
(* Specification                                                            *)

SessNext ==
  \/ PrintVersion \/ Prepare \/ SetupFails
  \/ ReadBinary \/ CopyToContainer \/ ExecAttach \/ Mount \/ Notify
  \/ Call \/ HandlerAnswers \/ AnswerLost \/ CallLost \/ CallReturns
  \/ ConnectionDrops \/ SatelliteDies \/ SatelliteReturns
  \/ Killed \/ Signal \/ SignalPanics \/ Umount
  \/ ShutdownWakes \/ Unmount \/ UnmountFails \/ ShutdownExits
  \/ WaitReturns \/ MainReturns

SessSpec == SessInit /\ [][SessNext]_sessVars

\* Goroutines are scheduled, handlers return unless stuck, a lost connection is noticed
\* and Unmount returns.  Nobody has to call, to kill, to unmount or to send a signal.
SessFairness ==
  /\ WF_sessVars(Notify)
  /\ WF_sessVars(HandlerAnswers) /\ WF_sessVars(AnswerLost)
  /\ WF_sessVars(CallLost) /\ WF_sessVars(CallReturns)
  /\ WF_sessVars(SatelliteReturns)
  /\ WF_sessVars(ShutdownWakes) /\ WF_sessVars(Unmount \/ UnmountFails)
  /\ WF_sessVars(ShutdownExits)
  /\ WF_sessVars(WaitReturns) /\ WF_sessVars(MainReturns)

SessFairSpec == SessSpec /\ SessFairness

-------------------------------------------------------------------------------
(* Properties                                                               *)

Stages == DOMAIN Steps \cup {"notify", "wait", "return", "gone"}

SessTypeOK ==
  /\ stage \in Stages
  /\ exit \in {Steps[s].code : s \in DOMAIN Steps} \cup {"none", "errorNone", "killed", "panic"}
  /\ arch \in Archs /\ binary \in Archs \cup {"none"}
  /\ conn \in {"none", "up", "down"}
  /\ sat \in {"none", "running", "gone"}
  /\ handler \in {"idle", "running", "stuck"}
  /\ mount \in {"before", "mounted", "unmounted"}
  /\ signals \in {"empty", "full", "closed"}
  /\ shut \in {"none", "waiting", "unmounting", "unmounted"}

\* No Node method meets a nil rpcClient, and the satellite it calls was built for the
\* image: NewDockerFuseClient has finished before the kernel can send a call.
CallsConnected ==
  mount = "mounted" => conn # "none" /\ binary = arch /\ arch \in Supported

\* A mount that dockerfuse leaves behind is reported: it never exits with 0, nor with the
\* code of a failed set-up step, while its file system is mounted.
MountLeftIsReported ==
  stage = "gone" /\ mount = "mounted" => exit \in {"errorMountUnmount", "killed"}

\* SIGTERM and SIGINT end dockerfuse, although a handler may be stuck for ever and the
\* satellite or the connection may be gone.
SignalEnds == signals = "full" ~> stage = "gone"

\* After umount, by whomever, dockerfuse ends.
UmountEnds == mount = "unmounted" ~> stage = "gone"

\* Every call returns, unless its handler is stuck and the connection stands.  The death of
\* the satellite and a lost connection are no reason to hang.
CallEnds ==
  got = "none" /\ ~(handler = "stuck" /\ conn = "up")
    ~> got # "none" \/ stage = "gone"

\* The satellite does not outlive dockerfuse, however that ended, unless a handler is stuck.
SatelliteFollows == stage = "gone" /\ handler # "stuck" ~> sat # "running"
===============================================================================
