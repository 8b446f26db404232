\* Every way through a session, with a listed, an aliased and an unlisted errno.
SPECIFICATION SessFairSpec
CONSTANTS
  Archs = {"amd64", "arm64", "riscv64"}
  Errnos = {"EXDEV", "ENOTSUP", "EUCLEAN"}
CHECK_DEADLOCK FALSE
INVARIANTS SessTypeOK CallsConnected MountLeftIsReported ErrTypeOK FailureIsReported ErrnoSurvives
PROPERTIES SignalEnds UmountEnds CallEnds SatelliteFollows
