\* Every word of the client's flags, with O_DIRECTORY and O_CLOEXEC of Linux.
SPECIFICATION FlagsSpec
CONSTANTS ExtraBits = {16, 19}
INVARIANTS FlagsPreserved
CHECK_DEADLOCK FALSE
