\* Every word of the client's flags.
SPECIFICATION FlagsSpec
CONSTANTS ExtraBits = {}
INVARIANTS WriteSucceeds
CHECK_DEADLOCK FALSE
