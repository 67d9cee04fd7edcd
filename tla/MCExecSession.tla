--------------------------- MODULE MCExecSession ---------------------------
EXTENDS ExecSession
=============================================================================
