--------------------------- MODULE MCUsageLedger ---------------------------
(* UsageLedger with two requests for TLC: t1 may outlast the timers.        *)
EXTENDS UsageLedger

CONSTANTS t1, t2
=============================================================================
