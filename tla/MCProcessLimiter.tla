-------------------------- MODULE MCProcessLimiter --------------------------
EXTENDS ProcessLimiter
=============================================================================
