---------------------------- MODULE MCInterruption ----------------------------
EXTENDS Interruption
=============================================================================
