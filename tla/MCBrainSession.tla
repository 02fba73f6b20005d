--------------------------- MODULE MCBrainSession ---------------------------
EXTENDS BrainSession
=============================================================================
