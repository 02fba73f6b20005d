---------------------------- MODULE MCOutputGate ----------------------------
EXTENDS OutputGate
=============================================================================
