-------------------------- MODULE MCSessionDispatch --------------------------
EXTENDS SessionDispatch
=============================================================================
