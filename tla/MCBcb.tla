------------------------------- MODULE MCBcb -------------------------------
EXTENDS Bcb
=============================================================================
