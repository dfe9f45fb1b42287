------------------------------ MODULE MCFbUdp -------------------------------
EXTENDS FbUdp
=============================================================================
