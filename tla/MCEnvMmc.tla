------------------------------ MODULE MCEnvMmc ------------------------------
EXTENDS EnvMmc
=============================================================================
