------------------------------- MODULE MCTftp --------------------------------
EXTENDS Tftp

\* The ports are alike: nothing is lost when the first attempt has port 1.
MCInit == TftpInit /\ TftpOurPort = 1
MCSpec == MCInit /\ [][TftpNext]_tftpVars /\ TftpFairness
==============================================================================
