------------------------------ MODULE MCKeyBank ------------------------------
EXTENDS KeyBank
=============================================================================
